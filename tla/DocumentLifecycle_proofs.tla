----------------------- MODULE DocumentLifecycle_proofs -----------------------
(***************************************************************************)
(* Theorems about DocumentLifecycle, for any number of documents, requests *)
(* and worker replicas, any crash and fault bounds and any attempt cap.    *)
(*                                                                         *)
(* The inductive invariant is Inv.  Its heart is the pair Owned and Purged:*)
(* a worker that writes vectors holds a job marked "processing" whose      *)
(* version row is there, and while a deletion job is between the in-flight *)
(* guard and the end of its cascade no worker is writing vectors of its    *)
(* document.  None can start either: the document is tombstoned by then    *)
(* (Requested), and LoadDocument reads live documents only.                *)
(*                                                                         *)
(* Bookkeeping, which leans on Inv, says what the attempts, tombstones and *)
(* ledger rows are worth.  Its own strengthenings are Settling (a worker   *)
(* that has settled its job finds it settled) and Ledger (what an attempt  *)
(* has written so far is there as long as the document is live).           *)
(***************************************************************************)
EXTENDS DocumentLifecycle, TLAPS

\* The steps between the in-flight read of a live document and its ledger.
Writing == {"extract", "upsert", "index_job"}

\* The steps between the in-flight guard and the end of a deletion job.
Purging == {"del_points", "del_blobs", "cascade", "del_versions", "del_document",
            "del_done"}

\* The statements of the cascade that follow its first.
Sweeping == {"del_versions", "del_document"}

\* What a worker holds depends on where it stands, and nobody else holds it.
Holds ==
  /\ \A w \in Workers :
       /\ pc[w] \in {"idle", "poll"} => cur[w] = None
       /\ pc[w] \in IngestionSteps => cur[w] \in Docs
       /\ pc[w] \in DeletionSteps => cur[w] \in Requests
  /\ \A v, w \in Workers : cur[v] # None /\ cur[v] = cur[w] => v = w

\* A held ingestion job is not claimable, and is marked as processing by the
\* worker that has not settled it, unless the cascade has taken its row.
Owned ==
  \A w \in Workers :
    /\ pc[w] \in IngestionSteps => upload[cur[w]] = "answered"
    /\ pc[w] \in Writing => job[cur[w]] = "processing"
    /\ pc[w] \in {"load", "retryable", "permanent"} =>
         job[cur[w]] \in {"processing", "none"}
    /\ pc[w] \in {"index_doc", "mark_failed"} =>
         job[cur[w]] \notin {"queued", "retry_pending"}
    /\ pc[w] \in DeletionSteps => dstatus[cur[w]] = "processing"

\* The foreign keys, and the order in which one upload commits its rows.
Uploaded ==
  \A d \in Docs :
    /\ upload[d] \in {"idle", "checked"} => row[d] = "absent"
    /\ version[d] => Exists(d)
    /\ job[d] # "none" => version[d] /\ upload[d] = "answered"
    /\ upload[d] = "answered" => row[d] = "erased" \/ job[d] # "none"
    /\ row[d] \in {"tombstoned", "erased"} /\ ~UploadOver(d) => d \in late

\* A request acts on a document that was there when it read it, and the
\* document has left every listing before the clean-up is enqueued.
Requested ==
  \A r \in Requests :
    /\ request[r] # "idle" => target[r] \in Docs /\ row[target[r]] # "absent"
    /\ request[r] \in {"cancel", "enqueue", "accepted"} =>
         row[target[r]] \in {"tombstoned", "erased"}
    /\ dstatus[r] # "none" => request[r] = "accepted"

\* What a deletion job has cleared stays clear, during its cascade and after.
Purged ==
  /\ \A v, w \in Workers :
       pc[v] \in Purging /\ pc[w] \in Writing => target[cur[v]] # cur[w]
  /\ \A v \in Workers :
       /\ pc[v] \in Purging \ {"del_points"} => PointsOf(target[cur[v]]) = {}
       /\ pc[v] \in Purging \ {"del_points", "del_blobs"} /\ blob[target[cur[v]]] =>
            target[cur[v]] \in late

\* What an open cascade has deleted is still there, and what has come after the
\* statement that would have deleted it belongs to an upload that DELETE overtook.
SweptRows(w, d) ==
  /\ JobRow(d) \in txRows[w] => job[d] # "none"
  /\ VersionRow(d) \in txRows[w] =>
       version[d] /\ (job[d] = "none" \/ JobRow(d) \in txRows[w])

SweptDocument(w, d) ==
  /\ txRows[w] \subseteq {JobRow(d), VersionRow(d)}
  /\ pc[w] = "del_versions" => VersionRow(d) \notin txRows[w]
  /\ \A p \in txLedger[w] : p[1] = d
  /\ ManifestsOf(d) \subseteq txLedger[w]
  /\ job[d] # "none" /\ JobRow(d) \notin txRows[w] => d \in late
  /\ pc[w] = "del_document" /\ version[d] /\ VersionRow(d) \notin txRows[w] => d \in late

Swept ==
  /\ \A w \in Workers, d \in Docs : SweptRows(w, d)
  /\ \A w \in Workers : pc[w] \in Sweeping => SweptDocument(w, target[cur[w]])

Inv ==
  TypeOK /\ Holds /\ Owned /\ Uploaded /\ Requested /\ Purged /\ Swept
    /\ NothingSurvivesErasure

-----------------------------------------------------------------------------
(* Type correctness *)

LEMMA InitInv == Init => Inv
  <1> SUFFICES ASSUME Init PROVE Inv
    OBVIOUS
  <1> USE ConstantsAssumption DEF Init
  <1>1. TypeOK
    BY DEF TypeOK, DocTypes, DelTypes, StoreTypes, ApiTypes, WorkTypes,
           JobStates, DeletionStates
  <1>2. Holds
    BY DEF Holds, IngestionSteps, DeletionSteps
  <1>3. Owned
    BY DEF Owned, IngestionSteps, DeletionSteps, Writing
  <1>4. Uploaded
    BY DEF Uploaded
  <1>5. Requested
    BY DEF Requested
  <1>6. Purged /\ Swept /\ NothingSurvivesErasure
    BY DEF Purged, Purging, Swept, SweptRows, Sweeping, NothingSurvivesErasure
  <1> QED
    BY <1>1, <1>2, <1>3, <1>4, <1>5, <1>6 DEF Inv

\* A deletion job at work is about a document that has left every listing.
LEMMA PurgingIsRequested ==
  ASSUME TypeOK, Holds, Owned, Requested, NEW v \in Workers, pc[v] \in DeletionSteps
  PROVE  /\ cur[v] \in Requests /\ request[cur[v]] = "accepted"
         /\ target[cur[v]] \in Docs
         /\ row[target[cur[v]]] \in {"tombstoned", "erased"}
  BY DEF Holds, Owned, Requested

\* Every action keeps every type; what it leaves alone keeps it for free.
LEMMA TypeStep == TypeOK /\ Holds /\ Owned /\ Requested /\ [Next]_vars => TypeOK'
  <1> SUFFICES ASSUME TypeOK, Holds, Owned, Requested, [Next]_vars PROVE TypeOK'
    OBVIOUS
  <1> USE ConstantsAssumption DEF TypeOK, tx
  <1>a. UNCHANGED docVars => DocTypes'
    BY DEF docVars, DocTypes
  <1>b. UNCHANGED delVars => DelTypes'
    BY DEF delVars, DelTypes
  <1>c. UNCHANGED storeVars => StoreTypes'
    BY DEF storeVars, StoreTypes
  <1>d. UNCHANGED apiVars => ApiTypes'
    BY DEF apiVars, ApiTypes
  <1>e. UNCHANGED workVars => WorkTypes'
    BY DEF workVars, WorkTypes
  <1>1. ASSUME NEW d \in Docs, UploadCheck(d) \/ UploadStep(d) \/ UploadFault(d)
        PROVE TypeOK'
    <2>1. CASE UploadCheck(d) \/ UploadRefused(d) \/ UploadFault(d)
      <3>1. ApiTypes'
        BY <2>1 DEF UploadCheck, UploadRefused, UploadFault, ApiTypes
      <3> QED
        BY <2>1, <3>1, <1>a, <1>b, <1>c, <1>e DEF UploadCheck, UploadRefused, UploadFault
    <2>2. CASE CreateDocument(d)
      <3>1. DocTypes' /\ ApiTypes'
        BY <2>2 DEF CreateDocument, DocTypes, ApiTypes
      <3> QED
        BY <2>2, <3>1, <1>b, <1>c, <1>e DEF CreateDocument
    <2>3. CASE StoreBlob(d)
      <3>1. StoreTypes' /\ ApiTypes'
        BY <2>3 DEF StoreBlob, StoreTypes, ApiTypes
      <3> QED
        BY <2>3, <3>1, <1>a, <1>b, <1>e DEF StoreBlob
    <2>4. CASE CreateVersion(d)
      <3>1. DocTypes' /\ ApiTypes'
        BY <2>4 DEF CreateVersion, DocTypes, ApiTypes
      <3> QED
        BY <2>4, <3>1, <1>b, <1>c, <1>e DEF CreateVersion
    <2>5. CASE CreateJob(d)
      <3>1. DocTypes'
        BY <2>5 DEF CreateJob, DocTypes, JobStates
      <3>2. ApiTypes'
        BY <2>5 DEF CreateJob, ApiTypes
      <3> QED
        BY <2>5, <3>1, <3>2, <1>b, <1>c, <1>e DEF CreateJob
    <2> QED
      BY <1>1, <2>1, <2>2, <2>3, <2>4, <2>5 DEF UploadStep
  <1>2. ASSUME NEW r \in Requests, NEW d \in Docs, ReadForDelete(r, d)
        PROVE TypeOK'
    <2>1. ApiTypes'
      BY <1>2 DEF ReadForDelete, ApiTypes
    <2> QED
      BY <1>2, <2>1, <1>a, <1>b, <1>c, <1>e DEF ReadForDelete
  <1>3. ASSUME NEW r \in Requests, DeleteStep(r) \/ DeleteFault(r)
        PROVE TypeOK'
    <2>1. CASE TombstoneDocument(r)
      <3>1. DocTypes'
        BY <2>1 DEF TombstoneDocument, DocTypes
      <3>2. ApiTypes'
        BY <2>1 DEF TombstoneDocument, ApiTypes, Requested
      <3> QED
        BY <2>1, <3>1, <3>2, <1>b, <1>c, <1>e DEF TombstoneDocument
    <2>2. CASE CancelPendingIngestion(r)
      <3>1. DocTypes' /\ ApiTypes'
        BY <2>2 DEF CancelPendingIngestion, DocTypes, ApiTypes, JobStates
      <3> QED
        BY <2>2, <3>1, <1>b, <1>c, <1>e DEF CancelPendingIngestion
    <2>3. CASE CreateDeletionJob(r)
      <3>1. DelTypes' /\ ApiTypes'
        BY <2>3 DEF CreateDeletionJob, DelTypes, ApiTypes, DeletionStates
      <3> QED
        BY <2>3, <3>1, <1>a, <1>c, <1>e DEF CreateDeletionJob
    <2>4. CASE DeleteFault(r)
      <3>1. ApiTypes'
        BY <2>4 DEF DeleteFault, ApiTypes
      <3> QED
        BY <2>4, <3>1, <1>a, <1>b, <1>c, <1>e DEF DeleteFault
    <2> QED
      BY <1>3, <2>1, <2>2, <2>3, <2>4 DEF DeleteStep
  <1>4. ASSUME NEW w \in Workers, WorkerStep(w) \/ Crash(w)
        PROVE TypeOK'
    <2> DEFINE Walk == \/ NoIngestionJob(w) \/ LoadDocument(w) \/ Extract(w)
                       \/ RejectContent(w) \/ StageFault(w) \/ NothingToDo(w)
                       \/ GuardInFlight(w) \/ DeletionFault(w) \/ CascadeRefused(w)
                       \/ Crash(w)
    <2>1. CASE Walk
      <3>1. WorkTypes'
        BY <2>1 DEF NoIngestionJob, LoadDocument, Extract, RejectContent, StageFault,
                    NothingToDo, GuardInFlight, DeletionFault, CascadeRefused, Crash,
                    Goto, Release, WorkTypes, IngestionSteps, DeletionSteps
      <3> QED
        BY <2>1, <3>1, <1>a, <1>b, <1>c, <1>d
        DEF NoIngestionJob, LoadDocument, Extract, RejectContent, StageFault,
            NothingToDo, GuardInFlight, DeletionFault, CascadeRefused, Crash
    <2>2. CASE ClaimIngestion(w)
      <3>1. DocTypes'
        BY <2>2 DEF ClaimIngestion, DocTypes, Claimable, JobStates
      <3>2. WorkTypes'
        BY <2>2 DEF ClaimIngestion, WorkTypes, Claimable, Goto, IngestionSteps
      <3> QED
        BY <2>2, <3>1, <3>2, <1>b, <1>c, <1>d DEF ClaimIngestion
    <2>3. CASE UpsertChunk(w)
      <3>1. StoreTypes'
        BY <2>3 DEF UpsertChunk, StoreTypes, WorkTypes, DocTypes, Holds, IngestionSteps
      <3>2. WorkTypes'
        BY <2>3 DEF UpsertChunk, WorkTypes
      <3> QED
        BY <2>3, <3>1, <3>2, <1>a, <1>b, <1>d DEF UpsertChunk
    <2>4. CASE InsertChunkManifests(w)
      <3>1. DocTypes'
        BY <2>4 DEF InsertChunkManifests, AttemptPoints, DocTypes, Holds, IngestionSteps
      <3>2. WorkTypes'
        BY <2>4 DEF InsertChunkManifests, WorkTypes, Goto, IngestionSteps
      <3> QED
        BY <2>4, <3>1, <3>2, <1>b, <1>c, <1>d DEF InsertChunkManifests
    <2>5. CASE FinishJob(w)
      <3>1. DocTypes' /\ WorkTypes'
        BY <2>5 DEF FinishJob, DocTypes, WorkTypes, JobStates, Goto, IngestionSteps
      <3> QED
        BY <2>5, <3>1, <1>b, <1>c, <1>d DEF FinishJob
    <2>6. CASE MarkIndexed(w) \/ MarkFailed(w)
      <3>1. DocTypes'
        BY <2>6 DEF MarkIndexed, MarkFailed, DocTypes
      <3>2. WorkTypes'
        BY <2>6 DEF MarkIndexed, MarkFailed, WorkTypes, Release
      <3> QED
        BY <2>6, <3>1, <3>2, <1>b, <1>c, <1>d DEF MarkIndexed, MarkFailed
    <2>7. CASE HandleJobFailure(w)
      <3>1. DocTypes'
        BY <2>7 DEF HandleJobFailure, DocTypes, JobStates
      <3>2. WorkTypes'
        BY <2>7 DEF HandleJobFailure, WorkTypes, Goto, Release, IngestionSteps
      <3> QED
        BY <2>7, <3>1, <3>2, <1>b, <1>c, <1>d DEF HandleJobFailure
    <2>8. CASE ClaimDeletion(w)
      <3>1. DelTypes' /\ WorkTypes'
        BY <2>8 DEF ClaimDeletion, Queued, DelTypes, WorkTypes, DeletionStates,
                    Goto, DeletionSteps
      <3> QED
        BY <2>8, <3>1, <1>a, <1>c, <1>d DEF ClaimDeletion
    <2>9. CASE DeletePoints(w) \/ DeleteBlobs(w)
      <3>1. StoreTypes' /\ WorkTypes'
        BY <2>9 DEF DeletePoints, DeleteBlobs, StoreTypes, WorkTypes, PointsOf,
                    Goto, DeletionSteps
      <3> QED
        BY <2>9, <3>1, <1>a, <1>b, <1>d DEF DeletePoints, DeleteBlobs
    <2>10. CASE SweepJobs(w) \/ SweepVersions(w) \/ CommitCascade(w)
      <3> DEFINE d == target[cur[w]]
      <3>1. d \in Docs
        BY <2>10, PurgingIsRequested DEF SweepJobs, SweepVersions, CommitCascade,
                                         DeletionSteps
      <3>2. JobRow(d) \in {"job", "version"} \X Docs
            /\ VersionRow(d) \in {"job", "version"} \X Docs
        BY <3>1 DEF JobRow, VersionRow
      <3>3. ManifestsOf(d) \subseteq Docs \X Nat \X Nat
        BY DEF ManifestsOf, DocTypes
      <3>4. CASE SweepJobs(w)
        <4>1. WorkTypes'
          BY <3>2, <3>3, <3>4 DEF SweepJobs, WorkTypes, Goto, DeletionSteps
        <4> QED
          BY <3>4, <4>1, <1>a, <1>b, <1>c, <1>d DEF SweepJobs
      <3>5. CASE SweepVersions(w)
        <4>1. WorkTypes'
          BY <3>2, <3>5 DEF SweepVersions, WorkTypes, Goto, DeletionSteps
        <4> QED
          BY <3>5, <4>1, <1>a, <1>b, <1>c, <1>d DEF SweepVersions
      <3>6. CASE CommitCascade(w)
        <4>1. DocTypes'
          BY <3>6 DEF CommitCascade, DocTypes, JobStates
        <4>2. WorkTypes'
          BY <3>6 DEF CommitCascade, WorkTypes, Goto, DeletionSteps
        <4> QED
          BY <3>6, <4>1, <4>2, <1>b, <1>c, <1>d DEF CommitCascade
      <3> QED
        BY <2>10, <3>4, <3>5, <3>6
    <2>11. CASE FinishDeletion(w) \/ HandleDeletionFailure(w)
      <3>1. DelTypes'
        BY <2>11 DEF FinishDeletion, HandleDeletionFailure, DelTypes, DeletionStates
      <3>2. WorkTypes'
        BY <2>11 DEF FinishDeletion, HandleDeletionFailure, WorkTypes, Release
      <3> QED
        BY <2>11, <3>1, <3>2, <1>a, <1>c, <1>d DEF FinishDeletion, HandleDeletionFailure
    <2> QED
      BY <1>4, <2>1, <2>2, <2>3, <2>4, <2>5, <2>6, <2>7, <2>8, <2>9, <2>10, <2>11
      DEF WorkerStep, IngestionStep, DeletionStep
  <1>5. CASE UNCHANGED vars
    BY <1>5, <1>a, <1>b, <1>c, <1>d, <1>e DEF vars
  <1> QED
    BY <1>1, <1>2, <1>3, <1>4, <1>5 DEF Next
-----------------------------------------------------------------------------
(* Frames: what each kind of step leaves alone *)

UploadAction(d) == UploadCheck(d) \/ UploadStep(d) \/ UploadFault(d)
DeleteAction(r) == DeleteStep(r) \/ DeleteFault(r)

LEMMA UploadFrame ==
  ASSUME NEW d \in Docs, UploadAction(d)
  PROVE  UNCHANGED <<delVars, workVars, points, request, target, status, manifests>>
  BY DEF UploadAction, UploadCheck, UploadStep, UploadFault, CreateDocument, StoreBlob,
         CreateVersion, CreateJob, UploadRefused, docVars, storeVars

LEMMA DeleteFrame ==
  ASSUME NEW r \in Requests, DeleteAction(r)
  PROVE  UNCHANGED <<storeVars, workVars, upload, target, version, manifests>>
  BY DEF DeleteAction, DeleteStep, DeleteFault, TombstoneDocument,
         CancelPendingIngestion, CreateDeletionJob, docVars

\* The steps of a worker that move it along one job and write no row of a queue.
Walk(w) ==
  \/ LoadDocument(w) \/ Extract(w) \/ RejectContent(w) \/ StageFault(w)
  \/ UpsertChunk(w) \/ InsertChunkManifests(w)
  \/ GuardInFlight(w) \/ DeletePoints(w) \/ DeleteBlobs(w) \/ DeletionFault(w)
  \/ SweepJobs(w) \/ SweepVersions(w)

LEMMA WorkerCases ==
  ASSUME NEW w \in Workers, WorkerStep(w) \/ Crash(w)
  PROVE  \/ ClaimIngestion(w) \/ ClaimDeletion(w)
         \/ NoIngestionJob(w) \/ NothingToDo(w) \/ Walk(w)
         \/ FinishJob(w) \/ MarkIndexed(w) \/ HandleJobFailure(w) \/ MarkFailed(w)
         \/ CommitCascade(w) \/ FinishDeletion(w) \/ HandleDeletionFailure(w)
         \/ CascadeRefused(w) \/ Crash(w)
  BY DEF WorkerStep, IngestionStep, DeletionStep, Walk

LEMMA WorkerFrame ==
  ASSUME NEW w \in Workers, WorkerStep(w) \/ Crash(w)
  PROVE  UNCHANGED <<upload, request, target, late>>
  BY WorkerCases DEF Walk, ClaimIngestion, ClaimDeletion, NoIngestionJob, NothingToDo,
     LoadDocument, Extract, RejectContent, StageFault, UpsertChunk, InsertChunkManifests,
     GuardInFlight, DeletePoints, DeleteBlobs, DeletionFault, SweepJobs, SweepVersions,
     FinishJob, MarkIndexed, HandleJobFailure, MarkFailed, CommitCascade, FinishDeletion, HandleDeletionFailure,
     CascadeRefused, Crash, apiVars

\* Walking neither changes what is held nor leaves the job's own steps.
LEMMA WalkFrame ==
  ASSUME TypeOK, NEW w \in Workers, Walk(w)
  PROVE  /\ UNCHANGED <<cur, row, status, version, job, attempts, dstatus>>
         /\ \A v \in Workers : v # w => pc'[v] = pc[v]
         /\ \/ pc[w] \in IngestionSteps /\ pc'[w] \in IngestionSteps
            \/ pc[w] \in DeletionSteps /\ pc'[w] \in DeletionSteps
  <1>1. UNCHANGED <<cur, row, status, version, job, attempts, dstatus>>
    BY DEF Walk, LoadDocument, Extract, RejectContent, StageFault, UpsertChunk,
       InsertChunkManifests, GuardInFlight, DeletePoints, DeleteBlobs, DeletionFault,
       SweepJobs, SweepVersions, docVars, delVars
  <1>2. CASE \/ LoadDocument(w) \/ Extract(w) \/ RejectContent(w)
             \/ InsertChunkManifests(w)
    BY <1>1, <1>2 DEF LoadDocument, Extract, RejectContent, InsertChunkManifests,
       Goto, IngestionSteps, TypeOK, WorkTypes
  <1>3. CASE StageFault(w) \/ UpsertChunk(w)
    BY <1>1, <1>3 DEF StageFault, UpsertChunk, Goto, IngestionSteps, TypeOK, WorkTypes
  <1>4. CASE \/ GuardInFlight(w) \/ DeletePoints(w) \/ DeleteBlobs(w)
             \/ DeletionFault(w) \/ SweepJobs(w) \/ SweepVersions(w)
    BY <1>1, <1>4 DEF GuardInFlight, DeletePoints, DeleteBlobs, DeletionFault,
       SweepJobs, SweepVersions, Goto, DeletionSteps, TypeOK, WorkTypes
  <1> QED
    BY <1>2, <1>3, <1>4 DEF Walk

-----------------------------------------------------------------------------
(* Claims *)

LEMMA HoldsStep == Inv /\ [Next]_vars => Holds'
  <1> SUFFICES ASSUME Inv, [Next]_vars PROVE Holds'
    OBVIOUS
  <1> USE ConstantsAssumption
  <1>0. TypeOK /\ WorkTypes /\ Holds /\ Owned
    BY DEF Inv, TypeOK
  <1>1. CASE UNCHANGED workVars
    BY <1>0, <1>1 DEF Holds, workVars
  <1>2. ASSUME NEW w \in Workers, WorkerStep(w) \/ Crash(w) PROVE Holds'
    <2>1. CASE ClaimIngestion(w)
      <3>1. PICK d \in Claimable : cur' = [cur EXCEPT ![w] = d]
        BY <2>1 DEF ClaimIngestion
      <3>2. \A v \in Workers : cur[v] # d
        BY <1>0, <3>1 DEF Claimable, Owned, Holds, WorkTypes, IngestionSteps,
                          DeletionSteps, Writing
      <3>3. d \in Docs
        BY <3>1 DEF Claimable
      <3> QED
        BY <2>1, <3>1, <3>2, <3>3, <1>0
        DEF ClaimIngestion, Goto, Holds, WorkTypes, IngestionSteps, DeletionSteps
    <2>2. CASE ClaimDeletion(w)
      <3>1. PICK r \in Queued : cur' = [cur EXCEPT ![w] = r]
        BY <2>2 DEF ClaimDeletion
      <3>2. \A v \in Workers : cur[v] # r
        BY <1>0, <3>1 DEF Queued, Owned, Holds, WorkTypes, IngestionSteps, DeletionSteps
      <3>3. r \in Requests
        BY <3>1 DEF Queued
      <3> QED
        BY <2>2, <3>1, <3>2, <3>3, <1>0
        DEF ClaimDeletion, Goto, Holds, WorkTypes, IngestionSteps, DeletionSteps
    <2>3. CASE NoIngestionJob(w) \/ NothingToDo(w)
      BY <2>3, <1>0 DEF NoIngestionJob, NothingToDo, Goto, Holds, WorkTypes,
                        IngestionSteps, DeletionSteps
    <2>4. CASE Walk(w)
      BY <2>4, <1>0, WalkFrame DEF Holds, IngestionSteps, DeletionSteps
    <2>5. CASE FinishJob(w) \/ CommitCascade(w)
      BY <2>5, <1>0 DEF FinishJob, CommitCascade, Goto, Holds, WorkTypes,
                        IngestionSteps, DeletionSteps
    <2>6. CASE \/ MarkIndexed(w) \/ MarkFailed(w) \/ FinishDeletion(w)
               \/ HandleDeletionFailure(w) \/ CascadeRefused(w) \/ Crash(w)
      <3>1. Release(w)
        BY <2>6 DEF MarkIndexed, MarkFailed, FinishDeletion, HandleDeletionFailure,
                    CascadeRefused, Crash
      <3> QED
        BY <3>1, <1>0 DEF Release, Holds, WorkTypes, IngestionSteps, DeletionSteps
    <2>7. CASE HandleJobFailure(w)
      <3>1. CASE Release(w)
        BY <3>1, <1>0 DEF Release, Holds, WorkTypes, IngestionSteps, DeletionSteps
      <3>2. CASE Goto(w, "mark_failed") /\ UNCHANGED cur
        BY <2>7, <3>2, <1>0 DEF HandleJobFailure, Goto, Holds, WorkTypes,
                                IngestionSteps, DeletionSteps
      <3> QED
        BY <2>7, <3>1, <3>2 DEF HandleJobFailure
    <2> QED
      BY <1>2, <2>1, <2>2, <2>3, <2>4, <2>5, <2>6, <2>7, WorkerCases
  <1>3. ASSUME NEW r \in Requests, NEW d \in Docs, ReadForDelete(r, d)
        PROVE UNCHANGED workVars
    BY <1>3 DEF ReadForDelete
  <1> QED
    BY <1>1, <1>2, <1>3, UploadFrame, DeleteFrame
    DEF Next, vars, UploadAction, DeleteAction

\* An upload that has answered takes no step, and an upload touches its own
\* document only.
LEMMA UploadLocal ==
  ASSUME TypeOK, NEW d \in Docs, UploadAction(d)
  PROVE  /\ upload[d] # "answered"
         /\ \A e \in Docs : e # d => /\ upload'[e] = upload[e]
                                    /\ job'[e] = job[e]
                                    /\ version'[e] = version[e]
                                    /\ row'[e] = row[e]
                                    /\ blob'[e] = blob[e]
         /\ late' = late
  BY DEF UploadAction, UploadCheck, UploadStep, UploadFault, CreateDocument, StoreBlob,
         CreateVersion, CreateJob, UploadRefused, docVars, storeVars, TypeOK,
         DocTypes, ApiTypes, StoreTypes

LEMMA OwnedStep == Inv /\ [Next]_vars => Owned'
  <1> SUFFICES ASSUME Inv, [Next]_vars PROVE Owned'
    OBVIOUS
  <1> USE ConstantsAssumption DEF Writing, IngestionSteps, DeletionSteps
  <1>0. /\ TypeOK /\ DocTypes /\ DelTypes /\ WorkTypes
        /\ Holds /\ Owned /\ Uploaded /\ Requested /\ Swept
    BY DEF Inv, TypeOK
  <1>1. CASE UNCHANGED vars
    BY <1>0, <1>1 DEF Owned, vars, docVars, delVars, apiVars, workVars
  <1>2. ASSUME NEW d \in Docs, UploadAction(d) PROVE Owned'
    BY <1>0, <1>2, UploadFrame, UploadLocal DEF Owned, Holds, delVars, workVars
  <1>3. ASSUME NEW r \in Requests, NEW d \in Docs, ReadForDelete(r, d) PROVE Owned'
    BY <1>0, <1>3 DEF ReadForDelete, Owned, docVars, delVars, workVars
  <1>4. ASSUME NEW r \in Requests, DeleteAction(r) PROVE Owned'
    <2>1. CASE TombstoneDocument(r) \/ DeleteFault(r)
      BY <1>0, <2>1 DEF TombstoneDocument, DeleteFault, Owned, docVars, delVars, workVars
    <2>2. CASE CancelPendingIngestion(r)
      <3>1. \A e \in Docs : job[e] \notin {"queued", "retry_pending"} => job'[e] = job[e]
        BY <1>0, <2>2 DEF CancelPendingIngestion, DocTypes
      <3>2. UNCHANGED <<upload, dstatus, pc, cur>>
        BY <2>2 DEF CancelPendingIngestion, delVars, workVars
      <3> QED
        BY <1>0, <3>1, <3>2 DEF Owned, Holds
    <2>3. CASE CreateDeletionJob(r)
      <3>1. dstatus[r] = "none"
        BY <1>0, <2>3 DEF CreateDeletionJob, Requested
      <3>2. \A q \in Requests : q # r => dstatus'[q] = dstatus[q]
        BY <1>0, <2>3 DEF CreateDeletionJob, DelTypes
      <3>3. UNCHANGED <<upload, job, pc, cur>>
        BY <2>3 DEF CreateDeletionJob, docVars, workVars
      <3> QED
        BY <1>0, <3>1, <3>2, <3>3 DEF Owned, Holds
    <2> QED
      BY <1>4, <2>1, <2>2, <2>3 DEF DeleteAction, DeleteStep
  <1>5. ASSUME NEW w \in Workers, WorkerStep(w) \/ Crash(w) PROVE Owned'
    <2>0. UNCHANGED upload
      BY <1>5, WorkerFrame
    <2>1. CASE ClaimIngestion(w)
      <3>1. PICK d \in Claimable : /\ cur' = [cur EXCEPT ![w] = d]
                                   /\ job' = [job EXCEPT ![d] = "processing"]
        BY <2>1 DEF ClaimIngestion
      <3>2. d \in Docs /\ upload[d] = "answered"
        BY <1>0, <3>1 DEF Claimable, Uploaded
      <3>3. \A v \in Workers : cur[v] # d
        BY <1>0, <3>1 DEF Claimable, Owned, Holds, WorkTypes
      <3> QED
        BY <1>0, <2>0, <2>1, <3>1, <3>2, <3>3
        DEF ClaimIngestion, Goto, Owned, Holds, DocTypes, WorkTypes, delVars
    <2>2. CASE ClaimDeletion(w)
      <3>1. PICK r \in Queued : /\ cur' = [cur EXCEPT ![w] = r]
                                /\ dstatus' = [dstatus EXCEPT ![r] = "processing"]
        BY <2>2 DEF ClaimDeletion
      <3>2. r \in Requests
        BY <3>1 DEF Queued
      <3> QED
        BY <1>0, <2>0, <2>2, <3>1, <3>2
        DEF ClaimDeletion, Goto, Owned, Holds, DelTypes, WorkTypes, docVars
    <2>3. CASE NoIngestionJob(w) \/ NothingToDo(w)
      BY <1>0, <2>0, <2>3 DEF NoIngestionJob, NothingToDo, Goto, Owned, WorkTypes,
                              docVars, delVars
    <2>4. CASE Walk(w)
      <3>1. pc[w] = "load" /\ pc'[w] \in Writing =>
              version[cur[w]] /\ row[cur[w]] = "live"
        BY <1>0, <2>4 DEF Walk, LoadDocument, StageFault, Extract, RejectContent,
           UpsertChunk, InsertChunkManifests, GuardInFlight, DeletePoints, DeleteBlobs,
           DeletionFault, SweepJobs, SweepVersions, Goto, WorkTypes
      <3>2. /\ pc'[w] \in {"index_doc", "mark_failed"} => FALSE
            /\ pc'[w] \in Writing => pc[w] \in {"load"} \cup Writing
            /\ pc'[w] \in {"retryable", "permanent"} => pc[w] \in {"load"} \cup Writing
            /\ pc'[w] # "load"
        BY <1>0, <2>4 DEF Walk, LoadDocument, StageFault, Extract, RejectContent,
           UpsertChunk, InsertChunkManifests, GuardInFlight, DeletePoints, DeleteBlobs,
           DeletionFault, SweepJobs, SweepVersions, Goto, WorkTypes
      <3> QED
        BY <1>0, <2>0, <2>4, <3>1, <3>2, WalkFrame DEF Owned, Uploaded, Holds
    <2>5. CASE FinishJob(w)
      BY <1>0, <2>0, <2>5 DEF FinishJob, Goto, Owned, Holds, DocTypes, WorkTypes, delVars
    <2>6. CASE MarkIndexed(w) \/ MarkFailed(w) \/ CascadeRefused(w) \/ Crash(w)
      BY <1>0, <2>0, <2>6 DEF MarkIndexed, MarkFailed, CascadeRefused, Crash, Release,
                              Owned, WorkTypes, docVars, delVars
    <2>7. CASE HandleJobFailure(w)
      <3>1. /\ pc[w] \in {"retryable", "permanent"} /\ UNCHANGED dstatus
            /\ \A e \in Docs : e # cur[w] => job'[e] = job[e]
            /\ \A v \in Workers : v # w => pc'[v] = pc[v] /\ cur'[v] = cur[v]
        BY <1>0, <2>7 DEF HandleJobFailure, Goto, Release, DocTypes, WorkTypes, delVars
      <3>2. CASE Release(w)
        BY <1>0, <2>0, <3>1, <3>2 DEF Release, Owned, Holds, WorkTypes
      <3>3. CASE Goto(w, "mark_failed") /\ UNCHANGED cur
        <4>1. job'[cur[w]] \in {"none", "failed"}
          BY <1>0, <2>7, <3>3, <3>1 DEF HandleJobFailure, Goto, Release, DocTypes,
                                        WorkTypes, Holds
        <4> QED
          BY <1>0, <2>0, <3>1, <3>3, <4>1 DEF Goto, Owned, Holds, WorkTypes
      <3> QED
        BY <2>7, <3>2, <3>3 DEF HandleJobFailure
    <2>8. CASE CommitCascade(w)
      BY <1>0, <2>0, <2>8 DEF CommitCascade, Goto, Owned, Holds, DocTypes, WorkTypes,
                              delVars, Inv, Purged, Purging
    <2>9. CASE FinishDeletion(w) \/ HandleDeletionFailure(w)
      <3>1. /\ pc[w] \in DeletionSteps /\ UNCHANGED job /\ Release(w)
            /\ \A r \in Requests : r # cur[w] => dstatus'[r] = dstatus[r]
        BY <1>0, <2>9 DEF FinishDeletion, HandleDeletionFailure, docVars, DelTypes
      <3> QED
        BY <1>0, <2>0, <3>1 DEF Release, Owned, Holds, WorkTypes
    <2> QED
      BY <1>5, <2>1, <2>2, <2>3, <2>4, <2>5, <2>6, <2>7, <2>8, <2>9, WorkerCases
  <1> QED
    BY <1>1, <1>2, <1>3, <1>4, <1>5 DEF Next, UploadAction, DeleteAction

-----------------------------------------------------------------------------
(* Handlers *)

\* Only a cascade's commit takes rows of a document away.
LEMMA RowsKept ==
  ASSUME TypeOK, NEW w \in Workers, WorkerStep(w) \/ Crash(w), ~CommitCascade(w)
  PROVE  /\ row' = row /\ version' = version
         /\ \A d \in Docs : job'[d] = "none" <=> job[d] = "none"
  <1> USE DEF TypeOK, DocTypes, WorkTypes
  <1>1. CASE Walk(w)
    BY <1>1, WalkFrame
  <1>2. CASE \/ NoIngestionJob(w) \/ ClaimDeletion(w) \/ NothingToDo(w) \/ MarkIndexed(w)
             \/ MarkFailed(w) \/ FinishDeletion(w) \/ HandleDeletionFailure(w)
             \/ CascadeRefused(w) \/ Crash(w)
    BY <1>2 DEF NoIngestionJob, ClaimDeletion, NothingToDo, MarkIndexed, MarkFailed,
                FinishDeletion, HandleDeletionFailure, CascadeRefused, Crash, docVars
  <1>3. CASE ClaimIngestion(w)
    BY <1>3 DEF ClaimIngestion, Claimable
  <1>4. CASE FinishJob(w) \/ HandleJobFailure(w)
    BY <1>4 DEF FinishJob, HandleJobFailure
  <1> QED
    BY <1>1, <1>2, <1>3, <1>4, WorkerCases

\* What a worker does to the rows of a document: it never creates one, it keeps
\* a tombstone until the cascade, and the cascade takes version and job along.
LEMMA WorkerRows ==
  ASSUME TypeOK, Holds, Owned, Uploaded, Requested, Swept,
         NEW w \in Workers, WorkerStep(w) \/ Crash(w)
  PROVE  \A d \in Docs :
           \/ /\ row'[d] = row[d]
              /\ version'[d] = version[d]
              /\ job'[d] = "none" <=> job[d] = "none"
           \/ /\ row[d] \in {"tombstoned", "erased"} /\ row'[d] = "erased"
              /\ version'[d] = FALSE
              /\ job'[d] = "none"
  <1>1. CASE ~CommitCascade(w)
    BY <1>1, RowsKept
  <1>2. CASE CommitCascade(w)
    <2> DEFINE d == target[cur[w]]
    <2>0. DocTypes
      BY DEF TypeOK
    <2>1. d \in Docs /\ row[d] \in {"tombstoned", "erased"}
      BY <1>2, PurgingIsRequested DEF CommitCascade, DeletionSteps
    <2>2. version[d] => VersionRow(d) \in txRows[w]
      BY <1>2 DEF CommitCascade, Referenced
    <2>3. job[d] = "none" \/ JobRow(d) \in txRows[w]
      BY <2>1, <2>2 DEF Swept, SweptRows, Uploaded
    <2>4. row'[d] = "erased" /\ version'[d] = FALSE /\ job'[d] = "none"
      BY <1>2, <2>0, <2>1, <2>2, <2>3 DEF CommitCascade, DocTypes
    <2>5. \A e \in Docs : e # d =>
            row'[e] = row[e] /\ version'[e] = version[e] /\ job'[e] = job[e]
      BY <1>2, <2>0, <2>1 DEF CommitCascade, DocTypes
    <2> QED
      BY <2>1, <2>4, <2>5
  <1> QED
    BY <1>1, <1>2

LEMMA UploadedStep == Inv /\ [Next]_vars => Uploaded'
  <1> SUFFICES ASSUME Inv, [Next]_vars PROVE Uploaded'
    OBVIOUS
  <1> USE DEF Uploaded, Exists, UploadOver
  <1>0. /\ TypeOK /\ DocTypes /\ ApiTypes
        /\ Holds /\ Owned /\ Uploaded /\ Requested /\ Swept
    BY DEF Inv, TypeOK
  <1>1. CASE UNCHANGED vars
    BY <1>0, <1>1 DEF vars, docVars, apiVars
  <1>2. ASSUME NEW d \in Docs, UploadAction(d) PROVE Uploaded'
    <2>1. CASE UploadCheck(d) \/ UploadRefused(d) \/ UploadFault(d)
      BY <1>0, <2>1 DEF UploadCheck, UploadRefused, UploadFault, docVars, ApiTypes
    <2>2. CASE CreateDocument(d)
      BY <1>0, <2>2 DEF CreateDocument, DocTypes, ApiTypes
    <2>3. CASE StoreBlob(d)
      BY <1>0, <2>3 DEF StoreBlob, docVars, ApiTypes
    <2>4. CASE CreateVersion(d)
      BY <1>0, <2>4 DEF CreateVersion, DocTypes, ApiTypes
    <2>5. CASE CreateJob(d)
      BY <1>0, <2>5 DEF CreateJob, DocTypes, ApiTypes
    <2> QED
      BY <1>2, <2>1, <2>2, <2>3, <2>4, <2>5 DEF UploadAction, UploadStep
  <1>3. ASSUME NEW r \in Requests, NEW d \in Docs, ReadForDelete(r, d) PROVE Uploaded'
    BY <1>0, <1>3 DEF ReadForDelete, docVars
  <1>4. ASSUME NEW r \in Requests, DeleteAction(r) PROVE Uploaded'
    <2>1. CASE CreateDeletionJob(r) \/ DeleteFault(r)
      BY <1>0, <2>1 DEF CreateDeletionJob, DeleteFault, docVars
    <2>2. CASE TombstoneDocument(r)
      BY <1>0, <2>2 DEF TombstoneDocument, DocTypes, ApiTypes, Requested
    <2>3. CASE CancelPendingIngestion(r)
      BY <1>0, <2>3 DEF CancelPendingIngestion, DocTypes
    <2> QED
      BY <1>4, <2>1, <2>2, <2>3 DEF DeleteAction, DeleteStep
  <1>5. ASSUME NEW w \in Workers, WorkerStep(w) \/ Crash(w) PROVE Uploaded'
    BY <1>0, <1>5, WorkerFrame, WorkerRows
  <1> QED
    BY <1>1, <1>2, <1>3, <1>4, <1>5 DEF Next, UploadAction, DeleteAction

-----------------------------------------------------------------------------
(* The open cascade *)

LEMMA RowsDiffer ==
  \A d, e : /\ JobRow(d) # VersionRow(e)
            /\ JobRow(d) = JobRow(e) => d = e
            /\ VersionRow(d) = VersionRow(e) => d = e
  BY DEF JobRow, VersionRow

\* Who writes into a cascade: the worker that has it open, until its commit.
LEMMA CascadeMoves ==
  ASSUME TypeOK, NEW w \in Workers, WorkerStep(w) \/ Crash(w)
  PROVE  /\ \A v \in Workers : v # w =>
              UNCHANGED <<txRows[v], txLedger[v], pc[v], cur[v]>>
         /\ \/ SweepJobs(w) \/ SweepVersions(w)
            \/ pc'[w] \notin Sweeping /\ txRows'[w] \in {{}, txRows[w]}
  <1> USE DEF TypeOK, WorkTypes, Goto, Sweeping, tx
  <1>1. CASE \/ ClaimIngestion(w) \/ ClaimDeletion(w) \/ NoIngestionJob(w)
             \/ NothingToDo(w)
    BY <1>1 DEF ClaimIngestion, ClaimDeletion, NoIngestionJob, NothingToDo
  <1>2. CASE \/ LoadDocument(w) \/ Extract(w) \/ RejectContent(w) \/ StageFault(w)
             \/ UpsertChunk(w) \/ InsertChunkManifests(w) \/ FinishJob(w)
    BY <1>2 DEF LoadDocument, Extract, RejectContent, StageFault, UpsertChunk,
                InsertChunkManifests, FinishJob
  <1>3. CASE \/ GuardInFlight(w) \/ DeletePoints(w) \/ DeleteBlobs(w)
             \/ DeletionFault(w)
    BY <1>3 DEF GuardInFlight, DeletePoints, DeleteBlobs, DeletionFault
  <1>4. CASE SweepJobs(w) \/ SweepVersions(w) \/ CommitCascade(w)
    BY <1>4 DEF SweepJobs, SweepVersions, CommitCascade
  <1>5. CASE \/ MarkIndexed(w) \/ MarkFailed(w) \/ FinishDeletion(w)
             \/ HandleDeletionFailure(w) \/ CascadeRefused(w) \/ Crash(w)
    BY <1>5 DEF MarkIndexed, MarkFailed, FinishDeletion, HandleDeletionFailure,
                CascadeRefused, Crash, Release
  <1>6. CASE HandleJobFailure(w)
    BY <1>6 DEF HandleJobFailure, Release
  <1> QED
    BY <1>1, <1>2, <1>3, <1>4, <1>5, <1>6, WorkerCases DEF Walk

\* The ledger grows by InsertChunkManifests and shrinks by a cascade's commit.
LEMMA LedgerKept ==
  ASSUME NEW w \in Workers, WorkerStep(w) \/ Crash(w),
         ~InsertChunkManifests(w), ~CommitCascade(w)
  PROVE  manifests' = manifests
  BY WorkerCases DEF Walk, ClaimIngestion, ClaimDeletion, NoIngestionJob, NothingToDo,
     LoadDocument, Extract, RejectContent, StageFault, UpsertChunk, GuardInFlight,
     DeletePoints, DeleteBlobs, DeletionFault, SweepJobs, SweepVersions, FinishJob,
     MarkIndexed, HandleJobFailure, MarkFailed, FinishDeletion, HandleDeletionFailure,
     CascadeRefused, Crash, docVars

\* The steps of others do not disturb an open cascade: the rows it has locked stay,
\* and what an upload adds to its document makes the document late.
LEMMA SweptLocal ==
  ASSUME Inv, NEW v \in Workers,
         UNCHANGED <<txRows[v], txLedger[v], pc[v], cur[v]>>, late \subseteq late',
         pc[v] \in Sweeping =>
           /\ target'[cur[v]] = target[cur[v]]
           /\ \A p \in manifests' : p[1] = target[cur[v]] => p \in manifests,
         \A d \in Docs :
           /\ JobRow(d) \in txRows[v] => job'[d] # "none"
           /\ VersionRow(d) \in txRows[v] => version'[d] /\ (job'[d] # "none" => job[d] # "none")
           /\ row[d] \in {"tombstoned", "erased"} /\ version'[d] => version[d] \/ d \in late
           /\ row[d] \in {"tombstoned", "erased"} /\ job'[d] # "none" =>
                job[d] # "none" \/ d \in late
  PROVE  /\ \A d \in Docs : SweptRows(v, d)'
         /\ pc'[v] \in Sweeping => SweptDocument(v, target[cur[v]])'
  <1>0. Swept /\ TypeOK /\ Holds /\ Owned /\ Requested
    BY DEF Inv
  <1>1. \A d \in Docs : SweptRows(v, d)'
    BY <1>0 DEF Swept, SweptRows
  <1>2. ASSUME pc'[v] \in Sweeping PROVE SweptDocument(v, target[cur[v]])'
    <2> DEFINE t == target[cur[v]]
    <2>1. pc[v] \in Sweeping /\ pc[v] \in DeletionSteps
      BY <1>2 DEF Sweeping, DeletionSteps
    <2>2. t \in Docs /\ row[t] \in {"tombstoned", "erased"} /\ t' = t
      BY <1>0, <2>1, PurgingIsRequested
    <2>3. SweptDocument(v, t)
      BY <1>0, <2>1 DEF Swept
    <2>4. /\ ManifestsOf(t) \subseteq txLedger[v]
          /\ txRows'[v] = txRows[v] /\ txLedger'[v] = txLedger[v] /\ pc'[v] = pc[v]
      BY <2>3 DEF SweptDocument
    <2>5. \A p \in manifests' : p[1] = t => p \in txLedger'[v]
      BY <2>1, <2>4 DEF ManifestsOf
    <2> HIDE DEF t
    <2>7. /\ job'[t] # "none" /\ JobRow(t) \notin txRows[v] => t \in late'
          /\ pc[v] = "del_document" /\ version'[t] /\ VersionRow(t) \notin txRows[v] =>
               t \in late'
      BY <2>2, <2>3 DEF SweptDocument
    <2>8. SweptDocument(v, t)'
      BY <2>2, <2>3, <2>4, <2>5, <2>7 DEF SweptDocument, ManifestsOf
    <2> QED
      BY <2>8 DEF t
  <1> QED
    BY <1>1, <1>2

LEMMA SweptStep == Inv /\ [Next]_vars => Swept'
  <1> SUFFICES ASSUME Inv, [Next]_vars, NEW v \in Workers
               PROVE  /\ \A d \in Docs : SweptRows(v, d)'
                      /\ pc'[v] \in Sweeping => SweptDocument(v, target[cur[v]])'
    BY DEF Swept
  <1>0. /\ TypeOK /\ DocTypes /\ ApiTypes /\ WorkTypes
        /\ Holds /\ Owned /\ Uploaded /\ Requested /\ Purged /\ Swept
    BY DEF Inv, TypeOK
  <1>a. \A d \in Docs : SweptRows(v, d)
    BY <1>0 DEF Swept
  <1>b. pc[v] \in Sweeping =>
          /\ cur[v] \in Requests /\ request[cur[v]] = "accepted"
          /\ target[cur[v]] \in Docs
          /\ row[target[cur[v]]] \in {"tombstoned", "erased"}
    BY <1>0, PurgingIsRequested DEF Sweeping, DeletionSteps
  <1>1. CASE UNCHANGED vars
    BY <1>1, <1>a, SweptLocal DEF vars, docVars, apiVars, workVars, tx, SweptRows
  <1>2. ASSUME NEW d \in Docs, UploadAction(d)
        PROVE  /\ \A e \in Docs : SweptRows(v, e)'
               /\ pc'[v] \in Sweeping => SweptDocument(v, target[cur[v]])'
    <2>1. UNCHANGED <<txRows, txLedger, pc, cur, target, manifests, late>>
      BY <1>0, <1>2, UploadFrame, UploadLocal DEF workVars, tx
    <2>2. \A e \in Docs : version[e] => version'[e]
      BY <1>0, <1>2 DEF UploadAction, UploadStep, UploadCheck, CreateDocument, StoreBlob,
         CreateVersion, CreateJob, UploadRefused, UploadFault, docVars, DocTypes
    <2>3. \A e \in Docs : version'[e] => version[e] \/ ~UploadOver(e)
      BY <1>0, <1>2 DEF UploadAction, UploadStep, UploadCheck, CreateDocument, StoreBlob,
         CreateVersion, CreateJob, UploadRefused, UploadFault, docVars, DocTypes, UploadOver
    <2>4. \A e \in Docs : job'[e] # "none" =>
            job[e] # "none" \/ (~UploadOver(e) /\ ~Locked(VersionRow(e)))
      BY <1>0, <1>2 DEF UploadAction, UploadStep, UploadCheck, CreateDocument, StoreBlob,
         CreateVersion, CreateJob, UploadRefused, UploadFault, docVars, DocTypes, UploadOver
    <2>5. \A e \in Docs : job[e] # "none" => job'[e] # "none"
      BY <1>0, <1>2 DEF UploadAction, UploadStep, UploadCheck, CreateDocument, StoreBlob,
         CreateVersion, CreateJob, UploadRefused, UploadFault, docVars, DocTypes
    <2>6. \A e \in Docs : row[e] \in {"tombstoned", "erased"} /\ ~UploadOver(e) => e \in late
      BY <1>0 DEF Uploaded
    <2>7. \A e \in Docs : VersionRow(e) \in txRows[v] => Locked(VersionRow(e))
      BY DEF Locked
    <2> QED
      BY <1>a, <2>1, <2>2, <2>3, <2>4, <2>5, <2>6, <2>7, SweptLocal DEF SweptRows
  <1>3. ASSUME NEW r \in Requests, NEW d \in Docs, ReadForDelete(r, d)
        PROVE  /\ \A e \in Docs : SweptRows(v, e)'
               /\ pc'[v] \in Sweeping => SweptDocument(v, target[cur[v]])'
    <2>1. UNCHANGED <<txRows, txLedger, pc, cur, manifests, late, version, job>>
      BY <1>3 DEF ReadForDelete, docVars, workVars, tx
    <2>2. pc[v] \in Sweeping => target'[cur[v]] = target[cur[v]]
      BY <1>0, <1>3, <1>b DEF ReadForDelete, ApiTypes
    <2> QED
      BY <1>a, <2>1, <2>2, SweptLocal DEF SweptRows
  <1>4. ASSUME NEW r \in Requests, DeleteAction(r)
        PROVE  /\ \A e \in Docs : SweptRows(v, e)'
               /\ pc'[v] \in Sweeping => SweptDocument(v, target[cur[v]])'
    <2>1. UNCHANGED <<txRows, txLedger, pc, cur, target, manifests, version>>
      BY <1>4, DeleteFrame DEF workVars, tx
    <2>2. late \subseteq late' /\ \A e \in Docs : job'[e] = "none" <=> job[e] = "none"
      BY <1>0, <1>4 DEF DeleteAction, DeleteStep, DeleteFault, TombstoneDocument,
         CancelPendingIngestion, CreateDeletionJob, DocTypes, docVars
    <2> QED
      BY <1>a, <2>1, <2>2, SweptLocal DEF SweptRows
  <1>5. ASSUME NEW w \in Workers, WorkerStep(w) \/ Crash(w)
        PROVE  /\ \A e \in Docs : SweptRows(v, e)'
               /\ pc'[v] \in Sweeping => SweptDocument(v, target[cur[v]])'
    <2>0. UNCHANGED <<target, late>>
      BY <1>5, WorkerFrame
    <2>1. CASE v # w
      <3>1. UNCHANGED <<txRows[v], txLedger[v], pc[v], cur[v]>>
        BY <1>0, <1>5, <2>1, CascadeMoves
      <3>2. CASE CommitCascade(w)
        <4> DEFINE d == target[cur[w]]
        <4>1. JobRow(d) \notin txRows[v] /\ VersionRow(d) \notin txRows[v]
          BY <2>1, <3>2 DEF CommitCascade, Waits
        <4>2. /\ manifests' \subseteq manifests
              /\ \A e \in Docs : e # d => version'[e] = version[e] /\ job'[e] = job[e]
          BY <1>0, <3>2 DEF CommitCascade, DocTypes
        <4>3. \A e \in Docs : (version'[e] => version[e]) /\ (job'[e] # "none" => job[e] # "none")
          BY <1>0, <1>5, WorkerRows
        <4> HIDE DEF d
        <4>4. \A e \in Docs : JobRow(e) \in txRows[v] \/ VersionRow(e) \in txRows[v] => e # d
          BY <4>1
        <4> QED
          BY <1>a, <2>0, <3>1, <4>2, <4>3, <4>4, SweptLocal DEF SweptRows
      <3>3. CASE ~CommitCascade(w)
        <4>1. version' = version /\ \A e \in Docs : job'[e] = "none" <=> job[e] = "none"
          BY <1>0, <1>5, <3>3, RowsKept
        <4>2. ASSUME pc[v] \in Sweeping, NEW p \in manifests', p[1] = target[cur[v]]
              PROVE  p \in manifests
          <5>1. CASE InsertChunkManifests(w)
            <6>1. target[cur[v]] # cur[w]
              BY <1>0, <4>2, <5>1 DEF InsertChunkManifests, Purged, Purging, Writing, Sweeping
            <6> QED
              BY <4>2, <5>1, <6>1 DEF InsertChunkManifests, AttemptPoints
          <5>2. CASE ~InsertChunkManifests(w)
            BY <1>5, <3>3, <4>2, <5>2, LedgerKept
          <5> QED
            BY <5>1, <5>2
        <4> QED
          BY <1>a, <2>0, <3>1, <4>1, <4>2, SweptLocal DEF SweptRows
      <3> QED
        BY <3>2, <3>3
    <2>2. CASE v = w /\ SweepJobs(w)
      <3> DEFINE d == target[cur[w]]
      <3>1. /\ d' = d /\ pc'[w] = "del_versions"
            /\ txLedger'[w] = ManifestsOf(d)
            /\ txRows'[w] = {x \in {JobRow(d)} : job[d] # "none"}
            /\ UNCHANGED <<version, job, manifests>>
        BY <1>0, <2>0, <2>2 DEF SweepJobs, Goto, WorkTypes, docVars
      <3>2. \A e \in Docs : SweptRows(w, e)'
        BY <3>1, RowsDiffer DEF SweptRows
      <3> HIDE DEF d
      <3>3. SweptDocument(w, d)'
        BY <3>1, RowsDiffer DEF SweptDocument, ManifestsOf
      <3> QED
        BY <2>2, <3>2, <3>3 DEF d
    <2>3. CASE v = w /\ SweepVersions(w)
      <3> DEFINE d == target[cur[w]]
      <3>1. /\ d' = d /\ pc[w] = "del_versions" /\ pc'[w] = "del_document"
            /\ txLedger'[w] = txLedger[w]
            /\ txRows'[w] = txRows[w] \cup {x \in {VersionRow(d)} : version[d]}
            /\ UNCHANGED <<version, job, manifests>>
        BY <1>0, <2>0, <2>3 DEF SweepVersions, Goto, WorkTypes, docVars
      <3>2. job[d] # "none" => JobRow(d) \in txRows[w]
        BY <2>3, <3>1 DEF SweepVersions, Referenced
      <3>3. SweptDocument(w, d)
        BY <1>0, <3>1 DEF Swept, Sweeping
      <3> HIDE DEF d
      <3>4. \A e \in Docs : SweptRows(w, e)'
        BY <1>a, <2>3, <3>1, <3>2, RowsDiffer DEF SweptRows
      <3>5. SweptDocument(w, d)'
        BY <2>0, <3>1, <3>2, <3>3, RowsDiffer DEF SweptDocument, ManifestsOf
      <3> QED
        BY <2>3, <3>4, <3>5 DEF d
    <2>4. CASE v = w /\ ~SweepJobs(w) /\ ~SweepVersions(w)
      <3>1. pc'[w] \notin Sweeping /\ txRows'[w] \in {{}, txRows[w]}
        BY <1>0, <1>5, <2>4, CascadeMoves
      <3>2. CASE txRows'[w] = {}
        BY <2>4, <3>1, <3>2 DEF SweptRows
      <3>3. CASE txRows'[w] = txRows[w] /\ ~CommitCascade(w)
        BY <1>0, <1>5, <1>a, <2>4, <3>1, <3>3, RowsKept DEF SweptRows
      <3>4. CASE CommitCascade(w)
        <4>1. txRows'[w] = {}
          BY <1>0, <3>4 DEF CommitCascade, WorkTypes
        <4> QED
          BY <3>2, <4>1
      <3> QED
        BY <3>1, <3>2, <3>3, <3>4
    <2> QED
      BY <2>1, <2>2, <2>3, <2>4
  <1> QED
    BY <1>1, <1>2, <1>3, <1>4, <1>5 DEF Next, UploadAction, DeleteAction

LEMMA RequestedStep == Inv /\ [Next]_vars => Requested'
  <1> SUFFICES ASSUME Inv, [Next]_vars PROVE Requested'
    OBVIOUS
  <1> USE ConstantsAssumption DEF Requested
  <1>0. /\ TypeOK /\ DocTypes /\ DelTypes /\ ApiTypes /\ WorkTypes
        /\ Holds /\ Owned /\ Uploaded /\ Requested /\ Swept
    BY DEF Inv, TypeOK
  <1>1. CASE UNCHANGED vars
    BY <1>0, <1>1 DEF vars, docVars, delVars, apiVars
  <1>2. ASSUME NEW d \in Docs, UploadAction(d) PROVE Requested'
    <2>1. \A e \in Docs : row'[e] = row[e] \/ row[e] = "absent"
      BY <1>0, <1>2 DEF UploadAction, UploadStep, UploadCheck, CreateDocument, StoreBlob,
         CreateVersion, CreateJob, UploadRefused, UploadFault, docVars, DocTypes, Uploaded
    <2> QED
      BY <1>0, <1>2, <2>1, UploadFrame DEF delVars
  <1>3. ASSUME NEW r \in Requests, NEW d \in Docs, ReadForDelete(r, d) PROVE Requested'
    BY <1>0, <1>3 DEF ReadForDelete, docVars, delVars, ApiTypes
  <1>4. ASSUME NEW r \in Requests, DeleteAction(r) PROVE Requested'
    <2>1. CASE TombstoneDocument(r)
      BY <1>0, <2>1 DEF TombstoneDocument, DocTypes, ApiTypes, Exists, delVars
    <2>2. CASE CancelPendingIngestion(r) \/ DeleteFault(r)
      BY <1>0, <2>2 DEF CancelPendingIngestion, DeleteFault, ApiTypes, delVars, docVars
    <2>3. CASE CreateDeletionJob(r)
      BY <1>0, <2>3 DEF CreateDeletionJob, ApiTypes, DelTypes, docVars
    <2> QED
      BY <1>4, <2>1, <2>2, <2>3 DEF DeleteAction, DeleteStep
  <1>5. ASSUME NEW w \in Workers, WorkerStep(w) \/ Crash(w) PROVE Requested'
    <2>1. \A r \in Requests : dstatus'[r] # "none" => dstatus[r] # "none"
      <3>1. CASE Walk(w)
        BY <3>1, <1>0, WalkFrame
      <3>2. CASE ClaimDeletion(w)
        BY <3>2, <1>0 DEF ClaimDeletion, Queued, DelTypes
      <3>3. CASE FinishDeletion(w) \/ HandleDeletionFailure(w)
        BY <3>3, <1>0 DEF FinishDeletion, HandleDeletionFailure, DelTypes, Owned,
                          Holds, DeletionSteps
      <3>4. CASE \/ ClaimIngestion(w) \/ NoIngestionJob(w) \/ NothingToDo(w)
                 \/ FinishJob(w) \/ MarkIndexed(w) \/ HandleJobFailure(w)
                 \/ MarkFailed(w) \/ CommitCascade(w) \/ CascadeRefused(w) \/ Crash(w)
        BY <3>4 DEF ClaimIngestion, NoIngestionJob, NothingToDo, FinishJob, MarkIndexed,
           HandleJobFailure, MarkFailed, CommitCascade, CascadeRefused, Crash, delVars
      <3> QED
        BY <1>5, <3>1, <3>2, <3>3, <3>4, WorkerCases
    <2> QED
      BY <1>0, <1>5, <2>1, WorkerFrame, WorkerRows
  <1> QED
    BY <1>1, <1>2, <1>3, <1>4, <1>5 DEF Next, UploadAction, DeleteAction

-----------------------------------------------------------------------------
(* Erasure *)

Cleared == Purging \ {"del_points"}
Emptied == Purging \ {"del_points", "del_blobs"}

\* How a worker gets into the steps that Purged speaks about.
LEMMA WorkerMoves ==
  ASSUME TypeOK, NEW w \in Workers, WorkerStep(w) \/ Crash(w)
  PROVE  /\ \A v \in Workers : v # w => pc'[v] = pc[v] /\ cur'[v] = cur[v]
         /\ pc'[w] \in Writing =>
              /\ cur'[w] = cur[w]
              /\ pc[w] \in Writing \/ row[cur[w]] = "live"
         /\ pc'[w] \in Purging =>
              /\ cur'[w] = cur[w]
              /\ \/ pc[w] \in Purging
                 \/ GuardInFlight(w)
         /\ pc'[w] \in Cleared => pc[w] \in Cleared \/ DeletePoints(w)
         /\ pc'[w] \in Emptied => pc[w] \in Emptied \/ DeleteBlobs(w)
  <1> USE DEF TypeOK, WorkTypes, Writing, Purging, Cleared, Emptied, Goto
  <1>1. CASE ClaimIngestion(w) \/ ClaimDeletion(w)
    BY <1>1 DEF ClaimIngestion, ClaimDeletion
  <1>2. CASE NoIngestionJob(w) \/ NothingToDo(w)
    BY <1>2 DEF NoIngestionJob, NothingToDo
  <1>3. CASE LoadDocument(w) \/ Extract(w) \/ RejectContent(w) \/ StageFault(w)
    BY <1>3 DEF LoadDocument, Extract, RejectContent, StageFault
  <1>4. CASE UpsertChunk(w)
    BY <1>4 DEF UpsertChunk
  <1>5. CASE InsertChunkManifests(w) \/ FinishJob(w)
    BY <1>5 DEF InsertChunkManifests, FinishJob
  <1>6. CASE GuardInFlight(w)
    BY <1>6 DEF GuardInFlight
  <1>7. CASE DeletePoints(w) \/ DeleteBlobs(w)
    BY <1>7 DEF DeletePoints, DeleteBlobs
  <1>8. CASE DeletionFault(w) \/ SweepJobs(w) \/ SweepVersions(w) \/ CommitCascade(w)
    BY <1>8 DEF DeletionFault, SweepJobs, SweepVersions, CommitCascade
  <1>9. CASE \/ MarkIndexed(w) \/ MarkFailed(w) \/ FinishDeletion(w)
             \/ HandleDeletionFailure(w) \/ CascadeRefused(w) \/ Crash(w)
    BY <1>9 DEF MarkIndexed, MarkFailed, FinishDeletion, HandleDeletionFailure,
                CascadeRefused, Crash, Release
  <1>10. CASE HandleJobFailure(w)
    BY <1>10 DEF HandleJobFailure, Release
  <1> QED
    BY <1>1, <1>2, <1>3, <1>4, <1>5, <1>6, <1>7, <1>8, <1>9, <1>10, WorkerCases DEF Walk

\* What a worker does to the stores: only UpsertChunk adds a vector, only of the
\* document it holds, and no worker stores an original.
LEMMA WorkerStores ==
  ASSUME TypeOK, NEW w \in Workers, WorkerStep(w) \/ Crash(w)
  PROVE  /\ \/ points' \subseteq points
            \/ /\ pc[w] = "upsert"
               /\ \A p \in points' : p \in points \/ p[1] = cur[w]
         /\ \A d \in Docs : blob'[d] => blob[d]
  <1>1. CASE UpsertChunk(w)
    BY <1>1 DEF UpsertChunk
  <1>2. CASE DeletePoints(w) \/ DeleteBlobs(w)
    BY <1>2 DEF DeletePoints, DeleteBlobs, TypeOK, StoreTypes
  <1>3. CASE ~UpsertChunk(w) /\ ~DeletePoints(w) /\ ~DeleteBlobs(w)
    BY <1>3, WorkerCases DEF Walk, ClaimIngestion, ClaimDeletion, NoIngestionJob,
       NothingToDo, LoadDocument, Extract, RejectContent, StageFault,
       InsertChunkManifests, GuardInFlight, DeletionFault, SweepJobs, SweepVersions,
       FinishJob, MarkIndexed, HandleJobFailure, MarkFailed, CommitCascade, FinishDeletion,
       HandleDeletionFailure, CascadeRefused, Crash, storeVars
  <1> QED
    BY <1>1, <1>2, <1>3

LEMMA PurgedStep == Inv /\ [Next]_vars => Purged'
  <1> SUFFICES ASSUME Inv, [Next]_vars PROVE Purged'
    OBVIOUS
  <1> USE DEF Purged, Purging, PointsOf
  <1>0. /\ TypeOK /\ StoreTypes /\ ApiTypes /\ WorkTypes
        /\ Holds /\ Owned /\ Uploaded /\ Requested /\ Purged
    BY DEF Inv, TypeOK
  <1>a. \A v \in Workers : pc[v] \in Purging =>
          /\ cur[v] \in Requests /\ request[cur[v]] = "accepted"
          /\ target[cur[v]] \in Docs
          /\ row[target[cur[v]]] \in {"tombstoned", "erased"}
    BY <1>0, PurgingIsRequested DEF DeletionSteps
  <1>1. CASE UNCHANGED vars
    BY <1>0, <1>1 DEF vars, storeVars, apiVars, workVars
  <1>2. ASSUME NEW d \in Docs, UploadAction(d) PROVE Purged'
    <2>1. UNCHANGED <<points, pc, cur, target, late>>
      BY <1>0, <1>2, UploadFrame, UploadLocal DEF workVars
    <2>2. \A e \in Docs : blob'[e] /\ ~blob[e] => e = d /\ upload[d] = "created"
      BY <1>0, <1>2 DEF UploadAction, UploadStep, UploadCheck, CreateDocument, StoreBlob,
         CreateVersion, CreateJob, UploadRefused, UploadFault, storeVars, StoreTypes
    <2> QED
      BY <1>0, <1>a, <2>1, <2>2 DEF Uploaded, UploadOver
  <1>3. ASSUME NEW r \in Requests, NEW d \in Docs, ReadForDelete(r, d) PROVE Purged'
    <2>1. UNCHANGED <<points, blob, pc, cur, late>>
      BY <1>3 DEF ReadForDelete, storeVars, workVars
    <2>2. \A v \in Workers : pc[v] \in Purging => target'[cur[v]] = target[cur[v]]
      BY <1>0, <1>3, <1>a DEF ReadForDelete, ApiTypes
    <2> QED
      BY <1>0, <2>1, <2>2
  <1>4. ASSUME NEW r \in Requests, DeleteAction(r) PROVE Purged'
    <2>1. UNCHANGED <<points, blob, pc, cur, target>>
      BY <1>4, DeleteFrame DEF storeVars, workVars
    <2>2. late \subseteq late'
      BY <1>4 DEF DeleteAction, DeleteStep, DeleteFault, TombstoneDocument,
                  CancelPendingIngestion, CreateDeletionJob
    <2> QED
      BY <1>0, <2>1, <2>2
  <1>5. ASSUME NEW w \in Workers, WorkerStep(w) \/ Crash(w) PROVE Purged'
    <2>0. UNCHANGED <<target, late>>
      BY <1>5, WorkerFrame
    <2>1. ASSUME NEW v \in Workers, NEW u \in Workers,
                 pc'[v] \in Purging, pc'[u] \in Writing
          PROVE  target'[cur'[v]] # cur'[u]
      <3>1. CASE pc[v] \in Purging /\ pc[u] \in Writing
        BY <1>0, <1>5, <2>0, <2>1, <3>1, WorkerMoves
      <3>2. CASE pc[v] \notin Purging
        <4>1. GuardInFlight(v) /\ pc[u] \in Writing /\ cur'[u] = cur[u] /\ cur'[v] = cur[v]
          BY <1>0, <1>5, <2>1, <3>2, WorkerMoves DEF GuardInFlight, Writing
        <4>2. ~(version[target[cur[v]]] /\ job[target[cur[v]]] = "processing")
          BY <1>0, <2>1, <4>1 DEF GuardInFlight, Goto, WorkTypes
        <4>3. version[cur[u]] /\ job[cur[u]] = "processing"
          BY <1>0, <4>1 DEF Owned, Uploaded, Holds, Writing, IngestionSteps
        <4> QED
          BY <2>0, <4>1, <4>2, <4>3
      <3>3. CASE pc[v] \in Purging /\ pc[u] \notin Writing
        <4>1. row[cur[u]] = "live" /\ cur'[u] = cur[u] /\ cur'[v] = cur[v]
          BY <1>0, <1>5, <2>1, <3>3, WorkerMoves
        <4> QED
          BY <1>a, <2>0, <3>3, <4>1
      <3> QED
        BY <3>1, <3>2, <3>3
    <2>2. ASSUME NEW v \in Workers, pc'[v] \in Cleared
          PROVE  PointsOf(target[cur[v]])' = {}
      <3>1. cur'[v] = cur[v] /\ (pc[v] \in Cleared \/ DeletePoints(v))
        BY <1>0, <1>5, <2>2, WorkerMoves DEF Cleared
      <3>2. CASE DeletePoints(v)
        BY <1>0, <2>0, <3>1, <3>2 DEF DeletePoints
      <3>3. CASE pc[v] \in Cleared
        <4>1. PointsOf(target[cur[v]]) = {}
          BY <1>0, <3>3 DEF Cleared
        <4>2. pc[w] = "upsert" => cur[w] # target[cur[v]]
          BY <1>0, <3>3 DEF Cleared, Writing
        <4> QED
          BY <1>0, <1>5, <2>0, <3>1, <4>1, <4>2, WorkerStores
      <3> QED
        BY <3>1, <3>2, <3>3
    <2>3. ASSUME NEW v \in Workers, pc'[v] \in Emptied, blob'[target'[cur'[v]]]
          PROVE  target'[cur'[v]] \in late'
      <3>1. cur'[v] = cur[v] /\ (pc[v] \in Emptied \/ DeleteBlobs(v))
        BY <1>0, <1>5, <2>3, WorkerMoves DEF Emptied
      <3>2. pc[v] \in Purging
        BY <3>1 DEF DeleteBlobs, Emptied
      <3>3. ~DeleteBlobs(v)
        BY <1>0, <1>a, <2>0, <2>3, <3>1, <3>2 DEF DeleteBlobs, StoreTypes
      <3> QED
        BY <1>0, <1>5, <1>a, <2>0, <2>3, <3>1, <3>2, <3>3, WorkerStores DEF Emptied
    <2> QED
      BY <2>1, <2>2, <2>3 DEF Cleared, Emptied
  <1> QED
    BY <1>1, <1>2, <1>3, <1>4, <1>5 DEF Next, UploadAction, DeleteAction

LEMMA SurvivesStep == Inv /\ [Next]_vars => NothingSurvivesErasure'
  <1> SUFFICES ASSUME Inv, [Next]_vars PROVE NothingSurvivesErasure'
    OBVIOUS
  <1> USE DEF NothingSurvivesErasure, PointsOf, ManifestsOf
  <1>0. /\ TypeOK /\ DocTypes /\ StoreTypes /\ ApiTypes /\ WorkTypes
        /\ Holds /\ Owned /\ Uploaded /\ Requested /\ Purged /\ Swept
        /\ NothingSurvivesErasure
    BY DEF Inv, TypeOK
  <1>1. CASE UNCHANGED vars
    BY <1>0, <1>1 DEF vars, docVars, storeVars, apiVars
  <1>2. ASSUME NEW d \in Docs, UploadAction(d) PROVE NothingSurvivesErasure'
    <2>1. UNCHANGED <<points, manifests>> /\ late' = late
      BY <1>0, <1>2, UploadFrame, UploadLocal
    <2>2. \A e \in Docs : row'[e] = "erased" =>
            /\ row[e] = "erased"
            /\ job[e] = "none" => job'[e] = "none"
            /\ blob'[e] => blob[e] \/ e \in late
      BY <1>0, <1>2 DEF UploadAction, UploadStep, UploadCheck, CreateDocument, StoreBlob,
         CreateVersion, CreateJob, UploadRefused, UploadFault, docVars, storeVars,
         DocTypes, StoreTypes, Uploaded, UploadOver, Exists
    <2> QED
      BY <1>0, <2>1, <2>2
  <1>3. ASSUME NEW r \in Requests, NEW d \in Docs, ReadForDelete(r, d)
        PROVE NothingSurvivesErasure'
    BY <1>0, <1>3 DEF ReadForDelete, docVars, storeVars
  <1>4. ASSUME NEW r \in Requests, DeleteAction(r) PROVE NothingSurvivesErasure'
    <2>1. UNCHANGED <<points, manifests, blob>> /\ late \subseteq late'
      BY <1>4, DeleteFrame DEF storeVars, DeleteAction, DeleteStep, DeleteFault,
         TombstoneDocument, CancelPendingIngestion, CreateDeletionJob
    <2>2. \A e \in Docs : row'[e] = "erased" =>
            row[e] = "erased" /\ (job[e] = "none" => job'[e] = "none")
      BY <1>0, <1>4 DEF DeleteAction, DeleteStep, DeleteFault, TombstoneDocument,
         CancelPendingIngestion, CreateDeletionJob, Exists, docVars, DocTypes
    <2> QED
      BY <1>0, <2>1, <2>2
  <1>5. ASSUME NEW w \in Workers, WorkerStep(w) \/ Crash(w)
        PROVE NothingSurvivesErasure'
    <2>0. UNCHANGED <<late, target>>
      BY <1>5, WorkerFrame
    <2>1. CASE CommitCascade(w)
      <3> DEFINE d == target[cur[w]]
      <3>1. PointsOf(d) = {} /\ (blob[d] => d \in late)
        BY <1>0, <2>1 DEF CommitCascade, Purged, Purging
      <3>2. ManifestsOf(d) \subseteq txLedger[w]
        BY <2>1 DEF CommitCascade, Referenced
      <3>3. \A e \in Docs : row'[e] = "erased" => job'[e] = "none"
        BY <1>0, <1>5, WorkerRows
      <3>4. ManifestsOf(d)' = {} /\ manifests' \subseteq manifests
        BY <2>0, <2>1, <3>2 DEF CommitCascade
      <3>5. \A e \in Docs : row'[e] = "erased" => e = d \/ row[e] = "erased"
        BY <1>0, <2>1 DEF CommitCascade, DocTypes
      <3>6. UNCHANGED <<points, blob>> /\ d' = d
        BY <2>0, <2>1 DEF CommitCascade, storeVars
      <3> HIDE DEF d
      <3> QED
        BY <1>0, <2>0, <3>1, <3>3, <3>4, <3>5, <3>6
    <2>2. CASE InsertChunkManifests(w)
      <3>1. row[cur[w]] # "erased"
        BY <1>0, <2>2 DEF InsertChunkManifests, Uploaded, Exists, Holds, IngestionSteps
      <3> QED
        BY <1>0, <2>0, <2>2, <3>1 DEF InsertChunkManifests, AttemptPoints, storeVars
    <2>3. CASE ~CommitCascade(w) /\ ~InsertChunkManifests(w)
      <3>1. UNCHANGED <<row, manifests>>
        BY <1>5, <2>3, WorkerCases DEF Walk, ClaimIngestion, ClaimDeletion, NoIngestionJob,
           NothingToDo, LoadDocument, Extract, RejectContent, StageFault, UpsertChunk,
           GuardInFlight, DeletePoints, DeleteBlobs, DeletionFault, SweepJobs,
           SweepVersions, FinishJob, MarkIndexed, HandleJobFailure, MarkFailed,
           FinishDeletion, HandleDeletionFailure, CascadeRefused, Crash, docVars
      <3>2. pc[w] = "upsert" => row[cur[w]] # "erased"
        BY <1>0 DEF Owned, Uploaded, Holds, Writing, IngestionSteps, Exists
      <3>3. ASSUME NEW d \in Docs, row'[d] = "erased" PROVE PointsOf(d)' = {}
        BY <1>0, <1>5, <3>1, <3>2, <3>3, WorkerStores
      <3>4. ASSUME NEW d \in Docs, row'[d] = "erased" PROVE job'[d] = "none"
        BY <1>0, <1>5, <3>1, <3>4, WorkerRows
      <3>5. ASSUME NEW d \in Docs, row'[d] = "erased", blob'[d] PROVE d \in late'
        BY <1>0, <1>5, <2>0, <3>1, <3>5, WorkerStores
      <3> QED
        BY <1>0, <3>1, <3>3, <3>4, <3>5
    <2> QED
      BY <2>1, <2>2, <2>3
  <1> QED
    BY <1>1, <1>2, <1>3, <1>4, <1>5 DEF Next, UploadAction, DeleteAction

-----------------------------------------------------------------------------
(* Theorems *)

\* Inv is inductive: it holds in every reachable state, for any number of documents,
\* requests and workers.
THEOREM Invariance == Spec => []Inv
  <1>1. Init => Inv
    BY InitInv
  <1>2. Inv /\ [Next]_vars => Inv'
    BY TypeStep, HoldsStep, OwnedStep, UploadedStep, RequestedStep, PurgedStep,
       SweptStep, SurvivesStep DEF Inv
  <1> QED
    BY <1>1, <1>2, PTL DEF Spec

\* Every variable keeps its type.
THEOREM TypeCorrect == Spec => []TypeOK
  BY Invariance, PTL DEF Inv

\* No job is ever held by two workers, however many replicas there are.
THEOREM ClaimsAreExclusive == Spec => []ExclusiveClaim
  <1>1. Inv => ExclusiveClaim
    BY DEF Inv, Holds, ExclusiveClaim
  <1> QED
    BY <1>1, Invariance, PTL

\* Whatever the replicas, the crashes and the number of DELETE requests do, no
\* vector, ledger row or job of an erased document is left.
THEOREM ErasureIsComplete == Spec => []NothingSurvivesErasure
  BY Invariance, PTL DEF Inv

-----------------------------------------------------------------------------
(* A settled job never runs again *)

LEMMA SettledStep ==
  ASSUME Inv, Next
  PROVE  /\ \A d \in Docs : job[d] \in {"indexed", "failed", "cancelled"} =>
                             job'[d] \in {job[d], "none"}
         /\ \A r \in Requests : dstatus[r] \in {"done", "failed"} =>
                                 dstatus'[r] = dstatus[r]
  <1> DEFINE Settled ==
        /\ \A d \in Docs : job[d] \in {"indexed", "failed", "cancelled"} =>
                             job'[d] \in {job[d], "none"}
        /\ \A r \in Requests : dstatus[r] \in {"done", "failed"} =>
                                 dstatus'[r] = dstatus[r]
  <1>0. /\ TypeOK /\ DocTypes /\ DelTypes /\ Holds /\ Owned /\ Uploaded /\ Requested /\ Swept
    BY DEF Inv, TypeOK
  <1>1. ASSUME NEW d \in Docs, UploadAction(d) PROVE Settled
    BY <1>0, <1>1, UploadFrame, UploadLocal DEF delVars, Uploaded
  <1>2. ASSUME NEW r \in Requests, NEW d \in Docs, ReadForDelete(r, d) PROVE Settled
    BY <1>2 DEF ReadForDelete, docVars, delVars
  <1>3. ASSUME NEW r \in Requests, DeleteAction(r) PROVE Settled
    <2>1. CASE CreateDeletionJob(r)
      BY <1>0, <2>1 DEF CreateDeletionJob, DelTypes, Requested, docVars
    <2>2. CASE ~CreateDeletionJob(r)
      BY <1>0, <1>3, <2>2 DEF DeleteAction, DeleteStep, DeleteFault, TombstoneDocument,
         CancelPendingIngestion, DocTypes, docVars, delVars
    <2> QED
      BY <2>1, <2>2
  <1>4. ASSUME NEW w \in Workers, WorkerStep(w) \/ Crash(w) PROVE Settled
    <2>1. CASE Walk(w)
      BY <1>0, <2>1, WalkFrame
    <2>2. CASE ClaimIngestion(w)
      BY <1>0, <2>2 DEF ClaimIngestion, Claimable, DocTypes, delVars
    <2>3. CASE ClaimDeletion(w)
      BY <1>0, <2>3 DEF ClaimDeletion, Queued, DelTypes, docVars
    <2>4. CASE FinishJob(w) \/ HandleJobFailure(w)
      <3>1. job[cur[w]] \in {"processing", "none"}
        BY <1>0, <2>4 DEF FinishJob, HandleJobFailure, Owned, Writing
      <3> QED
        BY <1>0, <2>4, <3>1 DEF FinishJob, HandleJobFailure, DocTypes, delVars
    <2>5. CASE CommitCascade(w)
      BY <1>0, <2>5 DEF CommitCascade, DocTypes, delVars
    <2>6. CASE FinishDeletion(w) \/ HandleDeletionFailure(w)
      <3>1. dstatus[cur[w]] = "processing"
        BY <1>0, <2>6 DEF FinishDeletion, HandleDeletionFailure, Owned, DeletionSteps
      <3> QED
        BY <1>0, <2>6, <3>1 DEF FinishDeletion, HandleDeletionFailure, DelTypes, docVars
    <2>7. CASE \/ NoIngestionJob(w) \/ NothingToDo(w) \/ MarkIndexed(w) \/ MarkFailed(w)
               \/ CascadeRefused(w) \/ Crash(w)
      BY <2>7 DEF NoIngestionJob, NothingToDo, MarkIndexed, MarkFailed, CascadeRefused,
                  Crash, docVars, delVars
    <2> QED
      BY <1>4, <2>1, <2>2, <2>3, <2>4, <2>5, <2>6, <2>7, WorkerCases
  <1> QED
    BY <1>1, <1>2, <1>3, <1>4 DEF Next, UploadAction, DeleteAction

\* An indexed, failed or cancelled job never runs again, and a settled deletion
\* job stays settled.
THEOREM SettledForGood == Spec => FinishedJobsStayFinished
  <1>1. Inv /\ [Next]_vars =>
          [/\ \A d \in Docs : job[d] \in {"indexed", "failed", "cancelled"} =>
                               job'[d] \in {job[d], "none"}
           /\ \A r \in Requests : dstatus[r] \in {"done", "failed"} =>
                                   dstatus'[r] = dstatus[r]]_vars
    BY SettledStep
  <1> QED
    BY <1>1, Invariance, PTL DEF Spec, FinishedJobsStayFinished

-----------------------------------------------------------------------------
(* The lifecycle implements DocumentView *)

\* The steps that change neither the documents rows nor the vectors.
LEMMA Invisible ==
  ASSUME UNCHANGED <<row, points>>
  PROVE  UNCHANGED View!viewVars
  BY DEF View!viewVars, Searchable, PointsOf

LEMMA InitView == Init => View!ViewInit
  BY DEF Init, View!ViewInit, Searchable, PointsOf

LEMMA ViewStep ==
  ASSUME Inv, [Next]_vars
  PROVE  [View!ViewNext]_(View!viewVars)
  <1> USE ConstantsAssumption DEF View!viewVars
  <1>0. /\ TypeOK /\ DocTypes /\ StoreTypes /\ Holds /\ Owned /\ Uploaded /\ Requested /\ Swept
        /\ Purged /\ NothingSurvivesErasure
    BY DEF Inv, TypeOK
  <1>1. CASE UNCHANGED vars
    BY <1>1, Invisible DEF vars, docVars, storeVars
  <1>2. ASSUME NEW d \in Docs, UploadAction(d) PROVE [View!ViewNext]_(View!viewVars)
    <2>1. CASE CreateDocument(d)
      <3>1. row[d] = "absent" /\ row' = [row EXCEPT ![d] = "live"]
        BY <1>0, <2>1 DEF CreateDocument, Uploaded
      <3>2. Searchable' = Searchable
        BY <2>1 DEF CreateDocument, Searchable, PointsOf, storeVars
      <3>3. View!Register(d)
        BY <3>1, <3>2 DEF View!Register
      <3> QED
        BY <3>3 DEF View!ViewNext
    <2>2. CASE ~CreateDocument(d)
      BY <1>2, <2>2, UploadFrame, Invisible DEF UploadAction, UploadStep, UploadCheck,
         UploadFault, StoreBlob, CreateVersion, CreateJob, UploadRefused, docVars
    <2> QED
      BY <2>1, <2>2
  <1>3. ASSUME NEW r \in Requests, NEW d \in Docs, ReadForDelete(r, d)
        PROVE [View!ViewNext]_(View!viewVars)
    BY <1>3, Invisible DEF ReadForDelete, docVars, storeVars
  <1>4. ASSUME NEW r \in Requests, DeleteAction(r)
        PROVE [View!ViewNext]_(View!viewVars)
    <2>0. UNCHANGED points
      BY <1>4, DeleteFrame DEF storeVars
    <2>1. CASE TombstoneDocument(r)
      <3> DEFINE d == target[r]
      <3>1. d \in Docs /\ row[d] \in {"live", "tombstoned", "erased"}
        BY <1>0, <2>1 DEF TombstoneDocument, Requested, DocTypes
      <3>2. CASE row[d] = "live"
        <4>1. row' = [row EXCEPT ![d] = "tombstoned"]
          BY <2>1, <3>2 DEF TombstoneDocument, Exists
        <4>2. Searchable' = Searchable
          BY <2>0 DEF Searchable, PointsOf
        <4>3. View!Tombstone(d)
          BY <3>2, <4>1, <4>2 DEF View!Tombstone
        <4> QED
          BY <3>1, <4>3 DEF View!ViewNext
      <3>3. CASE row[d] # "live"
        <4>1. row' = row
          BY <1>0, <2>1, <3>1, <3>3 DEF TombstoneDocument, Exists, DocTypes
        <4> QED
          BY <2>0, <4>1, Invisible
      <3> QED
        BY <3>2, <3>3
    <2>2. CASE ~TombstoneDocument(r)
      BY <1>4, <2>0, <2>2, Invisible DEF DeleteAction, DeleteStep, DeleteFault,
         CancelPendingIngestion, CreateDeletionJob, docVars
    <2> QED
      BY <2>1, <2>2
  <1>5. ASSUME NEW w \in Workers, WorkerStep(w) \/ Crash(w)
        PROVE [View!ViewNext]_(View!viewVars)
    <2>1. CASE UpsertChunk(w)
      <3> DEFINE d == cur[w]
      <3>1. d \in Docs /\ row[d] \in {"live", "tombstoned"}
        BY <1>0, <2>1 DEF UpsertChunk, Owned, Uploaded, Exists, Holds, Writing, IngestionSteps
      <3>2. UNCHANGED row
        BY <2>1 DEF UpsertChunk, docVars
      <3> DEFINE p == <<d, attempts[d], upserted[w] + 1>>
      <3>3. points' = points \cup {p} /\ p[1] = d
        BY <2>1 DEF UpsertChunk
      <3>4. Searchable' = Searchable \cup {d}
        BY <3>1, <3>3 DEF Searchable, PointsOf
      <3>5. View!Index(d)
        BY <3>1, <3>2, <3>4 DEF View!Index
      <3> QED
        BY <3>1, <3>5 DEF View!ViewNext
    <2>2. CASE DeletePoints(w)
      <3> DEFINE d == target[cur[w]]
      <3>1. d \in Docs /\ row[d] \in {"tombstoned", "erased"}
        BY <1>0, <2>2, PurgingIsRequested DEF DeletePoints, DeletionSteps
      <3>2. UNCHANGED row /\ points' = points \ PointsOf(d)
        BY <2>2 DEF DeletePoints, docVars
      <3>3. CASE row[d] = "erased"
        <4>1. points' = points
          BY <1>0, <3>1, <3>2, <3>3 DEF NothingSurvivesErasure
        <4> QED
          BY <3>2, <4>1, Invisible
      <3>4. CASE row[d] = "tombstoned"
        <4>1. Searchable' = Searchable \ {d}
          BY <3>2 DEF Searchable, PointsOf
        <4>2. View!Purge(d)
          BY <3>2, <3>4, <4>1 DEF View!Purge
        <4> QED
          BY <3>1, <4>2 DEF View!ViewNext
      <3> QED
        BY <3>1, <3>3, <3>4
    <2>3. CASE CommitCascade(w)
      <3> DEFINE d == target[cur[w]]
      <3>1. d \in Docs /\ row[d] \in {"tombstoned", "erased"}
        BY <1>0, <2>3, PurgingIsRequested DEF CommitCascade, DeletionSteps
      <3>2. UNCHANGED points /\ row' = [row EXCEPT ![d] = "erased"] /\ PointsOf(d) = {}
        BY <1>0, <2>3 DEF CommitCascade, storeVars, Purged, Purging
      <3>3. CASE row[d] = "erased"
        <4>1. row' = row
          BY <1>0, <3>1, <3>2, <3>3 DEF DocTypes
        <4> QED
          BY <3>2, <4>1, Invisible
      <3>4. CASE row[d] = "tombstoned"
        <4>1. Searchable' = Searchable /\ d \notin Searchable
          BY <3>2 DEF Searchable, PointsOf
        <4>2. View!Erase(d)
          BY <3>2, <3>4, <4>1 DEF View!Erase
        <4> QED
          BY <3>1, <4>2 DEF View!ViewNext
      <3> QED
        BY <3>1, <3>3, <3>4
    <2>4. CASE ~UpsertChunk(w) /\ ~DeletePoints(w) /\ ~CommitCascade(w)
      <3>1. UNCHANGED <<row, points>>
        BY <1>5, <2>4, WorkerCases DEF Walk, ClaimIngestion, ClaimDeletion, NoIngestionJob,
           NothingToDo, LoadDocument, Extract, RejectContent, StageFault,
           InsertChunkManifests, GuardInFlight, DeleteBlobs, DeletionFault, SweepJobs,
           SweepVersions, FinishJob, MarkIndexed, HandleJobFailure, MarkFailed,
           FinishDeletion, HandleDeletionFailure, CascadeRefused, Crash, docVars, storeVars
      <3> QED
        BY <3>1, Invisible
    <2> QED
      BY <2>1, <2>2, <2>3, <2>4
  <1> QED
    BY <1>1, <1>2, <1>3, <1>4, <1>5 DEF Next, UploadAction, DeleteAction

\* The lifecycle keeps what DocumentView promises: no document skips its
\* tombstone, none is erased while a vector of it is left, none comes back.
THEOREM LifecycleImplementsView == Spec => ImplementsView
  <1>1. Init => View!ViewInit
    BY InitView
  <1>2. Inv /\ [Next]_vars => [View!ViewNext]_(View!viewVars)
    BY ViewStep
  <1> QED
    BY <1>1, <1>2, Invariance, PTL DEF Spec, ImplementsView, View!ViewSpec
-----------------------------------------------------------------------------
(* The attempt caps *)

\* A job becomes claimable with its attempts at zero, or by a failure handler
\* that has just compared them with the cap.
LEMMA CappedStep == Inv /\ AttemptsCapped /\ [Next]_vars => AttemptsCapped'
  <1> SUFFICES ASSUME Inv, AttemptsCapped, [Next]_vars PROVE AttemptsCapped'
    OBVIOUS
  <1> USE ConstantsAssumption DEF AttemptsCapped, Claimable, Queued
  <1>0. TypeOK /\ DocTypes /\ DelTypes /\ Holds
    BY DEF Inv, TypeOK
  <1>1. CASE UNCHANGED vars
    BY <1>1 DEF vars, docVars, delVars
  <1>2. ASSUME NEW d \in Docs, UploadAction(d) PROVE AttemptsCapped'
    <2>1. CASE CreateJob(d)
      BY <1>0, <2>1 DEF CreateJob, DocTypes, delVars
    <2>2. CASE ~CreateJob(d)
      BY <1>2, <2>2 DEF UploadAction, UploadCheck, UploadStep, UploadFault,
         CreateDocument, StoreBlob, CreateVersion, UploadRefused, docVars, delVars
    <2> QED
      BY <2>1, <2>2
  <1>3. ASSUME NEW r \in Requests, NEW d \in Docs, ReadForDelete(r, d)
        PROVE AttemptsCapped'
    BY <1>3 DEF ReadForDelete, docVars, delVars
  <1>4. ASSUME NEW r \in Requests, DeleteAction(r) PROVE AttemptsCapped'
    <2>1. CASE TombstoneDocument(r) \/ DeleteFault(r)
      BY <2>1 DEF TombstoneDocument, DeleteFault, docVars, delVars
    <2>2. CASE CancelPendingIngestion(r)
      BY <1>0, <2>2 DEF CancelPendingIngestion, DocTypes, delVars
    <2>3. CASE CreateDeletionJob(r)
      BY <1>0, <2>3 DEF CreateDeletionJob, DelTypes, docVars
    <2> QED
      BY <1>4, <2>1, <2>2, <2>3 DEF DeleteAction, DeleteStep
  <1>5. ASSUME NEW w \in Workers, WorkerStep(w) \/ Crash(w) PROVE AttemptsCapped'
    <2>1. CASE ClaimIngestion(w)
      BY <1>0, <2>1 DEF ClaimIngestion, DocTypes, delVars
    <2>2. CASE ClaimDeletion(w)
      BY <1>0, <2>2 DEF ClaimDeletion, DelTypes, docVars
    <2>3. CASE FinishJob(w)
      BY <1>0, <2>3 DEF FinishJob, DocTypes, delVars
    <2>4. CASE HandleJobFailure(w)
      BY <1>0, <2>4 DEF HandleJobFailure, DocTypes, delVars
    <2>5. CASE CommitCascade(w)
      BY <1>0, <2>5 DEF CommitCascade, DocTypes, delVars
    <2>6. CASE FinishDeletion(w) \/ HandleDeletionFailure(w)
      BY <1>0, <2>6 DEF FinishDeletion, HandleDeletionFailure, DelTypes, docVars
    <2>7. CASE \/ NoIngestionJob(w) \/ NothingToDo(w) \/ Walk(w) \/ MarkIndexed(w)
               \/ MarkFailed(w) \/ CascadeRefused(w) \/ Crash(w)
      <3>1. UNCHANGED <<job, attempts, dstatus, dattempts>>
        BY <2>7 DEF NoIngestionJob, NothingToDo, Walk, MarkIndexed, MarkFailed,
           CascadeRefused, Crash, LoadDocument, Extract, RejectContent, StageFault,
           UpsertChunk, InsertChunkManifests, GuardInFlight, DeletePoints, DeleteBlobs,
           DeletionFault, SweepJobs, SweepVersions, docVars, delVars
      <3> QED
        BY <3>1
    <2> QED
      BY <1>5, <2>1, <2>2, <2>3, <2>4, <2>5, <2>6, <2>7, WorkerCases
  <1> QED
    BY <1>1, <1>2, <1>3, <1>4, <1>5 DEF Next, UploadAction, DeleteAction

-----------------------------------------------------------------------------
(* Tombstones *)

\* A request that has read its document keeps its target, and a deletion job
\* that is there stays there.
LEMMA RequestsRemember ==
  ASSUME Inv, [Next]_vars
  PROVE  \A r \in Requests :
           /\ request[r] # "idle" => target'[r] = target[r]
           /\ dstatus[r] # "none" => dstatus'[r] # "none"
           /\ request[r] \in {"cancel", "enqueue", "failed"} =>
                dstatus'[r] # "none" \/ request'[r] \in {"cancel", "enqueue", "failed"}
  <1> DEFINE Remembers ==
        \A r \in Requests :
           /\ request[r] # "idle" => target'[r] = target[r]
           /\ dstatus[r] # "none" => dstatus'[r] # "none"
           /\ request[r] \in {"cancel", "enqueue", "failed"} =>
                dstatus'[r] # "none" \/ request'[r] \in {"cancel", "enqueue", "failed"}
  <1>0. /\ TypeOK /\ DelTypes /\ ApiTypes /\ Holds /\ Owned
    BY DEF Inv, TypeOK
  <1>1. CASE UNCHANGED vars
    BY <1>1 DEF vars, delVars, apiVars
  <1>2. ASSUME NEW d \in Docs, UploadAction(d) PROVE Remembers
    BY <1>2, UploadFrame DEF delVars
  <1>3. ASSUME NEW r \in Requests, NEW d \in Docs, ReadForDelete(r, d) PROVE Remembers
    BY <1>0, <1>3 DEF ReadForDelete, ApiTypes, delVars
  <1>4. ASSUME NEW r \in Requests, DeleteAction(r) PROVE Remembers
    <2>1. CASE TombstoneDocument(r) \/ CancelPendingIngestion(r) \/ DeleteFault(r)
      BY <1>0, <2>1 DEF TombstoneDocument, CancelPendingIngestion, DeleteFault,
                        ApiTypes, delVars
    <2>2. CASE CreateDeletionJob(r)
      BY <1>0, <2>2 DEF CreateDeletionJob, ApiTypes, DelTypes
    <2> QED
      BY <1>4, <2>1, <2>2 DEF DeleteAction, DeleteStep
  <1>5. ASSUME NEW w \in Workers, WorkerStep(w) \/ Crash(w) PROVE Remembers
    <2>1. \A r \in Requests : dstatus[r] # "none" => dstatus'[r] # "none"
      <3>1. CASE ClaimDeletion(w)
        BY <1>0, <3>1 DEF ClaimDeletion, Queued, DelTypes
      <3>2. CASE FinishDeletion(w) \/ HandleDeletionFailure(w)
        BY <1>0, <3>2 DEF FinishDeletion, HandleDeletionFailure, DelTypes
      <3>3. CASE Walk(w)
        BY <1>0, <3>3, WalkFrame
      <3>4. CASE \/ ClaimIngestion(w) \/ NoIngestionJob(w) \/ NothingToDo(w)
                 \/ FinishJob(w) \/ MarkIndexed(w) \/ HandleJobFailure(w)
                 \/ MarkFailed(w) \/ CommitCascade(w) \/ CascadeRefused(w) \/ Crash(w)
        BY <3>4 DEF ClaimIngestion, NoIngestionJob, NothingToDo, FinishJob, MarkIndexed,
           HandleJobFailure, MarkFailed, CommitCascade, CascadeRefused, Crash, delVars
      <3> QED
        BY <1>5, <3>1, <3>2, <3>3, <3>4, WorkerCases
    <2> QED
      BY <1>5, <2>1, WorkerFrame
  <1> QED
    BY <1>1, <1>2, <1>3, <1>4, <1>5 DEF Next, UploadAction, DeleteAction

\* Only the request that sets a tombstone makes a document tombstoned.
LEMMA TombstonesHaveRequests ==
  ASSUME Inv, [Next]_vars, NEW d \in Docs, row'[d] = "tombstoned"
  PROVE  \/ row[d] = "tombstoned"
         \/ \E r \in Requests : target'[r] = d /\ request'[r] = "cancel"
  <1>0. /\ TypeOK /\ DocTypes /\ ApiTypes /\ Holds /\ Owned /\ Uploaded /\ Requested /\ Swept
    BY DEF Inv, TypeOK
  <1>1. CASE UNCHANGED vars
    BY <1>1 DEF vars, docVars
  <1>2. ASSUME NEW e \in Docs, UploadAction(e) PROVE row[d] = "tombstoned"
    BY <1>0, <1>2 DEF UploadAction, UploadCheck, UploadStep, UploadFault, CreateDocument,
       StoreBlob, CreateVersion, CreateJob, UploadRefused, docVars, DocTypes
  <1>3. ASSUME NEW r \in Requests, NEW e \in Docs, ReadForDelete(r, e)
        PROVE  row[d] = "tombstoned"
    BY <1>3 DEF ReadForDelete, docVars
  <1>4. ASSUME NEW r \in Requests, DeleteAction(r)
        PROVE  row[d] = "tombstoned" \/ (target'[r] = d /\ request'[r] = "cancel")
    <2>1. CASE TombstoneDocument(r)
      <3>1. UNCHANGED target /\ request'[r] = "cancel"
        BY <1>0, <2>1 DEF TombstoneDocument, ApiTypes
      <3>2. d # target[r] => row'[d] = row[d]
        BY <1>0, <2>1 DEF TombstoneDocument, DocTypes
      <3> QED
        BY <3>1, <3>2
    <2>2. CASE ~TombstoneDocument(r)
      BY <1>4, <2>2 DEF DeleteAction, DeleteStep, DeleteFault, CancelPendingIngestion,
                        CreateDeletionJob, docVars
    <2> QED
      BY <2>1, <2>2
  <1>5. ASSUME NEW w \in Workers, WorkerStep(w) \/ Crash(w) PROVE row[d] = "tombstoned"
    BY <1>0, <1>5, WorkerRows
  <1> QED
    BY <1>1, <1>2, <1>3, <1>4, <1>5 DEF Next, UploadAction, DeleteAction

LEMMA RememberedStep ==
  Inv /\ NoForgottenTombstone /\ [Next]_vars => NoForgottenTombstone'
  <1> SUFFICES ASSUME Inv, NoForgottenTombstone, [Next]_vars,
                      NEW d \in Docs, row'[d] = "tombstoned"
               PROVE  \E r \in Requests :
                        /\ target'[r] = d
                        /\ \/ dstatus'[r] # "none"
                           \/ request'[r] \in {"cancel", "enqueue", "failed"}
    BY DEF NoForgottenTombstone
  <1>1. CASE row[d] = "tombstoned"
    <2>1. PICK r \in Requests :
            /\ target[r] = d
            /\ dstatus[r] # "none" \/ request[r] \in {"cancel", "enqueue", "failed"}
      BY <1>1 DEF NoForgottenTombstone
    <2>2. request[r] # "idle"
      BY <2>1 DEF Inv, Requested
    <2> QED
      BY <2>1, <2>2, RequestsRemember
  <1>2. CASE row[d] # "tombstoned"
    BY <1>2, TombstonesHaveRequests
  <1> QED
    BY <1>1, <1>2

-----------------------------------------------------------------------------
(* Stranded jobs *)

\* The two steps that come after a worker settled its job find it settled.
Settling ==
  \A w \in Workers :
    pc[w] \in {"index_doc", "mark_failed"} => job[cur[w]] # "processing"

\* A job starts processing only by a claim, and its claimer holds it.
LEMMA ClaimsStart ==
  ASSUME Inv, [Next]_vars
  PROVE  /\ \A d \in Docs : job'[d] = "processing" =>
              job[d] = "processing" \/ (d \in Claimable /\ Held(d)')
         /\ \A r \in Requests : dstatus'[r] = "processing" =>
              dstatus[r] = "processing" \/ Held(r)'
  <1> DEFINE Starts ==
         /\ \A d \in Docs : job'[d] = "processing" =>
              job[d] = "processing" \/ (d \in Claimable /\ Held(d)')
         /\ \A r \in Requests : dstatus'[r] = "processing" =>
              dstatus[r] = "processing" \/ Held(r)'
  <1> USE DEF Held
  <1>0. TypeOK /\ DocTypes /\ DelTypes /\ WorkTypes
    BY DEF Inv, TypeOK
  <1>1. CASE UNCHANGED vars
    BY <1>1 DEF vars, docVars, delVars
  <1>2. ASSUME NEW d \in Docs, UploadAction(d) PROVE Starts
    BY <1>0, <1>2 DEF UploadAction, UploadCheck, UploadStep, UploadFault, CreateDocument,
       StoreBlob, CreateVersion, CreateJob, UploadRefused, DocTypes, docVars, delVars
  <1>3. ASSUME NEW r \in Requests, NEW d \in Docs, ReadForDelete(r, d) PROVE Starts
    BY <1>3 DEF ReadForDelete, docVars, delVars
  <1>4. ASSUME NEW r \in Requests, DeleteAction(r) PROVE Starts
    BY <1>0, <1>4 DEF DeleteAction, DeleteStep, DeleteFault, TombstoneDocument,
       CancelPendingIngestion, CreateDeletionJob, DocTypes, DelTypes, docVars, delVars
  <1>5. ASSUME NEW w \in Workers, WorkerStep(w) \/ Crash(w) PROVE Starts
    <2>1. CASE ClaimIngestion(w)
      <3>1. PICK d \in Claimable : /\ cur' = [cur EXCEPT ![w] = d]
                                   /\ job' = [job EXCEPT ![d] = "processing"]
        BY <2>1 DEF ClaimIngestion
      <3>2. cur'[w] = d /\ \A e \in Docs : e # d => job'[e] = job[e]
        BY <1>0, <3>1 DEF DocTypes, WorkTypes
      <3> QED
        BY <2>1, <3>1, <3>2 DEF ClaimIngestion, delVars
    <2>2. CASE ClaimDeletion(w)
      <3>1. PICK r \in Queued : /\ cur' = [cur EXCEPT ![w] = r]
                                /\ dstatus' = [dstatus EXCEPT ![r] = "processing"]
        BY <2>2 DEF ClaimDeletion
      <3>2. cur'[w] = r /\ \A q \in Requests : q # r => dstatus'[q] = dstatus[q]
        BY <1>0, <3>1 DEF DelTypes, WorkTypes
      <3> QED
        BY <2>2, <3>1, <3>2 DEF ClaimDeletion, docVars
    <2>3. CASE FinishJob(w) \/ HandleJobFailure(w) \/ CommitCascade(w)
      BY <1>0, <2>3 DEF FinishJob, HandleJobFailure, CommitCascade, DocTypes, delVars
    <2>4. CASE FinishDeletion(w) \/ HandleDeletionFailure(w)
      BY <1>0, <2>4 DEF FinishDeletion, HandleDeletionFailure, DelTypes, docVars
    <2>5. CASE Walk(w)
      BY <1>0, <2>5, WalkFrame
    <2>6. CASE \/ NoIngestionJob(w) \/ NothingToDo(w) \/ MarkIndexed(w)
               \/ MarkFailed(w) \/ CascadeRefused(w) \/ Crash(w)
      BY <2>6 DEF NoIngestionJob, NothingToDo, MarkIndexed, MarkFailed, CascadeRefused,
                  Crash, docVars, delVars
    <2> QED
      BY <1>5, <2>1, <2>2, <2>3, <2>4, <2>5, <2>6, WorkerCases
  <1> QED
    BY <1>1, <1>2, <1>3, <1>4, <1>5 DEF Next, UploadAction, DeleteAction

\* A worker comes to the two steps by settling its job.
LEMMA SettlingMoves ==
  ASSUME Inv, NEW w \in Workers, WorkerStep(w) \/ Crash(w),
         pc'[w] \in {"index_doc", "mark_failed"}
  PROVE  cur'[w] = cur[w] /\ cur[w] \in Docs /\ job'[cur[w]] # "processing"
  <1>0. /\ TypeOK /\ DocTypes /\ WorkTypes /\ Holds
    BY DEF Inv, TypeOK
  <1>1. FinishJob(w) \/ HandleJobFailure(w)
    <2>1. CASE Walk(w)
      BY <1>0, <2>1 DEF Walk, LoadDocument, StageFault, Extract, RejectContent,
         UpsertChunk, InsertChunkManifests, GuardInFlight, DeletePoints, DeleteBlobs,
         DeletionFault, SweepJobs, SweepVersions, Goto, WorkTypes
    <2>2. CASE \/ ClaimIngestion(w) \/ ClaimDeletion(w) \/ NoIngestionJob(w)
               \/ NothingToDo(w) \/ CommitCascade(w)
      BY <1>0, <2>2 DEF ClaimIngestion, ClaimDeletion, NoIngestionJob, NothingToDo,
         CommitCascade, Goto, WorkTypes
    <2>3. CASE \/ MarkIndexed(w) \/ MarkFailed(w) \/ FinishDeletion(w)
               \/ HandleDeletionFailure(w) \/ CascadeRefused(w) \/ Crash(w)
      BY <1>0, <2>3 DEF MarkIndexed, MarkFailed, FinishDeletion, HandleDeletionFailure,
         CascadeRefused, Crash, Release, WorkTypes
    <2> QED
      BY <2>1, <2>2, <2>3, WorkerCases
  <1>2. pc[w] \in IngestionSteps
    BY <1>1 DEF FinishJob, HandleJobFailure, IngestionSteps
  <1>3. cur[w] \in Docs
    BY <1>0, <1>2 DEF Holds
  <1>4. cur' = cur
    BY <1>0, <1>1 DEF FinishJob, HandleJobFailure, Release, WorkTypes
  <1>5. job'[cur[w]] # "processing"
    BY <1>0, <1>1, <1>3 DEF FinishJob, HandleJobFailure, DocTypes
  <1> QED
    BY <1>3, <1>4, <1>5

LEMMA SettlingStep == Inv /\ Settling /\ [Next]_vars => Settling'
  <1> SUFFICES ASSUME Inv, Settling, [Next]_vars, NEW v \in Workers,
                      pc'[v] \in {"index_doc", "mark_failed"}
               PROVE  job'[cur'[v]] # "processing"
    BY DEF Settling
  <1>0. TypeOK /\ WorkTypes /\ Holds /\ Owned
    BY DEF Inv, TypeOK
  <1>1. CASE pc'[v] = pc[v] /\ cur'[v] = cur[v]
    <2>1. cur[v] \in Docs /\ job[cur[v]] \notin {"queued", "retry_pending", "processing"}
      BY <1>0, <1>1 DEF Settling, Holds, Owned, IngestionSteps
    <2> QED
      BY <1>1, <2>1, ClaimsStart DEF Claimable
  <1>2. CASE ~(pc'[v] = pc[v] /\ cur'[v] = cur[v])
    <2>1. ~UNCHANGED workVars
      BY <1>2 DEF workVars
    <2>2. PICK w \in Workers : WorkerStep(w) \/ Crash(w)
      BY <2>1, UploadFrame, DeleteFrame
      DEF Next, UploadAction, DeleteAction, ReadForDelete, vars
    <2>3. v = w
      BY <1>0, <1>2, <2>2, WorkerMoves
    <2> QED
      BY <2>2, <2>3, SettlingMoves
  <1> QED
    BY <1>1, <1>2

\* A foreign key refuses a cascade only for a draft, or for an upload that DELETE
\* overtook: whatever was there before it is deleted in its order.
LEMMA RefusalsAreOvertaken ==
  ASSUME Inv, NEW w \in Workers, CascadeRefused(w)
  PROVE  cur[w] \in Requests /\ cur[w] \in Refusable
  <1> DEFINE d == target[cur[w]]
  <1>0. TypeOK /\ Holds /\ Swept
    BY DEF Inv
  <1>1. pc[w] \in Sweeping /\ cur[w] \in Requests
    BY <1>0 DEF CascadeRefused, Sweeping, Holds, DeletionSteps
  <1>2. SweptDocument(w, d)
    BY <1>0, <1>1 DEF Swept
  <1>3. CASE Referenced(w)
    BY <1>1, <1>2, <1>3 DEF Referenced, SweptDocument, Refusable
  <1>4. CASE Deadlocked(w)
    <2>1. PICK v \in Workers : pc[v] = pc[w] /\ target[cur[v]] = d /\ txRows[v] # txRows[w]
      BY <1>4 DEF Deadlocked
    <2>2. SweptDocument(v, d)
      BY <1>0, <1>1, <2>1 DEF Swept
    <2>3. d \in Docs
      BY <1>0, <1>1, PurgingIsRequested DEF Inv, Sweeping, DeletionSteps
    <2>4. SweptRows(v, d) /\ SweptRows(w, d)
      BY <1>0, <2>3 DEF Swept
    <2> HIDE DEF d
    <2>5. \/ ~(JobRow(d) \in txRows[v] <=> JobRow(d) \in txRows[w])
          \/ ~(VersionRow(d) \in txRows[v] <=> VersionRow(d) \in txRows[w])
      <3>1. PICK x : ~(x \in txRows[v] <=> x \in txRows[w])
        BY <2>1, Zenon
      <3>2. x = JobRow(d) \/ x = VersionRow(d)
        BY <1>2, <2>2, <3>1 DEF SweptDocument
      <3> QED
        BY <3>1, <3>2
    <2>6. ASSUME ~(JobRow(d) \in txRows[v] <=> JobRow(d) \in txRows[w])
          PROVE  d \in late
      BY <1>2, <2>2, <2>4, <2>6 DEF SweptDocument, SweptRows
    <2>7. ASSUME ~(VersionRow(d) \in txRows[v] <=> VersionRow(d) \in txRows[w])
          PROVE  d \in late
      BY <1>1, <1>2, <2>1, <2>2, <2>4, <2>7 DEF SweptDocument, SweptRows, Sweeping
    <2> QED
      BY <1>1, <2>5, <2>6, <2>7 DEF Refusable, d
  <1> QED
    BY <1>1, <1>3, <1>4 DEF CascadeRefused

\* A worker lets go of a job by settling or rescheduling it, unless it dies, or
\* the cascade it runs is refused.
LEMMA ReleaseSettles ==
  ASSUME Inv, Settling, NEW w \in Workers, WorkerStep(w), cur[w] # None,
         cur'[w] # cur[w]
  PROVE  /\ cur[w] \in Docs => job'[cur[w]] # "processing"
         /\ cur[w] \in Requests =>
              dstatus'[cur[w]] # "processing" \/ cur[w] \in Refusable
  <1> USE ConstantsAssumption
  <1>0. TypeOK /\ DocTypes /\ DelTypes /\ WorkTypes /\ Holds /\ Owned
    BY DEF Inv, TypeOK
  <1>1. CASE MarkIndexed(w) \/ MarkFailed(w)
    <2>1. cur[w] \in Docs /\ job[cur[w]] # "processing"
      BY <1>0, <1>1 DEF MarkIndexed, MarkFailed, Settling, Holds, IngestionSteps
    <2> QED
      BY <1>1, <2>1 DEF MarkIndexed, MarkFailed
  <1>2. CASE HandleJobFailure(w)
    <2>1. cur[w] \in Docs
      BY <1>0, <1>2 DEF HandleJobFailure, Holds, IngestionSteps
    <2> QED
      BY <1>0, <1>2, <2>1 DEF HandleJobFailure, DocTypes
  <1>3. CASE FinishDeletion(w) \/ HandleDeletionFailure(w)
    <2>1. cur[w] \in Requests
      BY <1>0, <1>3 DEF FinishDeletion, HandleDeletionFailure, Holds, DeletionSteps
    <2> QED
      BY <1>0, <1>3, <2>1 DEF FinishDeletion, HandleDeletionFailure, DelTypes
  <1>4. CASE CascadeRefused(w)
    <2>1. cur[w] \in Requests /\ cur[w] \in Refusable
      BY <1>0, <1>4, RefusalsAreOvertaken
    <2> QED
      BY <1>0, <2>1, ConstantsAssumption
  <1>5. CASE ClaimIngestion(w) \/ ClaimDeletion(w)
    BY <1>0, <1>5 DEF ClaimIngestion, ClaimDeletion, Holds
  <1>6. CASE Walk(w)
    BY <1>0, <1>6, WalkFrame
  <1>7. CASE NoIngestionJob(w) \/ NothingToDo(w) \/ FinishJob(w) \/ CommitCascade(w)
    BY <1>7 DEF NoIngestionJob, NothingToDo, FinishJob, CommitCascade
  <1>9. \/ ClaimIngestion(w) \/ ClaimDeletion(w)
        \/ NoIngestionJob(w) \/ NothingToDo(w) \/ Walk(w)
        \/ FinishJob(w) \/ MarkIndexed(w) \/ HandleJobFailure(w) \/ MarkFailed(w)
        \/ CommitCascade(w) \/ FinishDeletion(w) \/ HandleDeletionFailure(w)
        \/ CascadeRefused(w)
    BY DEF WorkerStep, IngestionStep, DeletionStep, Walk
  <1> QED
    BY <1>1, <1>2, <1>3, <1>4, <1>5, <1>6, <1>7, <1>9

\* Workers are killed by nothing but Crash, and stay counted.
LEMMA DeathsCounted ==
  ASSUME Inv, [Next]_vars, crashes' = 0
  PROVE  /\ crashes = 0
         /\ \A w \in Workers : cur'[w] # cur[w] => WorkerStep(w)
  <1>0. TypeOK /\ WorkTypes
    BY DEF Inv, TypeOK
  <1>1. CASE UNCHANGED workVars
    BY <1>1 DEF workVars
  <1>2. ASSUME NEW w \in Workers, WorkerStep(w)
        PROVE  crashes = 0 /\ \A v \in Workers : cur'[v] # cur[v] => v = w
    <2>1. UNCHANGED crashes
      BY <1>2 DEF WorkerStep, IngestionStep, DeletionStep, ClaimIngestion,
         NoIngestionJob, LoadDocument, Extract, RejectContent, UpsertChunk,
         InsertChunkManifests, FinishJob, MarkIndexed, StageFault, HandleJobFailure,
         MarkFailed, ClaimDeletion, NothingToDo, GuardInFlight, DeletePoints,
         DeleteBlobs, CommitCascade, CascadeRefused, FinishDeletion, DeletionFault,
         SweepJobs, SweepVersions, HandleDeletionFailure
    <2>2. \A v \in Workers : v # w => cur'[v] = cur[v]
      BY <1>0, <1>2, WorkerMoves
    <2> QED
      BY <2>1, <2>2
  <1>3. ASSUME NEW w \in Workers, Crash(w) PROVE FALSE
    BY <1>0, <1>3 DEF Crash, WorkTypes
  <1>4. UNCHANGED workVars \/ \E w \in Workers : WorkerStep(w) \/ Crash(w)
    BY UploadFrame, DeleteFrame DEF Next, UploadAction, DeleteAction, ReadForDelete, vars
  <1> QED
    BY <1>1, <1>2, <1>3, <1>4

\* A document that DELETE overtook stays one.
LEMMA LateStays == ASSUME Inv, [Next]_vars PROVE late \subseteq late'
  <1>1. CASE UNCHANGED vars
    BY <1>1 DEF vars, apiVars
  <1>2. ASSUME NEW d \in Docs, UploadAction(d) PROVE late \subseteq late'
    BY <1>2, UploadLocal DEF Inv
  <1>3. ASSUME NEW r \in Requests, NEW d \in Docs, ReadForDelete(r, d)
        PROVE  late \subseteq late'
    BY <1>3 DEF ReadForDelete
  <1>4. ASSUME NEW r \in Requests, DeleteAction(r) PROVE late \subseteq late'
    BY <1>4 DEF DeleteAction, DeleteStep, DeleteFault, TombstoneDocument,
                CancelPendingIngestion, CreateDeletionJob
  <1>5. ASSUME NEW w \in Workers, WorkerStep(w) \/ Crash(w) PROVE late \subseteq late'
    BY <1>5, WorkerFrame
  <1> QED
    BY <1>1, <1>2, <1>3, <1>4, <1>5 DEF Next, UploadAction, DeleteAction

LEMMA StrandedStep ==
  Inv /\ Settling /\ OnlyDeathStrands /\ [Next]_vars => OnlyDeathStrands'
  <1> SUFFICES ASSUME Inv, Settling, OnlyDeathStrands, [Next]_vars, crashes' = 0
               PROVE  Stranded' \subseteq Refusable'
    BY DEF OnlyDeathStrands
  <1> USE ConstantsAssumption
  <1>0. TypeOK /\ Requested
    BY DEF Inv, TypeOK
  <1>1. Stranded \subseteq Refusable
    BY DeathsCounted DEF OnlyDeathStrands
  <1>2. \A w \in Workers : cur'[w] # cur[w] => WorkerStep(w)
    BY DeathsCounted
  <1>3. ASSUME NEW d \in Docs, job'[d] = "processing", ~Held(d)' PROVE FALSE
    <2>1. job[d] = "processing"
      BY <1>3, ClaimsStart
    <2>2. PICK w \in Workers : cur[w] = d
      BY <1>1, <2>1 DEF Stranded, Held, Refusable
    <2>3. cur'[w] # d
      BY <1>3 DEF Held
    <2> QED
      BY <1>2, <1>3, <2>2, <2>3, ReleaseSettles
  <1>4. ASSUME NEW r \in Requests, dstatus'[r] = "processing", ~Held(r)'
        PROVE  r \in Refusable'
    <2>1. dstatus[r] = "processing"
      BY <1>4, ClaimsStart
    <2>2. target'[r] = target[r]
      BY <1>0, <2>1, RequestsRemember DEF Requested
    <2>0. r \in Refusable => r \in Refusable'
      BY <2>2, LateStays DEF Refusable
    <2>3. CASE Held(r)
      <3>1. PICK w \in Workers : cur[w] = r
        BY <2>3 DEF Held
      <3>2. cur'[w] # r
        BY <1>4 DEF Held
      <3> QED
        BY <1>2, <1>4, <2>0, <3>1, <3>2, ReleaseSettles
    <2>4. CASE ~Held(r)
      BY <1>1, <2>0, <2>1, <2>4 DEF Stranded
    <2> QED
      BY <2>3, <2>4
  <1> QED
    BY <1>3, <1>4 DEF Stranded

-----------------------------------------------------------------------------
(* The ledger and the index *)

\* What an attempt has written so far is there: its vectors while it upserts,
\* its ledger rows once it has inserted them.  A document nobody has uploaded
\* has no ledger and is not indexed.
Ledger ==
  /\ \A d \in Docs : row[d] = "absent" => ManifestsOf(d) = {} /\ status[d] # "indexed"
  /\ \A w \in Workers :
       /\ pc[w] \in {"idle", "poll", "load", "extract"} \cup DeletionSteps =>
            upserted[w] = 0
       /\ pc[w] \in IngestionSteps => attempts[cur[w]] >= 1
       /\ pc[w] = "upsert" /\ row[cur[w]] = "live" =>
            \A c \in 1..upserted[w] : <<cur[w], attempts[cur[w]], c>> \in points
       /\ pc[w] \in {"index_job", "index_doc"} /\ row[cur[w]] = "live" =>
            AttemptPoints(cur[w], attempts[cur[w]]) \subseteq manifests

\* A live document was live before, or has just been created.
LEMMA LiveWasLive ==
  ASSUME Inv, [Next]_vars, NEW d \in Docs, row'[d] = "live"
  PROVE  \/ row[d] = "live"
         \/ row[d] = "absent" /\ upload[d] = "checked" /\ UNCHANGED <<manifests, status>>
  <1>0. /\ TypeOK /\ DocTypes /\ ApiTypes /\ Holds /\ Owned /\ Uploaded /\ Requested /\ Swept
    BY DEF Inv, TypeOK
  <1>1. CASE UNCHANGED vars
    BY <1>1 DEF vars, docVars
  <1>2. ASSUME NEW e \in Docs, UploadAction(e)
        PROVE  \/ row[d] = "live"
               \/ row[d] = "absent" /\ upload[d] = "checked"
                    /\ UNCHANGED <<manifests, status>>
    BY <1>0, <1>2, UploadFrame DEF UploadAction, UploadCheck, UploadStep, UploadFault,
       CreateDocument, StoreBlob, CreateVersion, CreateJob, UploadRefused, docVars,
       DocTypes, Uploaded
  <1>3. ASSUME NEW r \in Requests, NEW e \in Docs, ReadForDelete(r, e)
        PROVE  row[d] = "live"
    BY <1>3 DEF ReadForDelete, docVars
  <1>4. ASSUME NEW r \in Requests, DeleteAction(r) PROVE row[d] = "live"
    BY <1>0, <1>4 DEF DeleteAction, DeleteStep, DeleteFault, TombstoneDocument,
       CancelPendingIngestion, CreateDeletionJob, docVars, DocTypes
  <1>5. ASSUME NEW w \in Workers, WorkerStep(w) \/ Crash(w) PROVE row[d] = "live"
    BY <1>0, <1>5, WorkerRows
  <1> QED
    BY <1>1, <1>2, <1>3, <1>4, <1>5 DEF Next, UploadAction, DeleteAction

\* No step takes a vector or a ledger row of a live document.
LEMMA LiveKeepsItsIndex ==
  ASSUME Inv, [Next]_vars, NEW d \in Docs, row[d] = "live"
  PROVE  /\ PointsOf(d) \subseteq points'
         /\ ManifestsOf(d) \subseteq manifests'
  <1> USE DEF PointsOf, ManifestsOf
  <1>0. /\ TypeOK /\ Holds /\ Owned /\ Requested /\ Swept
    BY DEF Inv, TypeOK
  <1>1. CASE UNCHANGED vars
    BY <1>1 DEF vars, docVars, storeVars
  <1>2. ASSUME NEW e \in Docs, UploadAction(e) PROVE UNCHANGED <<points, manifests>>
    BY <1>2, UploadFrame
  <1>3. ASSUME NEW r \in Requests, NEW e \in Docs, ReadForDelete(r, e)
        PROVE  UNCHANGED <<points, manifests>>
    BY <1>3 DEF ReadForDelete, docVars, storeVars
  <1>4. ASSUME NEW r \in Requests, DeleteAction(r) PROVE UNCHANGED <<points, manifests>>
    BY <1>4, DeleteFrame DEF storeVars
  <1>5. ASSUME NEW w \in Workers, WorkerStep(w) \/ Crash(w)
        PROVE  /\ PointsOf(d) \subseteq points'
               /\ ManifestsOf(d) \subseteq manifests'
    <2>1. CASE DeletePoints(w) \/ CommitCascade(w)
      <3>1. target[cur[w]] # d
        BY <1>0, <2>1, PurgingIsRequested DEF DeletePoints, CommitCascade, DeletionSteps
      <3>2. CommitCascade(w) => \A p \in txLedger[w] : p[1] = target[cur[w]]
        BY <1>0 DEF CommitCascade, Swept, SweptDocument, Sweeping
      <3> QED
        BY <2>1, <3>1, <3>2 DEF DeletePoints, CommitCascade, docVars, storeVars
    <2>2. CASE UpsertChunk(w) \/ InsertChunkManifests(w)
      BY <2>2 DEF UpsertChunk, InsertChunkManifests, docVars, storeVars
    <2>3. CASE /\ ~DeletePoints(w) /\ ~CommitCascade(w)
               /\ ~UpsertChunk(w) /\ ~InsertChunkManifests(w)
      <3>1. UNCHANGED <<points, manifests>>
        BY <1>5, <2>3, WorkerCases DEF Walk, ClaimIngestion, ClaimDeletion,
           NoIngestionJob, NothingToDo, LoadDocument, Extract, RejectContent, StageFault,
           GuardInFlight, DeleteBlobs, DeletionFault, SweepJobs, SweepVersions,
           FinishJob, MarkIndexed, HandleJobFailure, MarkFailed, FinishDeletion, HandleDeletionFailure,
           CascadeRefused, Crash, docVars, storeVars
      <3> QED
        BY <3>1
    <2> QED
      BY <2>1, <2>2, <2>3
  <1> QED
    BY <1>1, <1>2, <1>3, <1>4, <1>5 DEF Next, UploadAction, DeleteAction

\* A document that is held keeps its number of attempts.
LEMMA AttemptsKept ==
  ASSUME Inv, [Next]_vars, NEW v \in Workers, pc[v] \in IngestionSteps
  PROVE  attempts'[cur[v]] = attempts[cur[v]]
  <1>0. /\ TypeOK /\ DocTypes /\ Holds /\ Owned
    BY DEF Inv, TypeOK
  <1>a. /\ cur[v] \in Docs /\ upload[cur[v]] = "answered"
        /\ cur[v] \notin Claimable
    BY <1>0 DEF Holds, Owned, Claimable, Writing, IngestionSteps
  <1>1. CASE UNCHANGED vars
    BY <1>1 DEF vars, docVars
  <1>2. ASSUME NEW e \in Docs, UploadAction(e) PROVE attempts'[cur[v]] = attempts[cur[v]]
    BY <1>0, <1>2, <1>a DEF UploadAction, UploadCheck, UploadStep, UploadFault,
       CreateDocument, StoreBlob, CreateVersion, CreateJob, UploadRefused, docVars, DocTypes
  <1>3. ASSUME NEW r \in Requests, NEW e \in Docs, ReadForDelete(r, e)
        PROVE  UNCHANGED attempts
    BY <1>3 DEF ReadForDelete, docVars
  <1>4. ASSUME NEW r \in Requests, DeleteAction(r) PROVE UNCHANGED attempts
    BY <1>4 DEF DeleteAction, DeleteStep, DeleteFault, TombstoneDocument,
       CancelPendingIngestion, CreateDeletionJob, docVars
  <1>5. ASSUME NEW w \in Workers, WorkerStep(w) \/ Crash(w)
        PROVE  attempts'[cur[v]] = attempts[cur[v]]
    <2>1. CASE ClaimIngestion(w)
      BY <1>0, <1>a, <2>1 DEF ClaimIngestion, DocTypes
    <2>2. CASE Walk(w)
      BY <1>0, <2>2, WalkFrame
    <2>3. CASE ~ClaimIngestion(w) /\ ~Walk(w)
      BY <1>5, <2>3, WorkerCases DEF ClaimDeletion, NoIngestionJob, NothingToDo,
         FinishJob, MarkIndexed, HandleJobFailure, MarkFailed, CommitCascade,
         FinishDeletion, HandleDeletionFailure, CascadeRefused, Crash, docVars
    <2> QED
      BY <2>1, <2>2, <2>3
  <1> QED
    BY <1>1, <1>2, <1>3, <1>4, <1>5 DEF Next, UploadAction, DeleteAction

\* How a worker gets into the steps that Ledger speaks about.
LEMMA LedgerMoves ==
  ASSUME Inv, Ledger, NEW w \in Workers, WorkerStep(w) \/ Crash(w)
  PROVE  /\ pc'[w] \in {"idle", "poll", "load", "extract"} \cup DeletionSteps =>
              upserted'[w] = 0
         /\ pc'[w] \in IngestionSteps =>
              \/ cur'[w] = cur[w] /\ pc[w] \in IngestionSteps
              \/ cur'[w] \in Docs /\ attempts'[cur'[w]] >= 1
         /\ pc'[w] = "upsert" =>
              \/ UpsertChunk(w)
              \/ upserted'[w] = 0
         /\ pc'[w] = "index_job" => InsertChunkManifests(w)
         /\ pc'[w] = "index_doc" => FinishJob(w)
  <1> USE DEF Goto, Release, IngestionSteps, DeletionSteps
  <1>0. /\ TypeOK /\ DocTypes /\ WorkTypes /\ Holds
    BY DEF Inv, TypeOK
  <1>1. CASE ClaimIngestion(w)
    <2>1. PICK d \in Claimable : /\ cur' = [cur EXCEPT ![w] = d]
                                 /\ attempts' = [attempts EXCEPT ![d] = @ + 1]
      BY <1>1 DEF ClaimIngestion
    <2>2. d \in Docs /\ cur'[w] = d /\ attempts'[d] >= 1
      BY <1>0, <2>1 DEF Claimable, DocTypes, WorkTypes
    <2> QED
      BY <1>0, <1>1, <2>2 DEF ClaimIngestion, Ledger, WorkTypes
  <1>2. CASE ClaimDeletion(w) \/ NoIngestionJob(w) \/ NothingToDo(w)
    BY <1>0, <1>2 DEF ClaimDeletion, NoIngestionJob, NothingToDo, Ledger, WorkTypes
  <1>3. CASE LoadDocument(w) \/ Extract(w) \/ RejectContent(w) \/ StageFault(w)
    BY <1>0, <1>3 DEF LoadDocument, Extract, RejectContent, StageFault, Ledger, WorkTypes
  <1>4. CASE UpsertChunk(w)
    BY <1>0, <1>4 DEF UpsertChunk, WorkTypes
  <1>5. CASE InsertChunkManifests(w) \/ FinishJob(w)
    BY <1>0, <1>5 DEF InsertChunkManifests, FinishJob, WorkTypes
  <1>6. CASE \/ GuardInFlight(w) \/ DeletePoints(w) \/ DeleteBlobs(w)
             \/ DeletionFault(w) \/ SweepJobs(w) \/ SweepVersions(w)
             \/ CommitCascade(w)
    BY <1>0, <1>6 DEF GuardInFlight, DeletePoints, DeleteBlobs, DeletionFault,
                      SweepJobs, SweepVersions, CommitCascade, Ledger, WorkTypes
  <1>7. CASE \/ MarkIndexed(w) \/ MarkFailed(w) \/ FinishDeletion(w)
             \/ HandleDeletionFailure(w) \/ CascadeRefused(w) \/ Crash(w)
    BY <1>0, <1>7 DEF MarkIndexed, MarkFailed, FinishDeletion, HandleDeletionFailure,
                      CascadeRefused, Crash, WorkTypes
  <1>8. CASE HandleJobFailure(w)
    BY <1>0, <1>8 DEF HandleJobFailure, WorkTypes
  <1> QED
    BY <1>1, <1>2, <1>3, <1>4, <1>5, <1>6, <1>7, <1>8, WorkerCases DEF Walk

\* A worker counts its own upserts only.
LEMMA UpsertedLocal ==
  ASSUME TypeOK, NEW w \in Workers, WorkerStep(w) \/ Crash(w)
  PROVE  \A v \in Workers : v # w => upserted'[v] = upserted[v]
  <1> USE DEF TypeOK, WorkTypes, Release
  <1>1. CASE \/ MarkIndexed(w) \/ MarkFailed(w) \/ FinishDeletion(w)
             \/ HandleDeletionFailure(w) \/ CascadeRefused(w) \/ Crash(w)
    BY <1>1 DEF MarkIndexed, MarkFailed, FinishDeletion, HandleDeletionFailure,
                CascadeRefused, Crash
  <1>2. CASE HandleJobFailure(w) \/ UpsertChunk(w)
    BY <1>2 DEF HandleJobFailure, UpsertChunk
  <1>3. CASE \/ ClaimIngestion(w) \/ ClaimDeletion(w) \/ NoIngestionJob(w)
             \/ NothingToDo(w) \/ LoadDocument(w) \/ Extract(w) \/ RejectContent(w)
             \/ StageFault(w) \/ InsertChunkManifests(w) \/ FinishJob(w)
             \/ GuardInFlight(w) \/ DeletePoints(w) \/ DeleteBlobs(w)
             \/ DeletionFault(w) \/ SweepJobs(w) \/ SweepVersions(w)
             \/ CommitCascade(w)
    BY <1>3 DEF ClaimIngestion, ClaimDeletion, NoIngestionJob, NothingToDo,
       LoadDocument, Extract, RejectContent, StageFault, InsertChunkManifests,
       FinishJob, GuardInFlight, DeletePoints, DeleteBlobs, DeletionFault, SweepJobs,
          SweepVersions, CommitCascade
  <1> QED
    BY <1>1, <1>2, <1>3, WorkerCases DEF Walk

\* Who writes the ledger, and who marks a document as indexed.
LEMMA LedgerWriters ==
  ASSUME Inv, [Next]_vars, NEW d \in Docs,
         \A w \in Workers : ~InsertChunkManifests(w),
         \A w \in Workers : ~(MarkIndexed(w) /\ cur[w] = d)
  PROVE  manifests' \subseteq manifests /\ (status'[d] = "indexed" => status[d] = "indexed")
  <1>0. TypeOK /\ DocTypes
    BY DEF Inv, TypeOK
  <1>1. CASE UNCHANGED vars
    BY <1>1 DEF vars, docVars
  <1>2. ASSUME NEW e \in Docs, UploadAction(e) PROVE UNCHANGED <<manifests, status>>
    BY <1>2, UploadFrame
  <1>3. ASSUME NEW r \in Requests, NEW e \in Docs, ReadForDelete(r, e)
        PROVE  UNCHANGED <<manifests, status>>
    BY <1>3 DEF ReadForDelete, docVars
  <1>4. ASSUME NEW r \in Requests, DeleteAction(r) PROVE UNCHANGED <<manifests, status>>
    BY <1>4 DEF DeleteAction, DeleteStep, DeleteFault, TombstoneDocument,
       CancelPendingIngestion, CreateDeletionJob, docVars
  <1>5. ASSUME NEW w \in Workers, WorkerStep(w) \/ Crash(w)
        PROVE  manifests' \subseteq manifests /\ (status'[d] = "indexed" => status[d] = "indexed")
    <2>1. CASE MarkIndexed(w) \/ MarkFailed(w)
      BY <1>0, <2>1 DEF MarkIndexed, MarkFailed, DocTypes
    <2>2. CASE CommitCascade(w)
      BY <2>2 DEF CommitCascade
    <2>3. CASE ~MarkIndexed(w) /\ ~MarkFailed(w) /\ ~CommitCascade(w)
      <3>1. UNCHANGED <<manifests, status>>
        BY <1>5, <2>3, WorkerCases DEF Walk, ClaimIngestion, ClaimDeletion,
           NoIngestionJob, NothingToDo, LoadDocument, Extract, RejectContent, StageFault,
           UpsertChunk, GuardInFlight, DeletePoints, DeleteBlobs, DeletionFault,
           SweepJobs, SweepVersions, FinishJob, HandleJobFailure, FinishDeletion,
           HandleDeletionFailure, CascadeRefused, Crash, docVars
      <3> QED
        BY <3>1
    <2> QED
      BY <2>1, <2>2, <2>3
  <1> QED
    BY <1>1, <1>2, <1>3, <1>4, <1>5 DEF Next, UploadAction, DeleteAction

\* What a step adds to the ledger, or marks as indexed, is a document that is there.
LEMMA AbsentStaysEmpty ==
  ASSUME Inv, Ledger, [Next]_vars, NEW d \in Docs, row'[d] = "absent"
  PROVE  ManifestsOf(d)' = {} /\ status'[d] # "indexed"
  <1> USE DEF ManifestsOf
  <1>0. /\ TypeOK /\ DocTypes /\ Holds /\ Owned /\ Uploaded /\ Requested /\ Swept
    BY DEF Inv, TypeOK
  <1>a. row[d] = "absent" => ManifestsOf(d) = {} /\ status[d] # "indexed"
    BY DEF Ledger
  <1>1. CASE UNCHANGED vars
    BY <1>1, <1>a DEF vars, docVars
  <1>2. ASSUME NEW e \in Docs, UploadAction(e)
        PROVE  row[d] = "absent" /\ UNCHANGED <<manifests, status>>
    <2>1. row[d] = "absent"
      BY <1>0, <1>2 DEF UploadAction, UploadCheck, UploadStep, UploadFault,
         CreateDocument, StoreBlob, CreateVersion, CreateJob, UploadRefused, docVars,
         DocTypes
    <2> QED
      BY <1>2, <2>1, UploadFrame
  <1>3. ASSUME NEW r \in Requests, NEW e \in Docs, ReadForDelete(r, e)
        PROVE  row[d] = "absent" /\ UNCHANGED <<manifests, status>>
    BY <1>3 DEF ReadForDelete, docVars
  <1>4. ASSUME NEW r \in Requests, DeleteAction(r)
        PROVE  row[d] = "absent" /\ UNCHANGED <<manifests, status>>
    BY <1>0, <1>4 DEF DeleteAction, DeleteStep, DeleteFault, TombstoneDocument,
       CancelPendingIngestion, CreateDeletionJob, docVars, DocTypes
  <1>5. ASSUME NEW w \in Workers, WorkerStep(w) \/ Crash(w)
        PROVE  ManifestsOf(d)' = {} /\ status'[d] # "indexed"
    <2>0. row[d] = "absent"
      BY <1>0, <1>5, WorkerRows
    <2>1. CASE InsertChunkManifests(w)
      <3>1. cur[w] # d
        BY <1>0, <2>0, <2>1 DEF InsertChunkManifests, Uploaded, Exists
      <3> QED
        BY <1>a, <2>0, <2>1, <3>1 DEF InsertChunkManifests, AttemptPoints
    <2>2. CASE CommitCascade(w)
      BY <1>a, <2>0, <2>2 DEF CommitCascade
    <2>3. CASE MarkIndexed(w)
      <3>1. manifests' = manifests /\ status'[d] = status[d]
        BY <1>0, <2>0, <2>3 DEF MarkIndexed, Exists, DocTypes
      <3> QED
        BY <1>a, <2>0, <3>1
    <2>4. CASE MarkFailed(w)
      BY <1>0, <1>a, <2>0, <2>4 DEF MarkFailed, DocTypes
    <2>5. CASE /\ ~InsertChunkManifests(w) /\ ~CommitCascade(w)
               /\ ~MarkIndexed(w) /\ ~MarkFailed(w)
      <3>1. UNCHANGED <<manifests, status>>
        BY <1>5, <2>5, WorkerCases DEF Walk, ClaimIngestion, ClaimDeletion,
           NoIngestionJob, NothingToDo, LoadDocument, Extract, RejectContent, StageFault,
           UpsertChunk, GuardInFlight, DeletePoints, DeleteBlobs, DeletionFault,
           SweepJobs, SweepVersions, FinishJob, HandleJobFailure, FinishDeletion,
           HandleDeletionFailure, CascadeRefused, Crash, docVars
      <3> QED
        BY <1>a, <2>0, <3>1
    <2> QED
      BY <2>1, <2>2, <2>3, <2>4, <2>5
  <1> QED
    BY <1>a, <1>1, <1>2, <1>3, <1>4, <1>5 DEF Next, UploadAction, DeleteAction

\* A worker that is still at the same step of the same job, and has written as
\* much, finds what it wrote, for as long as the document is live.
LEMMA LedgerStays ==
  ASSUME Inv, Ledger, [Next]_vars, NEW v \in Workers, pc[v] \in IngestionSteps,
         row'[cur[v]] = "live"
  PROVE  /\ row[cur[v]] = "live"
         /\ attempts'[cur[v]] = attempts[cur[v]]
         /\ pc[v] = "upsert" => \A c \in 1..upserted[v] :
              <<cur[v], attempts[cur[v]], c>> \in points'
         /\ pc[v] \in {"index_job", "index_doc"} =>
              AttemptPoints(cur[v], attempts[cur[v]]) \subseteq manifests'
  <1>0. /\ TypeOK /\ Holds /\ Owned
    BY DEF Inv, TypeOK
  <1>1. cur[v] \in Docs /\ upload[cur[v]] = "answered"
    BY <1>0 DEF Holds, Owned
  <1>2. row[cur[v]] = "live"
    BY <1>1, LiveWasLive
  <1>3. attempts'[cur[v]] = attempts[cur[v]]
    BY AttemptsKept
  <1>4. ASSUME pc[v] = "upsert", NEW c \in 1..upserted[v]
        PROVE  <<cur[v], attempts[cur[v]], c>> \in points'
    BY <1>1, <1>2, <1>4, LiveKeepsItsIndex DEF Ledger, PointsOf
  <1>5. ASSUME pc[v] \in {"index_job", "index_doc"}
        PROVE  AttemptPoints(cur[v], attempts[cur[v]]) \subseteq manifests'
    <2>1. AttemptPoints(cur[v], attempts[cur[v]]) \subseteq ManifestsOf(cur[v])
      BY <1>2, <1>5 DEF Ledger, AttemptPoints, ManifestsOf
    <2> QED
      BY <1>1, <1>2, <2>1, LiveKeepsItsIndex
  <1> QED
    BY <1>2, <1>3, <1>4, <1>5

LEMMA LedgerStep == Inv /\ Ledger /\ [Next]_vars => Ledger'
  <1> SUFFICES ASSUME Inv, Ledger, [Next]_vars PROVE Ledger'
    OBVIOUS
  <1>0. /\ TypeOK /\ DocTypes /\ WorkTypes /\ Holds /\ Owned
    BY DEF Inv, TypeOK
  <1>1. \A d \in Docs : row'[d] = "absent" => ManifestsOf(d)' = {} /\ status'[d] # "indexed"
    BY AbsentStaysEmpty
  <1>2. ASSUME NEW v \in Workers
        PROVE  /\ pc'[v] \in {"idle", "poll", "load", "extract"} \cup DeletionSteps =>
                    upserted'[v] = 0
               /\ pc'[v] \in IngestionSteps => attempts'[cur'[v]] >= 1
               /\ pc'[v] = "upsert" /\ row'[cur'[v]] = "live" =>
                    \A c \in 1..upserted'[v] :
                      <<cur'[v], attempts'[cur'[v]], c>> \in points'
               /\ pc'[v] \in {"index_job", "index_doc"} /\ row'[cur'[v]] = "live" =>
                    AttemptPoints(cur'[v], attempts'[cur'[v]]) \subseteq manifests'
    <2>1. CASE UNCHANGED <<pc[v], cur[v], upserted[v]>>
      BY <2>1, LedgerStays, AttemptsKept DEF Ledger, IngestionSteps
    <2>2. CASE ~UNCHANGED <<pc[v], cur[v], upserted[v]>>
      <3>1. ~UNCHANGED workVars
        BY <2>2 DEF workVars
      <3>2. PICK w \in Workers : WorkerStep(w) \/ Crash(w)
        BY <3>1, UploadFrame, DeleteFrame
        DEF Next, UploadAction, DeleteAction, ReadForDelete, vars
      <3>3. v = w
        BY <1>0, <2>2, <3>2, UpsertedLocal, WorkerMoves
      <3>4. /\ pc'[v] \in {"idle", "poll", "load", "extract"} \cup DeletionSteps =>
                 upserted'[v] = 0
            /\ pc'[v] \in IngestionSteps =>
                 \/ cur'[v] = cur[v] /\ pc[v] \in IngestionSteps
                 \/ cur'[v] \in Docs /\ attempts'[cur'[v]] >= 1
            /\ pc'[v] = "upsert" => UpsertChunk(v) \/ upserted'[v] = 0
            /\ pc'[v] = "index_job" => InsertChunkManifests(v)
            /\ pc'[v] = "index_doc" => FinishJob(v)
        BY <3>2, <3>3, LedgerMoves
      <3>5. pc'[v] \in IngestionSteps => attempts'[cur'[v]] >= 1
        BY <3>4, AttemptsKept DEF Ledger
      <3>6. ASSUME pc'[v] = "upsert", row'[cur'[v]] = "live", NEW c \in 1..upserted'[v]
            PROVE  <<cur'[v], attempts'[cur'[v]], c>> \in points'
        <4>1. CASE UpsertChunk(v)
          <5>1. /\ pc[v] = "upsert" /\ cur' = cur /\ attempts' = attempts
                /\ upserted'[v] = upserted[v] + 1 /\ upserted[v] \in Nat
                /\ points' = points \cup {<<cur[v], attempts[cur[v]], upserted[v] + 1>>}
            BY <1>0, <4>1 DEF UpsertChunk, docVars, WorkTypes
          <5>2. c \in 1..upserted[v] \/ c = upserted[v] + 1
            BY <5>1, <3>6
          <5>3. pc[v] \in IngestionSteps /\ row'[cur[v]] = "live"
            BY <5>1, <3>6 DEF IngestionSteps
          <5> QED
            BY <5>1, <5>2, <5>3, LedgerStays
        <4>2. CASE upserted'[v] = 0
          BY <4>2, <3>6
        <4> QED
          BY <3>4, <3>6, <4>1, <4>2
      <3>7. ASSUME pc'[v] \in {"index_job", "index_doc"}, row'[cur'[v]] = "live"
            PROVE  AttemptPoints(cur'[v], attempts'[cur'[v]]) \subseteq manifests'
        <4>1. CASE InsertChunkManifests(v)
          BY <4>1 DEF InsertChunkManifests
        <4>2. CASE FinishJob(v)
          BY <3>7, <4>2, LedgerStays DEF FinishJob, IngestionSteps
        <4> QED
          BY <3>4, <3>7, <4>1, <4>2
      <3> QED
        BY <3>4, <3>5, <3>6, <3>7
    <2> QED
      BY <2>1, <2>2
  <1> QED
    BY <1>1, <1>2 DEF Ledger, AttemptPoints

\* A ledger row names a vector that is there; a document becomes indexed when
\* one of its attempts has all its rows.
LEMMA CompleteStep ==
  Inv /\ AttemptsCapped /\ Ledger /\ IndexedIsComplete /\ [Next]_vars
    => IndexedIsComplete'
  <1> SUFFICES ASSUME Inv, AttemptsCapped, Ledger, IndexedIsComplete, [Next]_vars,
                      NEW d \in Docs, row'[d] = "live"
               PROVE  /\ ManifestsOf(d)' \subseteq points'
                      /\ status'[d] = "indexed" =>
                           \E n \in 1..MaxAttempts :
                             AttemptPoints(d, n) \subseteq ManifestsOf(d)'
    BY DEF IndexedIsComplete, AttemptPoints
  <1> USE ConstantsAssumption
  <1>0. /\ TypeOK /\ DocTypes /\ WorkTypes /\ Holds /\ Owned /\ Uploaded
    BY DEF Inv, TypeOK
  <1>1. CASE row[d] = "absent"
    <2>1. UNCHANGED <<manifests, status>>
      BY <1>1, LiveWasLive
    <2> QED
      BY <1>1, <2>1 DEF Ledger, ManifestsOf
  <1>2. CASE row[d] = "live"
    <2>0. /\ ManifestsOf(d) \subseteq points
          /\ status[d] = "indexed" =>
               \E n \in 1..MaxAttempts : AttemptPoints(d, n) \subseteq ManifestsOf(d)
          /\ PointsOf(d) \subseteq points' /\ ManifestsOf(d) \subseteq ManifestsOf(d)'
      BY <1>2, LiveKeepsItsIndex DEF IndexedIsComplete, ManifestsOf
    <2>1. CASE \E w \in Workers : InsertChunkManifests(w)
      <3>1. PICK w \in Workers : InsertChunkManifests(w)
        BY <2>1
      <3>2. /\ points' = points /\ status' = status
            /\ manifests' = manifests \cup AttemptPoints(cur[w], attempts[cur[w]])
        BY <3>1 DEF InsertChunkManifests, storeVars
      <3>3. cur[w] = d => AttemptPoints(d, attempts[d]) \subseteq points
        BY <1>2, <3>1 DEF InsertChunkManifests, Ledger, AttemptPoints
      <3>4. ManifestsOf(d)' \subseteq points
        BY <2>0, <3>2, <3>3 DEF ManifestsOf, AttemptPoints
      <3> QED
        BY <2>0, <3>2, <3>4
    <2>2. CASE \E w \in Workers : MarkIndexed(w) /\ cur[w] = d
      <3>1. PICK w \in Workers : MarkIndexed(w) /\ cur[w] = d
        BY <2>2
      <3>2. points' = points /\ manifests' = manifests
        BY <3>1 DEF MarkIndexed, storeVars
      <3>3. AttemptPoints(d, attempts[d]) \subseteq ManifestsOf(d)
        BY <1>2, <3>1 DEF MarkIndexed, Ledger, AttemptPoints, ManifestsOf
      <3>4. attempts[d] \in 1..MaxAttempts
        BY <1>0, <3>1 DEF MarkIndexed, Ledger, AttemptsCapped, IngestionSteps, DocTypes
      <3> QED
        BY <2>0, <3>2, <3>3, <3>4 DEF ManifestsOf
    <2>3. CASE /\ \A w \in Workers : ~InsertChunkManifests(w)
               /\ \A w \in Workers : ~(MarkIndexed(w) /\ cur[w] = d)
      <3>1. manifests' \subseteq manifests /\ (status'[d] = "indexed" => status[d] = "indexed")
        BY <1>0, <2>3, LedgerWriters
      <3> QED
        BY <2>0, <3>1 DEF ManifestsOf, PointsOf
    <2> QED
      BY <2>1, <2>2, <2>3
  <1> QED
    BY <1>1, <1>2, LiveWasLive

-----------------------------------------------------------------------------
(* Theorems about attempts, tombstones, stranded jobs and the index *)

Bookkeeping ==
  AttemptsCapped /\ NoForgottenTombstone /\ Settling /\ OnlyDeathStrands
    /\ Ledger /\ IndexedIsComplete

LEMMA InitBookkeeping == Init => Bookkeeping
  <1> SUFFICES ASSUME Init PROVE Bookkeeping
    OBVIOUS
  <1> USE ConstantsAssumption DEF Init
  <1>1. AttemptsCapped /\ NoForgottenTombstone
    BY DEF AttemptsCapped, Claimable, Queued, NoForgottenTombstone
  <1>2. Settling /\ OnlyDeathStrands
    BY DEF Settling, OnlyDeathStrands, Stranded
  <1>3. Ledger /\ IndexedIsComplete
    BY DEF Ledger, IndexedIsComplete, ManifestsOf, IngestionSteps
  <1> QED
    BY <1>1, <1>2, <1>3 DEF Bookkeeping

\* What the attempts, tombstones and ledger rows are worth, in every reachable
\* state.
THEOREM BookkeepingInvariance == Spec => []Bookkeeping
  <1>1. Init => Bookkeeping
    BY InitBookkeeping
  <1>2. Inv /\ Bookkeeping /\ [Next]_vars => Bookkeeping'
    BY CappedStep, RememberedStep, SettlingStep, StrandedStep, LedgerStep, CompleteStep
    DEF Bookkeeping
  <1> QED
    BY <1>1, <1>2, Invariance, PTL DEF Spec

\* No job is claimed more often than its cap, and one that waits has an attempt
\* left, whatever the replicas and the crashes do.
THEOREM AttemptsStayCapped == Spec => []AttemptsCapped
  BY BookkeepingInvariance, PTL DEF Bookkeeping

\* A tombstone always has a request that is on its way to enqueue the clean-up,
\* a deletion job, or a request that died between its commits.
THEOREM TombstonesAreRemembered == Spec => []NoForgottenTombstone
  BY BookkeepingInvariance, PTL DEF Bookkeeping

\* As long as no worker is killed, the only jobs left as "processing" without a
\* worker are deletions whose cascade a foreign key refuses: for a legal draft, or
\* for an upload of the document that the DELETE request overtook.
THEOREM OnlyDeathLeavesJobs == Spec => []OnlyDeathStrands
  BY BookkeepingInvariance, PTL DEF Bookkeeping

\* A live document shown as indexed has every chunk of one attempt in the ledger,
\* and every ledger row of a live document names a vector that is there.
THEOREM IndexedDocumentsAreComplete == Spec => []IndexedIsComplete
  BY BookkeepingInvariance, PTL DEF Bookkeeping
=============================================================================
