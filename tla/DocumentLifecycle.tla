------------------------- MODULE DocumentLifecycle -------------------------
(***************************************************************************)
(* A document from upload to erasure: docs-api's upload and DELETE         *)
(* handlers, and the worker loop that drains the ingestion and deletion    *)
(* queues, over three stores that commit separately (Postgres rows, Qdrant *)
(* points, blobs).                                                         *)
(*                                                                         *)
(* One action is one commit or one external call, which is where the code  *)
(* can be interleaved with the other actors, fail, or be killed.  Every    *)
(* function of db/repositories.py commits its own transaction, so a        *)
(* handler that calls four of them is four actions.                        *)
(*                                                                         *)
(* A document has one version and one ingestion job, both named by it.  A  *)
(* DELETE request creates at most one deletion job, named by the request.  *)
(***************************************************************************)
EXTENDS Naturals, Sequences

CONSTANTS
  Docs,         \* documents, each a fresh uuid4 drawn by one upload
  Checksum,     \* Checksum[d]: SHA-256 of the uploaded bytes
  Requests,     \* DELETE requests
  Workers,      \* ingestion-worker replicas
  NumChunks,    \* chunks the extracted text of a document is cut into
  MaxAttempts,  \* MAX_INGESTION_ATTEMPTS and MAX_DELETION_ATTEMPTS
  DraftDocs,    \* documents that legal_drafts.document_id refers to
  MaxCrashes,   \* bound: worker processes killed from outside
  MaxFaults,    \* bound: docs-api requests that die between two commits
  None          \* no document and no request

ASSUME ConstantsAssumption ==
  /\ NumChunks \in Nat \ {0}
  /\ MaxAttempts \in Nat \ {0}
  /\ MaxCrashes \in Nat
  /\ MaxFaults \in Nat
  /\ DraftDocs \subseteq Docs
  /\ Docs \cap Requests = {}
  /\ None \notin Docs \cup Requests

VARIABLES
  (* documents, document_versions, ingestion_jobs, chunk_manifests *)
  row,         \* row[d]: the documents row and its deleted_at
  status,      \* status[d]: documents.current_status
  version,     \* version[d]: the document_versions row exists
  job,         \* job[d]: ingestion_jobs.status, "none" without a row
  attempts,    \* attempts[d]: ingestion_jobs.attempt_count
  queue,       \* the ingestion jobs in the order of started_at
  manifests,   \* the chunk_manifests rows, by the point they name
  (* deletion_jobs *)
  dstatus,     \* dstatus[r]: deletion_jobs.status, "none" without a row
  dattempts,   \* dattempts[r]: deletion_jobs.attempt_count
  dqueue,      \* the deletion jobs in the order of created_at
  (* Qdrant and blob storage *)
  points,      \* points <<document, attempt, chunk>>: a fresh id per attempt
  blob,        \* blob[d]: raw-documents holds the original
  (* handlers and processes *)
  upload,      \* upload[d]: where the upload request of d stands
  request,     \* request[r]: where the DELETE request r stands
  target,      \* target[r]: the document r deletes
  pc,          \* pc[w]: what worker w does next
  cur,         \* cur[w]: the document or deletion job w holds
  upserted,    \* upserted[w]: chunks w has written in this attempt
  txLedger,    \* txLedger[w]: chunk_manifests rows the open cascade of w deleted
  txRows,      \* txRows[w]: the job and version rows it deleted, and locks
  (* bounds and history *)
  crashes,     \* workers killed so far
  faults,      \* docs-api requests cut short so far
  late         \* documents tombstoned while their upload was still running

docVars  == <<row, status, version, job, attempts, queue, manifests>>
delVars  == <<dstatus, dattempts, dqueue>>
storeVars == <<points, blob>>
apiVars  == <<upload, request, target, faults, late>>
tx == <<txLedger, txRows>>
workVars == <<pc, cur, upserted, tx, crashes>>
vars == <<docVars, delVars, storeVars, apiVars, workVars>>

-----------------------------------------------------------------------------
JobStates == {"none", "queued", "processing", "retry_pending",
              "indexed", "failed", "cancelled"}
DeletionStates == {"none", "queued", "processing", "done", "failed"}

IngestionSteps == {"load", "extract", "upsert", "index_job", "index_doc",
                   "retryable", "permanent", "mark_failed"}
DeletionSteps == {"guard", "del_points", "del_blobs", "cascade",
                  "del_versions", "del_document", "del_done",
                  "del_retry", "del_dead"}

\* A documents row is there, tombstoned or not.
Exists(d) == row[d] \in {"live", "tombstoned"}

\* An upload request that has answered, or died, commits nothing any more.
UploadOver(d) == upload[d] \in {"answered", "deduplicated", "failed"}

PointsOf(d) == {p \in points : p[1] = d}
ManifestsOf(d) == {p \in manifests : p[1] = d}

\* The points one attempt at a document writes, in chunk order.
AttemptPoints(d, n) == {<<d, n, c>> : c \in 1..NumChunks}

\* The rows a cascade locks when it deletes them.
JobRow(d) == <<"job", d>>
VersionRow(d) == <<"version", d>>

\* A row that an open cascade has deleted is still there for everybody else, but
\* who would update it, lock it or refer to it waits for the transaction's end.
Locked(x) == \E w \in Workers : x \in txRows[w]

\* x was enqueued before y.
Before(q, x, y) == \E i, j \in DOMAIN q : i < j /\ q[i] = x /\ q[j] = y

Init ==
  /\ row = [d \in Docs |-> "absent"]
  /\ status = [d \in Docs |-> "queued"]
  /\ version = [d \in Docs |-> FALSE]
  /\ job = [d \in Docs |-> "none"]
  /\ attempts = [d \in Docs |-> 0]
  /\ queue = <<>>
  /\ manifests = {}
  /\ dstatus = [r \in Requests |-> "none"]
  /\ dattempts = [r \in Requests |-> 0]
  /\ dqueue = <<>>
  /\ points = {}
  /\ blob = [d \in Docs |-> FALSE]
  /\ upload = [d \in Docs |-> "idle"]
  /\ request = [r \in Requests |-> "idle"]
  /\ target = [r \in Requests |-> None]
  /\ pc = [w \in Workers |-> "idle"]
  /\ cur = [w \in Workers |-> None]
  /\ upserted = [w \in Workers |-> 0]
  /\ txLedger = [w \in Workers |-> {}]
  /\ txRows = [w \in Workers |-> {}]
  /\ crashes = 0
  /\ faults = 0
  /\ late = {}


-----------------------------------------------------------------------------
(* POST /documents: dedupe, then four commits, one of them in blob storage. *)

\* The per-owner checksum dedupe reads live documents only.
UploadCheck(d) ==
  /\ upload[d] = "idle"
  /\ \/ /\ \E e \in Docs : row[e] = "live" /\ Checksum[e] = Checksum[d]
        /\ upload' = [upload EXCEPT ![d] = "deduplicated"]
     \/ /\ \A e \in Docs : row[e] = "live" => Checksum[e] # Checksum[d]
        /\ upload' = [upload EXCEPT ![d] = "checked"]
  /\ UNCHANGED <<docVars, delVars, storeVars, workVars, request, target, faults, late>>

CreateDocument(d) ==
  /\ upload[d] = "checked"
  /\ row' = [row EXCEPT ![d] = "live"]
  /\ upload' = [upload EXCEPT ![d] = "created"]
  /\ UNCHANGED <<status, version, job, attempts, queue, manifests>>
  /\ UNCHANGED <<delVars, storeVars, workVars, request, target, faults, late>>

\* Nothing ties the blob to the row: the upload lands even on an erased document.
StoreBlob(d) ==
  /\ upload[d] = "created"
  /\ blob' = [blob EXCEPT ![d] = TRUE]
  /\ upload' = [upload EXCEPT ![d] = "stored"]
  /\ UNCHANGED <<docVars, delVars, points, workVars, request, target, faults, late>>

CreateVersion(d) ==
  /\ upload[d] = "stored"
  /\ Exists(d)
  /\ version' = [version EXCEPT ![d] = TRUE]
  /\ upload' = [upload EXCEPT ![d] = "versioned"]
  /\ UNCHANGED <<row, status, job, attempts, queue, manifests>>
  /\ UNCHANGED <<delVars, storeVars, workVars, request, target, faults, late>>

CreateJob(d) ==
  /\ upload[d] = "versioned"
  /\ version[d] /\ ~Locked(VersionRow(d))
  /\ job' = [job EXCEPT ![d] = "queued"]
  /\ attempts' = [attempts EXCEPT ![d] = 0]
  /\ queue' = Append(queue, d)
  /\ upload' = [upload EXCEPT ![d] = "answered"]
  /\ UNCHANGED <<row, status, version, manifests>>
  /\ UNCHANGED <<delVars, storeVars, workVars, request, target, faults, late>>

\* The foreign keys refuse a version without its document, a job without its
\* version: the request ends in a 500 and what it committed stays.
UploadRefused(d) ==
  /\ \/ upload[d] = "stored" /\ ~Exists(d)
     \/ upload[d] = "versioned" /\ ~version[d]
  /\ upload' = [upload EXCEPT ![d] = "failed"]
  /\ UNCHANGED <<docVars, delVars, storeVars, workVars, request, target, faults, late>>

\* An exception or a killed docs-api replica between two commits.
UploadFault(d) ==
  /\ upload[d] \in {"checked", "created", "stored", "versioned"}
  /\ faults < MaxFaults
  /\ faults' = faults + 1
  /\ upload' = [upload EXCEPT ![d] = "failed"]
  /\ UNCHANGED <<docVars, delVars, storeVars, workVars, request, target, late>>

UploadStep(d) ==
  \/ CreateDocument(d) \/ StoreBlob(d) \/ CreateVersion(d)
  \/ CreateJob(d) \/ UploadRefused(d)

-----------------------------------------------------------------------------
(* DELETE /documents/{id}: a read, then three commits that change state.    *)

ReadForDelete(r, d) ==
  /\ request[r] = "idle"
  /\ \/ row[d] = "erased" /\ request' = [request EXCEPT ![r] = "not_found"]
     \/ row[d] = "tombstoned" /\ request' = [request EXCEPT ![r] = "delete_pending"]
     \/ row[d] = "live" /\ request' = [request EXCEPT ![r] = "tombstone"]
  /\ target' = [target EXCEPT ![r] = d]
  /\ UNCHANGED <<docVars, delVars, storeVars, workVars, upload, faults, late>>

\* The UPDATE matches no row when another request's deletion job finished first.
TombstoneDocument(r) ==
  LET d == target[r] IN
  /\ request[r] = "tombstone"
  /\ row' = [row EXCEPT ![d] = IF Exists(d) THEN "tombstoned" ELSE row[d]]
  /\ late' = IF UploadOver(d) THEN late ELSE late \cup {d}
  /\ request' = [request EXCEPT ![r] = "cancel"]
  /\ UNCHANGED <<status, version, job, attempts, queue, manifests>>
  /\ UNCHANGED <<delVars, storeVars, workVars, upload, target, faults>>

\* Mutant: the UPDATE also cancels the job a worker is processing.
CancelAnyIngestion(r) ==
  LET d == target[r] IN
  /\ request[r] = "cancel"
  /\ ~Locked(JobRow(d))
  /\ job' = [job EXCEPT ![d] = IF job[d] \in {"queued", "retry_pending", "processing"}
                               THEN "cancelled" ELSE job[d]]
  /\ request' = [request EXCEPT ![r] = "enqueue"]
  /\ UNCHANGED <<row, status, version, attempts, queue, manifests>>
  /\ UNCHANGED <<delVars, storeVars, workVars, upload, target, faults, late>>

\* Mutant: the handler answers after the cancel and never enqueues.
CancelAndAnswer(r) ==
  LET d == target[r] IN
  /\ request[r] = "cancel"
  /\ ~Locked(JobRow(d))
  /\ job' = [job EXCEPT ![d] = IF job[d] \in {"queued", "retry_pending"}
                               THEN "cancelled" ELSE job[d]]
  /\ request' = [request EXCEPT ![r] = "accepted"]
  /\ UNCHANGED <<row, status, version, attempts, queue, manifests>>
  /\ UNCHANGED <<delVars, storeVars, workVars, upload, target, faults, late>>

CancelPendingIngestion(r) ==
  LET d == target[r] IN
  /\ request[r] = "cancel"
  /\ ~Locked(JobRow(d))
  /\ job' = [job EXCEPT ![d] = IF job[d] \in {"queued", "retry_pending"}
                               THEN "cancelled" ELSE job[d]]
  /\ request' = [request EXCEPT ![r] = "enqueue"]
  /\ UNCHANGED <<row, status, version, attempts, queue, manifests>>
  /\ UNCHANGED <<delVars, storeVars, workVars, upload, target, faults, late>>

CreateDeletionJob(r) ==
  /\ request[r] = "enqueue"
  /\ dstatus' = [dstatus EXCEPT ![r] = "queued"]
  /\ dattempts' = [dattempts EXCEPT ![r] = 0]
  /\ dqueue' = Append(dqueue, r)
  /\ request' = [request EXCEPT ![r] = "accepted"]
  /\ UNCHANGED <<docVars, storeVars, workVars, upload, target, faults, late>>

DeleteFault(r) ==
  /\ request[r] \in {"tombstone", "cancel", "enqueue"}
  /\ faults < MaxFaults
  /\ faults' = faults + 1
  /\ request' = [request EXCEPT ![r] = "failed"]
  /\ UNCHANGED <<docVars, delVars, storeVars, workVars, upload, target, late>>

DeleteStep(r) ==
  TombstoneDocument(r) \/ CancelPendingIngestion(r) \/ CreateDeletionJob(r)

-----------------------------------------------------------------------------
(* The worker loop: one ingestion job if there is one, else one deletion    *)
(* job, else sleep.  A claim is one transaction (FOR UPDATE SKIP LOCKED): it  *)
(* skips the rows a cascade has deleted, and those another claim has locked,  *)
(* which is the same as claiming after that claim.                           *)

\* Mutant: the claim's WHERE forgets the jobs waiting for a retry.
ClaimableOnce == {d \in Docs : job[d] = "queued" /\ ~Locked(JobRow(d))}

Claimable ==
  {d \in Docs : job[d] \in {"queued", "retry_pending"} /\ ~Locked(JobRow(d))}
Queued == {r \in Requests : dstatus[r] = "queued"}

Goto(w, step) == pc' = [pc EXCEPT ![w] = step]

\* The loop is back at its top, the connection back in the pool and what it had
\* not committed rolled back.
Release(w) ==
  /\ pc' = [pc EXCEPT ![w] = "idle"]
  /\ cur' = [cur EXCEPT ![w] = None]
  /\ upserted' = [upserted EXCEPT ![w] = 0]
  /\ txLedger' = [txLedger EXCEPT ![w] = {}]
  /\ txRows' = [txRows EXCEPT ![w] = {}]

\* Mutant: the claim selects the oldest job and does not mark it.
ClaimIngestionUnmarked(w) ==
  /\ pc[w] = "idle"
  /\ \E d \in Claimable :
       /\ \A e \in Claimable : ~Before(queue, e, d)
       /\ attempts' = [attempts EXCEPT ![d] = @ + 1]
       /\ cur' = [cur EXCEPT ![w] = d]
  /\ Goto(w, "load")
  /\ UNCHANGED <<row, status, version, job, queue, manifests>>
  /\ UNCHANGED <<delVars, storeVars, apiVars, upserted, tx, crashes>>

ClaimIngestion(w) ==
  /\ pc[w] = "idle"
  /\ \E d \in Claimable :
       /\ \A e \in Claimable : ~Before(queue, e, d)
       /\ job' = [job EXCEPT ![d] = "processing"]
       /\ attempts' = [attempts EXCEPT ![d] = @ + 1]
       /\ cur' = [cur EXCEPT ![w] = d]
  /\ Goto(w, "load")
  /\ UNCHANGED <<row, status, version, queue, manifests>>
  /\ UNCHANGED <<delVars, storeVars, apiVars, upserted, tx, crashes>>

NoIngestionJob(w) ==
  /\ pc[w] = "idle"
  /\ Claimable = {}
  /\ Goto(w, "poll")
  /\ UNCHANGED <<docVars, delVars, storeVars, apiVars, cur, upserted, tx, crashes>>

ClaimDeletion(w) ==
  /\ pc[w] = "poll"
  /\ \E r \in Queued :
       /\ \A q \in Queued : ~Before(dqueue, q, r)
       /\ dstatus' = [dstatus EXCEPT ![r] = "processing"]
       /\ dattempts' = [dattempts EXCEPT ![r] = @ + 1]
       /\ cur' = [cur EXCEPT ![w] = r]
  /\ Goto(w, "guard")
  /\ UNCHANGED <<docVars, storeVars, apiVars, dqueue, upserted, tx, crashes>>

NothingToDo(w) ==
  /\ pc[w] = "poll"
  /\ Queued = {}
  /\ Goto(w, "idle")
  /\ UNCHANGED <<docVars, delVars, storeVars, apiVars, cur, upserted, tx, crashes>>

(* process_job *)

\* Mutant: the document is read without the deleted_at filter.
LoadAnyDocument(w) ==
  LET d == cur[w] IN
  /\ pc[w] = "load"
  /\ Goto(w, IF version[d] /\ Exists(d) THEN "extract" ELSE "permanent")
  /\ UNCHANGED <<docVars, delVars, storeVars, apiVars, cur, upserted, tx, crashes>>

\* The version and the live document are read once, here.
LoadDocument(w) ==
  LET d == cur[w] IN
  /\ pc[w] = "load"
  /\ Goto(w, IF version[d] /\ row[d] = "live" THEN "extract" ELSE "permanent")
  /\ UNCHANGED <<docVars, delVars, storeVars, apiVars, cur, upserted, tx, crashes>>

\* Download, scan, extract, title, chunk and embed: nothing here that another
\* actor's step depends on.
Extract(w) ==
  /\ pc[w] = "extract"
  /\ blob[cur[w]]
  /\ Goto(w, "upsert")
  /\ UNCHANGED <<docVars, delVars, storeVars, apiVars, cur, upserted, tx, crashes>>

\* Malware, a scan without OCR credentials, a document without text.
RejectContent(w) ==
  /\ pc[w] = "extract"
  /\ blob[cur[w]]
  /\ Goto(w, "permanent")
  /\ UNCHANGED <<docVars, delVars, storeVars, apiVars, cur, upserted, tx, crashes>>

\* Mutant: one chunk too many.
UpsertPastTheEnd(w) ==
  LET d == cur[w] IN
  /\ pc[w] = "upsert"
  /\ upserted[w] <= NumChunks
  /\ points' = points \cup {<<d, attempts[d], upserted[w] + 1>>}
  /\ upserted' = [upserted EXCEPT ![w] = @ + 1]
  /\ UNCHANGED <<docVars, delVars, blob, apiVars, pc, cur, tx, crashes>>

UpsertChunk(w) ==
  LET d == cur[w] IN
  /\ pc[w] = "upsert"
  /\ upserted[w] < NumChunks
  /\ points' = points \cup {<<d, attempts[d], upserted[w] + 1>>}
  /\ upserted' = [upserted EXCEPT ![w] = @ + 1]
  /\ UNCHANGED <<docVars, delVars, blob, apiVars, pc, cur, tx, crashes>>

\* Mutant: the ledger is written before the last chunk's vector.
InsertManifestsEarly(w) ==
  LET d == cur[w] IN
  /\ pc[w] = "upsert"
  /\ upserted[w] >= NumChunks - 1
  /\ version[d]
  /\ manifests' = manifests \cup AttemptPoints(d, attempts[d])
  /\ Goto(w, "index_job")
  /\ UNCHANGED <<row, status, version, job, attempts, queue>>
  /\ UNCHANGED <<delVars, storeVars, apiVars, cur, upserted, tx, crashes>>

InsertChunkManifests(w) ==
  LET d == cur[w] IN
  /\ pc[w] = "upsert"
  /\ upserted[w] = NumChunks
  /\ version[d]
  /\ manifests' = manifests \cup AttemptPoints(d, attempts[d])
  /\ Goto(w, "index_job")
  /\ UNCHANGED <<row, status, version, job, attempts, queue>>
  /\ UNCHANGED <<delVars, storeVars, apiVars, cur, upserted, tx, crashes>>

FinishJob(w) ==
  LET d == cur[w] IN
  /\ pc[w] = "index_job"
  /\ ~Locked(JobRow(d))
  /\ job' = [job EXCEPT ![d] = IF @ = "none" THEN @ ELSE "indexed"]
  /\ Goto(w, "index_doc")
  /\ UNCHANGED <<row, status, version, attempts, queue, manifests>>
  /\ UNCHANGED <<delVars, storeVars, apiVars, cur, upserted, tx, crashes>>

MarkIndexed(w) ==
  LET d == cur[w] IN
  /\ pc[w] = "index_doc"
  /\ status' = [status EXCEPT ![d] = IF Exists(d) THEN "indexed" ELSE @]
  /\ Release(w)
  /\ UNCHANGED <<row, version, job, attempts, queue, manifests>>
  /\ UNCHANGED <<delVars, storeVars, apiVars, crashes>>

\* A call to Qdrant, blob storage, the scanner, the extractor or the embedder
\* raises.  An upsert whose answer is lost has written its point all the same,
\* which is why the last one can still fail after every point is there.
StageFault(w) ==
  /\ pc[w] \in {"load", "extract", "upsert"}
  /\ Goto(w, "retryable")
  /\ UNCHANGED <<docVars, delVars, storeVars, apiVars, cur, upserted, tx, crashes>>

\* Mutant: one attempt more than the cap.
HandleJobFailureLate(w) ==
  LET d    == cur[w]
      dead == pc[w] = "permanent" \/ attempts[d] > MaxAttempts
      next == IF dead THEN "failed" ELSE "retry_pending"
  IN
  /\ pc[w] \in {"retryable", "permanent"}
  /\ ~Locked(JobRow(d))
  /\ job' = [job EXCEPT ![d] = IF @ = "none" THEN @ ELSE next]
  /\ \/ dead /\ Goto(w, "mark_failed") /\ UNCHANGED <<cur, upserted, tx>>
     \/ ~dead /\ Release(w)
  /\ UNCHANGED <<row, status, version, attempts, queue, manifests>>
  /\ UNCHANGED <<delVars, storeVars, apiVars, crashes>>

\* Mutant: the handler logs a transient failure and leaves the row alone.
LogJobFailure(w) ==
  /\ pc[w] \in {"retryable", "permanent"}
  /\ Release(w)
  /\ UNCHANGED <<docVars, delVars, storeVars, apiVars, crashes>>

\* handle_job_failure: the job row first.
HandleJobFailure(w) ==
  LET d    == cur[w]
      dead == pc[w] = "permanent" \/ attempts[d] >= MaxAttempts
      next == IF dead THEN "failed" ELSE "retry_pending"
  IN
  /\ pc[w] \in {"retryable", "permanent"}
  /\ ~Locked(JobRow(d))
  /\ job' = [job EXCEPT ![d] = IF @ = "none" THEN @ ELSE next]
  /\ \/ dead /\ Goto(w, "mark_failed") /\ UNCHANGED <<cur, upserted, tx>>
     \/ ~dead /\ Release(w)
  /\ UNCHANGED <<row, status, version, attempts, queue, manifests>>
  /\ UNCHANGED <<delVars, storeVars, apiVars, crashes>>

\* Then the status the Documents page shows, if the version is still there.
MarkFailed(w) ==
  LET d == cur[w] IN
  /\ pc[w] = "mark_failed"
  /\ status' = [status EXCEPT ![d] = IF version[d] THEN "failed" ELSE @]
  /\ Release(w)
  /\ UNCHANGED <<row, version, job, attempts, queue, manifests>>
  /\ UNCHANGED <<delVars, storeVars, apiVars, crashes>>

(* process_deletion *)

\* Mutant: no guard.
GuardNothing(w) ==
  /\ pc[w] = "guard"
  /\ Goto(w, "del_points")
  /\ UNCHANGED <<docVars, delVars, storeVars, apiVars, cur, upserted, tx, crashes>>

\* has_processing_ingestion_job: the check that the rest of the job acts on.
GuardInFlight(w) ==
  LET d == target[cur[w]] IN
  /\ pc[w] = "guard"
  /\ Goto(w, IF version[d] /\ job[d] = "processing" THEN "del_retry" ELSE "del_points")
  /\ UNCHANGED <<docVars, delVars, storeVars, apiVars, cur, upserted, tx, crashes>>

DeletePoints(w) ==
  LET d == target[cur[w]] IN
  /\ pc[w] = "del_points"
  /\ points' = points \ PointsOf(d)
  /\ Goto(w, "del_blobs")
  /\ UNCHANGED <<docVars, delVars, blob, apiVars, cur, upserted, tx, crashes>>

DeleteBlobs(w) ==
  LET d == target[cur[w]] IN
  /\ pc[w] = "del_blobs"
  /\ blob' = [blob EXCEPT ![d] = FALSE]
  /\ Goto(w, "cascade")
  /\ UNCHANGED <<docVars, delVars, points, apiVars, cur, upserted, tx, crashes>>

(* delete_document_cascade: one transaction of four DELETEs in the order of   *)
(* their foreign keys, none of which cascades.  Each statement sees what was  *)
(* committed before it; nobody sees the transaction before its commit.        *)

\* Another cascade of the same document has deleted rows this one must wait for.
Waits(w) ==
  \E v \in Workers \ {w} :
    \E x \in txRows[v] : x \in {JobRow(target[cur[w]]), VersionRow(target[cur[w]])}

\* A row that no earlier statement saw refers to what the next one deletes: an
\* upload committed its version or its job meanwhile, or a draft was finalized.
Referenced(w) ==
  LET d == target[cur[w]] IN
  \/ ~(ManifestsOf(d) \subseteq txLedger[w])
  \/ pc[w] = "del_versions" /\ job[d] # "none" /\ JobRow(d) \notin txRows[w]
  \/ pc[w] = "del_document" /\ version[d] /\ VersionRow(d) \notin txRows[w]
  \/ pc[w] = "del_document" /\ Exists(d) /\ d \in DraftDocs

\* The ledger rows, then the job.
SweepJobs(w) ==
  LET d == target[cur[w]] IN
  /\ pc[w] = "cascade"
  /\ ~Waits(w)
  /\ txLedger' = [txLedger EXCEPT ![w] = ManifestsOf(d)]
  /\ txRows' = [txRows EXCEPT ![w] = {x \in {JobRow(d)} : job[d] # "none"}]
  /\ Goto(w, "del_versions")
  /\ UNCHANGED <<docVars, delVars, storeVars, apiVars, cur, upserted, crashes>>

SweepVersions(w) ==
  LET d == target[cur[w]] IN
  /\ pc[w] = "del_versions"
  /\ ~Waits(w) /\ ~Referenced(w)
  /\ txRows' = [txRows EXCEPT ![w] = @ \cup {x \in {VersionRow(d)} : version[d]}]
  /\ Goto(w, "del_document")
  /\ UNCHANGED <<docVars, delVars, storeVars, apiVars, cur, upserted, txLedger, crashes>>

\* The documents row and the commit.
CommitCascade(w) ==
  LET d == target[cur[w]] IN
  /\ pc[w] = "del_document"
  /\ ~Waits(w) /\ ~Referenced(w)
  /\ manifests' = manifests \ txLedger[w]
  /\ job' = [job EXCEPT ![d] = IF JobRow(d) \in txRows[w] THEN "none" ELSE @]
  /\ version' = [version EXCEPT ![d] = @ /\ VersionRow(d) \notin txRows[w]]
  /\ row' = [row EXCEPT ![d] = "erased"]
  /\ txLedger' = [txLedger EXCEPT ![w] = {}]
  /\ txRows' = [txRows EXCEPT ![w] = {}]
  /\ Goto(w, "del_done")
  /\ UNCHANGED <<status, attempts, queue>>
  /\ UNCHANGED <<delVars, storeVars, apiVars, cur, upserted, crashes>>

FinishDeletion(w) ==
  /\ pc[w] = "del_done"
  /\ dstatus' = [dstatus EXCEPT ![cur[w]] = "done"]
  /\ Release(w)
  /\ UNCHANGED <<docVars, dattempts, dqueue, storeVars, apiVars, crashes>>

\* Qdrant or blob storage raises; a call whose answer is lost has had its effect,
\* which is why the cascade may not be reached after the blobs are gone.
DeletionFault(w) ==
  /\ pc[w] \in {"del_points", "del_blobs", "cascade"}
  /\ Goto(w, "del_dead")
  /\ UNCHANGED <<docVars, delVars, storeVars, apiVars, cur, upserted, tx, crashes>>

\* Mutant: an attempt that the guard turned away is logged and its row left alone.
LogDeletionRetry(w) ==
  LET r     == cur[w]
      again == pc[w] = "del_retry" /\ dattempts[r] < MaxAttempts
  IN
  /\ pc[w] \in {"del_retry", "del_dead"}
  /\ dstatus' = [dstatus EXCEPT ![r] = IF again THEN @ ELSE "failed"]
  /\ Release(w)
  /\ UNCHANGED <<docVars, dattempts, dqueue, storeVars, apiVars, crashes>>

\* handle_deletion_failure: only the guard's error is worth another attempt.
HandleDeletionFailure(w) ==
  LET r     == cur[w]
      again == pc[w] = "del_retry" /\ dattempts[r] < MaxAttempts
  IN
  /\ pc[w] \in {"del_retry", "del_dead"}
  /\ dstatus' = [dstatus EXCEPT ![r] = IF again THEN "queued" ELSE "failed"]
  /\ Release(w)
  /\ UNCHANGED <<docVars, dattempts, dqueue, storeVars, apiVars, crashes>>

(* How a worker process ends.  The container restarts it at the top of its  *)
(* loop; the claim it had committed stays behind as a "processing" row.     *)

\* Two cascades of one document, a row of which came between their statements:
\* each waits for a row the other has locked, and Postgres ends one of them.
Deadlocked(w) ==
  \E v \in Workers \ {w} :
    /\ pc[w] \in {"del_versions", "del_document"} /\ pc[v] = pc[w]
    /\ target[cur[v]] = target[cur[w]]
    /\ txRows[v] # txRows[w]

\* A foreign key refuses the DELETE.  The error leaves the transaction aborted, so
\* the failure handler's own UPDATE raises too and the exception leaves run_forever.
CascadeRefused(w) ==
  /\ pc[w] \in {"del_versions", "del_document"}
  /\ (~Waits(w) /\ Referenced(w)) \/ Deadlocked(w)
  /\ Release(w)
  /\ UNCHANGED <<docVars, delVars, storeVars, apiVars, crashes>>

\* Killed from outside, or the database connection is lost.
Crash(w) ==
  /\ pc[w] \in IngestionSteps \cup DeletionSteps
  /\ crashes < MaxCrashes
  /\ crashes' = crashes + 1
  /\ Release(w)
  /\ UNCHANGED <<docVars, delVars, storeVars, apiVars>>

IngestionStep(w) ==
  \/ ClaimIngestion(w) \/ NoIngestionJob(w) \/ LoadDocument(w) \/ Extract(w)
  \/ RejectContent(w) \/ UpsertChunk(w) \/ InsertChunkManifests(w)
  \/ FinishJob(w) \/ MarkIndexed(w) \/ StageFault(w) \/ HandleJobFailure(w)
  \/ MarkFailed(w)

DeletionStep(w) ==
  \/ ClaimDeletion(w) \/ NothingToDo(w) \/ GuardInFlight(w) \/ DeletePoints(w)
  \/ DeleteBlobs(w) \/ SweepJobs(w) \/ SweepVersions(w) \/ CommitCascade(w)
  \/ CascadeRefused(w) \/ FinishDeletion(w) \/ DeletionFault(w)
  \/ HandleDeletionFailure(w)

WorkerStep(w) == IngestionStep(w) \/ DeletionStep(w)

-----------------------------------------------------------------------------
Next ==
  \/ \E d \in Docs : UploadCheck(d) \/ UploadStep(d) \/ UploadFault(d)
  \/ \E r \in Requests, d \in Docs : ReadForDelete(r, d)
  \/ \E r \in Requests : DeleteStep(r) \/ DeleteFault(r)
  \/ \E w \in Workers : WorkerStep(w) \/ Crash(w)

Spec == Init /\ [][Next]_vars

\* The worker loop never stops and a request that has started goes on; nobody
\* has to upload or delete anything, and nothing has to fail.
Fairness ==
  /\ \A d \in Docs : WF_vars(UploadStep(d))
  /\ \A r \in Requests : WF_vars(DeleteStep(r))
  /\ \A w \in Workers : WF_vars(WorkerStep(w))

FairSpec == Spec /\ Fairness

-----------------------------------------------------------------------------
(* Properties *)

DocTypes ==
  /\ row \in [Docs -> {"absent", "live", "tombstoned", "erased"}]
  /\ status \in [Docs -> {"queued", "indexed", "failed"}]
  /\ version \in [Docs -> BOOLEAN]
  /\ job \in [Docs -> JobStates]
  /\ attempts \in [Docs -> Nat]
  /\ queue \in Seq(Docs)
  /\ manifests \subseteq Docs \X Nat \X Nat

DelTypes ==
  /\ dstatus \in [Requests -> DeletionStates]
  /\ dattempts \in [Requests -> Nat]
  /\ dqueue \in Seq(Requests)

StoreTypes ==
  /\ points \subseteq Docs \X Nat \X Nat
  /\ blob \in [Docs -> BOOLEAN]

ApiTypes ==
  /\ upload \in [Docs -> {"idle", "deduplicated", "checked", "created", "stored",
                          "versioned", "answered", "failed"}]
  /\ request \in [Requests -> {"idle", "not_found", "delete_pending", "tombstone",
                               "cancel", "enqueue", "accepted", "failed"}]
  /\ target \in [Requests -> Docs \cup {None}]
  /\ faults \in 0..MaxFaults
  /\ late \subseteq Docs

WorkTypes ==
  /\ pc \in [Workers -> {"idle", "poll"} \cup IngestionSteps \cup DeletionSteps]
  /\ cur \in [Workers -> Docs \cup Requests \cup {None}]
  /\ upserted \in [Workers -> 0..NumChunks]
  /\ txLedger \in [Workers -> SUBSET (Docs \X Nat \X Nat)]
  /\ txRows \in [Workers -> SUBSET ({"job", "version"} \X Docs)]
  /\ crashes \in 0..MaxCrashes

\* Every variable keeps its type, and no attempt writes more chunks than the
\* text was cut into (pipeline.py process_job).
TypeOK == DocTypes /\ DelTypes /\ StoreTypes /\ ApiTypes /\ WorkTypes

\* deletion.py:47-66, the in-flight guard, with pipeline.py:70, the read of the
\* live document: whatever the ingestion and the deletion of a document do to
\* each other, with any number of replicas and wherever one is killed, no
\* vector, ledger row or job of an erased document is left.  Its original is
\* left only when DELETE overtook an upload that was still storing it.
NothingSurvivesErasure ==
  \A d \in Docs : row[d] = "erased" =>
    /\ PointsOf(d) = {}
    /\ ManifestsOf(d) = {}
    /\ job[d] = "none"
    /\ blob[d] => d \in late

\* pipeline.py process_job: a document the user can see is never shown as
\* indexed with part of its chunks missing, and every ledger row names a vector
\* that is there, across retries, crashes and deletions of other documents.
IndexedIsComplete ==
  \A d \in Docs : row[d] = "live" =>
    /\ ManifestsOf(d) \subseteq points
    /\ status[d] = "indexed" =>
         \E n \in 1..MaxAttempts : AttemptPoints(d, n) \subseteq ManifestsOf(d)

\* main.py delete_my_document: a tombstone is forgotten only through a request
\* that died between its commits; otherwise a request is still on its way to
\* enqueue the clean-up, or a deletion job has it.
NoForgottenTombstone ==
  \A d \in Docs : row[d] = "tombstoned" =>
    \E r \in Requests :
      /\ target[r] = d
      /\ dstatus[r] # "none" \/ request[r] \in {"cancel", "enqueue", "failed"}

\* repositories.py claim_next_ingestion_job and claim_next_deletion_job: no two
\* workers ever hold the same job.
ExclusiveClaim ==
  \A v, w \in Workers : cur[v] # None /\ cur[v] = cur[w] => v = w

Held(j) == \E w \in Workers : cur[w] = j

\* Jobs marked as processing that no worker is processing.
Stranded ==
  {d \in Docs : job[d] = "processing" /\ ~Held(d)}
    \cup {r \in Requests : dstatus[r] = "processing" /\ ~Held(r)}

\* Deletions that a foreign key may refuse: a legal draft refers to the document,
\* or its upload was still running when it was deleted.
Refusable == {r \in Requests : target[r] \in DraftDocs \cup late}

\* worker.py run_forever: a worker lets go of a claim only after it settled or
\* rescheduled it.  Nothing but a killed process, or a cascade that a foreign key
\* refuses, leaves a job behind as "processing", and no ingestion job is left so
\* by the latter.
OnlyDeathStrands == crashes = 0 => Stranded \subseteq Refusable

\* MAX_INGESTION_ATTEMPTS and MAX_DELETION_ATTEMPTS: no job is claimed more
\* often than its cap, and one that waits has an attempt left.
AttemptsCapped ==
  /\ \A d \in Docs : /\ attempts[d] <= MaxAttempts
                     /\ job[d] \in {"queued", "retry_pending"} =>
                          attempts[d] < MaxAttempts
  /\ \A r \in Requests : /\ dattempts[r] <= MaxAttempts
                         /\ r \in Queued => dattempts[r] < MaxAttempts

\* A finished job is finished: an indexed, failed or cancelled job never runs
\* again (it only disappears with its document), a settled deletion job neither.
FinishedJobsStayFinished ==
  [][/\ \A d \in Docs : job[d] \in {"indexed", "failed", "cancelled"} =>
                          job'[d] \in {job[d], "none"}
     /\ \A r \in Requests : dstatus[r] \in {"done", "failed"} =>
                              dstatus'[r] = dstatus[r]]_vars

\* worker.py run_forever: every enqueued ingestion job is settled, unless a
\* worker was killed.
IngestionSettles ==
  \A d \in Docs :
    job[d] \in {"queued", "retry_pending", "processing"} ~>
      (job[d] \in {"none", "indexed", "failed", "cancelled"} \/ crashes > 0)

\* Every enqueued deletion job is settled, also one that has to wait for an
\* ingestion in flight, unless a worker was killed or a foreign key refused it.
DeletionSettles ==
  \A r \in Requests :
    dstatus[r] \in {"queued", "processing"} ~>
      (dstatus[r] \in {"done", "failed"} \/ crashes > 0 \/ r \in Refusable)

\* A document is searchable while the index holds a vector of it.
Searchable == {d \in Docs : PointsOf(d) # {}}

View == INSTANCE DocumentView WITH phase <- row, searchable <- Searchable

\* The lifecycle keeps what DocumentView promises.
ImplementsView == View!ViewSpec

-----------------------------------------------------------------------------
(* What comments and documents say of the code, and the code does not do.   *)

\* repositories.py:501 "at-least-once delivery", docs/21:208 "a crash mid-job
\* and re-claim is safe": a claimed job does not stay claimed for ever.
ClaimedWorkIsRedelivered ==
  /\ \A d \in Docs : job[d] = "processing" ~> job[d] # "processing"
  /\ \A r \in Requests : dstatus[r] = "processing" ~> dstatus[r] # "processing"

\* pipeline.py:3-5 "deleting-then-reinserting ... rather than appending
\* duplicates on retry": an indexed document has each chunk once.
RetryLeavesNoDuplicates ==
  \A d \in Docs : row[d] = "live" /\ status[d] = "indexed" =>
    \A p, q \in PointsOf(d) : p[3] = q[3] => p = q

\* worker.py:77, 96 "top-level job loop must never crash the worker": no job
\* makes the process leave run_forever.
JobsNeverKillTheWorker ==
  [][\A w \in Workers : ~CascadeRefused(w)]_vars

=============================================================================
