------------------------------- MODULE Filing -------------------------------
(***************************************************************************)
(* Where a document comes from and where it is filed: uploads, the archive *)
(* fan-out of the worker (_unpack_archive_job), and the PATCH that moves a *)
(* document to another spoke, against the one thing retrieval filters on,  *)
(* the copy of the spoke in the payload of every Qdrant point.             *)
(*                                                                         *)
(* DocumentLifecycle tells how jobs are settled and documents erased, call *)
(* by call; here a stage of the worker is one action, a failure and its    *)
(* handling are one action, and a tombstoned document just stays.          *)
(*                                                                         *)
(* A document is named by its place in docs, the order of creation.  What  *)
(* it holds is a file of module Archive: a zip also has its members.       *)
(***************************************************************************)
EXTENDS Archive

CONSTANTS
  Uploads,        \* POST /documents and POST /documents/generated requests
  Files,          \* the files those requests may carry
  Declared,       \* the content types they may declare
  Moves,          \* PATCH /documents/{id} requests
  Workers,        \* ingestion-worker replicas
  Spokes,         \* DocumentSpoke
  General,        \* the default spoke of create_document
  MaxAttempts,    \* MAX_INGESTION_ATTEMPTS
  RetryAttempts,  \* attempts of retry_transient
  MaxDocs,        \* bound: documents created
  MaxDeletes,     \* bound: documents deleted
  MaxFaults       \* bound: calls that fail, requests that die, workers killed

ASSUME FilingAssumption ==
  /\ General \in Spokes
  /\ {MaxAttempts, RetryAttempts} \subseteq Nat \ {0}
  /\ {MaxDocs, MaxDeletes, MaxFaults} \subseteq Nat

ASSUME FilesAssumption == \A f \in Files : f.members \in Seq(Member)

VARIABLES
  docs,     \* documents rows and their one ingestion_jobs row
  queue,    \* documents in the order of their jobs' started_at
  points,   \* <<document, spoke>>: a point of it carries that spoke
  upload,   \* upload[u]: where an upload request stands
  move,     \* move[m]: where a PATCH request stands
  worker,   \* worker[w]: what a worker holds and does next
  faults,   \* calls failed, requests dead and workers killed so far
  lapsed    \* history: documents whose points the code has let lag behind

apiVars == <<upload, move>>
vars == <<docs, queue, points, upload, move, worker, faults, lapsed>>

-----------------------------------------------------------------------------
JobStates == {"none", "queued", "processing", "retry_pending", "indexed",
              "unpacked", "failed", "cancelled"}

NewDocument(bytes, spoke, archive) ==
  [bytes |-> bytes, spoke |-> spoke, from |-> archive, live |-> TRUE,
   job |-> "none", attempts |-> 0]

IdleUpload == [at |-> "idle", doc |-> 0, file |-> <<>>, spoke |-> General]
IdleMove   == [at |-> "idle", doc |-> 0, spoke |-> General, tries |-> 0, clean |-> FALSE]
IdleWorker == [at |-> "idle", doc |-> 0, spoke |-> General, entries |-> <<>>,
               child |-> 0, found |-> FALSE]

Init ==
  /\ docs = <<>>
  /\ queue = <<>>
  /\ points = {}
  /\ upload = [u \in Uploads |-> IdleUpload]
  /\ move = [m \in Moves |-> IdleMove]
  /\ worker = [w \in Workers |-> IdleWorker]
  /\ faults = 0
  /\ lapsed = {}

\* Mutant: only a document that is already indexed counts as known.
KnownIndexed(file) ==
  \E d \in DOMAIN docs : docs[d].job = "indexed" /\ docs[d].bytes.sum = file.sum

\* get_document_by_checksum: live documents only.
Known(file) == \E d \in DOMAIN docs : docs[d].live /\ docs[d].bytes.sum = file.sum

IsArchive(d) == docs[d].bytes.content = "zip"
Entries(d) == ExtractArchive(docs[d].bytes.members).entries

\* Between the commit of its row and its answer a move owes Qdrant an update.
Owing == {"updated", "propagate"}
OwingMoves(d) == {m \in Moves : move[m].at \in Owing /\ move[m].doc = d}

\* Workers that go by a copy of the row of d.
Copying == {"index", "upserted"}
Holders(d) == {w \in Workers : worker[w].at \in Copying /\ worker[w].doc = d}

CreateJob(d) ==
  /\ docs' = [docs EXCEPT ![d].job = "queued"]
  /\ queue' = Append(queue, d)

-----------------------------------------------------------------------------
(* upload_document and create_generated_document: the gate, the dedupe, the *)
(* row, then blob, version and job, of which only the job can be seen here. *)

UploadRejected(u) ==
  /\ upload[u].at = "idle"
  /\ \E f \in Files, t \in Declared : ~ValidUpload(t, f)
  /\ upload' = [upload EXCEPT ![u].at = "over"]
  /\ UNCHANGED <<docs, queue, points, move, worker, faults, lapsed>>

UploadChecked(u) ==
  /\ upload[u].at = "idle"
  /\ \E f \in Files, s \in Spokes :
       /\ \E t \in Declared : ValidUpload(t, f)
       /\ upload' = [upload EXCEPT ![u] =
            IF Known(f) THEN [IdleUpload EXCEPT !.at = "over"]
            ELSE [IdleUpload EXCEPT !.at = "checked", !.file = f, !.spoke = s]]
  /\ UNCHANGED <<docs, queue, points, move, worker, faults, lapsed>>

RegisterDocument(u) ==
  /\ upload[u].at = "checked"
  /\ Len(docs) < MaxDocs
  /\ docs' = Append(docs, NewDocument(upload[u].file, upload[u].spoke, 0))
  /\ upload' = [upload EXCEPT ![u] = [IdleUpload EXCEPT !.at = "registered",
                                                        !.doc = Len(docs) + 1]]
  /\ UNCHANGED <<queue, points, move, worker, faults, lapsed>>

EnqueueUpload(u) ==
  /\ upload[u].at = "registered"
  /\ CreateJob(upload[u].doc)
  /\ upload' = [upload EXCEPT ![u] = [IdleUpload EXCEPT !.at = "over"]]
  /\ UNCHANGED <<points, move, worker, faults, lapsed>>

\* The blob store or the database refuses, or docs-api is restarted: the row
\* stays without a job.
UploadDies(u) ==
  /\ upload[u].at = "registered"
  /\ faults < MaxFaults
  /\ faults' = faults + 1
  /\ upload' = [upload EXCEPT ![u] = [IdleUpload EXCEPT !.at = "over"]]
  /\ UNCHANGED <<docs, queue, points, move, worker, lapsed>>

UploadStep(u) == \/ UploadRejected(u) \/ UploadChecked(u) \/ RegisterDocument(u)
                 \/ EnqueueUpload(u) \/ UploadDies(u)

-----------------------------------------------------------------------------
(* DELETE: the tombstone and the cancelled job, whose steps apart and whose *)
(* clean-up are in DocumentLifecycle.                                       *)

Delete(d) ==
  /\ docs[d].live
  /\ Cardinality({e \in DOMAIN docs : ~docs[e].live}) < MaxDeletes
  /\ docs' = [docs EXCEPT ![d].live = FALSE,
                          ![d].job = IF @ \in {"queued", "retry_pending"}
                                     THEN "cancelled" ELSE @]
  /\ UNCHANGED <<queue, points, apiVars, worker, faults, lapsed>>

-----------------------------------------------------------------------------
(* The worker. *)

Claimable(d) == docs[d].job \in {"queued", "retry_pending"}

Release(w) == worker' = [worker EXCEPT ![w] = IdleWorker]

Settle(w, state) ==
  /\ docs' = [docs EXCEPT ![worker[w].doc].job = state]
  /\ Release(w)
  /\ UNCHANGED <<queue, points, apiVars, faults, lapsed>>

\* handle_job_failure, of an error that is not a PermanentJobFailure.
Reschedule(w) ==
  LET d == worker[w].doc IN
  /\ docs' = [docs EXCEPT ![d].job = IF docs[d].attempts >= MaxAttempts
                                     THEN "failed" ELSE "retry_pending"]
  /\ Release(w)

Claim(w) ==
  /\ worker[w].at = "idle"
  /\ \E i \in DOMAIN queue :
       /\ Claimable(queue[i])
       /\ \A j \in 1..(i - 1) : ~Claimable(queue[j])
       /\ docs' = [docs EXCEPT ![queue[i]].job = "processing",
                               ![queue[i]].attempts = @ + 1]
       /\ worker' = [worker EXCEPT ![w] = [IdleWorker EXCEPT !.at = "load", !.doc = queue[i]]]
  /\ UNCHANGED <<queue, points, apiVars, faults, lapsed>>

\* get_document copies the row, its spoke included, for the whole attempt.
Load(w) ==
  LET d == worker[w].doc IN
  /\ worker[w].at = "load"
  /\ docs[d].live
  /\ worker' = [worker EXCEPT ![w].spoke = docs[d].spoke,
                              ![w].at = IF IsArchive(d) THEN "unpack" ELSE "index"]
  /\ UNCHANGED <<docs, queue, points, apiVars, faults, lapsed>>

\* PermanentJobFailure: deleted meanwhile; malware, no text or no OCR, before
\* anything is written.
FailPermanently(w) ==
  /\ worker[w].at \in {"load", "unpack", "index"}
  /\ worker[w].at = "load" => ~docs[worker[w].doc].live
  /\ Settle(w, "failed")

UpsertChunk(w) ==
  /\ worker[w].at \in Copying
  /\ points' = points \cup {<<worker[w].doc, worker[w].spoke>>}
  /\ worker' = [worker EXCEPT ![w].at = "upserted"]
  /\ UNCHANGED <<docs, queue, apiVars, faults, lapsed>>

SealDocument(w) ==
  /\ worker[w].at = "upserted"
  /\ Settle(w, "indexed")

(* The fan-out of an archive. *)

Unpack(w) ==
  LET archive == docs[worker[w].doc].bytes.members IN
  /\ worker[w].at = "unpack"
  /\ ExtractArchive(archive).outcome = "extracted"
  /\ worker' = [worker EXCEPT ![w].at = "visit",
                              ![w].entries = ExtractArchive(archive).entries]
  /\ UNCHANGED <<docs, queue, points, apiVars, faults, lapsed>>

UnpackRefused(w) ==
  /\ worker[w].at = "unpack"
  /\ ExtractArchive(docs[worker[w].doc].bytes.members).outcome = "refused"
  /\ Settle(w, "failed")

\* A member that cannot be read: no ArchiveValidationError, so the archive is
\* tried again, to fail in the same way.
UnpackRaises(w) ==
  /\ worker[w].at = "unpack"
  /\ ExtractArchive(docs[worker[w].doc].bytes.members).outcome = "raised"
  /\ Reschedule(w)
  /\ UNCHANGED <<queue, points, apiVars, faults, lapsed>>

\* Mutant: an entry that is already known ends the loop.
VisitUntilKnown(w) ==
  /\ worker[w].at = "visit"
  /\ worker[w].entries # <<>>
  /\ worker' = [worker EXCEPT ![w] =
       IF Known(Head(@.entries))
       THEN [@ EXCEPT !.found = TRUE, !.entries = <<>>]
       ELSE [@ EXCEPT !.at = "create"]]
  /\ UNCHANGED <<docs, queue, points, apiVars, faults, lapsed>>

VisitEntry(w) ==
  /\ worker[w].at = "visit"
  /\ worker[w].entries # <<>>
  /\ worker' = [worker EXCEPT ![w] =
       IF Known(Head(@.entries))
       THEN [@ EXCEPT !.found = TRUE, !.entries = Tail(worker[w].entries)]
       ELSE [@ EXCEPT !.at = "create"]]
  /\ UNCHANGED <<docs, queue, points, apiVars, faults, lapsed>>

\* create_document is not told a spoke: the child is filed under General.
CreateChild(w) ==
  /\ worker[w].at = "create"
  /\ Len(docs) < MaxDocs
  /\ docs' = Append(docs, NewDocument(Head(worker[w].entries), General, worker[w].doc))
  /\ worker' = [worker EXCEPT ![w].at = "register", ![w].child = Len(docs) + 1]
  /\ UNCHANGED <<queue, points, apiVars, faults, lapsed>>

EnqueueChild(w) ==
  /\ worker[w].at = "register"
  /\ CreateJob(worker[w].child)
  /\ worker' = [worker EXCEPT ![w].at = "visit", ![w].child = 0, ![w].found = TRUE,
                              ![w].entries = Tail(@)]
  /\ UNCHANGED <<points, apiVars, faults, lapsed>>

FinishArchive(w) ==
  /\ worker[w].at = "visit"
  /\ worker[w].entries = <<>>
  /\ Settle(w, IF worker[w].found THEN "unpacked" ELSE "failed")

\* Any other exception at any point of the attempt.
StageFault(w) ==
  /\ worker[w].at # "idle"
  /\ faults < MaxFaults
  /\ faults' = faults + 1
  /\ Reschedule(w)
  /\ UNCHANGED <<queue, points, apiVars, lapsed>>

\* Killed: the claim is committed and nothing undoes it.
Crash(w) ==
  /\ worker[w].at # "idle"
  /\ faults < MaxFaults
  /\ faults' = faults + 1
  /\ Release(w)
  /\ UNCHANGED <<docs, queue, points, apiVars, lapsed>>

WorkerStep(w) == \/ Claim(w) \/ Load(w) \/ FailPermanently(w)
                 \/ UpsertChunk(w) \/ SealDocument(w)
                 \/ Unpack(w) \/ UnpackRefused(w) \/ UnpackRaises(w) \/ VisitEntry(w)
                 \/ CreateChild(w) \/ EnqueueChild(w) \/ FinishArchive(w)

-----------------------------------------------------------------------------
(* update_my_document_spoke: the row first, the points after. *)

\* 404, or nothing to do and so no call to Qdrant either.
MoveUnneeded(m, d, s) ==
  /\ move[m].at = "idle"
  /\ ~docs[d].live \/ docs[d].spoke = s
  /\ move' = [move EXCEPT ![m].at = "answered"]
  /\ UNCHANGED <<docs, queue, points, upload, worker, faults, lapsed>>

MoveRead(m, d, s) ==
  /\ move[m].at = "idle"
  /\ docs[d].live
  /\ docs[d].spoke # s
  /\ move' = [move EXCEPT ![m] = [IdleMove EXCEPT !.at = "read", !.doc = d, !.spoke = s]]
  /\ UNCHANGED <<docs, queue, points, upload, worker, faults, lapsed>>

\* The UPDATE does not look at deleted_at.  A move is clean while no worker
\* holds an older copy of the row and no other move owes its own update.
MoveUpdate(m) ==
  LET d == move[m].doc
      alone == Holders(d) = {} /\ OwingMoves(d) = {}
  IN  /\ move[m].at = "read"
      /\ docs' = [docs EXCEPT ![d].spoke = move[m].spoke]
      /\ move' = [n \in Moves |->
           IF n = m THEN [move[n] EXCEPT !.at = "updated", !.clean = alone]
           ELSE IF n \in OwingMoves(d) THEN [move[n] EXCEPT !.clean = FALSE]
           ELSE move[n]]
      /\ lapsed' = IF alone THEN lapsed ELSE lapsed \cup {d}
      /\ UNCHANGED <<queue, points, upload, worker, faults>>

\* The audit event, and the row read again: gone if a DELETE came between, and
\* then an assertion fails.
MoveReread(m) ==
  /\ move[m].at = "updated"
  /\ move' = [move EXCEPT ![m].at =
                IF docs[move[m].doc].live THEN "propagate" ELSE "failed"]
  /\ UNCHANGED <<docs, queue, points, upload, worker, faults, lapsed>>

\* set_document_spoke: the payload of every point there is.
Retag(d, s) == {p \in points : p[1] # d} \cup {<<d, s>> : p \in {p \in points : p[1] = d}}

\* Mutant: only an indexed document is thought to have points.
MovePropagateIndexed(m) ==
  LET d == move[m].doc IN
  /\ move[m].at = "propagate"
  /\ points' = IF docs[d].job = "indexed" THEN Retag(d, move[m].spoke) ELSE points
  /\ move' = [move EXCEPT ![m] = [IdleMove EXCEPT !.at = "answered"]]
  /\ lapsed' = IF move[m].clean THEN lapsed \ {d} ELSE lapsed
  /\ UNCHANGED <<docs, queue, upload, worker, faults>>

MovePropagate(m) ==
  LET d == move[m].doc IN
  /\ move[m].at = "propagate"
  /\ points' = Retag(d, move[m].spoke)
  /\ move' = [move EXCEPT ![m] = [IdleMove EXCEPT !.at = "answered"]]
  /\ lapsed' = IF move[m].clean THEN lapsed \ {d} ELSE lapsed
  /\ UNCHANGED <<docs, queue, upload, worker, faults>>

\* A transient error, the update applied or not; the last one is a 500.
MoveAttemptFails(m) ==
  LET d == move[m].doc
      tries == move[m].tries + 1
      last == tries = RetryAttempts
  IN  /\ move[m].at = "propagate"
      /\ faults < MaxFaults
      /\ faults' = faults + 1
      /\ points' \in {points, Retag(d, move[m].spoke)}
      /\ move' = [move EXCEPT ![m] = IF last THEN [IdleMove EXCEPT !.at = "failed"]
                                     ELSE [@ EXCEPT !.tries = tries]]
      /\ lapsed' = IF last THEN lapsed \cup {d} ELSE lapsed
      /\ UNCHANGED <<docs, queue, upload, worker>>

\* docs-api is restarted between the row and the points.
MoveDies(m) ==
  /\ move[m].at \in Owing
  /\ faults < MaxFaults
  /\ faults' = faults + 1
  /\ move' = [move EXCEPT ![m] = [IdleMove EXCEPT !.at = "failed"]]
  /\ lapsed' = lapsed \cup {move[m].doc}
  /\ UNCHANGED <<docs, queue, points, upload, worker>>

MoveStep(m) ==
  \/ \E d \in DOMAIN docs, s \in Spokes : MoveUnneeded(m, d, s) \/ MoveRead(m, d, s)
  \/ MoveUpdate(m) \/ MoveReread(m) \/ MovePropagate(m)
  \/ MoveAttemptFails(m) \/ MoveDies(m)

-----------------------------------------------------------------------------
Next ==
  \/ \E u \in Uploads : UploadStep(u)
  \/ \E d \in DOMAIN docs : Delete(d)
  \/ \E w \in Workers : WorkerStep(w) \/ StageFault(w) \/ Crash(w)
  \/ \E m \in Moves : MoveStep(m)

Spec == Init /\ [][Next]_vars

-----------------------------------------------------------------------------
\* Every variable has its type; a queued document has a job.
TypeOK ==
  /\ \A d \in DOMAIN docs :
       /\ docs[d].spoke \in Spokes
       /\ docs[d].from \in 0..(d - 1)
       /\ docs[d].live \in BOOLEAN
       /\ docs[d].job \in JobStates
       /\ docs[d].attempts \in 0..MaxAttempts
  /\ \A i \in DOMAIN queue : queue[i] \in DOMAIN docs /\ docs[queue[i]].job # "none"
  /\ points \subseteq (DOMAIN docs) \X Spokes
  /\ \A u \in Uploads : /\ upload[u].at \in {"idle", "checked", "registered", "over"}
                        /\ upload[u].at = "registered" => upload[u].doc \in DOMAIN docs
  /\ \A m \in Moves : /\ move[m].at \in {"idle", "read", "answered", "failed"} \cup Owing
                      /\ move[m].at \in {"read"} \cup Owing => move[m].doc \in DOMAIN docs
                      /\ move[m].tries < RetryAttempts
  /\ \A w \in Workers :
       /\ worker[w].at \in {"idle", "load", "unpack", "visit", "create", "register"} \cup Copying
       /\ worker[w].at # "idle" => docs[worker[w].doc].job = "processing"
  /\ faults \in 0..MaxFaults
  /\ lapsed \subseteq DOMAIN docs

\* However often an archive is retried, whatever is deleted meanwhile and however
\* many workers run, it has at most one live document per content (pipeline.py:
\* "already-registered entries are counted, not duplicated").  Nothing but the
\* read before the insert says so: the schema has no unique index.
FanoutIdempotent ==
  \A d, e \in DOMAIN docs :
    /\ d # e
    /\ docs[d].live /\ docs[e].live
    /\ docs[d].from # 0
    /\ docs[d].from = docs[e].from
    => docs[d].bytes.sum # docs[e].bytes.sum

\* An archive shown as unpacked has brought every one of its entries in, itself
\* or by finding it there, and only a retried one can have a child that nobody
\* will ever ingest: the first attempt stopped between the row and the job, and
\* the next took the row for a document.
UnpackedIsComplete ==
  \A a \in DOMAIN docs : docs[a].job = "unpacked" =>
    /\ \A i \in DOMAIN Entries(a) : \E d \in DOMAIN docs :
         docs[d].bytes.sum = Entries(a)[i].sum
    /\ \A d \in DOMAIN docs :
         docs[d].from = a /\ docs[d].job = "none" => docs[a].attempts > 1

\* Once nobody works on a live document, each of its points is filed where the
\* Documents page says, unless a move met a worker holding the older row or
\* another unfinished move, or lost its Qdrant update; and a later move that
\* meets nothing puts it right.  Retrieval filters on the points alone.
FiledWhereShown ==
  \A d \in DOMAIN docs :
    /\ docs[d].live
    /\ Holders(d) = {}
    /\ OwingMoves(d) = {}
    /\ d \notin lapsed
    => \A p \in points : p[1] = d => p[2] = docs[d].spoke

\* main.py and qdrant_client.py: an in-flight ingestion job re-reads the spoke
\* "fresh right before it upserts a chunk" and so "picks up a spoke change on its
\* own without racing this call".
InFlightJobsFollowMoves ==
  \A d \in DOMAIN docs :
    /\ docs[d].live
    /\ docs[d].job = "indexed"
    /\ OwingMoves(d) = {}
    => \A p \in points : p[1] = d => p[2] = docs[d].spoke
=============================================================================
