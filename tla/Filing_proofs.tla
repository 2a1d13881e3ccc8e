---------------------------- MODULE Filing_proofs ---------------------------
(***************************************************************************)
(* Theorems about Filing, for any files, uploads, moves, workers and       *)
(* faults.  FiledWhereShown rests on what a clean move is: nobody holds an *)
(* older copy of its row, and it is the only one that owes an update.      *)
(* FanoutIdempotent rests on the exclusive claim: between the read that    *)
(* finds an entry unknown and the insert, only the holder of the archive   *)
(* could insert a child of it.                                             *)
(*                                                                         *)
(* UnpackedIsComplete rests on Inv and on Unpacking: what a worker still   *)
(* has to visit is the tail of its archive's entries, and what is gone of  *)
(* them is among the contents that are there.                              *)
(***************************************************************************)
EXTENDS Algorithms_proofs

DocFields == {"bytes", "spoke", "from", "live", "job", "attempts"}
WorkerFields == {"at", "doc", "spoke", "entries", "child", "found"}
UploadFields == {"at", "doc", "file", "spoke"}

RowsOK ==
  /\ \E S : docs \in Seq(S)
  /\ \A d \in DOMAIN docs : DOMAIN docs[d] = DocFields

\* A held document is being processed, and held once; a child on the way has no
\* job yet.
WorkersOK ==
  /\ DOMAIN worker = Workers
  /\ \A w \in Workers :
       /\ DOMAIN worker[w] = WorkerFields
       /\ worker[w].at # "idle" => /\ worker[w].doc \in DOMAIN docs
                                   /\ docs[worker[w].doc].job = "processing"
       /\ worker[w].at = "register" => /\ worker[w].child \in DOMAIN docs
                                       /\ docs[worker[w].child].job = "none"
  /\ \A v, w \in Workers :
       v # w => /\ worker[v].at # "idle" /\ worker[w].at # "idle" =>
                     worker[v].doc # worker[w].doc
                /\ worker[v].at = "register" /\ worker[w].at = "register" =>
                     worker[v].child # worker[w].child

\* A document is registered by one upload or one worker.
UploadsOK ==
  /\ DOMAIN upload = Uploads
  /\ \A u \in Uploads :
       /\ DOMAIN upload[u] = UploadFields
       /\ upload[u].at = "registered" =>
            /\ upload[u].doc \in DOMAIN docs
            /\ docs[upload[u].doc].job = "none"
            /\ \A w \in Workers : worker[w].at = "register" => worker[w].child # upload[u].doc
  /\ \A u, v \in Uploads :
       u # v /\ upload[u].at = "registered" /\ upload[v].at = "registered" =>
         upload[u].doc # upload[v].doc

QueueOK == queue \in Seq(Nat) /\ \A i \in DOMAIN queue : queue[i] \in DOMAIN docs

MoveType ==
  [at : {"idle", "read", "updated", "propagate", "answered", "failed"},
   doc : Nat, spoke : Spokes, tries : Nat, clean : BOOLEAN]

MovesOK ==
  /\ move \in [Moves -> MoveType]
  /\ \A m \in Moves : move[m].at \in {"read"} \cup Owing => move[m].doc \in DOMAIN docs

PointsOK == \A p \in points : p[1] \in DOMAIN docs

\* The entry a worker is about to register is not among the archive's children.
NoChildYet ==
  \A w \in Workers : worker[w].at = "create" =>
    \A d \in DOMAIN docs : docs[d].live /\ docs[d].from = worker[w].doc =>
      docs[d].bytes.sum # Head(worker[w].entries).sum

\* A clean move is alone, and all copies of its row have its spoke.
CleanMoves ==
  \A m \in Moves : move[m].at \in Owing /\ move[m].clean =>
    /\ docs[move[m].doc].spoke = move[m].spoke
    /\ \A w \in Workers : worker[w].at \in Copying /\ worker[w].doc = move[m].doc =>
         worker[w].spoke = move[m].spoke
    /\ \A n \in Moves : move[n].at \in Owing /\ move[n].doc = move[m].doc => n = m

LapsesShow == \A m \in Moves : move[m].at \in Owing /\ move[m].doc \notin lapsed => move[m].clean

\* Points and copies of a document nothing is owed to have its spoke.
Filed ==
  \A d \in DOMAIN docs :
    /\ docs[d].live
    /\ d \notin lapsed
    /\ \A m \in Moves : move[m].at \in Owing => move[m].doc # d
    => /\ \A p \in points : p[1] = d => p[2] = docs[d].spoke
       /\ \A w \in Workers : worker[w].at \in Copying /\ worker[w].doc = d =>
            worker[w].spoke = docs[d].spoke

Inv == /\ RowsOK /\ WorkersOK /\ UploadsOK /\ QueueOK /\ MovesOK /\ PointsOK
       /\ NoChildYet /\ CleanMoves /\ LapsesShow /\ Filed /\ FanoutIdempotent

-----------------------------------------------------------------------------
(* What the statements do to the rows. *)

\* One row is replaced.
LEMMA RowReplaced ==
  ASSUME RowsOK, NEW d \in DOMAIN docs, NEW r, DOMAIN r = DocFields,
         docs' = [docs EXCEPT ![d] = r]
  PROVE  /\ RowsOK'
         /\ DOMAIN docs' = DOMAIN docs
         /\ docs'[d] = r
         /\ \A e \in DOMAIN docs : e # d => docs'[e] = docs[e]
<1>1. PICK S : docs \in Seq(S)
  BY DEF RowsOK
<1> DEFINE T == S \cup {r}
<1>2. docs \in Seq(T) /\ r \in T
  BY <1>1
<1> HIDE DEF T
<1>3. DOMAIN docs = 1..Len(docs)
  BY <1>1
<1>4. docs' \in Seq(T) /\ Len(docs') = Len(docs)
  BY <1>2, <1>3, ExceptSeq
<1>5. DOMAIN docs' = DOMAIN docs
  BY <1>3, <1>4
<1>6. docs'[d] = r /\ \A e \in DOMAIN docs : e # d => docs'[e] = docs[e]
  BY <1>2, <1>3, ExceptSeq
<1> QED
  BY <1>4, <1>5, <1>6 DEF RowsOK

\* A row is appended.
LEMMA RowAppended ==
  ASSUME RowsOK, NEW r, DOMAIN r = DocFields, docs' = Append(docs, r)
  PROVE  /\ RowsOK'
         /\ Len(docs) + 1 \notin DOMAIN docs
         /\ Len(docs) + 1 \in Nat
         /\ DOMAIN docs' = DOMAIN docs \cup {Len(docs) + 1}
         /\ docs'[Len(docs) + 1] = r
         /\ \A e \in DOMAIN docs : docs'[e] = docs[e]
<1>1. PICK S : docs \in Seq(S)
  BY DEF RowsOK
<1> DEFINE T == S \cup {r}
<1>2. docs \in Seq(T) /\ r \in T
  BY <1>1
<1> HIDE DEF T
<1>3. DOMAIN docs = 1..Len(docs) /\ Len(docs) \in Nat
  BY <1>1
<1>4. /\ docs' \in Seq(T) /\ Len(docs') = Len(docs) + 1
      /\ \A e \in 1..Len(docs) : docs'[e] = docs[e]
      /\ docs'[Len(docs) + 1] = r
  BY <1>2, AppendProperties
<1>5. DOMAIN docs' = 1..(Len(docs) + 1)
  BY <1>4
<1>6. DOMAIN docs' = DOMAIN docs \cup {Len(docs) + 1} /\ Len(docs) + 1 \notin DOMAIN docs
  BY <1>3, <1>5
<1>7. \A e \in DOMAIN docs' : DOMAIN docs'[e] = DocFields
  BY <1>3, <1>4, <1>6 DEF RowsOK
<1> QED
  BY <1>3, <1>4, <1>6, <1>7 DEF RowsOK

\* A document is created without a job.
LEMMA DocumentCreated ==
  ASSUME RowsOK, NEW f, NEW s, NEW a, docs' = Append(docs, NewDocument(f, s, a))
  PROVE  /\ RowsOK'
         /\ Len(docs) + 1 \notin DOMAIN docs
         /\ Len(docs) + 1 \in Nat
         /\ DOMAIN docs' = DOMAIN docs \cup {Len(docs) + 1}
         /\ \A e \in DOMAIN docs : docs'[e] = docs[e]
         /\ docs'[Len(docs) + 1].bytes = f
         /\ docs'[Len(docs) + 1].spoke = s
         /\ docs'[Len(docs) + 1].from = a
         /\ docs'[Len(docs) + 1].job = "none"
         /\ docs'[Len(docs) + 1].attempts = 0
<1> DEFINE r == NewDocument(f, s, a)
<1>1. /\ DOMAIN r = DocFields
      /\ r.bytes = f /\ r.spoke = s /\ r.from = a /\ r.job = "none"
      /\ r.attempts = 0
  BY DEF NewDocument, DocFields
<1> HIDE DEF r
<1>2. docs' = Append(docs, r)
  BY DEF r
<1> QED
  BY <1>1, <1>2, RowAppended

\* What a step may do to a row without moving it: it keeps what it is, and a
\* tombstone stays.
SameRows ==
  /\ DOMAIN docs' = DOMAIN docs
  /\ \A e \in DOMAIN docs : /\ docs'[e].bytes = docs[e].bytes
                            /\ docs'[e].spoke = docs[e].spoke
                            /\ docs'[e].from = docs[e].from
                            /\ docs'[e].live => docs[e].live

\* The job of a document changes.
LEMMA JobSet ==
  ASSUME RowsOK, NEW d \in DOMAIN docs, NEW j, docs' = [docs EXCEPT ![d].job = j]
  PROVE  /\ RowsOK' /\ SameRows
         /\ docs'[d].job = j
         /\ \A e \in DOMAIN docs : e # d => docs'[e].job = docs[e].job
         /\ \A e \in DOMAIN docs : docs'[e].attempts = docs[e].attempts
<1> DEFINE r == [docs[d] EXCEPT !.job = j]
<1>1. DOMAIN docs[d] = DocFields
  BY DEF RowsOK
<1>2. /\ DOMAIN r = DocFields /\ r.job = j
      /\ r.bytes = docs[d].bytes /\ r.spoke = docs[d].spoke /\ r.from = docs[d].from
      /\ r.live = docs[d].live /\ r.attempts = docs[d].attempts
  BY <1>1 DEF DocFields
<1>3. docs' = [docs EXCEPT ![d] = r]
  OBVIOUS
<1> HIDE DEF r
<1>4. /\ RowsOK' /\ DOMAIN docs' = DOMAIN docs /\ docs'[d] = r
      /\ \A e \in DOMAIN docs : e # d => docs'[e] = docs[e]
  BY <1>2, <1>3, RowReplaced
<1>5. SameRows
  BY <1>2, <1>4 DEF SameRows
<1> QED
  BY <1>2, <1>4, <1>5

\* A row is claimed.
LEMMA JobClaimed ==
  ASSUME RowsOK, NEW d \in DOMAIN docs,
         docs' = [docs EXCEPT ![d].job = "processing", ![d].attempts = @ + 1]
  PROVE  /\ RowsOK' /\ SameRows
         /\ docs'[d].job = "processing"
         /\ \A e \in DOMAIN docs : e # d => docs'[e].job = docs[e].job
         /\ docs'[d].attempts = docs[d].attempts + 1
         /\ \A e \in DOMAIN docs : e # d => docs'[e].attempts = docs[e].attempts
<1> DEFINE r == [docs[d] EXCEPT !.job = "processing", !.attempts = @ + 1]
<1>1. DOMAIN docs[d] = DocFields
  BY DEF RowsOK
<1>2. /\ DOMAIN r = DocFields /\ r.job = "processing"
      /\ r.bytes = docs[d].bytes /\ r.spoke = docs[d].spoke /\ r.from = docs[d].from
      /\ r.live = docs[d].live /\ r.attempts = docs[d].attempts + 1
  BY <1>1 DEF DocFields
<1>3. docs' = [docs EXCEPT ![d] = r]
  OBVIOUS
<1> HIDE DEF r
<1>4. /\ RowsOK' /\ DOMAIN docs' = DOMAIN docs /\ docs'[d] = r
      /\ \A e \in DOMAIN docs : e # d => docs'[e] = docs[e]
  BY <1>2, <1>3, RowReplaced
<1>5. SameRows
  BY <1>2, <1>4 DEF SameRows
<1> QED
  BY <1>2, <1>4, <1>5

\* A row is tombstoned, its job cancelled if it waits.
LEMMA RowTombstoned ==
  ASSUME RowsOK, NEW d \in DOMAIN docs, Delete(d)
  PROVE  /\ RowsOK' /\ SameRows
         /\ \A e \in DOMAIN docs :
              docs[e].job \in {"processing", "none"} => docs'[e].job = docs[e].job
         /\ \A e \in DOMAIN docs : /\ docs'[e].job \in {docs[e].job, "cancelled"}
                                   /\ docs'[e].attempts = docs[e].attempts
<1> DEFINE j == IF docs[d].job \in {"queued", "retry_pending"} THEN "cancelled" ELSE docs[d].job
           r == [docs[d] EXCEPT !.live = FALSE, !.job = j]
<1>1. DOMAIN docs[d] = DocFields
  BY DEF RowsOK
<1>2. /\ DOMAIN r = DocFields /\ r.job = j
      /\ r.bytes = docs[d].bytes /\ r.spoke = docs[d].spoke /\ r.from = docs[d].from
      /\ r.live = FALSE /\ r.attempts = docs[d].attempts
  BY <1>1 DEF DocFields
<1>3. docs' = [docs EXCEPT ![d] = r]
  BY DEF Delete
<1>4. docs[d].job \in {"processing", "none"} => j = docs[d].job
  OBVIOUS
<1>7. j \in {docs[d].job, "cancelled"}
  OBVIOUS
<1> HIDE DEF r, j
<1>5. /\ RowsOK' /\ DOMAIN docs' = DOMAIN docs /\ docs'[d] = r
      /\ \A e \in DOMAIN docs : e # d => docs'[e] = docs[e]
  BY <1>2, <1>3, RowReplaced
<1>6. SameRows
  BY <1>2, <1>5 DEF SameRows
<1> QED
  BY <1>2, <1>4, <1>5, <1>6, <1>7

\* A row is moved.
LEMMA RowMoved ==
  ASSUME RowsOK, NEW d \in DOMAIN docs, NEW s, docs' = [docs EXCEPT ![d].spoke = s]
  PROVE  /\ RowsOK'
         /\ DOMAIN docs' = DOMAIN docs
         /\ docs'[d].spoke = s
         /\ \A e \in DOMAIN docs : /\ docs'[e].bytes = docs[e].bytes
                                   /\ docs'[e].from = docs[e].from
                                   /\ docs'[e].job = docs[e].job
                                   /\ docs'[e].live = docs[e].live
                                   /\ docs'[e].attempts = docs[e].attempts
                                   /\ e # d => docs'[e].spoke = docs[e].spoke
<1> DEFINE r == [docs[d] EXCEPT !.spoke = s]
<1>1. DOMAIN docs[d] = DocFields
  BY DEF RowsOK
<1>2. /\ DOMAIN r = DocFields /\ r.spoke = s
      /\ r.bytes = docs[d].bytes /\ r.from = docs[d].from /\ r.job = docs[d].job
      /\ r.live = docs[d].live /\ r.attempts = docs[d].attempts
  BY <1>1 DEF DocFields
<1>3. docs' = [docs EXCEPT ![d] = r]
  OBVIOUS
<1> HIDE DEF r
<1>4. /\ RowsOK' /\ DOMAIN docs' = DOMAIN docs /\ docs'[d] = r
      /\ \A e \in DOMAIN docs : e # d => docs'[e] = docs[e]
  BY <1>2, <1>3, RowReplaced
<1> QED
  BY <1>2, <1>4

-----------------------------------------------------------------------------
(* What the actions of a worker do. *)

\* Only one worker acts.
WorkerActs(w) ==
  /\ DOMAIN worker' = Workers
  /\ DOMAIN worker'[w] = WorkerFields
  /\ \A v \in Workers : v # w => worker'[v] = worker[v]

LEMMA WorkerReplaced ==
  ASSUME WorkersOK, NEW w \in Workers, NEW r, DOMAIN r = WorkerFields,
         worker' = [worker EXCEPT ![w] = r]
  PROVE  WorkerActs(w) /\ worker'[w] = r
BY DEF WorkersOK, WorkerActs

LEMMA Released ==
  ASSUME WorkersOK, NEW w \in Workers, Release(w)
  PROVE  WorkerActs(w) /\ worker'[w].at = "idle"
<1>1. DOMAIN IdleWorker = WorkerFields /\ IdleWorker.at = "idle"
  BY DEF IdleWorker, WorkerFields
<1> QED
  BY <1>1, WorkerReplaced DEF Release

\* It takes a waiting document nobody else holds.
LEMMA ClaimDoes ==
  ASSUME Inv, NEW w \in Workers, Claim(w)
  PROVE  \E d \in DOMAIN docs :
           /\ docs[d].job \in {"queued", "retry_pending"}
           /\ RowsOK' /\ SameRows
           /\ docs'[d].job = "processing"
           /\ \A e \in DOMAIN docs : e # d => docs'[e].job = docs[e].job
           /\ docs'[d].attempts = docs[d].attempts + 1
           /\ \A e \in DOMAIN docs : e # d => docs'[e].attempts = docs[e].attempts
           /\ WorkerActs(w)
           /\ worker'[w].at = "load" /\ worker'[w].doc = d
<1>1. PICK i \in DOMAIN queue :
        /\ Claimable(queue[i])
        /\ docs' = [docs EXCEPT ![queue[i]].job = "processing", ![queue[i]].attempts = @ + 1]
        /\ worker' = [worker EXCEPT ![w] = [IdleWorker EXCEPT !.at = "load", !.doc = queue[i]]]
  BY DEF Claim
<1>2. PICK d \in DOMAIN docs : d = queue[i]
  BY DEF Inv, QueueOK
<1>3. /\ docs[d].job \in {"queued", "retry_pending"}
      /\ docs' = [docs EXCEPT ![d].job = "processing", ![d].attempts = @ + 1]
      /\ worker' = [worker EXCEPT ![w] = [IdleWorker EXCEPT !.at = "load", !.doc = d]]
  BY <1>1, <1>2 DEF Claimable
<1>4. /\ RowsOK' /\ SameRows /\ docs'[d].job = "processing"
      /\ \A e \in DOMAIN docs : e # d => docs'[e].job = docs[e].job
      /\ docs'[d].attempts = docs[d].attempts + 1
      /\ \A e \in DOMAIN docs : e # d => docs'[e].attempts = docs[e].attempts
  BY <1>3, JobClaimed DEF Inv
<1> DEFINE r == [IdleWorker EXCEPT !.at = "load", !.doc = d]
<1>5. DOMAIN r = WorkerFields /\ r.at = "load" /\ r.doc = d
  BY DEF IdleWorker, WorkerFields
<1>6. worker' = [worker EXCEPT ![w] = r]
  BY <1>3
<1> HIDE DEF r
<1>7. WorkerActs(w) /\ worker'[w] = r
  BY <1>5, <1>6, WorkerReplaced DEF Inv
<1> QED
  BY <1>3, <1>4, <1>5, <1>7

\* It gives its document up, in whatever state.
LEMMA LetsGo ==
  ASSUME Inv, NEW w \in Workers, worker[w].at # "idle", NEW j,
         docs' = [docs EXCEPT ![worker[w].doc].job = j], Release(w)
  PROVE  /\ RowsOK' /\ SameRows
         /\ \A e \in DOMAIN docs : e # worker[w].doc => docs'[e].job = docs[e].job
         /\ docs'[worker[w].doc].job = j
         /\ \A e \in DOMAIN docs : docs'[e].attempts = docs[e].attempts
         /\ WorkerActs(w) /\ worker'[w].at = "idle"
<1>1. PICK d \in DOMAIN docs : d = worker[w].doc
  BY DEF Inv, WorkersOK
<1>2. docs' = [docs EXCEPT ![d].job = j]
  BY <1>1
<1>3. /\ RowsOK' /\ SameRows /\ docs'[d].job = j
      /\ \A e \in DOMAIN docs : e # d => docs'[e].job = docs[e].job
      /\ \A e \in DOMAIN docs : docs'[e].attempts = docs[e].attempts
  BY <1>2, JobSet DEF Inv
<1>4. WorkerActs(w) /\ worker'[w].at = "idle"
  BY Released DEF Inv
<1> QED
  BY <1>1, <1>3, <1>4

\* It goes on with the document it holds, and no row changes.
GoesOn(w) ==
  /\ UNCHANGED docs
  /\ WorkerActs(w)
  /\ worker[w].at # "idle"
  /\ worker'[w].doc = worker[w].doc

LEMMA LoadDoes ==
  ASSUME Inv, NEW w \in Workers, Load(w)
  PROVE  /\ GoesOn(w)
         /\ worker'[w].at \in {"unpack", "index"}
         /\ worker'[w].spoke = docs[worker[w].doc].spoke
         /\ worker'[w].at = "unpack" => IsArchive(worker[w].doc)
<1> DEFINE at == IF IsArchive(worker[w].doc) THEN "unpack" ELSE "index"
           spoke == docs[worker[w].doc].spoke
           r == [worker[w] EXCEPT !.spoke = spoke, !.at = at]
<1>1. at \in {"unpack", "index"} /\ (at = "unpack" => IsArchive(worker[w].doc))
  OBVIOUS
<1>2. worker' = [worker EXCEPT ![w].spoke = spoke, ![w].at = at]
  BY DEF Load
<1> HIDE DEF at
<1>3. DOMAIN worker[w] = WorkerFields
  BY DEF Inv, WorkersOK
<1>4. DOMAIN r = WorkerFields /\ r.doc = worker[w].doc /\ r.at = at /\ r.spoke = spoke
  BY <1>3 DEF WorkerFields
<1>5. worker' = [worker EXCEPT ![w] = r]
  BY <1>2
<1> HIDE DEF r
<1>6. WorkerActs(w) /\ worker'[w] = r
  BY <1>4, <1>5, WorkerReplaced DEF Inv
<1>7. UNCHANGED docs /\ worker[w].at # "idle"
  BY DEF Load
<1> QED
  BY <1>1, <1>4, <1>6, <1>7 DEF GoesOn

LEMMA UpsertDoes ==
  ASSUME Inv, NEW w \in Workers, UpsertChunk(w)
  PROVE  /\ GoesOn(w)
         /\ worker'[w].at = "upserted"
         /\ worker'[w].spoke = worker[w].spoke
<1> DEFINE r == [worker[w] EXCEPT !.at = "upserted"]
<1>1. DOMAIN worker[w] = WorkerFields
  BY DEF Inv, WorkersOK
<1>2. /\ DOMAIN r = WorkerFields /\ r.doc = worker[w].doc /\ r.at = "upserted"
      /\ r.spoke = worker[w].spoke
  BY <1>1 DEF WorkerFields
<1>3. worker' = [worker EXCEPT ![w] = r]
  BY DEF UpsertChunk
<1> HIDE DEF r
<1>4. WorkerActs(w) /\ worker'[w] = r
  BY <1>2, <1>3, WorkerReplaced DEF Inv
<1>5. UNCHANGED docs /\ worker[w].at # "idle"
  BY DEF UpsertChunk, Copying
<1> QED
  BY <1>2, <1>4, <1>5 DEF GoesOn

LEMMA UnpackDoes ==
  ASSUME Inv, NEW w \in Workers, Unpack(w)
  PROVE  /\ GoesOn(w) /\ worker[w].at = "unpack" /\ worker'[w].at = "visit"
         /\ worker'[w].entries = Entries(worker[w].doc)
<1> DEFINE entries == ExtractArchive(docs[worker[w].doc].bytes.members).entries
           r == [worker[w] EXCEPT !.at = "visit", !.entries = entries]
<1>1. worker' = [worker EXCEPT ![w].at = "visit", ![w].entries = entries]
  BY DEF Unpack
<1> HIDE DEF entries
<1>2. DOMAIN worker[w] = WorkerFields
  BY DEF Inv, WorkersOK
<1>3. /\ DOMAIN r = WorkerFields /\ r.doc = worker[w].doc /\ r.at = "visit"
      /\ r.entries = entries
  BY <1>2 DEF WorkerFields
<1>4. worker' = [worker EXCEPT ![w] = r]
  BY <1>1
<1> HIDE DEF r
<1>5. WorkerActs(w) /\ worker'[w] = r
  BY <1>3, <1>4, WorkerReplaced DEF Inv
<1>6. UNCHANGED docs /\ worker[w].at = "unpack"
  BY DEF Unpack
<1>7. entries = Entries(worker[w].doc)
  BY DEF Entries, entries
<1> QED
  BY <1>3, <1>5, <1>6, <1>7 DEF GoesOn

\* An entry it goes on to create is not known.
LEMMA VisitDoes ==
  ASSUME Inv, NEW w \in Workers, VisitEntry(w)
  PROVE  /\ GoesOn(w)
         /\ worker'[w].at \in {"visit", "create"}
         /\ worker'[w].at = "create" => ~Known(Head(worker'[w].entries))
         /\ worker[w].at = "visit" /\ worker[w].entries # <<>>
         /\ \/ /\ worker'[w].at = "visit" /\ Known(Head(worker[w].entries))
               /\ worker'[w].entries = Tail(worker[w].entries)
            \/ worker'[w].at = "create" /\ worker'[w].entries = worker[w].entries
<1> DEFINE known == Known(Head(worker[w].entries))
           skipped == [worker[w] EXCEPT !.found = TRUE, !.entries = Tail(worker[w].entries)]
           taken == [worker[w] EXCEPT !.at = "create"]
           r == IF known THEN skipped ELSE taken
<1>1. DOMAIN worker[w] = WorkerFields /\ worker[w].at = "visit"
  BY DEF Inv, WorkersOK, VisitEntry
<1>2. /\ DOMAIN skipped = WorkerFields /\ skipped.doc = worker[w].doc /\ skipped.at = "visit"
      /\ skipped.entries = Tail(worker[w].entries)
  BY <1>1 DEF WorkerFields
<1>3. /\ DOMAIN taken = WorkerFields /\ taken.doc = worker[w].doc /\ taken.at = "create"
      /\ taken.entries = worker[w].entries
  BY <1>1 DEF WorkerFields
<1>4. worker' = [worker EXCEPT ![w] = r]
  BY DEF VisitEntry
<1> HIDE DEF skipped, taken
<1>5. /\ DOMAIN r = WorkerFields /\ r.doc = worker[w].doc /\ r.at \in {"visit", "create"}
      /\ r.at = "create" => r = taken /\ ~known
      /\ \/ r = skipped /\ known
         \/ r = taken
  BY <1>2, <1>3
<1> HIDE DEF r
<1>6. WorkerActs(w) /\ worker'[w] = r
  BY <1>4, <1>5, WorkerReplaced DEF Inv
<1>7. UNCHANGED docs /\ worker[w].entries # <<>>
  BY DEF VisitEntry
<1>8. worker'[w].at = "create" => ~Known(Head(worker'[w].entries))
  BY <1>3, <1>5, <1>6
<1>9. \/ /\ worker'[w].at = "visit" /\ Known(Head(worker[w].entries))
         /\ worker'[w].entries = Tail(worker[w].entries)
      \/ worker'[w].at = "create" /\ worker'[w].entries = worker[w].entries
  BY <1>2, <1>3, <1>5, <1>6
<1> QED
  BY <1>1, <1>5, <1>6, <1>7, <1>8, <1>9 DEF GoesOn

LEMMA CreateDoes ==
  ASSUME Inv, NEW w \in Workers, CreateChild(w)
  PROVE  /\ docs' = Append(docs, NewDocument(Head(worker[w].entries), General, worker[w].doc))
         /\ WorkerActs(w)
         /\ worker[w].at = "create" /\ worker'[w].at = "register"
         /\ worker'[w].doc = worker[w].doc
         /\ worker'[w].child = Len(docs) + 1
         /\ worker'[w].entries = worker[w].entries
<1> DEFINE r == [worker[w] EXCEPT !.at = "register", !.child = Len(docs) + 1]
<1>1. DOMAIN worker[w] = WorkerFields
  BY DEF Inv, WorkersOK
<1>2. /\ DOMAIN r = WorkerFields /\ r.doc = worker[w].doc /\ r.at = "register"
      /\ r.child = Len(docs) + 1 /\ r.entries = worker[w].entries
  BY <1>1 DEF WorkerFields
<1>3. worker' = [worker EXCEPT ![w] = r]
  BY DEF CreateChild
<1> HIDE DEF r
<1>4. WorkerActs(w) /\ worker'[w] = r
  BY <1>2, <1>3, WorkerReplaced DEF Inv
<1> QED
  BY <1>2, <1>4 DEF CreateChild

LEMMA EnqueueDoes ==
  ASSUME Inv, NEW w \in Workers, EnqueueChild(w)
  PROVE  /\ RowsOK' /\ SameRows
         /\ \A e \in DOMAIN docs : e # worker[w].child => docs'[e].job = docs[e].job
         /\ docs'[worker[w].child].job = "queued"
         /\ \A e \in DOMAIN docs : docs'[e].attempts = docs[e].attempts
         /\ worker'[w].entries = Tail(worker[w].entries)
         /\ WorkerActs(w)
         /\ worker[w].at = "register" /\ worker'[w].at = "visit"
         /\ worker'[w].doc = worker[w].doc
         /\ queue' = Append(queue, worker[w].child)
<1>1. worker[w].at = "register"
  BY DEF EnqueueChild
<1>2. PICK d \in DOMAIN docs : d = worker[w].child
  BY <1>1 DEF Inv, WorkersOK
<1>3. docs' = [docs EXCEPT ![d].job = "queued"] /\ queue' = Append(queue, d)
  BY <1>2 DEF EnqueueChild, CreateJob
<1>4. /\ RowsOK' /\ SameRows /\ docs'[d].job = "queued"
      /\ \A e \in DOMAIN docs : e # d => docs'[e].job = docs[e].job
      /\ \A e \in DOMAIN docs : docs'[e].attempts = docs[e].attempts
  BY <1>3, JobSet DEF Inv
<1> DEFINE r == [worker[w] EXCEPT !.at = "visit", !.child = 0, !.found = TRUE,
                                  !.entries = Tail(@)]
<1>5. DOMAIN worker[w] = WorkerFields
  BY DEF Inv, WorkersOK
<1>6. /\ DOMAIN r = WorkerFields /\ r.doc = worker[w].doc /\ r.at = "visit"
      /\ r.entries = Tail(worker[w].entries)
  BY <1>5 DEF WorkerFields
<1>7. worker' = [worker EXCEPT ![w] = r]
  BY DEF EnqueueChild
<1> HIDE DEF r
<1>8. WorkerActs(w) /\ worker'[w] = r
  BY <1>6, <1>7, WorkerReplaced DEF Inv
<1> QED
  BY <1>1, <1>2, <1>3, <1>4, <1>6, <1>8

-----------------------------------------------------------------------------
(* What keeps the parts of the invariant. *)

\* The rows stay, and only the jobs in S may move on from "processing" or "none".
KeepsJobs(S) ==
  /\ DOMAIN docs \subseteq DOMAIN docs'
  /\ \A e \in DOMAIN docs : e \notin S /\ docs[e].job \in {"processing", "none"} =>
       docs'[e].job = docs[e].job

\* One worker acts, on nothing another one holds.
LEMMA WorkersKept ==
  ASSUME Inv, NEW w \in Workers, WorkerActs(w), NEW S, KeepsJobs(S),
         \A v \in Workers : v # w /\ worker[v].at # "idle" => worker[v].doc \notin S,
         \A v \in Workers : v # w /\ worker[v].at = "register" => worker[v].child \notin S,
         worker'[w].at # "idle" =>
           /\ worker'[w].doc \in DOMAIN docs'
           /\ docs'[worker'[w].doc].job = "processing"
           /\ \A v \in Workers : v # w /\ worker[v].at # "idle" =>
                worker[v].doc # worker'[w].doc,
         worker'[w].at = "register" =>
           /\ worker'[w].child \in DOMAIN docs'
           /\ docs'[worker'[w].child].job = "none"
           /\ \A v \in Workers : v # w /\ worker[v].at = "register" =>
                worker[v].child # worker'[w].child
  PROVE  WorkersOK'
<1>1. \A v \in Workers : v # w => worker'[v] = worker[v]
  BY DEF WorkerActs
<1>2. ASSUME NEW v \in Workers
      PROVE  /\ DOMAIN worker'[v] = WorkerFields
             /\ worker'[v].at # "idle" => /\ worker'[v].doc \in DOMAIN docs'
                                          /\ docs'[worker'[v].doc].job = "processing"
             /\ worker'[v].at = "register" => /\ worker'[v].child \in DOMAIN docs'
                                              /\ docs'[worker'[v].child].job = "none"
  <2>1. CASE v = w
    BY <2>1 DEF WorkerActs
  <2>2. CASE v # w
    <3>1. worker'[v] = worker[v]
      BY <2>2, <1>1
    <3>2. worker[v].at # "idle" => /\ worker[v].doc \in DOMAIN docs'
                                   /\ docs'[worker[v].doc].job = "processing"
      BY <2>2 DEF Inv, WorkersOK, KeepsJobs
    <3>3. worker[v].at = "register" => /\ worker[v].child \in DOMAIN docs'
                                       /\ docs'[worker[v].child].job = "none"
      BY <2>2 DEF Inv, WorkersOK, KeepsJobs
    <3> QED
      BY <3>1, <3>2, <3>3 DEF Inv, WorkersOK
  <2> QED
    BY <2>1, <2>2
<1>3. ASSUME NEW v \in Workers, NEW x \in Workers, v # x
      PROVE  /\ worker'[v].at # "idle" /\ worker'[x].at # "idle" =>
                  worker'[v].doc # worker'[x].doc
             /\ worker'[v].at = "register" /\ worker'[x].at = "register" =>
                  worker'[v].child # worker'[x].child
  <2>1. CASE v = w
    BY <2>1, <1>1, <1>3
  <2>2. CASE x = w
    BY <2>2, <1>1, <1>3
  <2>3. CASE v # w /\ x # w
    BY <2>3, <1>1, <1>3 DEF Inv, WorkersOK
  <2> QED
    BY <2>1, <2>2, <2>3
<1> QED
  BY <1>2, <1>3 DEF WorkersOK, WorkerActs

\* No worker acts, and what they hold stays so.
LEMMA WorkersStay ==
  ASSUME Inv, worker' = worker, NEW S, KeepsJobs(S),
         \A v \in Workers : worker[v].at # "idle" => worker[v].doc \notin S,
         \A v \in Workers : worker[v].at = "register" => worker[v].child \notin S
  PROVE  WorkersOK'
<1>1. ASSUME NEW v \in Workers
      PROVE  /\ worker[v].at # "idle" => /\ worker[v].doc \in DOMAIN docs'
                                         /\ docs'[worker[v].doc].job = "processing"
             /\ worker[v].at = "register" => /\ worker[v].child \in DOMAIN docs'
                                             /\ docs'[worker[v].child].job = "none"
  BY DEF Inv, WorkersOK, KeepsJobs
<1> QED
  BY <1>1 DEF Inv, WorkersOK

\* No upload acts.
LEMMA UploadsStay ==
  ASSUME Inv, upload' = upload, NEW S, KeepsJobs(S),
         \A u \in Uploads : upload[u].at = "registered" => upload[u].doc \notin S,
         \A u \in Uploads, w \in Workers :
           upload[u].at = "registered" /\ worker'[w].at = "register" =>
             worker'[w].child # upload[u].doc
  PROVE  UploadsOK'
<1>1. ASSUME NEW u \in Uploads, upload[u].at = "registered"
      PROVE  upload[u].doc \in DOMAIN docs' /\ docs'[upload[u].doc].job = "none"
  BY <1>1 DEF Inv, UploadsOK, KeepsJobs
<1> QED
  BY <1>1 DEF Inv, UploadsOK

\* One upload acts, on nothing another one or a worker has registered.
LEMMA UploadsKept ==
  ASSUME Inv, NEW u \in Uploads, NEW r, DOMAIN r = UploadFields,
         upload' = [upload EXCEPT ![u] = r], worker' = worker, NEW S, KeepsJobs(S),
         \A v \in Uploads : v # u /\ upload[v].at = "registered" => upload[v].doc \notin S,
         r.at = "registered" =>
           /\ r.doc \in DOMAIN docs' /\ docs'[r.doc].job = "none"
           /\ \A w \in Workers : worker[w].at = "register" => worker[w].child # r.doc
           /\ \A v \in Uploads : v # u /\ upload[v].at = "registered" => upload[v].doc # r.doc
  PROVE  UploadsOK'
<1>1. DOMAIN upload' = Uploads /\ upload'[u] = r
      /\ \A v \in Uploads : v # u => upload'[v] = upload[v]
  BY DEF Inv, UploadsOK
<1>2. ASSUME NEW v \in Uploads, v # u, upload[v].at = "registered"
      PROVE  upload[v].doc \in DOMAIN docs' /\ docs'[upload[v].doc].job = "none"
  BY <1>2 DEF Inv, UploadsOK, KeepsJobs
<1>3. ASSUME NEW v \in Uploads
      PROVE  /\ DOMAIN upload'[v] = UploadFields
             /\ upload'[v].at = "registered" =>
                  /\ upload'[v].doc \in DOMAIN docs'
                  /\ docs'[upload'[v].doc].job = "none"
                  /\ \A w \in Workers : worker'[w].at = "register" =>
                       worker'[w].child # upload'[v].doc
  <2>1. CASE v = u
    BY <2>1, <1>1
  <2>2. CASE v # u
    BY <2>2, <1>1, <1>2 DEF Inv, UploadsOK
  <2> QED
    BY <2>1, <2>2
<1>4. ASSUME NEW v \in Uploads, NEW x \in Uploads, v # x,
             upload'[v].at = "registered", upload'[x].at = "registered"
      PROVE  upload'[v].doc # upload'[x].doc
  <2>1. CASE v = u
    BY <2>1, <1>1, <1>4
  <2>2. CASE x = u
    BY <2>2, <1>1, <1>4
  <2>3. CASE v # u /\ x # u
    BY <2>3, <1>1, <1>4 DEF Inv, UploadsOK
  <2> QED
    BY <2>1, <2>2, <2>3
<1> QED
  BY <1>1, <1>3, <1>4 DEF UploadsOK

\* No row is created, and no worker goes on to create one.
LEMMA ChildrenStay ==
  ASSUME Inv, DOMAIN docs' = DOMAIN docs,
         \A e \in DOMAIN docs : /\ docs'[e].bytes = docs[e].bytes
                                /\ docs'[e].from = docs[e].from
                                /\ docs'[e].live => docs[e].live,
         \A v \in Workers : worker'[v].at = "create" => worker'[v] = worker[v]
  PROVE  NoChildYet' /\ FanoutIdempotent'
<1>1. NoChildYet'
  <2> SUFFICES ASSUME NEW v \in Workers, worker'[v].at = "create",
                      NEW d \in DOMAIN docs, docs'[d].live, docs'[d].from = worker'[v].doc
               PROVE  docs'[d].bytes.sum # Head(worker'[v].entries).sum
    BY DEF NoChildYet
  <2>1. worker'[v] = worker[v] /\ worker[v].at = "create"
    OBVIOUS
  <2>2. docs[d].live /\ docs[d].from = worker[v].doc /\ docs'[d].bytes = docs[d].bytes
    BY <2>1
  <2> QED
    BY <2>1, <2>2 DEF Inv, NoChildYet
<1>2. FanoutIdempotent'
  BY DEF Inv, FanoutIdempotent
<1> QED
  BY <1>1, <1>2

\* Nothing is moved: rows keep their spoke, no point is written, no move acts, and a
\* worker that goes on to index holds the row as it is.
LEMMA Unmoved ==
  ASSUME Inv, move' = move, points' = points, lapsed' = lapsed,
         DOMAIN docs \subseteq DOMAIN docs',
         \A e \in DOMAIN docs : /\ docs'[e].spoke = docs[e].spoke
                                /\ docs'[e].live => docs[e].live,
         \A v \in Workers : worker'[v].at \in Copying =>
           \/ worker'[v] = worker[v]
           \/ /\ worker'[v].doc \in DOMAIN docs
              /\ worker'[v].spoke = docs[worker'[v].doc].spoke
  PROVE  MovesOK' /\ PointsOK' /\ CleanMoves' /\ LapsesShow' /\ Filed'
<1>1. MovesOK' /\ PointsOK' /\ LapsesShow'
  BY DEF Inv, MovesOK, PointsOK, LapsesShow
<1>2. CleanMoves'
  <2> SUFFICES ASSUME NEW m \in Moves, move[m].at \in Owing, move[m].clean
               PROVE  /\ docs'[move[m].doc].spoke = move[m].spoke
                      /\ \A w \in Workers :
                           worker'[w].at \in Copying /\ worker'[w].doc = move[m].doc =>
                             worker'[w].spoke = move[m].spoke
                      /\ \A n \in Moves :
                           move[n].at \in Owing /\ move[n].doc = move[m].doc => n = m
    BY DEF CleanMoves
  <2>1. /\ docs[move[m].doc].spoke = move[m].spoke
        /\ \A w \in Workers : worker[w].at \in Copying /\ worker[w].doc = move[m].doc =>
             worker[w].spoke = move[m].spoke
        /\ \A n \in Moves : move[n].at \in Owing /\ move[n].doc = move[m].doc => n = m
    BY DEF Inv, CleanMoves
  <2>2. move[m].doc \in DOMAIN docs
    BY DEF Inv, MovesOK
  <2> QED
    BY <2>1, <2>2
<1>3. Filed'
  <2> SUFFICES ASSUME NEW d \in DOMAIN docs', docs'[d].live, d \notin lapsed,
                      \A m \in Moves : move[m].at \in Owing => move[m].doc # d
               PROVE  /\ \A p \in points : p[1] = d => p[2] = docs'[d].spoke
                      /\ \A w \in Workers : worker'[w].at \in Copying /\ worker'[w].doc = d =>
                           worker'[w].spoke = docs'[d].spoke
    BY DEF Filed
  <2>1. CASE d \in DOMAIN docs
    <3>1. docs[d].live /\ docs'[d].spoke = docs[d].spoke
      BY <2>1
    <3>2. /\ \A p \in points : p[1] = d => p[2] = docs[d].spoke
          /\ \A w \in Workers : worker[w].at \in Copying /\ worker[w].doc = d =>
               worker[w].spoke = docs[d].spoke
      BY <2>1, <3>1 DEF Inv, Filed
    <3> QED
      BY <3>1, <3>2
  <2>2. CASE d \notin DOMAIN docs
    <3>1. \A p \in points : p[1] # d
      BY <2>2 DEF Inv, PointsOK
    <3>2. ASSUME NEW w \in Workers, worker'[w].at \in Copying
          PROVE  worker'[w].doc \in DOMAIN docs
      BY <3>2 DEF Inv, WorkersOK, Copying
    <3> QED
      BY <2>2, <3>1, <3>2
  <2> QED
    BY <2>1, <2>2
<1> QED
  BY <1>1, <1>2, <1>3

-----------------------------------------------------------------------------
(* Every action preserves the invariant. *)

\* An upload goes on without a row.
LEMMA UploadGoesOn ==
  ASSUME Inv, NEW u \in Uploads, NEW r, DOMAIN r = UploadFields, r.at # "registered",
         upload' = [upload EXCEPT ![u] = r],
         UNCHANGED <<docs, queue, points, move, worker, lapsed>>
  PROVE  Inv'
<1>1. KeepsJobs({})
  BY DEF KeepsJobs
<1>2. WorkersOK'
  BY <1>1, WorkersStay
<1>3. UploadsOK'
  BY <1>1, UploadsKept
<1>4. NoChildYet' /\ FanoutIdempotent'
  BY ChildrenStay
<1>5. MovesOK' /\ PointsOK' /\ CleanMoves' /\ LapsesShow' /\ Filed'
  BY Unmoved
<1>6. RowsOK' /\ QueueOK'
  BY DEF Inv, RowsOK, QueueOK
<1> QED
  BY <1>2, <1>3, <1>4, <1>5, <1>6 DEF Inv

LEMMA RejectedStep == ASSUME Inv, NEW u \in Uploads, UploadRejected(u) PROVE Inv'
<1> DEFINE r == [upload[u] EXCEPT !.at = "over"]
<1>1. DOMAIN upload[u] = UploadFields
  BY DEF Inv, UploadsOK
<1>2. DOMAIN r = UploadFields /\ r.at = "over"
  BY <1>1 DEF UploadFields
<1>3. upload' = [upload EXCEPT ![u] = r] /\ UNCHANGED <<docs, queue, points, move, worker, lapsed>>
  BY DEF UploadRejected
<1> HIDE DEF r
<1> QED
  BY <1>2, <1>3, UploadGoesOn

LEMMA CheckedStep == ASSUME Inv, NEW u \in Uploads, UploadChecked(u) PROVE Inv'
<1>1. PICK f \in Files, s \in Spokes :
        upload' = [upload EXCEPT ![u] =
          IF Known(f) THEN [IdleUpload EXCEPT !.at = "over"]
          ELSE [IdleUpload EXCEPT !.at = "checked", !.file = f, !.spoke = s]]
  BY DEF UploadChecked
<1> DEFINE known == Known(f)
           over == [IdleUpload EXCEPT !.at = "over"]
           checked == [IdleUpload EXCEPT !.at = "checked", !.file = f, !.spoke = s]
           r == IF known THEN over ELSE checked
<1>2. DOMAIN over = UploadFields /\ over.at = "over"
  BY DEF IdleUpload, UploadFields
<1>3. DOMAIN checked = UploadFields /\ checked.at = "checked"
  BY DEF IdleUpload, UploadFields
<1>4. upload' = [upload EXCEPT ![u] = r]
  BY <1>1
<1> HIDE DEF over, checked, known
<1>5. DOMAIN r = UploadFields /\ r.at # "registered"
  BY <1>2, <1>3
<1> HIDE DEF r
<1>6. UNCHANGED <<docs, queue, points, move, worker, lapsed>>
  BY DEF UploadChecked
<1> QED
  BY <1>4, <1>5, <1>6, UploadGoesOn

LEMMA DiesStep == ASSUME Inv, NEW u \in Uploads, UploadDies(u) PROVE Inv'
<1> DEFINE r == [IdleUpload EXCEPT !.at = "over"]
<1>1. DOMAIN r = UploadFields /\ r.at = "over"
  BY DEF IdleUpload, UploadFields
<1>2. upload' = [upload EXCEPT ![u] = r] /\ UNCHANGED <<docs, queue, points, move, worker, lapsed>>
  BY DEF UploadDies
<1> HIDE DEF r
<1> QED
  BY <1>1, <1>2, UploadGoesOn

LEMMA RegisterStep == ASSUME Inv, NEW u \in Uploads, RegisterDocument(u) PROVE Inv'
<1> DEFINE new == Len(docs) + 1
           r == [IdleUpload EXCEPT !.at = "registered", !.doc = new]
<1>1. /\ RowsOK' /\ new \notin DOMAIN docs /\ new \in Nat
      /\ DOMAIN docs' = DOMAIN docs \cup {new}
      /\ \A e \in DOMAIN docs : docs'[e] = docs[e]
      /\ docs'[new].from = 0 /\ docs'[new].job = "none"
  BY DocumentCreated DEF RegisterDocument, Inv
<1>2. upload' = [upload EXCEPT ![u] = r]
  BY DEF RegisterDocument
<1>3. DOMAIN r = UploadFields /\ r.doc = new
  BY DEF IdleUpload, UploadFields
<1>4. UNCHANGED <<queue, points, move, worker, lapsed>>
  BY DEF RegisterDocument
<1> HIDE DEF r, new
<1>5. KeepsJobs({})
  BY <1>1 DEF KeepsJobs
<1>6. WorkersOK'
  BY <1>4, <1>5, WorkersStay
<1>7. UploadsOK'
  <2>1. \A w \in Workers : worker[w].at = "register" => worker[w].child # new
    BY <1>1 DEF Inv, WorkersOK
  <2>2. \A v \in Uploads : upload[v].at = "registered" => upload[v].doc # new
    BY <1>1 DEF Inv, UploadsOK
  <2>3. new \in DOMAIN docs' /\ docs'[new].job = "none"
    BY <1>1
  <2> QED
    BY <1>2, <1>3, <1>4, <1>5, <2>1, <2>2, <2>3, UploadsKept
<1>8. 0 \notin DOMAIN docs
  BY DEF Inv, RowsOK
<1>9. NoChildYet'
  <2> SUFFICES ASSUME NEW v \in Workers, worker[v].at = "create",
                      NEW d \in DOMAIN docs', docs'[d].live, docs'[d].from = worker[v].doc
               PROVE  docs'[d].bytes.sum # Head(worker[v].entries).sum
    BY <1>4 DEF NoChildYet
  <2>1. worker[v].doc \in DOMAIN docs
    BY DEF Inv, WorkersOK
  <2>2. d # new
    BY <2>1, <1>1, <1>8
  <2>3. d \in DOMAIN docs /\ docs'[d] = docs[d]
    BY <2>2, <1>1
  <2> QED
    BY <2>3 DEF Inv, NoChildYet
<1>10. FanoutIdempotent'
  <2> SUFFICES ASSUME NEW d \in DOMAIN docs', NEW e \in DOMAIN docs', d # e,
                      docs'[d].live, docs'[e].live, docs'[d].from # 0,
                      docs'[d].from = docs'[e].from
               PROVE  docs'[d].bytes.sum # docs'[e].bytes.sum
    BY DEF FanoutIdempotent
  <2>1. d # new /\ e # new
    BY <1>1
  <2>2. d \in DOMAIN docs /\ e \in DOMAIN docs /\ docs'[d] = docs[d] /\ docs'[e] = docs[e]
    BY <2>1, <1>1
  <2> QED
    BY <2>2 DEF Inv, FanoutIdempotent
<1>11. MovesOK' /\ PointsOK' /\ CleanMoves' /\ LapsesShow' /\ Filed'
  BY <1>1, <1>4, Unmoved
<1>12. QueueOK'
  BY <1>1, <1>4 DEF Inv, QueueOK
<1> QED
  BY <1>1, <1>6, <1>7, <1>9, <1>10, <1>11, <1>12 DEF Inv

\* A job is appended to the queue.
LEMMA Queued ==
  ASSUME Inv, NEW d \in DOMAIN docs, DOMAIN docs' = DOMAIN docs, queue' = Append(queue, d)
  PROVE  QueueOK'
<1>1. d \in Nat
  BY DEF Inv, RowsOK
<1>2. queue \in Seq(Nat)
  BY DEF Inv, QueueOK
<1>3. /\ queue' \in Seq(Nat) /\ Len(queue') = Len(queue) + 1
      /\ \A i \in 1..Len(queue) : queue'[i] = queue[i]
      /\ queue'[Len(queue) + 1] = d
  BY <1>1, <1>2, AppendProperties
<1>4. DOMAIN queue = 1..Len(queue) /\ DOMAIN queue' = 1..(Len(queue) + 1) /\ Len(queue) \in Nat
  BY <1>2, <1>3
<1>5. \A i \in DOMAIN queue' : queue'[i] \in DOMAIN docs
  BY <1>3, <1>4 DEF Inv, QueueOK
<1> QED
  BY <1>3, <1>5 DEF QueueOK

LEMMA EnqueueUploadStep == ASSUME Inv, NEW u \in Uploads, EnqueueUpload(u) PROVE Inv'
<1>1. upload[u].at = "registered"
  BY DEF EnqueueUpload
<1>2. PICK d \in DOMAIN docs : d = upload[u].doc /\ docs[d].job = "none"
  BY <1>1 DEF Inv, UploadsOK
<1>3. docs' = [docs EXCEPT ![d].job = "queued"] /\ queue' = Append(queue, d)
  BY <1>2 DEF EnqueueUpload, CreateJob
<1>4. RowsOK' /\ SameRows /\ \A e \in DOMAIN docs : e # d => docs'[e].job = docs[e].job
  BY <1>3, JobSet DEF Inv
<1>5. UNCHANGED <<points, move, worker, lapsed>>
  BY DEF EnqueueUpload, apiVars
<1>6. KeepsJobs({d})
  BY <1>4 DEF KeepsJobs, SameRows
<1>7. WorkersOK'
  <2>1. \A w \in Workers : worker[w].at # "idle" => worker[w].doc # d
    BY <1>2 DEF Inv, WorkersOK
  <2>2. \A w \in Workers : worker[w].at = "register" => worker[w].child # d
    BY <1>1, <1>2 DEF Inv, UploadsOK
  <2> QED
    BY <1>5, <1>6, <2>1, <2>2, WorkersStay
<1>8. UploadsOK'
  <2> DEFINE r == [IdleUpload EXCEPT !.at = "over"]
  <2>1. DOMAIN r = UploadFields /\ r.at = "over"
    BY DEF IdleUpload, UploadFields
  <2>2. upload' = [upload EXCEPT ![u] = r]
    BY DEF EnqueueUpload
  <2> HIDE DEF r
  <2>3. \A v \in Uploads : v # u /\ upload[v].at = "registered" => upload[v].doc # d
    BY <1>1, <1>2 DEF Inv, UploadsOK
  <2> QED
    BY <1>5, <1>6, <2>1, <2>2, <2>3, UploadsKept
<1>9. NoChildYet' /\ FanoutIdempotent'
  BY <1>4, <1>5, ChildrenStay DEF SameRows
<1>10. MovesOK' /\ PointsOK' /\ CleanMoves' /\ LapsesShow' /\ Filed'
  BY <1>4, <1>5, Unmoved DEF SameRows
<1>11. QueueOK'
  BY <1>3, <1>4, Queued DEF SameRows
<1> QED
  BY <1>4, <1>7, <1>8, <1>9, <1>10, <1>11 DEF Inv

LEMMA DeleteStep == ASSUME Inv, NEW d \in DOMAIN docs, Delete(d) PROVE Inv'
<1>1. /\ RowsOK' /\ SameRows
      /\ \A e \in DOMAIN docs : docs[e].job \in {"processing", "none"} => docs'[e].job = docs[e].job
  BY RowTombstoned DEF Inv
<1>2. UNCHANGED <<queue, points, upload, move, worker, lapsed>>
  BY DEF Delete, apiVars
<1>3. KeepsJobs({})
  BY <1>1 DEF KeepsJobs, SameRows
<1>4. WorkersOK'
  BY <1>2, <1>3, WorkersStay
<1>5. UploadsOK'
  <2>1. \A u \in Uploads, w \in Workers :
          upload[u].at = "registered" /\ worker'[w].at = "register" =>
            worker'[w].child # upload[u].doc
    BY <1>2 DEF Inv, UploadsOK
  <2> QED
    BY <1>2, <1>3, <2>1, UploadsStay
<1>6. NoChildYet' /\ FanoutIdempotent'
  BY <1>1, <1>2, ChildrenStay DEF SameRows
<1>7. MovesOK' /\ PointsOK' /\ CleanMoves' /\ LapsesShow' /\ Filed'
  BY <1>1, <1>2, Unmoved DEF SameRows
<1>8. QueueOK'
  BY <1>1, <1>2 DEF Inv, QueueOK, SameRows
<1> QED
  BY <1>1, <1>4, <1>5, <1>6, <1>7, <1>8 DEF Inv

LEMMA ClaimStep == ASSUME Inv, NEW w \in Workers, Claim(w) PROVE Inv'
<1>1. PICK d \in DOMAIN docs :
        /\ docs[d].job \in {"queued", "retry_pending"}
        /\ RowsOK' /\ SameRows
        /\ docs'[d].job = "processing"
        /\ \A e \in DOMAIN docs : e # d => docs'[e].job = docs[e].job
        /\ WorkerActs(w)
        /\ worker'[w].at = "load" /\ worker'[w].doc = d
  BY ClaimDoes
<1>2. UNCHANGED <<queue, points, upload, move, lapsed>>
  BY DEF Claim, apiVars
<1>3. KeepsJobs({})
  BY <1>1 DEF KeepsJobs, SameRows
<1>4. \A v \in Workers : v # w => worker'[v] = worker[v]
  BY <1>1 DEF WorkerActs
<1>5. WorkersOK'
  <2>1. \A v \in Workers : v # w /\ worker[v].at # "idle" => worker[v].doc # d
    BY <1>1 DEF Inv, WorkersOK
  <2>2. d \in DOMAIN docs'
    BY <1>1 DEF SameRows
  <2> QED
    BY <1>1, <1>3, <2>1, <2>2, WorkersKept
<1>6. UploadsOK'
  <2>1. \A u \in Uploads, v \in Workers :
          upload[u].at = "registered" /\ worker'[v].at = "register" =>
            worker'[v].child # upload[u].doc
    BY <1>1, <1>4 DEF Inv, UploadsOK
  <2> QED
    BY <1>2, <1>3, <2>1, UploadsStay
<1>7. NoChildYet' /\ FanoutIdempotent'
  BY <1>1, <1>4, ChildrenStay DEF SameRows
<1>8. MovesOK' /\ PointsOK' /\ CleanMoves' /\ LapsesShow' /\ Filed'
  BY <1>1, <1>2, <1>4, Unmoved DEF SameRows, Copying
<1>9. QueueOK'
  BY <1>1, <1>2 DEF Inv, QueueOK, SameRows
<1> QED
  BY <1>1, <1>5, <1>6, <1>7, <1>8, <1>9 DEF Inv

\* A worker becomes idle, whatever it makes of its document.
LEMMA LetGo ==
  ASSUME Inv, NEW w \in Workers, worker[w].at # "idle", RowsOK', SameRows,
         \A e \in DOMAIN docs : e # worker[w].doc => docs'[e].job = docs[e].job,
         WorkerActs(w), worker'[w].at = "idle",
         UNCHANGED <<queue, points, upload, move, lapsed>>
  PROVE  Inv'
<1>1. PICK d \in DOMAIN docs : d = worker[w].doc /\ docs[d].job = "processing"
  BY DEF Inv, WorkersOK
<1>2. KeepsJobs({d})
  BY <1>1 DEF KeepsJobs, SameRows
<1>3. \A v \in Workers : v # w => worker'[v] = worker[v]
  BY DEF WorkerActs
<1>4. WorkersOK'
  <2>1. \A v \in Workers : v # w /\ worker[v].at # "idle" => worker[v].doc # d
    BY <1>1 DEF Inv, WorkersOK
  <2>2. \A v \in Workers : worker[v].at = "register" => worker[v].child # d
    BY <1>1 DEF Inv, WorkersOK
  <2> QED
    BY <1>2, <2>1, <2>2, WorkersKept
<1>5. UploadsOK'
  <2>1. \A u \in Uploads : upload[u].at = "registered" => upload[u].doc # d
    BY <1>1 DEF Inv, UploadsOK
  <2>2. \A u \in Uploads, v \in Workers :
          upload[u].at = "registered" /\ worker'[v].at = "register" =>
            worker'[v].child # upload[u].doc
    BY <1>3 DEF Inv, UploadsOK
  <2> QED
    BY <1>2, <2>1, <2>2, UploadsStay
<1>6. NoChildYet' /\ FanoutIdempotent'
  BY <1>3, ChildrenStay DEF SameRows
<1>7. MovesOK' /\ PointsOK' /\ CleanMoves' /\ LapsesShow' /\ Filed'
  BY <1>3, Unmoved DEF SameRows, Copying
<1>8. QueueOK'
  BY DEF Inv, QueueOK, SameRows
<1> QED
  BY <1>4, <1>5, <1>6, <1>7, <1>8 DEF Inv

LEMMA SettleStep ==
  ASSUME Inv, NEW w \in Workers, worker[w].at # "idle", NEW j, Settle(w, j)
  PROVE  Inv'
<1>1. /\ docs' = [docs EXCEPT ![worker[w].doc].job = j]
      /\ Release(w)
      /\ UNCHANGED <<queue, points, upload, move, lapsed>>
  BY DEF Settle, apiVars
<1> QED
  BY <1>1, LetsGo, LetGo

\* An exception of the attempt, injected or one the archive's bytes are bound to
\* raise.
LEMMA FaultStep ==
  ASSUME Inv, NEW w \in Workers, StageFault(w) \/ UnpackRaises(w) PROVE Inv'
<1> DEFINE j == IF docs[worker[w].doc].attempts >= MaxAttempts THEN "failed" ELSE "retry_pending"
<1>1. /\ worker[w].at # "idle"
      /\ docs' = [docs EXCEPT ![worker[w].doc].job = j]
      /\ Release(w)
      /\ UNCHANGED <<queue, points, upload, move, lapsed>>
  BY DEF StageFault, UnpackRaises, Reschedule, apiVars
<1> HIDE DEF j
<1> QED
  BY <1>1, LetsGo, LetGo

LEMMA CrashStep == ASSUME Inv, NEW w \in Workers, Crash(w) PROVE Inv'
<1>1. worker[w].at # "idle" /\ UNCHANGED <<docs, queue, points, upload, move, lapsed>>
  BY DEF Crash, apiVars
<1>2. WorkerActs(w) /\ worker'[w].at = "idle"
  BY Released DEF Crash, Inv
<1>3. RowsOK' /\ SameRows /\ \A e \in DOMAIN docs : docs'[e].job = docs[e].job
  BY <1>1 DEF Inv, RowsOK, SameRows
<1> QED
  BY <1>1, <1>2, <1>3, LetGo

\* A worker goes on with its document, not in the middle of a registration.
LEMMA Held ==
  ASSUME Inv, NEW w \in Workers, GoesOn(w), worker'[w].at # "register",
         UNCHANGED <<queue, upload>>
  PROVE  RowsOK' /\ WorkersOK' /\ UploadsOK' /\ QueueOK'
<1>1. KeepsJobs({})
  BY DEF GoesOn, KeepsJobs
<1>2. \A v \in Workers : v # w => worker'[v] = worker[v]
  BY DEF GoesOn, WorkerActs
<1>3. WorkersOK'
  <2>1. /\ worker[w].doc \in DOMAIN docs /\ docs[worker[w].doc].job = "processing"
        /\ \A v \in Workers : v # w /\ worker[v].at # "idle" => worker[v].doc # worker[w].doc
    BY DEF Inv, WorkersOK, GoesOn
  <2>2. worker'[w].doc = worker[w].doc /\ docs' = docs /\ WorkerActs(w)
    BY DEF GoesOn
  <2> QED
    BY <1>1, <2>1, <2>2, WorkersKept
<1>4. UploadsOK'
  <2>1. \A u \in Uploads, v \in Workers :
          upload[u].at = "registered" /\ worker'[v].at = "register" =>
            worker'[v].child # upload[u].doc
    BY <1>2 DEF Inv, UploadsOK
  <2> QED
    BY <1>1, <2>1, UploadsStay
<1>5. RowsOK' /\ QueueOK'
  BY DEF Inv, RowsOK, QueueOK, GoesOn
<1> QED
  BY <1>3, <1>4, <1>5

\* ... and not about to create a child either.
LEMMA WorkerGoesOn ==
  ASSUME Inv, NEW w \in Workers, GoesOn(w), worker'[w].at \notin {"create", "register"},
         worker'[w].at \in Copying => worker'[w].spoke = docs[worker[w].doc].spoke,
         UNCHANGED <<queue, points, upload, move, lapsed>>
  PROVE  Inv'
<1>1. RowsOK' /\ WorkersOK' /\ UploadsOK' /\ QueueOK'
  BY Held
<1>2. /\ docs' = docs /\ worker'[w].doc = worker[w].doc /\ worker[w].doc \in DOMAIN docs
      /\ \A v \in Workers : v # w => worker'[v] = worker[v]
  BY DEF GoesOn, WorkerActs, Inv, WorkersOK
<1>3. NoChildYet' /\ FanoutIdempotent'
  BY <1>2, ChildrenStay
<1>4. MovesOK' /\ PointsOK' /\ CleanMoves' /\ LapsesShow' /\ Filed'
  BY <1>2, Unmoved
<1> QED
  BY <1>1, <1>3, <1>4 DEF Inv

LEMMA LoadStep == ASSUME Inv, NEW w \in Workers, Load(w) PROVE Inv'
<1>1. UNCHANGED <<queue, points, upload, move, lapsed>>
  BY DEF Load, apiVars
<1> QED
  BY <1>1, LoadDoes, WorkerGoesOn

LEMMA UnpackStep == ASSUME Inv, NEW w \in Workers, Unpack(w) PROVE Inv'
<1>1. UNCHANGED <<queue, points, upload, move, lapsed>>
  BY DEF Unpack, apiVars
<1> QED
  BY <1>1, UnpackDoes, WorkerGoesOn DEF Copying

LEMMA VisitStep == ASSUME Inv, NEW w \in Workers, VisitEntry(w) PROVE Inv'
<1>1. /\ GoesOn(w) /\ worker'[w].at \in {"visit", "create"}
      /\ worker'[w].at = "create" => ~Known(Head(worker'[w].entries))
  BY VisitDoes
<1>2. UNCHANGED <<queue, points, upload, move, lapsed>>
  BY DEF VisitEntry, apiVars
<1>3. RowsOK' /\ WorkersOK' /\ UploadsOK' /\ QueueOK'
  BY <1>1, <1>2, Held
<1>4. docs' = docs /\ \A v \in Workers : v # w => worker'[v] = worker[v]
  BY <1>1 DEF GoesOn, WorkerActs
<1>5. NoChildYet'
  <2> SUFFICES ASSUME NEW v \in Workers, worker'[v].at = "create",
                      NEW d \in DOMAIN docs, docs[d].live, docs[d].from = worker'[v].doc
               PROVE  docs[d].bytes.sum # Head(worker'[v].entries).sum
    BY <1>4 DEF NoChildYet
  <2>1. CASE v = w
    BY <2>1, <1>1 DEF Known
  <2>2. CASE v # w
    BY <2>2, <1>4 DEF Inv, NoChildYet
  <2> QED
    BY <2>1, <2>2
<1>6. FanoutIdempotent'
  BY <1>4 DEF Inv, FanoutIdempotent
<1>7. MovesOK' /\ PointsOK' /\ CleanMoves' /\ LapsesShow' /\ Filed'
  BY <1>1, <1>2, <1>4, Unmoved DEF Copying
<1> QED
  BY <1>3, <1>5, <1>6, <1>7 DEF Inv

LEMMA CreateStep == ASSUME Inv, NEW w \in Workers, CreateChild(w) PROVE Inv'
<1> DEFINE new == Len(docs) + 1
           entry == Head(worker[w].entries)
<1>1. /\ docs' = Append(docs, NewDocument(entry, General, worker[w].doc))
      /\ WorkerActs(w)
      /\ worker[w].at = "create" /\ worker'[w].at = "register"
      /\ worker'[w].doc = worker[w].doc
      /\ worker'[w].child = new
  BY CreateDoes
<1> HIDE DEF entry
<1>2. /\ RowsOK' /\ new \notin DOMAIN docs /\ new \in Nat
      /\ DOMAIN docs' = DOMAIN docs \cup {new}
      /\ \A e \in DOMAIN docs : docs'[e] = docs[e]
      /\ docs'[new].bytes = entry /\ docs'[new].from = worker[w].doc
      /\ docs'[new].job = "none"
  BY <1>1, DocumentCreated DEF Inv
<1> HIDE DEF new
<1>3. UNCHANGED <<queue, points, upload, move, lapsed>>
  BY DEF CreateChild, apiVars
<1>4. KeepsJobs({})
  BY <1>2 DEF KeepsJobs
<1>5. \A v \in Workers : v # w => worker'[v] = worker[v]
  BY <1>1 DEF WorkerActs
<1>6. /\ worker[w].doc \in DOMAIN docs /\ docs[worker[w].doc].job = "processing"
      /\ \A v \in Workers : v # w /\ worker[v].at # "idle" => worker[v].doc # worker[w].doc
  BY <1>1 DEF Inv, WorkersOK
<1>7. WorkersOK'
  <2>1. \A v \in Workers : worker[v].at = "register" => worker[v].child # new
    BY <1>2 DEF Inv, WorkersOK
  <2>2. worker'[w].doc \in DOMAIN docs' /\ docs'[worker'[w].doc].job = "processing"
    BY <1>1, <1>2, <1>6
  <2>3. worker'[w].child \in DOMAIN docs' /\ docs'[worker'[w].child].job = "none"
    BY <1>1, <1>2
  <2> QED
    BY <1>1, <1>4, <1>6, <2>1, <2>2, <2>3, WorkersKept
<1>8. UploadsOK'
  <2>1. \A u \in Uploads : upload[u].at = "registered" => upload[u].doc # new
    BY <1>2 DEF Inv, UploadsOK
  <2>2. \A u \in Uploads, v \in Workers :
          upload[u].at = "registered" /\ worker'[v].at = "register" =>
            worker'[v].child # upload[u].doc
    BY <1>1, <1>5, <2>1 DEF Inv, UploadsOK
  <2> QED
    BY <1>3, <1>4, <2>2, UploadsStay
<1>9. NoChildYet'
  <2> SUFFICES ASSUME NEW v \in Workers, worker'[v].at = "create",
                      NEW d \in DOMAIN docs', docs'[d].live, docs'[d].from = worker'[v].doc
               PROVE  docs'[d].bytes.sum # Head(worker'[v].entries).sum
    BY DEF NoChildYet
  <2>1. v # w /\ worker'[v] = worker[v]
    BY <1>1, <1>5
  <2>2. worker[v].doc # worker[w].doc
    BY <2>1, <1>6
  <2>3. d # new
    BY <2>1, <2>2, <1>2
  <2>4. d \in DOMAIN docs /\ docs'[d] = docs[d]
    BY <2>3, <1>2
  <2> QED
    BY <2>1, <2>4 DEF Inv, NoChildYet
<1>10. \A d \in DOMAIN docs : docs[d].live /\ docs[d].from = worker[w].doc =>
         docs[d].bytes.sum # entry.sum
  BY <1>1 DEF Inv, NoChildYet, entry
<1>11. FanoutIdempotent'
  <2> SUFFICES ASSUME NEW d \in DOMAIN docs', NEW e \in DOMAIN docs', d # e,
                      docs'[d].live, docs'[e].live, docs'[d].from # 0,
                      docs'[d].from = docs'[e].from
               PROVE  docs'[d].bytes.sum # docs'[e].bytes.sum
    BY DEF FanoutIdempotent
  <2>1. CASE d = new
    <3>1. e \in DOMAIN docs /\ docs'[e] = docs[e]
      BY <2>1, <1>2
    <3> QED
      BY <2>1, <3>1, <1>2, <1>10
  <2>2. CASE e = new
    <3>1. d \in DOMAIN docs /\ docs'[d] = docs[d]
      BY <2>2, <1>2
    <3> QED
      BY <2>2, <3>1, <1>2, <1>10
  <2>3. CASE d # new /\ e # new
    <3>1. d \in DOMAIN docs /\ e \in DOMAIN docs /\ docs'[d] = docs[d] /\ docs'[e] = docs[e]
      BY <2>3, <1>2
    <3> QED
      BY <3>1 DEF Inv, FanoutIdempotent
  <2> QED
    BY <2>1, <2>2, <2>3
<1>12. MovesOK' /\ PointsOK' /\ CleanMoves' /\ LapsesShow' /\ Filed'
  BY <1>1, <1>2, <1>3, <1>5, Unmoved DEF Copying
<1>13. QueueOK'
  BY <1>2, <1>3 DEF Inv, QueueOK
<1> QED
  BY <1>2, <1>7, <1>8, <1>9, <1>11, <1>12, <1>13 DEF Inv

LEMMA EnqueueChildStep == ASSUME Inv, NEW w \in Workers, EnqueueChild(w) PROVE Inv'
<1>1. /\ RowsOK' /\ SameRows
      /\ \A e \in DOMAIN docs : e # worker[w].child => docs'[e].job = docs[e].job
      /\ WorkerActs(w)
      /\ worker[w].at = "register" /\ worker'[w].at = "visit"
      /\ worker'[w].doc = worker[w].doc
      /\ queue' = Append(queue, worker[w].child)
  BY EnqueueDoes
<1>2. UNCHANGED <<points, upload, move, lapsed>>
  BY DEF EnqueueChild, apiVars
<1>3. PICK d \in DOMAIN docs : d = worker[w].child /\ docs[d].job = "none"
  BY <1>1 DEF Inv, WorkersOK
<1>4. KeepsJobs({d})
  BY <1>1, <1>3 DEF KeepsJobs, SameRows
<1>5. \A v \in Workers : v # w => worker'[v] = worker[v]
  BY <1>1 DEF WorkerActs
<1>6. /\ worker[w].doc \in DOMAIN docs /\ docs[worker[w].doc].job = "processing"
      /\ \A v \in Workers : v # w /\ worker[v].at # "idle" => worker[v].doc # worker[w].doc
  BY <1>1 DEF Inv, WorkersOK
<1>7. WorkersOK'
  <2>1. \A v \in Workers : worker[v].at # "idle" => worker[v].doc # d
    BY <1>3 DEF Inv, WorkersOK
  <2>2. \A v \in Workers : v # w /\ worker[v].at = "register" => worker[v].child # d
    BY <1>1, <1>3 DEF Inv, WorkersOK
  <2>3. worker'[w].doc \in DOMAIN docs' /\ docs'[worker'[w].doc].job = "processing"
    BY <1>1, <1>3, <1>6 DEF SameRows
  <2> QED
    BY <1>1, <1>4, <1>6, <2>1, <2>2, <2>3, WorkersKept
<1>8. UploadsOK'
  <2>1. \A u \in Uploads : upload[u].at = "registered" => upload[u].doc # d
    BY <1>1, <1>3 DEF Inv, UploadsOK
  <2>2. \A u \in Uploads, v \in Workers :
          upload[u].at = "registered" /\ worker'[v].at = "register" =>
            worker'[v].child # upload[u].doc
    BY <1>1, <1>5 DEF Inv, UploadsOK
  <2> QED
    BY <1>2, <1>4, <2>1, <2>2, UploadsStay
<1>9. NoChildYet' /\ FanoutIdempotent'
  BY <1>1, <1>5, ChildrenStay DEF SameRows
<1>10. MovesOK' /\ PointsOK' /\ CleanMoves' /\ LapsesShow' /\ Filed'
  BY <1>1, <1>2, <1>5, Unmoved DEF SameRows, Copying
<1>11. QueueOK'
  BY <1>1, <1>3, Queued DEF SameRows
<1> QED
  BY <1>1, <1>7, <1>8, <1>9, <1>10, <1>11 DEF Inv

LEMMA UpsertStep == ASSUME Inv, NEW w \in Workers, UpsertChunk(w) PROVE Inv'
<1>1. /\ GoesOn(w) /\ worker'[w].at = "upserted"
      /\ worker'[w].spoke = worker[w].spoke
  BY UpsertDoes
<1>2. /\ worker[w].at \in Copying
      /\ points' = points \cup {<<worker[w].doc, worker[w].spoke>>}
      /\ UNCHANGED <<docs, queue, upload, move, lapsed>>
  BY DEF UpsertChunk, apiVars
<1>3. RowsOK' /\ WorkersOK' /\ UploadsOK' /\ QueueOK'
  BY <1>1, <1>2, Held
<1>4. \A v \in Workers : v # w => worker'[v] = worker[v]
  BY <1>1 DEF GoesOn, WorkerActs
<1>5. NoChildYet' /\ FanoutIdempotent'
  BY <1>1, <1>2, <1>4, ChildrenStay
<1>6. worker[w].doc \in DOMAIN docs /\ worker'[w].doc = worker[w].doc
  BY <1>1 DEF Inv, WorkersOK, GoesOn
<1>7. MovesOK' /\ PointsOK' /\ LapsesShow'
  BY <1>2, <1>6 DEF Inv, MovesOK, PointsOK, LapsesShow
\* Its copy is the one it held.
<1>8. \A v \in Workers : worker'[v].at \in Copying =>
        /\ worker[v].at \in Copying
        /\ worker'[v].doc = worker[v].doc /\ worker'[v].spoke = worker[v].spoke
  BY <1>1, <1>2, <1>4, <1>6
<1>9. CleanMoves'
  BY <1>2, <1>8 DEF Inv, CleanMoves
<1>10. Filed'
  <2> SUFFICES ASSUME NEW d \in DOMAIN docs, docs[d].live, d \notin lapsed,
                      \A m \in Moves : move[m].at \in Owing => move[m].doc # d
               PROVE  /\ \A p \in points' : p[1] = d => p[2] = docs[d].spoke
                      /\ \A v \in Workers : worker'[v].at \in Copying /\ worker'[v].doc = d =>
                           worker'[v].spoke = docs[d].spoke
    BY <1>2 DEF Filed
  <2>1. /\ \A p \in points : p[1] = d => p[2] = docs[d].spoke
        /\ \A v \in Workers : worker[v].at \in Copying /\ worker[v].doc = d =>
             worker[v].spoke = docs[d].spoke
    BY DEF Inv, Filed
  <2> QED
    BY <2>1, <1>2, <1>8
<1> QED
  BY <1>3, <1>5, <1>7, <1>9, <1>10 DEF Inv

\* A move touches nothing but the spoke of its row.
LEMMA Aside ==
  ASSUME Inv, RowsOK', UNCHANGED <<queue, upload, worker>>, DOMAIN docs' = DOMAIN docs,
         \A e \in DOMAIN docs : /\ docs'[e].bytes = docs[e].bytes
                                /\ docs'[e].from = docs[e].from
                                /\ docs'[e].job = docs[e].job
                                /\ docs'[e].live = docs[e].live
  PROVE  /\ RowsOK' /\ WorkersOK' /\ UploadsOK' /\ QueueOK' /\ NoChildYet'
         /\ FanoutIdempotent'
<1>1. KeepsJobs({})
  BY DEF KeepsJobs
<1>2. WorkersOK'
  BY <1>1, WorkersStay
<1>3. \A u \in Uploads, w \in Workers :
        upload[u].at = "registered" /\ worker'[w].at = "register" =>
          worker'[w].child # upload[u].doc
  BY DEF Inv, UploadsOK
<1>4. UploadsOK'
  BY <1>1, <1>3, UploadsStay
<1>5. NoChildYet' /\ FanoutIdempotent'
  BY ChildrenStay
<1>6. QueueOK'
  BY DEF Inv, QueueOK
<1> QED
  BY <1>2, <1>4, <1>5, <1>6

LEMMA RowsUntouched ==
  ASSUME Inv, UNCHANGED <<docs, queue, upload, worker>>
  PROVE  /\ RowsOK' /\ WorkersOK' /\ UploadsOK' /\ QueueOK' /\ NoChildYet'
         /\ FanoutIdempotent'
<1>1. RowsOK'
  BY DEF Inv, RowsOK
<1> QED
  BY <1>1, Aside

LEMMA MoveReplaced ==
  ASSUME MovesOK, NEW m \in Moves, NEW r \in MoveType, UNCHANGED docs,
         r.at \in {"read"} \cup Owing => r.doc \in DOMAIN docs,
         move' = [move EXCEPT ![m] = r]
  PROVE  /\ MovesOK'
         /\ move'[m] = r
         /\ \A n \in Moves : n # m => move'[n] = move[n]
BY DEF MovesOK

\* A move that owes nothing goes on to owe nothing.
LEMMA MoveIdles ==
  ASSUME Inv, NEW m \in Moves, NEW r \in MoveType, move[m].at \notin Owing, r.at \notin Owing,
         r.at = "read" => r.doc \in DOMAIN docs,
         move' = [move EXCEPT ![m] = r],
         UNCHANGED <<docs, queue, points, upload, worker, lapsed>>
  PROVE  Inv'
<1>1. /\ MovesOK' /\ move'[m] = r
      /\ \A n \in Moves : n # m => move'[n] = move[n]
  BY MoveReplaced DEF Inv
<1>2. \A n \in Moves : move'[n].at \in Owing => n # m /\ move'[n] = move[n]
  BY <1>1
<1>3. \A n \in Moves : move[n].at \in Owing => n # m /\ move'[n] = move[n]
  BY <1>1
<1>4. /\ RowsOK' /\ WorkersOK' /\ UploadsOK' /\ QueueOK' /\ NoChildYet'
      /\ FanoutIdempotent'
  BY RowsUntouched
<1>5. PointsOK' /\ LapsesShow'
  BY <1>2 DEF Inv, PointsOK, LapsesShow
<1>6. CleanMoves'
  BY <1>2 DEF Inv, CleanMoves
<1>7. Filed'
  BY <1>3 DEF Inv, Filed
<1> QED
  BY <1>1, <1>4, <1>5, <1>6, <1>7 DEF Inv

LEMMA UnneededStep ==
  ASSUME Inv, NEW m \in Moves, NEW d, NEW s, MoveUnneeded(m, d, s)
  PROVE  Inv'
<1> DEFINE r == [move[m] EXCEPT !.at = "answered"]
<1>1. r \in MoveType /\ r.at = "answered"
  BY DEF Inv, MovesOK, MoveType
<1>2. /\ move' = [move EXCEPT ![m] = r] /\ move[m].at = "idle"
      /\ UNCHANGED <<docs, queue, points, upload, worker, lapsed>>
  BY DEF MoveUnneeded
<1> HIDE DEF r
<1> QED
  BY <1>1, <1>2, MoveIdles DEF Owing

LEMMA ReadStep ==
  ASSUME Inv, NEW m \in Moves, NEW d \in DOMAIN docs, NEW s \in Spokes, MoveRead(m, d, s)
  PROVE  Inv'
<1> DEFINE r == [IdleMove EXCEPT !.at = "read", !.doc = d, !.spoke = s]
<1>1. d \in Nat
  BY DEF Inv, RowsOK
<1>2. r \in MoveType /\ r.at = "read" /\ r.doc = d
  BY <1>1, FilingAssumption DEF IdleMove, MoveType
<1>3. /\ move' = [move EXCEPT ![m] = r] /\ move[m].at = "idle"
      /\ UNCHANGED <<docs, queue, points, upload, worker, lapsed>>
  BY DEF MoveRead
<1> HIDE DEF r
<1> QED
  BY <1>2, <1>3, MoveIdles DEF Owing

LEMMA UpdateStep == ASSUME Inv, NEW m \in Moves, MoveUpdate(m) PROVE Inv'
<1>1. PICK d \in DOMAIN docs : d = move[m].doc
  BY DEF Inv, MovesOK, MoveUpdate
<1> DEFINE alone == Holders(d) = {} /\ OwingMoves(d) = {}
           mine == [move[m] EXCEPT !.at = "updated", !.clean = alone]
<1>2. /\ move[m].at = "read"
      /\ docs' = [docs EXCEPT ![d].spoke = move[m].spoke]
      /\ move' = [n \in Moves |->
           IF n = m THEN [move[n] EXCEPT !.at = "updated", !.clean = alone]
           ELSE IF n \in OwingMoves(d) THEN [move[n] EXCEPT !.clean = FALSE]
           ELSE move[n]]
      /\ lapsed' = IF alone THEN lapsed ELSE lapsed \cup {d}
      /\ UNCHANGED <<queue, points, upload, worker>>
  BY <1>1 DEF MoveUpdate
<1>3. move'[m] = mine
  BY <1>2
<1>4. /\ mine \in MoveType /\ mine.at = "updated" /\ mine.doc = d
      /\ mine.spoke = move[m].spoke /\ mine.clean = alone
  BY <1>1 DEF Inv, MovesOK, MoveType
<1>5. alone => /\ \A w \in Workers : ~(worker[w].at \in Copying /\ worker[w].doc = d)
               /\ \A n \in Moves : ~(move[n].at \in Owing /\ move[n].doc = d)
  BY DEF Holders, OwingMoves
<1>6. ~alone => d \in lapsed'
  BY <1>2
<1>7. ASSUME NEW n \in Moves, n # m, move[n].at \in Owing, move[n].doc = d
      PROVE  /\ ~alone
             /\ move'[n] \in MoveType /\ move'[n].at = move[n].at
             /\ move'[n].doc = d /\ move'[n].clean = FALSE
  <2>1. n \in OwingMoves(d)
    BY <1>7 DEF OwingMoves
  <2>2. move'[n] = [move[n] EXCEPT !.clean = FALSE]
    BY <1>2, <1>7, <2>1
  <2>3. move[n] \in MoveType
    BY DEF Inv, MovesOK
  <2> QED
    BY <1>7, <2>1, <2>2, <2>3 DEF MoveType
<1>8. ASSUME NEW n \in Moves, n # m, ~(move[n].at \in Owing /\ move[n].doc = d)
      PROVE  move'[n] = move[n]
  BY <1>2, <1>8 DEF OwingMoves
<1>9. lapsed \subseteq lapsed' /\ DOMAIN move' = Moves
  BY <1>2
<1>10. UNCHANGED <<queue, points, upload, worker>> /\ move[m].at = "read"
  BY <1>2
<1>11. /\ RowsOK' /\ DOMAIN docs' = DOMAIN docs /\ docs'[d].spoke = move[m].spoke
       /\ \A e \in DOMAIN docs : /\ docs'[e].bytes = docs[e].bytes
                                 /\ docs'[e].from = docs[e].from
                                 /\ docs'[e].job = docs[e].job
                                 /\ docs'[e].live = docs[e].live
                                 /\ e # d => docs'[e].spoke = docs[e].spoke
  BY <1>2, RowMoved DEF Inv
<1> HIDE DEF alone, mine
<1>12. /\ RowsOK' /\ WorkersOK' /\ UploadsOK' /\ QueueOK' /\ NoChildYet'
       /\ FanoutIdempotent'
  BY <1>10, <1>11, Aside
\* Who owes an update afterwards.
<1>13. ASSUME NEW n \in Moves, n # m
       PROVE  move'[n].at = move[n].at /\ move'[n].doc = move[n].doc /\ move'[n] \in MoveType
  BY <1>7, <1>8, <1>13 DEF Inv, MovesOK
<1>14. move' \in [Moves -> MoveType]
  <2>1. \A n \in Moves : move'[n] \in MoveType
    BY <1>3, <1>4, <1>13
  <2>2. move' = [n \in Moves |-> move'[n]]
    BY <1>2
  <2> QED
    BY <2>1, <2>2
<1>15. MovesOK'
  BY <1>3, <1>4, <1>11, <1>13, <1>14 DEF Inv, MovesOK
<1>16. PointsOK'
  BY <1>10, <1>11 DEF Inv, PointsOK
<1>17. CleanMoves'
  <2> SUFFICES ASSUME NEW n \in Moves, move'[n].at \in Owing, move'[n].clean
               PROVE  /\ docs'[move'[n].doc].spoke = move'[n].spoke
                      /\ \A w \in Workers :
                           worker[w].at \in Copying /\ worker[w].doc = move'[n].doc =>
                             worker[w].spoke = move'[n].spoke
                      /\ \A x \in Moves :
                           move'[x].at \in Owing /\ move'[x].doc = move'[n].doc => x = n
    BY <1>10 DEF CleanMoves
  <2>1. CASE n = m
    <3>1. alone
      BY <2>1, <1>3, <1>4
    <3>2. \A x \in Moves : x # m => ~(move'[x].at \in Owing /\ move'[x].doc = d)
      BY <3>1, <1>5, <1>13
    <3> QED
      BY <2>1, <3>1, <3>2, <1>3, <1>4, <1>5, <1>11
  <2>2. CASE n # m
    <3>1. move'[n] = move[n] /\ move[n].doc # d
      BY <2>2, <1>7, <1>8, <1>13
    <3>2. /\ docs[move[n].doc].spoke = move[n].spoke
          /\ \A w \in Workers : worker[w].at \in Copying /\ worker[w].doc = move[n].doc =>
               worker[w].spoke = move[n].spoke
          /\ \A x \in Moves : move[x].at \in Owing /\ move[x].doc = move[n].doc => x = n
      BY <3>1 DEF Inv, CleanMoves
    <3>3. move[n].doc \in DOMAIN docs
      BY <3>1 DEF Inv, MovesOK
    <3>4. \A x \in Moves : move'[x].at \in Owing /\ move'[x].doc = move[n].doc => x = n
      BY <3>1, <3>2, <1>3, <1>4, <1>13
    <3> QED
      BY <3>1, <3>2, <3>3, <3>4, <1>11
  <2> QED
    BY <2>1, <2>2
<1>18. LapsesShow'
  <2> SUFFICES ASSUME NEW n \in Moves, move'[n].at \in Owing, move'[n].doc \notin lapsed'
               PROVE  move'[n].clean
    BY DEF LapsesShow
  <2>1. CASE n = m
    BY <2>1, <1>3, <1>4, <1>6
  <2>2. CASE n # m
    <3>1. ~(move[n].at \in Owing /\ move[n].doc = d)
      BY <2>2, <1>6, <1>7
    <3> QED
      BY <2>2, <3>1, <1>8, <1>9 DEF Inv, LapsesShow
  <2> QED
    BY <2>1, <2>2
<1>19. Filed'
  <2> SUFFICES ASSUME NEW e \in DOMAIN docs, docs'[e].live, e \notin lapsed',
                      \A n \in Moves : move'[n].at \in Owing => move'[n].doc # e
               PROVE  /\ \A p \in points : p[1] = e => p[2] = docs'[e].spoke
                      /\ \A w \in Workers : worker[w].at \in Copying /\ worker[w].doc = e =>
                           worker[w].spoke = docs'[e].spoke
    BY <1>10, <1>11 DEF Filed
  <2>1. e # d
    BY <1>3, <1>4 DEF Owing
  <2>2. \A n \in Moves : move[n].at \in Owing => move[n].doc # e
    BY <1>10, <1>13 DEF Owing
  <2>3. docs[e].live /\ docs'[e].spoke = docs[e].spoke /\ e \notin lapsed
    BY <2>1, <1>9, <1>11
  <2> QED
    BY <2>2, <2>3 DEF Inv, Filed
<1> QED
  BY <1>12, <1>15, <1>16, <1>17, <1>18, <1>19 DEF Inv

\* Only points of d are touched.
OnlyPointsOf(d) == \A p \in points' : p[1] \in DOMAIN docs /\ (p[1] # d => p \in points)

LEMMA Retagged ==
  ASSUME PointsOK, NEW d \in DOMAIN docs, NEW s, points' = Retag(d, s)
  PROVE  OnlyPointsOf(d) /\ \A p \in points' : p[1] = d => p[2] = s
BY DEF PointsOK, Retag, OnlyPointsOf

\* A move still owes its update.
LEMMA MoveStillOwes ==
  ASSUME Inv, NEW m \in Moves, move[m].at \in Owing, NEW r \in MoveType, r.at \in Owing,
         r.doc = move[m].doc, r.spoke = move[m].spoke, r.clean = move[m].clean,
         move' = [move EXCEPT ![m] = r], OnlyPointsOf(move[m].doc),
         UNCHANGED <<docs, queue, upload, worker, lapsed>>
  PROVE  Inv'
<1>1. move[m].doc \in DOMAIN docs
  BY DEF Inv, MovesOK
<1>2. /\ MovesOK' /\ move'[m] = r
      /\ \A n \in Moves : n # m => move'[n] = move[n]
  BY <1>1, MoveReplaced DEF Inv
<1>3. \A n \in Moves : /\ move'[n].at \in Owing <=> move[n].at \in Owing
                       /\ move'[n].doc = move[n].doc /\ move'[n].spoke = move[n].spoke
                       /\ move'[n].clean = move[n].clean
  BY <1>2
<1>4. /\ RowsOK' /\ WorkersOK' /\ UploadsOK' /\ QueueOK' /\ NoChildYet'
      /\ FanoutIdempotent'
  BY RowsUntouched
<1>5. PointsOK' /\ LapsesShow'
  BY <1>3 DEF Inv, PointsOK, LapsesShow, OnlyPointsOf
<1>6. CleanMoves'
  BY <1>3 DEF Inv, CleanMoves
<1>7. Filed'
  <2> SUFFICES ASSUME NEW e \in DOMAIN docs, docs[e].live, e \notin lapsed,
                      \A n \in Moves : move'[n].at \in Owing => move'[n].doc # e
               PROVE  /\ \A p \in points' : p[1] = e => p[2] = docs[e].spoke
                      /\ \A w \in Workers : worker[w].at \in Copying /\ worker[w].doc = e =>
                           worker[w].spoke = docs[e].spoke
    BY DEF Filed
  <2>1. e # move[m].doc /\ \A n \in Moves : move[n].at \in Owing => move[n].doc # e
    BY <1>3
  <2> QED
    BY <2>1 DEF Inv, Filed, OnlyPointsOf
<1> QED
  BY <1>2, <1>4, <1>5, <1>6, <1>7 DEF Inv

\* A move stops owing its update: because it made it with nobody in its way, or the
\* document is gone, or the lapse is on record.
LEMMA MoveEnds ==
  ASSUME Inv, NEW m \in Moves, move[m].at \in Owing, NEW r \in MoveType,
         r.at \in {"answered", "failed"},
         move' = [move EXCEPT ![m] = r], NEW d \in DOMAIN docs, d = move[m].doc,
         OnlyPointsOf(d),
         \/ d \in lapsed'
         \/ lapsed' = lapsed /\ ~docs[d].live
         \/ move[m].clean /\ \A p \in points' : p[1] = d => p[2] = move[m].spoke,
         lapsed \subseteq lapsed' \cup {d},
         lapsed' \subseteq lapsed \cup {d},
         UNCHANGED <<docs, queue, upload, worker>>
  PROVE  Inv'
<1>1. r.at \notin {"read"} \cup Owing
  BY DEF Owing
<1>2. /\ MovesOK' /\ move'[m] = r
      /\ \A n \in Moves : n # m => move'[n] = move[n]
  BY <1>1, MoveReplaced DEF Inv
<1>3. \A n \in Moves : move'[n].at \in Owing => n # m /\ move'[n] = move[n]
  BY <1>1, <1>2
<1>4. /\ RowsOK' /\ WorkersOK' /\ UploadsOK' /\ QueueOK' /\ NoChildYet'
      /\ FanoutIdempotent'
  BY RowsUntouched
<1>5. PointsOK'
  BY DEF PointsOK, OnlyPointsOf
<1>6. CleanMoves'
  BY <1>3 DEF Inv, CleanMoves
\* Of two moves that owe an update to d neither is clean.
<1>7. LapsesShow'
  <2> SUFFICES ASSUME NEW n \in Moves, move'[n].at \in Owing, move'[n].doc \notin lapsed'
               PROVE  move'[n].clean
    BY DEF LapsesShow
  <2>1. n # m /\ move'[n] = move[n] /\ move[n].at \in Owing
    BY <1>3
  <2>2. CASE move[n].doc \notin lapsed
    BY <2>1, <2>2 DEF Inv, LapsesShow
  <2>3. CASE move[n].doc \in lapsed
    <3>1. move[n].doc = d /\ d \notin lapsed' /\ d \in lapsed
      BY <2>1, <2>3
    <3>2. move[m].clean
      BY <3>1
    <3>3. n = m
      BY <2>1, <3>1, <3>2 DEF Inv, CleanMoves
    <3> QED
      BY <2>1, <3>3
  <2> QED
    BY <2>2, <2>3
<1>8. Filed'
  <2> SUFFICES ASSUME NEW e \in DOMAIN docs, docs[e].live, e \notin lapsed',
                      \A n \in Moves : move'[n].at \in Owing => move'[n].doc # e
               PROVE  /\ \A p \in points' : p[1] = e => p[2] = docs[e].spoke
                      /\ \A w \in Workers : worker[w].at \in Copying /\ worker[w].doc = e =>
                           worker[w].spoke = docs[e].spoke
    BY DEF Filed
  <2>1. CASE e = d
    <3>1. move[m].clean /\ \A p \in points' : p[1] = d => p[2] = move[m].spoke
      BY <2>1
    <3>2. /\ docs[d].spoke = move[m].spoke
          /\ \A w \in Workers : worker[w].at \in Copying /\ worker[w].doc = d =>
               worker[w].spoke = move[m].spoke
      BY <3>1 DEF Inv, CleanMoves
    <3> QED
      BY <2>1, <3>1, <3>2
  <2>2. CASE e # d
    <3>1. e \notin lapsed /\ \A p \in points' : p[1] = e => p \in points
      BY <2>2 DEF OnlyPointsOf
    <3>2. \A n \in Moves : move[n].at \in Owing => move[n].doc # e
      BY <2>2, <1>2
    <3> QED
      BY <3>1, <3>2 DEF Inv, Filed
  <2> QED
    BY <2>1, <2>2
<1> QED
  BY <1>2, <1>4, <1>5, <1>6, <1>7, <1>8 DEF Inv

\* Nothing happened to the points.
LEMMA PointsStay ==
  ASSUME PointsOK, points' = points, NEW d PROVE OnlyPointsOf(d)
BY DEF PointsOK, OnlyPointsOf

LEMMA RereadStep == ASSUME Inv, NEW m \in Moves, MoveReread(m) PROVE Inv'
<1>1. PICK d \in DOMAIN docs : d = move[m].doc
  BY DEF Inv, MovesOK, MoveReread, Owing
<1>2. /\ move[m].at \in Owing
      /\ move' = [move EXCEPT ![m].at = IF docs[d].live THEN "propagate" ELSE "failed"]
      /\ UNCHANGED <<docs, queue, points, upload, worker, lapsed>>
  BY <1>1 DEF MoveReread, Owing
<1>3. move[m] \in MoveType
  BY DEF Inv, MovesOK
<1>4. OnlyPointsOf(d)
  BY <1>2, PointsStay DEF Inv
<1>5. CASE docs[d].live
  <2> DEFINE r == [move[m] EXCEPT !.at = "propagate"]
  <2>1. /\ r \in MoveType /\ r.at \in Owing /\ r.doc = move[m].doc
        /\ r.spoke = move[m].spoke /\ r.clean = move[m].clean
    BY <1>3 DEF MoveType, Owing
  <2>2. move' = [move EXCEPT ![m] = r]
    BY <1>2, <1>5
  <2> HIDE DEF r
  <2> QED
    BY <1>1, <1>2, <1>4, <2>1, <2>2, MoveStillOwes
<1>6. CASE ~docs[d].live
  <2> DEFINE r == [move[m] EXCEPT !.at = "failed"]
  <2>1. r \in MoveType /\ r.at \in {"answered", "failed"}
    BY <1>3 DEF MoveType
  <2>2. move' = [move EXCEPT ![m] = r]
    BY <1>2, <1>6
  <2> HIDE DEF r
  <2>3. lapsed' = lapsed
    BY <1>2
  <2> QED
    BY <1>1, <1>2, <1>4, <1>6, <2>1, <2>2, <2>3, MoveEnds
<1> QED
  BY <1>5, <1>6

LEMMA PropagateStep == ASSUME Inv, NEW m \in Moves, MovePropagate(m) PROVE Inv'
<1>1. move[m].at \in Owing
  BY DEF MovePropagate, Owing
<1>2. PICK d \in DOMAIN docs : d = move[m].doc
  BY <1>1 DEF Inv, MovesOK
<1> DEFINE r == [IdleMove EXCEPT !.at = "answered"]
<1>3. /\ points' = Retag(d, move[m].spoke)
      /\ move' = [move EXCEPT ![m] = r]
      /\ lapsed' = IF move[m].clean THEN lapsed \ {d} ELSE lapsed
      /\ UNCHANGED <<docs, queue, upload, worker>>
  BY <1>2 DEF MovePropagate
<1>4. r \in MoveType /\ r.at \in {"answered", "failed"}
  BY FilingAssumption DEF IdleMove, MoveType
<1> HIDE DEF r
<1>5. OnlyPointsOf(d) /\ \A p \in points' : p[1] = d => p[2] = move[m].spoke
  BY <1>3, Retagged DEF Inv
<1>6. move[m].clean \/ d \in lapsed'
  BY <1>1, <1>2, <1>3 DEF Inv, LapsesShow
<1>7. lapsed \subseteq lapsed' \cup {d} /\ lapsed' \subseteq lapsed \cup {d}
  BY <1>3
<1> QED
  BY <1>1, <1>2, <1>3, <1>4, <1>5, <1>6, <1>7, MoveEnds

LEMMA AttemptFailsStep == ASSUME Inv, NEW m \in Moves, MoveAttemptFails(m) PROVE Inv'
<1>1. move[m].at \in Owing
  BY DEF MoveAttemptFails, Owing
<1>2. PICK d \in DOMAIN docs : d = move[m].doc
  BY <1>1 DEF Inv, MovesOK
<1> DEFINE last == move[m].tries + 1 = RetryAttempts
           over == [IdleMove EXCEPT !.at = "failed"]
           again == [move[m] EXCEPT !.tries = move[m].tries + 1]
<1>3. /\ points' \in {points, Retag(d, move[m].spoke)}
      /\ move' = [move EXCEPT ![m] = IF last THEN over ELSE again]
      /\ lapsed' = IF last THEN lapsed \cup {d} ELSE lapsed
      /\ UNCHANGED <<docs, queue, upload, worker>>
  BY <1>2 DEF MoveAttemptFails
<1>4. OnlyPointsOf(d)
  BY <1>3, Retagged, PointsStay DEF Inv
<1>5. over \in MoveType /\ over.at \in {"answered", "failed"}
  BY FilingAssumption DEF IdleMove, MoveType
<1>6. move[m] \in MoveType
  BY DEF Inv, MovesOK
<1>7. /\ again \in MoveType /\ again.at = move[m].at /\ again.doc = move[m].doc
      /\ again.spoke = move[m].spoke /\ again.clean = move[m].clean
  BY <1>6 DEF MoveType
<1> HIDE DEF last, over, again
<1>8. CASE last
  <2>1. move' = [move EXCEPT ![m] = over] /\ lapsed' = lapsed \cup {d}
    BY <1>3, <1>8
  <2> QED
    BY <1>1, <1>2, <1>3, <1>4, <1>5, <2>1, MoveEnds
<1>9. CASE ~last
  <2>1. move' = [move EXCEPT ![m] = again] /\ lapsed' = lapsed
    BY <1>3, <1>9
  <2> QED
    BY <1>1, <1>2, <1>3, <1>4, <1>7, <2>1, MoveStillOwes
<1> QED
  BY <1>8, <1>9

LEMMA MoveDiesStep == ASSUME Inv, NEW m \in Moves, MoveDies(m) PROVE Inv'
<1>1. move[m].at \in Owing
  BY DEF MoveDies
<1>2. PICK d \in DOMAIN docs : d = move[m].doc
  BY <1>1 DEF Inv, MovesOK
<1> DEFINE r == [IdleMove EXCEPT !.at = "failed"]
<1>3. /\ move' = [move EXCEPT ![m] = r]
      /\ lapsed' = lapsed \cup {d}
      /\ UNCHANGED <<docs, queue, points, upload, worker>>
  BY <1>2 DEF MoveDies
<1>4. r \in MoveType /\ r.at \in {"answered", "failed"}
  BY FilingAssumption DEF IdleMove, MoveType
<1> HIDE DEF r
<1>5. OnlyPointsOf(d)
  BY <1>3, PointsStay DEF Inv
<1> QED
  BY <1>1, <1>2, <1>3, <1>4, <1>5, MoveEnds

-----------------------------------------------------------------------------
LEMMA UploadPreserves == ASSUME Inv, NEW u \in Uploads, UploadStep(u) PROVE Inv'
<1>1. CASE UploadRejected(u)
  BY <1>1, RejectedStep
<1>2. CASE UploadChecked(u)
  BY <1>2, CheckedStep
<1>3. CASE RegisterDocument(u)
  BY <1>3, RegisterStep
<1>4. CASE EnqueueUpload(u)
  BY <1>4, EnqueueUploadStep
<1>5. CASE UploadDies(u)
  BY <1>5, DiesStep
<1> QED
  BY <1>1, <1>2, <1>3, <1>4, <1>5 DEF UploadStep

LEMMA WorkerPreserves ==
  ASSUME Inv, NEW w \in Workers, WorkerStep(w) \/ StageFault(w) \/ Crash(w) PROVE Inv'
<1>1. CASE Claim(w)
  BY <1>1, ClaimStep
<1>2. CASE Load(w)
  BY <1>2, LoadStep
<1>3. CASE FailPermanently(w)
  <2>1. worker[w].at # "idle" /\ Settle(w, "failed")
    BY <1>3 DEF FailPermanently
  <2> QED
    BY <2>1, SettleStep
<1>4. CASE UpsertChunk(w)
  BY <1>4, UpsertStep
<1>5. CASE SealDocument(w)
  <2>1. worker[w].at # "idle" /\ Settle(w, "indexed")
    BY <1>5 DEF SealDocument
  <2> QED
    BY <2>1, SettleStep
<1>6. CASE Unpack(w)
  BY <1>6, UnpackStep
<1>7. CASE UnpackRefused(w)
  <2>1. worker[w].at # "idle" /\ Settle(w, "failed")
    BY <1>7 DEF UnpackRefused
  <2> QED
    BY <2>1, SettleStep
<1>8. CASE VisitEntry(w)
  BY <1>8, VisitStep
<1>9. CASE CreateChild(w)
  BY <1>9, CreateStep
<1>10. CASE EnqueueChild(w)
  BY <1>10, EnqueueChildStep
<1>11. CASE FinishArchive(w)
  <2>1. worker[w].at # "idle"
        /\ Settle(w, IF worker[w].found THEN "unpacked" ELSE "failed")
    BY <1>11 DEF FinishArchive
  <2> QED
    BY <2>1, SettleStep
<1>12. CASE StageFault(w) \/ UnpackRaises(w)
  BY <1>12, FaultStep
<1>13. CASE Crash(w)
  BY <1>13, CrashStep
<1> QED
  BY <1>1, <1>2, <1>3, <1>4, <1>5, <1>6, <1>7, <1>8, <1>9, <1>10, <1>11, <1>12, <1>13
  DEF WorkerStep

LEMMA MovePreserves == ASSUME Inv, NEW m \in Moves, MoveStep(m) PROVE Inv'
<1>1. CASE \E d \in DOMAIN docs, s \in Spokes : MoveUnneeded(m, d, s) \/ MoveRead(m, d, s)
  BY <1>1, UnneededStep, ReadStep
<1>2. CASE MoveUpdate(m)
  BY <1>2, UpdateStep
<1>3. CASE MoveReread(m)
  BY <1>3, RereadStep
<1>4. CASE MovePropagate(m)
  BY <1>4, PropagateStep
<1>5. CASE MoveAttemptFails(m)
  BY <1>5, AttemptFailsStep
<1>6. CASE MoveDies(m)
  BY <1>6, MoveDiesStep
<1> QED
  BY <1>1, <1>2, <1>3, <1>4, <1>5, <1>6 DEF MoveStep

LEMMA InvInit == Init => Inv
<1> SUFFICES ASSUME Init PROVE Inv
  OBVIOUS
<1>1. docs = <<>> /\ DOMAIN docs = {} /\ docs \in Seq({})
  BY DEF Init
<1>2. RowsOK
  BY <1>1 DEF RowsOK
<1>3. WorkersOK
  <2>1. \A w \in Workers : worker[w] = IdleWorker
    BY DEF Init
  <2>2. DOMAIN IdleWorker = WorkerFields /\ IdleWorker.at = "idle"
    BY DEF IdleWorker, WorkerFields
  <2> QED
    BY <2>1, <2>2 DEF Init, WorkersOK
<1>4. UploadsOK
  <2>1. \A u \in Uploads : upload[u] = IdleUpload
    BY DEF Init
  <2>2. DOMAIN IdleUpload = UploadFields /\ IdleUpload.at = "idle"
    BY DEF IdleUpload, UploadFields
  <2> QED
    BY <2>1, <2>2 DEF Init, UploadsOK
<1>5. QueueOK
  BY DEF Init, QueueOK
<1>6. IdleMove \in MoveType /\ IdleMove.at = "idle"
  BY FilingAssumption DEF IdleMove, MoveType
<1>7. MovesOK /\ \A m \in Moves : move[m].at \notin Owing
  BY <1>6 DEF Init, MovesOK, Owing
<1>8. PointsOK /\ CleanMoves /\ LapsesShow
  BY <1>7 DEF Init, PointsOK, CleanMoves, LapsesShow
<1>9. NoChildYet /\ Filed /\ FanoutIdempotent
  BY <1>1 DEF NoChildYet, Filed, FanoutIdempotent
<1> QED
  BY <1>2, <1>3, <1>4, <1>5, <1>7, <1>8, <1>9 DEF Inv

LEMMA InvStep == Inv /\ [Next]_vars => Inv'
<1> SUFFICES ASSUME Inv, [Next]_vars PROVE Inv'
  OBVIOUS
<1>1. CASE \E u \in Uploads : UploadStep(u)
  BY <1>1, UploadPreserves
<1>2. CASE \E d \in DOMAIN docs : Delete(d)
  BY <1>2, DeleteStep
<1>3. CASE \E w \in Workers : WorkerStep(w) \/ StageFault(w) \/ Crash(w)
  BY <1>3, WorkerPreserves
<1>4. CASE \E m \in Moves : MoveStep(m)
  BY <1>4, MovePreserves
<1>5. CASE UNCHANGED vars
  BY <1>5 DEF vars, apiVars, Inv, RowsOK, WorkersOK, UploadsOK, QueueOK, MovesOK, PointsOK,
              NoChildYet, CleanMoves, LapsesShow, Filed, FanoutIdempotent
<1> QED
  BY <1>1, <1>2, <1>3, <1>4, <1>5 DEF Next

LEMMA InvHolds == Spec => []Inv
BY InvInit, InvStep, PTL DEF Spec

-----------------------------------------------------------------------------
\* However many workers, retries, deletions and uploads there are, an archive has
\* at most one live document per content (_unpack_archive_job).
THEOREM FanoutIsIdempotent == Spec => []FanoutIdempotent
<1>1. Inv => FanoutIdempotent
  BY DEF Inv
<1> QED
  BY <1>1, InvHolds, PTL

\* However many moves and workers there are, the points of a live document nobody
\* works on are filed where its row says, unless a lapse is on record
\* (update_my_document_spoke, set_document_spoke).
THEOREM DocumentsAreFiledWhereShown == Spec => []FiledWhereShown
<1>1. Inv => FiledWhereShown
  BY DEF Inv, Filed, FiledWhereShown, OwingMoves
<1> QED
  BY <1>1, InvHolds, PTL

-----------------------------------------------------------------------------
(* What an unpacked archive has brought in. *)

\* The contents that are there, brought by an archive or before it.
Sums == {docs[d].bytes.sum : d \in DOMAIN docs}

\* A row's archive is a row, an archive has members, and what is held was claimed.
OriginsOK ==
  /\ \A d \in DOMAIN docs :
       /\ docs[d].from = 0 \/ docs[d].from \in DOMAIN docs
       /\ IsArchive(d) => docs[d].bytes.members \in Seq(Member)
       /\ docs[d].attempts \in Nat
  /\ \A w \in Workers : worker[w].at # "idle" => docs[worker[w].doc].attempts >= 1
  /\ \A u \in Uploads : upload[u].at = "checked" => upload[u].file \in Files

\* entries is what is left of all, and what is gone of it is among the sums.
LeftOf(entries, all, sums) ==
  /\ entries \in Seq(Ingestible)
  /\ all \in Seq(Ingestible)
  /\ Len(entries) <= Len(all)
  /\ \A i \in 1..Len(entries) : entries[i] = all[(Len(all) - Len(entries)) + i]
  /\ \A i \in 1..(Len(all) - Len(entries)) : all[i].sum \in sums

\* A worker visits the entries of its archive in order and misses none.
VisitOK(w) ==
  /\ worker[w].at \in {"unpack", "visit", "create", "register"} => IsArchive(worker[w].doc)
  /\ worker[w].at \in {"visit", "create", "register"} =>
       LeftOf(worker[w].entries, Entries(worker[w].doc), Sums)
  /\ worker[w].at \in {"create", "register"} => worker[w].entries # <<>>
  /\ worker[w].at = "register" =>
       docs[worker[w].child].bytes.sum = Head(worker[w].entries).sum

\* A child without a job is the one its archive's holder is about to enqueue, or the
\* archive has been claimed again since.
OrphanOK(d) ==
  docs[d].from # 0 /\ docs[d].job = "none" =>
    LET a == docs[d].from IN
    /\ docs[a].attempts >= 1
    /\ \A w \in Workers : worker[w].at # "idle" /\ worker[w].doc = a =>
         \/ docs[a].attempts > 1
         \/ worker[w].at = "register" /\ worker[w].child = d
    /\ docs[a].job = "unpacked" => docs[a].attempts > 1

\* An unpacked archive has brought in every entry.
CompleteOK(a) ==
  docs[a].job = "unpacked" => \A i \in DOMAIN Entries(a) : Entries(a)[i].sum \in Sums

Unpacking ==
  /\ OriginsOK
  /\ \A w \in Workers : VisitOK(w)
  /\ \A d \in DOMAIN docs : OrphanOK(d) /\ CompleteOK(d)

LEMMA LeftOfSelf ==
  ASSUME NEW all \in Seq(Ingestible), NEW sums
  PROVE  LeftOf(all, all, sums)
<1>1. Len(all) \in Nat /\ Len(all) - Len(all) = 0
  OBVIOUS
<1> QED
  BY <1>1 DEF LeftOf

LEMMA LeftOfMore ==
  ASSUME NEW e, NEW all, NEW sums, NEW more, LeftOf(e, all, sums), sums \subseteq more
  PROVE  LeftOf(e, all, more)
BY DEF LeftOf

\* The next one has been brought in.
LEMMA LeftOfTail ==
  ASSUME NEW e, NEW all, NEW sums, LeftOf(e, all, sums), e # <<>>, Head(e).sum \in sums
  PROVE  LeftOf(Tail(e), all, sums)
<1> DEFINE n == Len(e)
           k == Len(all) - n
<1>1. /\ e \in Seq(Ingestible) /\ all \in Seq(Ingestible) /\ n \in Nat /\ n >= 1
      /\ Len(all) \in Nat /\ k \in Nat
  BY DEF LeftOf
<1>2. /\ Tail(e) \in Seq(Ingestible) /\ Len(Tail(e)) = n - 1
      /\ \A i \in 1..(n - 1) : Tail(e)[i] = e[i + 1]
      /\ Head(e) = e[1]
  BY <1>1
<1>3. /\ \A i \in 1..n : e[i] = all[k + i]
      /\ \A i \in 1..k : all[i].sum \in sums
      /\ n <= Len(all)
  BY DEF LeftOf
<1>4. Len(all) - Len(Tail(e)) = k + 1 /\ Len(Tail(e)) <= Len(all)
  BY <1>1, <1>2, <1>3
<1> HIDE DEF n, k
<1>5. ASSUME NEW i \in 1..(n - 1) PROVE Tail(e)[i] = all[(k + 1) + i]
  <2>1. i + 1 \in 1..n /\ k + (i + 1) = (k + 1) + i
    BY <1>1
  <2>2. e[i + 1] = all[k + (i + 1)]
    BY <1>3, <2>1
  <2> QED
    BY <1>2, <2>1, <2>2
<1>6. ASSUME NEW i \in 1..(k + 1) PROVE all[i].sum \in sums
  <2>1. CASE i = k + 1
    BY <2>1, <1>1, <1>2, <1>3
  <2>2. CASE i \in 1..k
    BY <2>2, <1>3
  <2> QED
    BY <1>1, <2>1, <2>2
<1> QED
  BY <1>1, <1>2, <1>4, <1>5, <1>6 DEF LeftOf

\* Nothing is left.
LEMMA LeftOfNothing ==
  ASSUME NEW all, NEW sums, LeftOf(<<>>, all, sums)
  PROVE  \A i \in DOMAIN all : all[i].sum \in sums
<1>1. all \in Seq(Ingestible) /\ Len(<<>>) = 0 /\ Len(all) - 0 = Len(all)
  BY DEF LeftOf
<1> QED
  BY <1>1 DEF LeftOf

\* Rows stay, are not claimed less often, and lose a job they had to no step.
RowsKept ==
  /\ DOMAIN docs \subseteq DOMAIN docs'
  /\ \A e \in DOMAIN docs : /\ docs'[e].bytes = docs[e].bytes
                            /\ docs'[e].from = docs[e].from
                            /\ docs'[e].attempts \in Nat
                            /\ docs'[e].attempts >= docs[e].attempts
                            /\ docs'[e].job = "none" => docs[e].job = "none"

\* A row that is new has no job, and as a child the one archive it should.
RowsAdded ==
  \A e \in DOMAIN docs' : e \notin DOMAIN docs =>
    /\ docs'[e].from = 0 \/ docs'[e].from \in DOMAIN docs
    /\ IsArchive(e)' => docs'[e].bytes.members \in Seq(Member)
    /\ docs'[e].attempts \in Nat
    /\ docs'[e].job = "none"
    /\ OrphanOK(e)'

\* An archive is shown as unpacked only when it is.
RowsUnpacked ==
  \A a \in DOMAIN docs : docs'[a].job = "unpacked" =>
    \/ docs[a].job = "unpacked"
    \/ /\ CompleteOK(a)'
       /\ \A d \in DOMAIN docs : docs[d].from = a /\ docs'[d].job = "none" =>
            docs'[a].attempts > 1

\* A worker stays where it is, lets go, or takes or keeps a document that is new to
\* its orphans.
WorkerMoves(v) ==
  \/ worker'[v] = worker[v]
  \/ worker'[v].at = "idle"
  \/ /\ VisitOK(v)'
     /\ worker'[v].doc \in DOMAIN docs
     /\ \/ docs'[worker'[v].doc].attempts > docs[worker'[v].doc].attempts
        \/ /\ worker[v].at # "idle" /\ worker'[v].doc = worker[v].doc
           /\ worker[v].at = "register" => docs'[worker[v].child].job # "none"

LEMMA SumsKept ==
  ASSUME RowsKept PROVE Sums \subseteq Sums'
BY DEF RowsKept, Sums

LEMMA EntriesKept ==
  ASSUME RowsKept, NEW a \in DOMAIN docs
  PROVE  (IsArchive(a)' <=> IsArchive(a)) /\ Entries(a)' = Entries(a)
<1>1. docs'[a].bytes = docs[a].bytes
  BY DEF RowsKept
<1> QED
  BY <1>1 DEF IsArchive, Entries

LEMMA VisitStays ==
  ASSUME Inv, Unpacking, RowsKept, NEW v \in Workers, worker'[v] = worker[v]
  PROVE  VisitOK(v)'
<1>1. VisitOK(v)
  BY DEF Unpacking
<1>2. CASE worker[v].at = "idle"
  BY <1>2 DEF VisitOK
<1>3. CASE worker[v].at # "idle"
  <2>1. PICK a \in DOMAIN docs : a = worker[v].doc
    BY <1>3 DEF Inv, WorkersOK
  <2>2. docs'[a].bytes = docs[a].bytes
    BY DEF RowsKept
  <2>3. Sums \subseteq Sums'
    BY SumsKept
  <2>4. \A e : LeftOf(e, Entries(a), Sums) => LeftOf(e, Entries(a), Sums')
    BY <2>3, LeftOfMore
  <2>5. worker[v].at = "register" =>
          docs'[worker[v].child].bytes.sum = docs[worker[v].child].bytes.sum
    BY DEF Inv, WorkersOK, RowsKept
  <2>6. worker[v].at \in {"unpack", "visit", "create", "register"} =>
          docs'[worker'[v].doc].bytes.content = "zip"
    BY <1>1, <2>1, <2>2 DEF VisitOK, IsArchive
  <2>7. worker[v].at \in {"visit", "create", "register"} =>
          LeftOf(worker'[v].entries,
                 ExtractArchive(docs'[worker'[v].doc].bytes.members).entries, Sums')
    BY <1>1, <2>1, <2>2, <2>4 DEF VisitOK, Entries
  <2>8. worker[v].at = "register" =>
          docs'[worker'[v].child].bytes.sum = Head(worker'[v].entries).sum
    BY <1>1, <2>5 DEF VisitOK
  <2>9. worker[v].at \in {"create", "register"} => worker'[v].entries # <<>>
    BY <1>1 DEF VisitOK
  <2> QED
    BY <2>6, <2>7, <2>8, <2>9 DEF VisitOK, IsArchive, Entries
<1> QED
  BY <1>2, <1>3

\* The orphans stay what they are.
LEMMA OrphansStay ==
  ASSUME Inv, Unpacking, RowsKept, RowsUnpacked, \A v \in Workers : WorkerMoves(v),
         NEW d \in DOMAIN docs
  PROVE  OrphanOK(d)'
<1> SUFFICES ASSUME docs'[d].from # 0, docs'[d].job = "none"
             PROVE  /\ docs'[docs'[d].from].attempts >= 1
                    /\ \A v \in Workers : worker'[v].at # "idle" /\ worker'[v].doc = docs'[d].from =>
                         \/ docs'[docs'[d].from].attempts > 1
                         \/ worker'[v].at = "register" /\ worker'[v].child = d
                    /\ docs'[docs'[d].from].job = "unpacked" => docs'[docs'[d].from].attempts > 1
  BY DEF OrphanOK
<1>1. docs'[d].from = docs[d].from /\ docs[d].job = "none" /\ docs[d].from # 0
  BY DEF RowsKept
<1>2. PICK a \in DOMAIN docs : a = docs[d].from
  BY <1>1 DEF Unpacking, OriginsOK
<1>3. /\ docs[a].attempts >= 1
      /\ \A v \in Workers : worker[v].at # "idle" /\ worker[v].doc = a =>
           \/ docs[a].attempts > 1
           \/ worker[v].at = "register" /\ worker[v].child = d
      /\ docs[a].job = "unpacked" => docs[a].attempts > 1
  BY <1>1, <1>2 DEF Unpacking, OrphanOK
<1>4. docs[a].attempts \in Nat /\ docs'[a].attempts \in Nat
      /\ docs'[a].attempts >= docs[a].attempts
  BY DEF Unpacking, OriginsOK, RowsKept
<1>5. docs'[a].attempts >= 1
  BY <1>3, <1>4
<1>6. ASSUME NEW v \in Workers, worker'[v].at # "idle", worker'[v].doc = a
      PROVE  \/ docs'[a].attempts > 1
             \/ worker'[v].at = "register" /\ worker'[v].child = d
  <2>1. CASE worker'[v] = worker[v]
    BY <2>1, <1>3, <1>4, <1>6
  <2>2. CASE docs'[worker'[v].doc].attempts > docs[worker'[v].doc].attempts
    BY <2>2, <1>3, <1>4, <1>6
  <2>3. CASE /\ worker[v].at # "idle" /\ worker'[v].doc = worker[v].doc
             /\ worker[v].at = "register" => docs'[worker[v].child].job # "none"
    <3>1. ~ (worker[v].at = "register" /\ worker[v].child = d)
      BY <2>3
    <3>2. docs[a].attempts > 1
      BY <1>3, <1>6, <2>3, <3>1
    <3> QED
      BY <1>4, <3>2
  <2> QED
    BY <1>6, <2>1, <2>2, <2>3 DEF WorkerMoves
<1>7. docs'[a].job = "unpacked" => docs'[a].attempts > 1
  BY <1>1, <1>2, <1>3, <1>4 DEF RowsUnpacked
<1> QED
  BY <1>1, <1>2, <1>5, <1>6, <1>7

LEMMA UnpackingKept ==
  ASSUME Inv, Unpacking, RowsKept, RowsAdded, RowsUnpacked,
         \A v \in Workers : WorkerMoves(v),
         \A u \in Uploads : upload'[u].at = "checked" => upload'[u].file \in Files
  PROVE  Unpacking'
<1>1. ASSUME NEW d \in DOMAIN docs'
      PROVE  /\ docs'[d].from = 0 \/ docs'[d].from \in DOMAIN docs'
             /\ docs'[d].bytes.content = "zip" => docs'[d].bytes.members \in Seq(Member)
             /\ docs'[d].attempts \in Nat
  <2>1. CASE d \in DOMAIN docs
    BY <2>1 DEF Unpacking, OriginsOK, RowsKept, IsArchive
  <2>2. CASE d \notin DOMAIN docs
    BY <2>2 DEF RowsAdded, RowsKept, IsArchive
  <2> QED
    BY <2>1, <2>2
<1>2. ASSUME NEW v \in Workers, worker'[v].at # "idle"
      PROVE  docs'[worker'[v].doc].attempts >= 1
  <2>1. CASE worker'[v].at # "idle" /\ (worker'[v] = worker[v] \/
                (worker[v].at # "idle" /\ worker'[v].doc = worker[v].doc))
    <3>1. PICK a \in DOMAIN docs : a = worker[v].doc /\ worker'[v].doc = a /\ worker[v].at # "idle"
      BY <2>1 DEF Inv, WorkersOK
    <3>2. docs[a].attempts >= 1 /\ docs[a].attempts \in Nat
      BY <3>1 DEF Unpacking, OriginsOK
    <3>3. docs'[a].attempts \in Nat /\ docs'[a].attempts >= docs[a].attempts
      BY DEF RowsKept
    <3> QED
      BY <3>1, <3>2, <3>3
  <2>2. CASE /\ worker'[v].doc \in DOMAIN docs
             /\ docs'[worker'[v].doc].attempts > docs[worker'[v].doc].attempts
    <3>1. PICK a \in DOMAIN docs : a = worker'[v].doc
      BY <2>2
    <3>2. docs[a].attempts \in Nat /\ docs'[a].attempts \in Nat
      BY DEF Unpacking, OriginsOK, RowsKept
    <3> QED
      BY <2>2, <3>1, <3>2
  <2> QED
    BY <1>2, <2>1, <2>2 DEF WorkerMoves
<1>3. OriginsOK'
  BY <1>1, <1>2 DEF OriginsOK, IsArchive
<1>4. ASSUME NEW v \in Workers PROVE VisitOK(v)'
  <2>1. CASE worker'[v] = worker[v]
    BY <2>1, VisitStays
  <2>2. CASE worker'[v].at = "idle"
    BY <2>2 DEF VisitOK
  <2> QED
    BY <2>1, <2>2 DEF WorkerMoves
<1>5. ASSUME NEW d \in DOMAIN docs' PROVE OrphanOK(d)'
  <2>1. CASE d \in DOMAIN docs
    BY <2>1, OrphansStay
  <2>2. CASE d \notin DOMAIN docs
    BY <2>2 DEF RowsAdded
  <2> QED
    BY <2>1, <2>2
<1>6. ASSUME NEW a \in DOMAIN docs' PROVE CompleteOK(a)'
  <2>1. CASE a \in DOMAIN docs /\ docs[a].job = "unpacked"
    <3>1. Entries(a)' = Entries(a) /\ Sums \subseteq Sums'
      BY <2>1, EntriesKept, SumsKept
    <3>2. \A i \in DOMAIN Entries(a) : Entries(a)[i].sum \in Sums
      BY <2>1 DEF Unpacking, CompleteOK
    <3> QED
      BY <3>1, <3>2 DEF CompleteOK
  <2>2. CASE a \in DOMAIN docs /\ docs[a].job # "unpacked"
    BY <2>2 DEF RowsUnpacked, CompleteOK
  <2>3. CASE a \notin DOMAIN docs
    BY <2>3 DEF RowsAdded, CompleteOK
  <2> QED
    BY <2>1, <2>2, <2>3
<1> QED
  BY <1>3, <1>4, <1>5, <1>6 DEF Unpacking

-----------------------------------------------------------------------------
(* What the uploads, the deletions and the moves do to it. *)

LEMMA RowsAsTheyWere ==
  ASSUME Unpacking, docs' = docs
  PROVE  RowsKept /\ RowsAdded /\ RowsUnpacked
<1>1. \A e \in DOMAIN docs : docs[e].attempts \in Nat
  BY DEF Unpacking, OriginsOK
<1> QED
  BY <1>1 DEF RowsKept, RowsAdded, RowsUnpacked

\* Jobs change, but none is unpacked by it.
LEMMA JobsChange ==
  ASSUME Unpacking, SameRows,
         \A e \in DOMAIN docs : /\ docs'[e].attempts = docs[e].attempts
                                /\ docs'[e].job \in {"none", "unpacked"} => docs'[e].job = docs[e].job
  PROVE  RowsKept /\ RowsAdded /\ RowsUnpacked
<1>1. \A e \in DOMAIN docs : docs[e].attempts \in Nat
  BY DEF Unpacking, OriginsOK
<1>2. RowsKept
  <2> SUFFICES ASSUME NEW e \in DOMAIN docs
               PROVE  /\ docs'[e].bytes = docs[e].bytes
                      /\ docs'[e].from = docs[e].from
                      /\ docs'[e].attempts \in Nat
                      /\ docs'[e].attempts >= docs[e].attempts
                      /\ docs'[e].job = "none" => docs[e].job = "none"
    BY DEF RowsKept, SameRows
  <2>1. docs'[e].attempts = docs[e].attempts /\ docs[e].attempts \in Nat
    BY <1>1
  <2> QED
    BY <2>1 DEF SameRows
<1> QED
  BY <1>2 DEF RowsAdded, RowsUnpacked, SameRows

\* The uploads may do what they like but carry a file that is none.
FilesKept == \A u \in Uploads : upload'[u].at = "checked" => upload'[u].file \in Files

LEMMA FilesStay ==
  ASSUME Unpacking, upload' = upload PROVE FilesKept
BY DEF Unpacking, OriginsOK, FilesKept

LEMMA FilesReplaced ==
  ASSUME Inv, Unpacking, NEW u \in Uploads, NEW r, upload' = [upload EXCEPT ![u] = r],
         r.at = "checked" => r.file \in Files
  PROVE  FilesKept
BY DEF Inv, UploadsOK, Unpacking, OriginsOK, FilesKept

LEMMA UploadUnpacks ==
  ASSUME Inv, Unpacking, NEW u \in Uploads, UploadStep(u) PROVE Unpacking'
<1>1. \A v \in Workers : WorkerMoves(v)
  BY DEF UploadStep, UploadRejected, UploadChecked, RegisterDocument, EnqueueUpload, UploadDies,
         WorkerMoves
<1>2. CASE UploadRejected(u)
  <2> DEFINE r == [upload[u] EXCEPT !.at = "over"]
  <2>1. r.at = "over"
    BY DEF Inv, UploadsOK, UploadFields
  <2>2. upload' = [upload EXCEPT ![u] = r] /\ docs' = docs
    BY <1>2 DEF UploadRejected
  <2> HIDE DEF r
  <2>3. FilesKept
    BY <2>1, <2>2, FilesReplaced
  <2> QED
    BY <1>1, <2>2, <2>3, RowsAsTheyWere, UnpackingKept DEF FilesKept
<1>3. CASE UploadChecked(u)
  <2>1. PICK f \in Files, s \in Spokes :
          upload' = [upload EXCEPT ![u] =
            IF Known(f) THEN [IdleUpload EXCEPT !.at = "over"]
            ELSE [IdleUpload EXCEPT !.at = "checked", !.file = f, !.spoke = s]]
    BY <1>3 DEF UploadChecked
  <2> DEFINE r == IF Known(f) THEN [IdleUpload EXCEPT !.at = "over"]
                  ELSE [IdleUpload EXCEPT !.at = "checked", !.file = f, !.spoke = s]
  <2>2. r.at = "checked" => r.file \in Files
    BY DEF IdleUpload
  <2>3. upload' = [upload EXCEPT ![u] = r]
    BY <2>1
  <2> HIDE DEF r
  <2>4. FilesKept
    BY <2>2, <2>3, FilesReplaced
  <2>5. docs' = docs
    BY <1>3 DEF UploadChecked
  <2> QED
    BY <1>1, <2>4, <2>5, RowsAsTheyWere, UnpackingKept DEF FilesKept
<1>4. CASE RegisterDocument(u)
  <2> DEFINE r == [IdleUpload EXCEPT !.at = "registered", !.doc = Len(docs) + 1]
             n == Len(docs) + 1
  <2>1. r.at = "registered"
    BY DEF IdleUpload
  <2>2. upload' = [upload EXCEPT ![u] = r] /\ upload[u].at = "checked"
    BY <1>4 DEF RegisterDocument
  <2> HIDE DEF r
  <2>3. FilesKept
    BY <2>1, <2>2, FilesReplaced
  <2>4. docs' = Append(docs, NewDocument(upload[u].file, upload[u].spoke, 0))
    BY <1>4 DEF RegisterDocument
  <2>5. PICK f \in Files : f = upload[u].file
    BY <2>2 DEF Unpacking, OriginsOK
  <2>6. /\ n \notin DOMAIN docs
        /\ DOMAIN docs' = DOMAIN docs \cup {n}
        /\ \A e \in DOMAIN docs : docs'[e] = docs[e]
        /\ docs'[n].bytes = f
        /\ docs'[n].from = 0
        /\ docs'[n].job = "none"
        /\ docs'[n].attempts = 0
    BY <2>4, <2>5, DocumentCreated DEF Inv
  <2> HIDE DEF n
  <2>7. RowsKept
    <3>1. \A e \in DOMAIN docs : docs[e].attempts \in Nat
      BY DEF Unpacking, OriginsOK
    <3> QED
      BY <2>6, <3>1 DEF RowsKept
  <2>8. RowsAdded
    <3>1. f.members \in Seq(Member)
      BY FilesAssumption
    <3> QED
      BY <2>6, <3>1 DEF RowsAdded, OrphanOK
  <2>9. RowsUnpacked
    BY <2>6 DEF RowsUnpacked
  <2> QED
    BY <1>1, <2>3, <2>7, <2>8, <2>9, UnpackingKept DEF FilesKept
<1>5. CASE EnqueueUpload(u)
  <2> DEFINE r == [IdleUpload EXCEPT !.at = "over"]
  <2>1. r.at = "over"
    BY DEF IdleUpload
  <2>2. upload' = [upload EXCEPT ![u] = r] /\ upload[u].at = "registered"
    BY <1>5 DEF EnqueueUpload
  <2> HIDE DEF r
  <2>3. FilesKept
    BY <2>1, <2>2, FilesReplaced
  <2>4. PICK d \in DOMAIN docs : d = upload[u].doc
    BY <2>2 DEF Inv, UploadsOK
  <2>5. docs' = [docs EXCEPT ![d].job = "queued"]
    BY <1>5, <2>4 DEF EnqueueUpload, CreateJob
  <2>6. /\ SameRows /\ docs'[d].job = "queued"
        /\ \A e \in DOMAIN docs : e # d => docs'[e].job = docs[e].job
        /\ \A e \in DOMAIN docs : docs'[e].attempts = docs[e].attempts
    BY <2>5, JobSet DEF Inv
  <2>7. RowsKept /\ RowsAdded /\ RowsUnpacked
    BY <2>6, JobsChange
  <2> QED
    BY <1>1, <2>3, <2>7, UnpackingKept DEF FilesKept
<1>6. CASE UploadDies(u)
  <2> DEFINE r == [IdleUpload EXCEPT !.at = "over"]
  <2>1. r.at = "over"
    BY DEF IdleUpload
  <2>2. upload' = [upload EXCEPT ![u] = r] /\ docs' = docs
    BY <1>6 DEF UploadDies
  <2> HIDE DEF r
  <2>3. FilesKept
    BY <2>1, <2>2, FilesReplaced
  <2> QED
    BY <1>1, <2>2, <2>3, RowsAsTheyWere, UnpackingKept DEF FilesKept
<1> QED
  BY <1>2, <1>3, <1>4, <1>5, <1>6 DEF UploadStep

LEMMA DeleteUnpacks ==
  ASSUME Inv, Unpacking, NEW d \in DOMAIN docs, Delete(d) PROVE Unpacking'
<1>1. \A v \in Workers : WorkerMoves(v)
  BY DEF Delete, WorkerMoves
<1>2. FilesKept
  BY FilesStay DEF Delete, apiVars
<1>3. /\ SameRows
      /\ \A e \in DOMAIN docs : /\ docs'[e].job \in {docs[e].job, "cancelled"}
                                /\ docs'[e].attempts = docs[e].attempts
  BY RowTombstoned DEF Inv
<1>4. RowsKept /\ RowsAdded /\ RowsUnpacked
  BY <1>3, JobsChange
<1> QED
  BY <1>1, <1>2, <1>4, UnpackingKept DEF FilesKept

LEMMA MoveUnpacks ==
  ASSUME Inv, Unpacking, NEW m \in Moves, MoveStep(m) PROVE Unpacking'
<1>1. worker' = worker /\ upload' = upload
  BY DEF MoveStep, MoveUnneeded, MoveRead, MoveUpdate, MoveReread, MovePropagate,
         MoveAttemptFails, MoveDies
<1>2. \A v \in Workers : WorkerMoves(v)
  BY <1>1 DEF WorkerMoves
<1>3. FilesKept
  BY <1>1, FilesStay
<1>4. RowsKept /\ RowsAdded /\ RowsUnpacked
  <2>1. CASE MoveUpdate(m)
    <3>1. PICK d \in DOMAIN docs : d = move[m].doc
      BY <2>1 DEF MoveUpdate, Inv, MovesOK
    <3>2. docs' = [docs EXCEPT ![d].spoke = move[m].spoke]
      BY <2>1, <3>1 DEF MoveUpdate
    <3>3. /\ DOMAIN docs' = DOMAIN docs
          /\ \A e \in DOMAIN docs : /\ docs'[e].bytes = docs[e].bytes
                                    /\ docs'[e].from = docs[e].from
                                    /\ docs'[e].job = docs[e].job
                                    /\ docs'[e].attempts = docs[e].attempts
      BY <3>2, RowMoved DEF Inv
    <3>4. \A e \in DOMAIN docs : docs[e].attempts \in Nat
      BY DEF Unpacking, OriginsOK
    <3>5. RowsKept
      BY <3>3, <3>4 DEF RowsKept
    <3> QED
      BY <3>3, <3>5 DEF RowsAdded, RowsUnpacked
  <2>2. CASE docs' = docs
    BY <2>2, RowsAsTheyWere
  <2> QED
    BY <2>1, <2>2 DEF MoveStep, MoveUnneeded, MoveRead, MoveReread, MovePropagate,
         MoveAttemptFails, MoveDies
<1> QED
  BY <1>2, <1>3, <1>4, UnpackingKept DEF FilesKept

-----------------------------------------------------------------------------
(* What the worker does to it. *)

LEMMA OthersStay ==
  ASSUME NEW w \in Workers, WorkerActs(w), WorkerMoves(w)
  PROVE  \A v \in Workers : WorkerMoves(v)
BY DEF WorkerActs, WorkerMoves

LEMMA ClaimUnpacks ==
  ASSUME Inv, Unpacking, NEW w \in Workers, Claim(w) PROVE Unpacking'
<1>1. PICK d \in DOMAIN docs :
        /\ docs[d].job \in {"queued", "retry_pending"}
        /\ RowsOK' /\ SameRows
        /\ docs'[d].job = "processing"
        /\ \A e \in DOMAIN docs : e # d => docs'[e].job = docs[e].job
        /\ docs'[d].attempts = docs[d].attempts + 1
        /\ \A e \in DOMAIN docs : e # d => docs'[e].attempts = docs[e].attempts
        /\ WorkerActs(w)
        /\ worker'[w].at = "load" /\ worker'[w].doc = d
  BY ClaimDoes
<1>2. \A e \in DOMAIN docs : docs[e].attempts \in Nat
  BY DEF Unpacking, OriginsOK
<1>3. RowsKept
  <2> SUFFICES ASSUME NEW e \in DOMAIN docs
               PROVE  /\ docs'[e].bytes = docs[e].bytes
                      /\ docs'[e].from = docs[e].from
                      /\ docs'[e].attempts \in Nat
                      /\ docs'[e].attempts >= docs[e].attempts
                      /\ docs'[e].job = "none" => docs[e].job = "none"
    BY <1>1 DEF RowsKept, SameRows
  <2>1. docs'[e].bytes = docs[e].bytes /\ docs'[e].from = docs[e].from
    BY <1>1 DEF SameRows
  <2>2. docs'[e].job = "none" => docs[e].job = "none"
    BY <1>1
  <2>3. docs[e].attempts \in Nat /\ docs'[e].attempts \in {docs[e].attempts, docs[e].attempts + 1}
    BY <1>1, <1>2
  <2> QED
    BY <2>1, <2>2, <2>3
<1>4. RowsAdded
  BY <1>1 DEF RowsAdded, SameRows
<1>5. RowsUnpacked
  BY <1>1 DEF RowsUnpacked
<1>6. VisitOK(w)'
  BY <1>1 DEF VisitOK
<1>7. WorkerMoves(w)
  BY <1>1, <1>2, <1>6 DEF WorkerMoves
<1>8. FilesKept
  BY FilesStay DEF Claim, apiVars
<1> QED
  BY <1>1, <1>3, <1>4, <1>5, <1>7, <1>8, OthersStay, UnpackingKept DEF FilesKept

\* It gives its document up: as unpacked only with no entry left.
LEMMA LettingGoUnpacks ==
  ASSUME Inv, Unpacking, NEW w \in Workers, worker[w].at # "idle", NEW j, j # "none",
         j = "unpacked" => worker[w].at = "visit" /\ worker[w].entries = <<>>,
         docs' = [docs EXCEPT ![worker[w].doc].job = j], Release(w), upload' = upload
  PROVE  Unpacking'
<1>1. /\ RowsOK' /\ SameRows
      /\ \A e \in DOMAIN docs : e # worker[w].doc => docs'[e].job = docs[e].job
      /\ docs'[worker[w].doc].job = j
      /\ \A e \in DOMAIN docs : docs'[e].attempts = docs[e].attempts
      /\ WorkerActs(w) /\ worker'[w].at = "idle"
  BY LetsGo
<1>2. PICK a \in DOMAIN docs : a = worker[w].doc
  BY DEF Inv, WorkersOK
<1>3. \A e \in DOMAIN docs : docs[e].attempts \in Nat
  BY DEF Unpacking, OriginsOK
<1>4. RowsKept
  <2> SUFFICES ASSUME NEW e \in DOMAIN docs
               PROVE  /\ docs'[e].bytes = docs[e].bytes
                      /\ docs'[e].from = docs[e].from
                      /\ docs'[e].attempts \in Nat
                      /\ docs'[e].attempts >= docs[e].attempts
                      /\ docs'[e].job = "none" => docs[e].job = "none"
    BY <1>1 DEF RowsKept, SameRows
  <2>1. docs'[e].bytes = docs[e].bytes /\ docs'[e].from = docs[e].from
    BY <1>1 DEF SameRows
  <2>2. docs'[e].job = "none" => docs[e].job = "none"
    BY <1>1
  <2>3. docs[e].attempts \in Nat /\ docs'[e].attempts = docs[e].attempts
    BY <1>1, <1>3
  <2> QED
    BY <2>1, <2>2, <2>3
<1>5. RowsAdded
  BY <1>1 DEF RowsAdded, SameRows
<1>6. ASSUME j = "unpacked"
      PROVE  /\ CompleteOK(a)'
             /\ \A d \in DOMAIN docs : docs[d].from = a /\ docs'[d].job = "none" =>
                  docs'[a].attempts > 1
  <2>1. LeftOf(<<>>, Entries(a), Sums)
    BY <1>2, <1>6 DEF Unpacking, VisitOK
  <2>2. \A i \in DOMAIN Entries(a) : Entries(a)[i].sum \in Sums
    BY <2>1, LeftOfNothing
  <2>3. Entries(a)' = Entries(a) /\ Sums \subseteq Sums'
    BY <1>4, EntriesKept, SumsKept
  <2>4. CompleteOK(a)'
    BY <2>2, <2>3 DEF CompleteOK
  <2>5. ASSUME NEW d \in DOMAIN docs, docs[d].from = a, docs'[d].job = "none"
        PROVE  docs'[a].attempts > 1
    <3>1. docs[d].job = "none"
      BY <1>4, <2>5 DEF RowsKept
    <3>2. a # 0
      BY DEF Inv, RowsOK
    <3>3. \/ docs[a].attempts > 1
          \/ worker[w].at = "register" /\ worker[w].child = d
      BY <1>2, <2>5, <3>1, <3>2 DEF Unpacking, OrphanOK
    <3> QED
      BY <1>1, <1>6, <3>3
  <2> QED
    BY <2>4, <2>5
<1>7. RowsUnpacked
  BY <1>1, <1>2, <1>6 DEF RowsUnpacked
<1>8. WorkerMoves(w)
  BY <1>1 DEF WorkerMoves
<1>9. FilesKept
  BY FilesStay
<1> QED
  BY <1>1, <1>4, <1>5, <1>7, <1>8, <1>9, OthersStay, UnpackingKept DEF FilesKept

LEMMA GoingOnUnpacks ==
  ASSUME Inv, Unpacking, NEW w \in Workers, GoesOn(w), worker[w].at # "register",
         VisitOK(w)', upload' = upload
  PROVE  Unpacking'
<1>1. worker[w].doc \in DOMAIN docs
  BY DEF GoesOn, Inv, WorkersOK
<1>2. WorkerMoves(w)
  BY <1>1 DEF GoesOn, WorkerMoves
<1>3. FilesKept
  BY FilesStay
<1> QED
  BY <1>2, <1>3, OthersStay, RowsAsTheyWere, UnpackingKept DEF FilesKept, GoesOn

LEMMA LoadUnpacks ==
  ASSUME Inv, Unpacking, NEW w \in Workers, Load(w) PROVE Unpacking'
<1>1. /\ GoesOn(w) /\ worker'[w].at \in {"unpack", "index"}
      /\ worker'[w].at = "unpack" => IsArchive(worker[w].doc)
  BY LoadDoes
<1>2. VisitOK(w)'
  BY <1>1 DEF VisitOK, GoesOn, IsArchive
<1>3. worker[w].at # "register" /\ upload' = upload
  BY DEF Load, apiVars
<1> QED
  BY <1>1, <1>2, <1>3, GoingOnUnpacks

LEMMA UpsertUnpacks ==
  ASSUME Inv, Unpacking, NEW w \in Workers, UpsertChunk(w) PROVE Unpacking'
<1>1. GoesOn(w) /\ worker'[w].at = "upserted"
  BY UpsertDoes
<1>2. VisitOK(w)'
  BY <1>1 DEF VisitOK
<1>3. worker[w].at # "register" /\ upload' = upload
  BY DEF UpsertChunk, Copying, apiVars
<1> QED
  BY <1>1, <1>2, <1>3, GoingOnUnpacks

LEMMA EntriesGiven ==
  ASSUME Unpacking, NEW a \in DOMAIN docs, IsArchive(a)
  PROVE  Entries(a) \in Seq(Ingestible)
BY EntriesAreIngestible DEF Unpacking, OriginsOK, Entries

LEMMA UnpackUnpacks ==
  ASSUME Inv, Unpacking, NEW w \in Workers, Unpack(w) PROVE Unpacking'
<1>1. /\ GoesOn(w) /\ worker[w].at = "unpack" /\ worker'[w].at = "visit"
      /\ worker'[w].entries = Entries(worker[w].doc)
  BY UnpackDoes
<1>2. PICK a \in DOMAIN docs : a = worker[w].doc
  BY <1>1 DEF Inv, WorkersOK
<1>3. IsArchive(a)
  BY <1>1, <1>2 DEF Unpacking, VisitOK
<1>4. LeftOf(Entries(a), Entries(a), Sums)
  BY <1>3, EntriesGiven, LeftOfSelf
<1>5. docs' = docs /\ worker'[w].doc = a
  BY <1>1, <1>2 DEF GoesOn
<1>6. IsArchive(a)' /\ Entries(a)' = Entries(a) /\ Sums' = Sums
  BY <1>3, <1>5 DEF IsArchive, Entries, Sums
<1>7. VisitOK(w)'
  BY <1>1, <1>2, <1>4, <1>5, <1>6 DEF VisitOK
<1>8. upload' = upload
  BY DEF Unpack, apiVars
<1> QED
  BY <1>1, <1>7, <1>8, GoingOnUnpacks

LEMMA VisitUnpacks ==
  ASSUME Inv, Unpacking, NEW w \in Workers, VisitEntry(w) PROVE Unpacking'
<1>1. /\ GoesOn(w) /\ worker'[w].at \in {"visit", "create"}
      /\ worker[w].at = "visit" /\ worker[w].entries # <<>>
      /\ \/ /\ worker'[w].at = "visit" /\ Known(Head(worker[w].entries))
            /\ worker'[w].entries = Tail(worker[w].entries)
         \/ worker'[w].at = "create" /\ worker'[w].entries = worker[w].entries
  BY VisitDoes
<1>2. PICK a \in DOMAIN docs : a = worker[w].doc
  BY <1>1 DEF Inv, WorkersOK
<1>3. IsArchive(a) /\ LeftOf(worker[w].entries, Entries(a), Sums)
  BY <1>1, <1>2 DEF Unpacking, VisitOK
<1>4. docs' = docs /\ worker'[w].doc = a
  BY <1>1, <1>2 DEF GoesOn
<1>5. IsArchive(a)' /\ Entries(a)' = Entries(a) /\ Sums' = Sums
  BY <1>3, <1>4 DEF IsArchive, Entries, Sums
<1>6. Known(Head(worker[w].entries)) => Head(worker[w].entries).sum \in Sums
  BY DEF Known, Sums
<1>7. LeftOf(worker'[w].entries, Entries(a), Sums)
  BY <1>1, <1>3, <1>6, LeftOfTail
<1>8. VisitOK(w)'
  BY <1>1, <1>4, <1>5, <1>7 DEF VisitOK
<1>9. upload' = upload
  BY DEF VisitEntry, apiVars
<1> QED
  BY <1>1, <1>8, <1>9, GoingOnUnpacks

LEMMA CreateUnpacks ==
  ASSUME Inv, Unpacking, NEW w \in Workers, CreateChild(w) PROVE Unpacking'
<1>1. /\ docs' = Append(docs, NewDocument(Head(worker[w].entries), General, worker[w].doc))
      /\ WorkerActs(w)
      /\ worker[w].at = "create" /\ worker'[w].at = "register"
      /\ worker'[w].doc = worker[w].doc
      /\ worker'[w].child = Len(docs) + 1
      /\ worker'[w].entries = worker[w].entries
  BY CreateDoes
<1>2. PICK a \in DOMAIN docs : a = worker[w].doc
  BY <1>1 DEF Inv, WorkersOK
<1>3. /\ IsArchive(a) /\ LeftOf(worker[w].entries, Entries(a), Sums)
      /\ worker[w].entries # <<>>
  BY <1>1, <1>2 DEF Unpacking, VisitOK
<1> DEFINE f == Head(worker[w].entries)
<1>4. f \in Ingestible
  BY <1>3 DEF LeftOf
<1>5. f.content # "zip"
  BY <1>4 DEF Ingestible, EntryTypes
<1> HIDE DEF f
<1>6. PICK n \in Nat :
        /\ n = Len(docs) + 1
        /\ n \notin DOMAIN docs
        /\ DOMAIN docs' = DOMAIN docs \cup {n}
        /\ \A e \in DOMAIN docs : docs'[e] = docs[e]
        /\ docs'[n].bytes = f
        /\ docs'[n].from = a
        /\ docs'[n].job = "none"
        /\ docs'[n].attempts = 0
  <2>1. RowsOK
    BY DEF Inv
  <2> QED
    BY <1>1, <1>2, <2>1, DocumentCreated DEF f
<1>7. worker'[w].child = n
  BY <1>1, <1>6
<1>8. RowsKept
  <2>1. \A e \in DOMAIN docs : docs[e].attempts \in Nat
    BY DEF Unpacking, OriginsOK
  <2> QED
    BY <1>6, <2>1 DEF RowsKept
<1>9. OrphanOK(n)'
  <2>1. docs[a].attempts >= 1
    BY <1>1, <1>2 DEF Unpacking, OriginsOK
  <2>2. docs[a].job = "processing"
    BY <1>1, <1>2 DEF Inv, WorkersOK
  <2>3. ASSUME NEW v \in Workers, worker'[v].at # "idle", worker'[v].doc = a
        PROVE  worker'[v].at = "register" /\ worker'[v].child = n
    <3>1. CASE v = w
      BY <3>1, <1>1, <1>7
    <3>2. CASE v # w
      BY <3>2, <2>3, <1>1, <1>2 DEF WorkerActs, Inv, WorkersOK
    <3> QED
      BY <3>1, <3>2
  <2> QED
    BY <1>6, <2>1, <2>2, <2>3 DEF OrphanOK
<1>10. RowsAdded
  BY <1>5, <1>6, <1>9 DEF RowsAdded, IsArchive
<1>11. RowsUnpacked
  BY <1>6 DEF RowsUnpacked
<1>12. VisitOK(w)'
  <2>1. IsArchive(a)' /\ Entries(a)' = Entries(a) /\ Sums \subseteq Sums'
    BY <1>3, <1>8, EntriesKept, SumsKept
  <2>2. LeftOf(worker[w].entries, Entries(a), Sums')
    BY <1>3, <2>1, LeftOfMore
  <2>3. docs'[n].bytes.sum = f.sum
    BY <1>6
  <2> QED
    BY <1>1, <1>2, <1>3, <1>7, <2>1, <2>2, <2>3 DEF VisitOK, f
<1>13. WorkerMoves(w)
  BY <1>1, <1>2, <1>6, <1>12 DEF WorkerMoves
<1>14. FilesKept
  BY FilesStay DEF CreateChild, apiVars
<1> QED
  BY <1>1, <1>8, <1>10, <1>11, <1>13, <1>14, OthersStay, UnpackingKept DEF FilesKept

LEMMA EnqueueUnpacks ==
  ASSUME Inv, Unpacking, NEW w \in Workers, EnqueueChild(w) PROVE Unpacking'
<1>1. /\ RowsOK' /\ SameRows
      /\ \A e \in DOMAIN docs : e # worker[w].child => docs'[e].job = docs[e].job
      /\ docs'[worker[w].child].job = "queued"
      /\ \A e \in DOMAIN docs : docs'[e].attempts = docs[e].attempts
      /\ worker'[w].entries = Tail(worker[w].entries)
      /\ WorkerActs(w)
      /\ worker[w].at = "register" /\ worker'[w].at = "visit"
      /\ worker'[w].doc = worker[w].doc
  BY EnqueueDoes
<1>2. PICK a \in DOMAIN docs : a = worker[w].doc
  BY <1>1 DEF Inv, WorkersOK
<1>3. PICK c \in DOMAIN docs : c = worker[w].child
  BY <1>1 DEF Inv, WorkersOK
<1>4. /\ IsArchive(a) /\ LeftOf(worker[w].entries, Entries(a), Sums)
      /\ worker[w].entries # <<>>
      /\ docs[c].bytes.sum = Head(worker[w].entries).sum
  BY <1>1, <1>2, <1>3 DEF Unpacking, VisitOK
<1>5. RowsKept /\ RowsAdded /\ RowsUnpacked
  BY <1>1, <1>3, JobsChange
<1>6. LeftOf(worker'[w].entries, Entries(a), Sums)
  <2>1. Head(worker[w].entries).sum \in Sums
    BY <1>4 DEF Sums
  <2> QED
    BY <1>1, <1>4, <2>1, LeftOfTail
<1>7. IsArchive(a)' /\ Entries(a)' = Entries(a) /\ Sums \subseteq Sums'
  BY <1>4, <1>5, EntriesKept, SumsKept
<1>8. LeftOf(worker'[w].entries, Entries(a), Sums')
  BY <1>6, <1>7, LeftOfMore
<1>9. VisitOK(w)'
  BY <1>1, <1>2, <1>7, <1>8 DEF VisitOK
<1>10. WorkerMoves(w)
  BY <1>1, <1>2, <1>9 DEF WorkerMoves, SameRows
<1>11. FilesKept
  BY FilesStay DEF EnqueueChild, apiVars
<1> QED
  BY <1>1, <1>5, <1>10, <1>11, OthersStay, UnpackingKept DEF FilesKept

LEMMA WorkerUnpacks ==
  ASSUME Inv, Unpacking, NEW w \in Workers, WorkerStep(w) \/ StageFault(w) \/ Crash(w)
  PROVE  Unpacking'
<1>1. CASE FailPermanently(w)
  BY <1>1, LettingGoUnpacks DEF FailPermanently, Settle, apiVars
<1>2. CASE SealDocument(w)
  BY <1>2, LettingGoUnpacks DEF SealDocument, Settle, apiVars
<1>3. CASE UnpackRefused(w)
  BY <1>3, LettingGoUnpacks DEF UnpackRefused, Settle, apiVars
<1>4. CASE FinishArchive(w)
  <2> DEFINE j == IF worker[w].found THEN "unpacked" ELSE "failed"
  <2>1. j # "none"
    OBVIOUS
  <2>2. docs' = [docs EXCEPT ![worker[w].doc].job = j] /\ Release(w) /\ upload' = upload
    BY <1>4 DEF FinishArchive, Settle, apiVars
  <2>3. worker[w].at = "visit" /\ worker[w].entries = <<>>
    BY <1>4 DEF FinishArchive
  <2> HIDE DEF j
  <2> QED
    BY <2>1, <2>2, <2>3, LettingGoUnpacks
<1>5. CASE StageFault(w) \/ UnpackRaises(w)
  <2> DEFINE j == IF docs[worker[w].doc].attempts >= MaxAttempts
                  THEN "failed" ELSE "retry_pending"
  <2>1. j # "none" /\ j # "unpacked"
    OBVIOUS
  <2>2. /\ docs' = [docs EXCEPT ![worker[w].doc].job = j] /\ Release(w) /\ upload' = upload
        /\ worker[w].at # "idle"
    BY <1>5 DEF StageFault, UnpackRaises, Reschedule, apiVars
  <2> HIDE DEF j
  <2> QED
    BY <2>1, <2>2, LettingGoUnpacks
<1>6. CASE Crash(w)
  <2>1. WorkerActs(w) /\ worker'[w].at = "idle"
    BY <1>6, Released DEF Crash, Inv
  <2>2. WorkerMoves(w)
    BY <2>1 DEF WorkerMoves
  <2>3. docs' = docs /\ upload' = upload
    BY <1>6 DEF Crash, apiVars
  <2>4. FilesKept
    BY <2>3, FilesStay
  <2> QED
    BY <2>1, <2>2, <2>3, <2>4, OthersStay, RowsAsTheyWere, UnpackingKept DEF FilesKept
<1> QED
  BY <1>1, <1>2, <1>3, <1>4, <1>5, <1>6, ClaimUnpacks, LoadUnpacks, UpsertUnpacks,
     UnpackUnpacks, VisitUnpacks, CreateUnpacks, EnqueueUnpacks DEF WorkerStep

LEMMA UnpackingInit == Init => Unpacking
<1> SUFFICES ASSUME Init PROVE Unpacking
  OBVIOUS
<1>1. DOMAIN docs = {}
  BY DEF Init
<1>2. \A w \in Workers : worker[w].at = "idle"
  BY DEF Init, IdleWorker
<1>3. \A u \in Uploads : upload[u].at = "idle"
  BY DEF Init, IdleUpload
<1> QED
  BY <1>1, <1>2, <1>3 DEF Unpacking, OriginsOK, VisitOK

LEMMA UnpackingStep == Inv /\ Unpacking /\ [Next]_vars => Unpacking'
<1> SUFFICES ASSUME Inv, Unpacking, [Next]_vars PROVE Unpacking'
  OBVIOUS
<1>1. CASE \E u \in Uploads : UploadStep(u)
  BY <1>1, UploadUnpacks
<1>2. CASE \E d \in DOMAIN docs : Delete(d)
  BY <1>2, DeleteUnpacks
<1>3. CASE \E w \in Workers : WorkerStep(w) \/ StageFault(w) \/ Crash(w)
  BY <1>3, WorkerUnpacks
<1>4. CASE \E m \in Moves : MoveStep(m)
  BY <1>4, MoveUnpacks
<1>5. CASE UNCHANGED vars
  BY <1>5, RowsAsTheyWere, FilesStay, UnpackingKept DEF vars, apiVars, WorkerMoves, FilesKept
<1> QED
  BY <1>1, <1>2, <1>3, <1>4, <1>5 DEF Next

LEMMA UnpackingHolds == Spec => []Unpacking
BY UnpackingInit, UnpackingStep, InvHolds, PTL DEF Spec

\* However often an archive is retried, whatever is deleted, moved or uploaded
\* meanwhile and wherever workers die, an archive shown as unpacked has brought in
\* every entry it holds, and none of its children lacks a job unless it was claimed
\* more than once (_unpack_archive_job, extract_archive).
THEOREM UnpackedArchivesAreComplete == Spec => []UnpackedIsComplete
<1>1. Inv /\ Unpacking => UnpackedIsComplete
  <2> SUFFICES ASSUME Inv, Unpacking, NEW a \in DOMAIN docs, docs[a].job = "unpacked"
               PROVE  /\ \A i \in DOMAIN Entries(a) : \E d \in DOMAIN docs :
                           docs[d].bytes.sum = Entries(a)[i].sum
                      /\ \A d \in DOMAIN docs :
                           docs[d].from = a /\ docs[d].job = "none" => docs[a].attempts > 1
    BY DEF UnpackedIsComplete
  <2>1. \A i \in DOMAIN Entries(a) : Entries(a)[i].sum \in Sums
    BY DEF Unpacking, CompleteOK
  <2>2. a # 0
    BY DEF Inv, RowsOK
  <2>3. \A d \in DOMAIN docs :
          docs[d].from = a /\ docs[d].job = "none" => docs[a].attempts > 1
    BY <2>2 DEF Unpacking, OrphanOK
  <2> QED
    BY <2>1, <2>3 DEF Sums
<1> QED
  BY <1>1, InvHolds, UnpackingHolds, PTL
=============================================================================
