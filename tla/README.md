# CanI: a TLA+ verification of documents, legal drafts, public law and queries

CanI is a personal assistant over a user's own documents and public law. FastAPI services
(`apps/*-api`), a Python ingestion worker and a Next.js front end share a library
(`apps/shared-lib/cani_shared`), a Postgres database (`db/migrations`), a Qdrant vector
index and blob storage.

What makes the system hard to get right is one design decision: **every function of
`db/repositories.py` commits its own transaction**. A handler that calls four of them is
four commits with a Qdrant or blob call in between. There is no outbox, no lease and no
saga; correctness rests on the order of these calls, on a few single-statement claims and
on guards that re-read the database. This project models exactly those orders.

## Inventory

| Component | State it keeps | Operations | What makes it correct |
|---|---|---|---|
| docs-api uploads (`docs_api_app/main.py:169-336`) | `documents`, `document_versions`, `ingestion_jobs`, original blobs | dedupe by checksum, create document, store blob, create version, create job | a document is registered completely or visibly failed; one document per file |
| docs-api deletion (`main.py:479-514`) | `documents.deleted_at`, `deletion_jobs` | read, tombstone, cancel waiting ingestion, enqueue clean-up | a tombstone always has somebody who cleans up |
| docs-api spoke moves (`main.py:423-476`) | `documents.spoke`, the `spoke` payload of vectors | update the row, then Qdrant | row and payload agree in the end |
| docs-api legal drafting (`legal.py`) | `legal_drafts` | create, confirm fields, delete, finalize | one document per draft, nothing confirmed is lost |
| worker loop (`worker.py`) | the claims it holds | poll both queues, ingestion first; settle or reschedule | exclusive claims, bounded attempts, every job settles |
| ingestion pipeline (`pipeline.py`) | `chunk_manifests`, vectors, job stage | load, scan, extract, chunk, embed, upsert, ledger, settle; unpack archives | an indexed document is completely indexed |
| deletion pipeline (`deletion.py`) | the same stores | guard, vectors, blobs, cascade, settle | nothing of an erased document is left |
| public-law refresh (`law_refresh.py`) | `law_source_versions`, `law_chunk_manifests`, public vectors | fetch, compare, embed, remove, version, ledger | the index holds the published text; failures only make it older |
| repositories (`db/repositories.py`) | all tables | one commit per function | each statement is atomic and says what its caller relies on |
| auth and entitlements (`auth/`, hub-api) | users, `auth_revoked_at`, entitlements, cookies | login, mint, verify, revoke | a revoked user is out, and stays out |
| docs-api listing (`main.py:339-404`) | none | filter, sort, page | the pages of a library show each document once |
| retrieval worker | readiness flags, `query_audit` | set up collections, search two corpora, assemble an answer | a collection taken for ready has its indexes; citations and the verdict badge are true |
| rate limiter, chunking, archives, retries, providers (`cani_shared`) | in-process buckets | pure functions | budgets and caps hold, no text is lost |
| web front end | session refs of hooks | start and stop an avatar or voice session | a stopped session stays stopped |

How they interact: the APIs and the worker share Postgres rows and nothing else; the two job
tables are the queues. A claim is one transaction (`SELECT ... FOR UPDATE SKIP LOCKED`, then
`UPDATE ... RETURNING`), committed before the work starts. The worker writes Qdrant during
ingestion and deletes there during deletion; docs-api writes blobs, the worker deletes them.
Nothing calls back: a result is always read from a row later. Container Apps may run up to five
worker replicas, and kills them when it scales in or redeploys
(`infra/container-apps/main.bicep`).

What is hard: two requests or two replicas between each other's commits; a process killed
between a commit and the next call; a retry after a half-written attempt; a read that is
stale when it is used; a foreign key that refuses the last step of several. `PROJECT.json`
lists each of them at the line where it bites.

## Modules

### DocumentLifecycle, the core

A document from upload to erasure: docs-api's upload and DELETE handlers and any number
of worker replicas, over Postgres rows, Qdrant points and blobs.

* **One action is one commit or one external call.** `UploadCheck`, `CreateDocument`,
  `StoreBlob`, `CreateVersion`, `CreateJob` are the upload; `ReadForDelete`,
  `TombstoneDocument`, `CancelPendingIngestion`, `CreateDeletionJob` the DELETE request;
  `ClaimIngestion` ... `MarkIndexed` a run of `process_job`; `GuardInFlight` ...
  `FinishDeletion` a run of `process_deletion`. Between any two, another actor may act,
  the call may fail (`UploadFault`, `DeleteFault`, `StageFault`, `RejectContent`,
  `DeletionFault`), or the worker be killed (`Crash`).
* A claim is atomic because the statement that selects the oldest job marks it in the same
  transaction and skips rows another replica has locked. The order is `started_at`
  (ingestion) and `created_at` (deletion): `queue` and `dqueue`. Both are set when a job is
  created and never changed, so a rescheduled job keeps its place.
* `delete_document_cascade` is one transaction of four DELETEs in the order of foreign keys
  that do not cascade, under READ COMMITTED: each statement sees what was committed before it.
  `SweepJobs` (ledger and job), `SweepVersions` and `CommitCascade` (document and commit) are
  its steps. `txLedger` and `txRows` hold the rows it has deleted and not committed, which
  `Locked` keeps from claims, cancels, settlements and the insert of what would refer to them,
  and which another cascade waits for (`Waits`). A row that came too late to be swept, or a
  legal draft, makes the next statement fail (`Referenced`); two cascades of one document which
  each hold a row the other wants end in a deadlock that Postgres breaks (`Deadlocked`). Either
  way it is `CascadeRefused`: the transaction is aborted, the failure handler's own UPDATE
  raises on it, the exception leaves `run_forever`, and the deletion job stays 'processing'.
* A version and its job are named by their document (the code creates one of each), a
  deletion job by its request. A point is `<<document, attempt, chunk>>`, because each
  attempt draws fresh uuids.
* A killed worker forgets what it held and polls again after a restart; the rows it
  claimed stay as they are.
* Failures of a step are nondeterministic: retryable ones count an attempt, permanent ones
  (infected, unreadable, unsupported content) end the job at once, as `handle_job_failure`
  does. A deletion's other failures are permanent unless `RetryableDeletionError` says
  otherwise.
* Left out: title, stage text, audit events; the spoke, the gate on files and the worker's
  archive branch (a zip creates further documents) are in Filing.
  `create_generated_document` makes the same calls in the same order as an upload.

### DocumentView, what the lifecycle promises

The abstract specification: a document is absent, live, tombstoned, erased, in that order
and never back; it becomes searchable only while live, and is erased only after it
stopped being searchable. `DocumentLifecycle!View` instantiates it with
`phase <- row, searchable <- Searchable`.

### LegalDraft

`legal.py` by concurrent calls on drafts: each handler is its read (`OpenConfirm`,
`OpenDelete`, `OpenFinalize`) and the statements after it, each of which may meet a state the
read did not see. `Claim` is the one statement that takes a draft out of 'draft';
`CreateDocument`, `StoreVersion` (blob and version), `EnqueueIngestion` and `LinkDocument` come
after it, one commit each, and may fail (`FinalizeFault`). The owner may delete the generated
document in between (`EraseDocument`), and then the foreign keys refuse what is still to be
inserted of it; once the draft refers to it they refuse the deletion. A generated document is
'bare', then 'stored', then 'queued'. A field value is abstracted to the fact that it was
confirmed: the merge (`||`) only ever adds or replaces keys.

### LawRefresh

`refresh_source` call by call, for one source: `Fetch`, `Unchanged` or `Snapshot`, then
per section `CarryForward` or `Embed`, then `RemoveRepealed`, `CreateVersion`,
`ReplaceManifests`, `Finish`. `Fault` ends a run after any call, by an exception or a kill,
which are the same to the stores; `Redeploy` changes the embedder between runs. A page is
what the publisher serves, told apart by its checksum; `Text` gives its sections,
including a page without any. Point ids are a function of the section, so a section names
its vector and its ledger row. Both are text, embedding space and place (`heading`,
`source_url`, `chunk_index`); a section whose text has not changed is carried forward, and
then its new ledger row takes the place it has on the page while the vector's payload keeps the
old one (`CarryForward`). Sections are compared in any order (the code uses the
page's). Sources share no rows and are visited one after the other, so one source is
modelled; two overlapping runs of the job are not. Three variables are history and read
by no action's guard: `written`, `unrecorded` and `missing`.

### Filing, Archive and Chunking

Where a document comes from and where it is filed, at a coarser grain than DocumentLifecycle:
uploads through the gate (`UploadRejected`, `UploadChecked`), the registration that may die
half-way (`RegisterDocument`, `EnqueueUpload`, `UploadDies`), the worker's fan-out of an
archive entry by entry (`Unpack`, `VisitEntry`, `CreateChild`, `EnqueueChild`,
`FinishArchive`), and PATCH in its three parts (`MoveUpdate`, `MoveReread`, `MovePropagate`)
with retries and deaths between them. An archive that `extract_archive` refuses fails for good
(`UnpackRefused`); one with a member that cannot be read makes it raise, and is tried again
(`UnpackRaises`, `Reschedule`). What retrieval filters on is `points`, pairs of a document and
the spoke in the payload. `Load` copies the row, its spoke included, and `UpsertChunk` writes
that copy, which is the point of the module. `lapsed` is history: documents for which the code
has knowingly or unknowingly let the points lag.

`Archive` is `extract_archive` and the upload gate as operators on a file of which only
content, size and checksum are left; `ReadMembers(archive)[i]` is what the loop has after i
members, so the order in which the code counts, skips, refuses and raises is kept; a 'damaged'
member is one whose bytes `zipfile` cannot give (bad CRC, unknown compression, truncated data),
which the code does not catch. `Chunking` is `chunk_document` line by line: a line is its token
count and whether it is a heading, a chunk the interval of lines it holds, `Packed(lines)[i]`
the loop after i lines. Loops are recursive functions on 0..n, which the provers can reason
about.

### LawChunking

How `chunk_sections` cuts a section that is too long: at lines, a too long line at
sentences. It counts as Chunking does, as `sectioner.py:14` takes the count and the target
from `chunking.py`. A part is the interval of the section it holds, so "nothing is lost or
said twice" is: each part begins where the one before it ends. Empty lines, which
`text.split("\n")` may yield, have no sentences.

### Access

Login, tokens and revocation. A callback is its commits (`VerifyFlowState`, `ExchangeCode`,
`LookUpUser`, `UpdateUser` or `InsertUser`, `EstablishSession`), the issue of an access
token its three moments (`CheckSession`, `ReadEntitlements`, `MintAccessToken`), a query
the check at docs-api, the token docs-api mints anew for the retrieval worker (`Forward`)
and the check there. `BeginRevocation` and `CommitRevocation` are the operator's script: the
stamp is the time at which its transaction began (`now()` in Postgres), the effect comes
with the commit. Time is counted in ticks, `TicksPerSecond` to a second: a token's `iat` is
cut off (`Second`), the epoch read from Postgres is rounded (`Rounded`), and half seconds
are where they meet. All services share one clock. `lost` is history.

### Retrieval

`retrieve` from embedding to answer for any number of concurrent queries. Each search is one
attempt of `retry_transient`: the lazy set-up of the collection (`LookForCollection`,
`CreateCollection`, `IndexPayload`) when the flag of the process is down, then the search; a
query is at one step of one corpus at a time (`of`, `at`). Other services create the same
collections, which is what another query's steps stand for. A search returns any order of any
top k of the matching chunks, the model marks any of them and says anything; without a context
the verdict is none, or the `FakeGrounder`'s 'insufficient'. `Used`, `Citations` and `Verdict`
are the code's. A request may ask for the empty spoke, which is no filter (`NoSpoke`,
`InScope`). Faults of the law corpus are free and uncounted, because retrieval goes on without
it (`LawDegrades`); those of everything else end the query and are bounded. The caller,
docs-api, may stop waiting at any point before the answer (`CallerGivesUp`); the worker does
not notice.

### RateLimit and Listing

`RateLimit` is the middleware's bucket per client, refilled lazily, in units of
1/`TicksPerToken` of a token so that no fraction is needed, with the eviction of idle
buckets once the table is full. `Listing` is `list_documents` as a relation: the pages a
request may be answered with. The order of the ids breaks every tie, as the query says.

### Algorithms

What is computed without touching any state, over the inputs its constants name: what comes
out of an archive, the chunks of a text and of a statute, the pages of a listing. It extends
Filing, whose run is where TLC evaluates these properties in the initial state, and Archive,
Chunking, LawChunking and Listing, which define the algorithms and what each owes.

## Runs

| Run | Instance | Checks | Distinct states |
|---|---|---|---|
| `replicas` | 1 document, 2 DELETE requests, 2 workers, 2 chunks, 2 attempts, 1 crash, 1 API fault | types, `ExclusiveClaim`, `NothingSurvivesErasure`, `NoForgottenTombstone`, `AttemptsCapped`, `FinishedJobsStayFinished`, `ImplementsView`, and under fairness `DeletionSettles` | about 237,000 |
| `lifecycle` | 2 documents with the same bytes, one behind a legal draft, 1 request, 1 worker, 1 crash, 1 API fault | `IndexedIsComplete`, `OnlyDeathStrands`, and under fairness `IngestionSettles` | about 299,000 |
| `crash_strands` | 1 document, 1 request, 1 worker, 1 crash | finds `ClaimedWorkIsRedelivered` violated | |
| `retry_duplicates` | 1 document, 1 worker, 2 attempts | finds `RetryLeavesNoDuplicates` violated | |
| `draft_kills_worker` | 1 document behind a legal draft, 1 request, 1 worker | finds `JobsNeverKillTheWorker` violated | |
| `legal_draft` | 1 draft, 4 calls, 2 fields, 1 fault | types, `OneDocumentPerDraft`, `NoConfirmedFieldIsLost`, `DeletedDraftsStayUndocumented`, `LinkedDocumentsAreThere`, `FinalizeSettles` | about 168,000 |
| `finalize_pending` | 1 draft, 2 calls, 1 fault | finds `PendingEndsInADocument` violated | |
| `law_refresh` | 2 sections, 4 pages, 2 places, 2 embedders, 5 runs, 2 faults | types, `LedgerDescribesVectors`, `IndexedVersionHasItsLedger`, `OneEmbeddingSpace`, `StandingLawStaysSearchable` | about 136,000 |
| `law_failed` | 2 pages, 3 runs, 1 fault | finds `UnchangedLawIsLive` violated | |
| `filing` | 2 uploads of 6 files (an archive with a duplicate, a bomb, one with a torn member, one with nothing to ingest, a single PDF, a text), 2 moves, 1 worker, 3 documents, 1 deletion, 2 faults; every archive of up to 3 members, every text of up to 6 lines, 2,664 statutes of up to 2 sections, listings of 4 rows | `FanoutIdempotent`, `UnpackedIsComplete`, `FiledWhereShown`; `ArchivesExtract`, `ChunksCoverText`, `ChunksStayNearTarget`, `StatutesAreQuotedWhole`, `PagesListTheLibrary` | about 358,000 |
| `stale_spoke` | the same model with one PDF | finds `InFlightJobsFollowMoves` violated | |
| `service` | rate limit: 2 clients, room for 1 bucket, capacity 2; access: 1 user, 1 browser, 2 tabs, 2 callbacks, 1 query, 1 revocation, 2 ticks to a second; retrieval: 2 queries, 3 + 2 chunks, 2 attempts, 1 fault, 1 impatient caller | `RateCapped`; `EntitlementWasHeld`, `RevocationIsFinal`, `RefusedOnlyAround`, `RevokedStaysRevoked`; `NoOpinionOnLaw`, `CitationsNameTheirSource`, `ReadyMeansIndexed` | about 1,260,000 |

The properties of pure algorithms (`StatutesAreQuotedWhole`, `ArchivesExtract`,
`ChunksCoverText`, `ChunksStayNearTarget`, `PagesListTheLibrary`) have no state: TLC evaluates
each in the initial states, over all the inputs the MC module enumerates, in the `filing` run,
to whose subject they belong or lie next. The inputs are the least with each of the interesting
cases: members that are skipped, raise, fit, or pass a limit alone or together; lines that fill
a chunk, pass it, or head a section; sentences of which two fit, or not, or one alone does not;
rows that tie. The theorems hold for every input. `service` hosts three models that share no
state: `part` picks one of them in the initial state, and the others do not move.

**Why the bounds are enough.** `NumChunks = 2` is the smallest number for which an attempt
can stop half-way through its chunks; `MaxAttempts = 2` the smallest with both a retry and
an exhausted cap (the code has 5, and only compares with it). Two workers and two requests
are enough for every pairwise race, two cascades of one document and a deletion that meets an
ingestion in another replica among them; the theorems below cover any number. The lifecycle run
has one worker, so that one queue is served in order, and two documents
with equal bytes, so that an upload is deduplicated, races its twin, or follows an
erasure. Two documents never share a point, ledger row or job. `MaxCrashes` and `MaxFaults`
bound rare events, not the system. Four calls on one draft allow two finalizers with a
confirm and a delete in between; drafts share nothing. Five refreshes allow two failures,
each followed by runs that go on from what it left. Deadlock is checked wherever the system
goes on for ever (the worker polls, the job may be redeployed); in the LegalDraft runs
every call is answered in the end, and in `law_failed` the runs are used up with a single
embedder deployed; requests, queries and clocks of `filing` and `service` are used up too.

In `filing`, three documents are an archive with both of its distinct children, or with one of
them uploaded first or meanwhile. `MCFiling!Bounded` keeps moves to runs with a single document
(a move touches one document and is judged by its points alone) and files archives under
General (nothing reads the spoke of an archive). One worker is enough to be killed and to race
the requests; two workers never hold one job (`ExclusiveClaim`). In `service`, one more client
than there is room makes an eviction happen and capacity 2 lets a bucket be partly full; two
ticks to a second are the least with a half second in them; five ticks see a token minted
before, in and after the second of a revocation. `MCService!Bounded` keeps logging in, minting
and asking apart from each other (they meet only in the clock and in the rows the revocation
writes, with which each still overlaps). Two queries are enough for one to find what the other
has half set up, and `MCService!Bounded` keeps them together until one of them is answered; one
caller at most gives up; 2 + 1 is the least context budget in which the user's chunks can fall
short of theirs. Flows, callbacks, uploads and moves are interchangeable (`SYMMETRY`); no
liveness is checked in the runs that say so.

**Fairness.** `DocumentLifecycle!Fairness` is weak fairness of each started request and of each
worker. A worker's loop goes on (`worker.py` polls and sleeps; the Qdrant, scanner and
extractor clients have timeouts, `qdrant_client.py:84`, `scanner.py:61`,
`extractor.py:110-119`, so that a call answers or raises), and a killed worker is restarted by
the platform, so `WorkerStep` goes on. Nothing obliges a user to upload or delete, and nothing
obliges a call to fail: uploads that have not started, requests, faults and crashes have no
fairness. A step that can both fail and succeed is one fair step, so a job may fail until its
attempts run out; this is why `IngestionSettles` does not promise 'indexed'. Weak fairness of
the worker, not of single actions, is also why a worker that finds ingestion jobs forever could
leave deletions waiting: the instances have finitely many uploads, and no claim is made about a
system that is never idle. In LegalDraft a finalize call that has started goes on, or dies by
`FinalizeFault`. `DeletionSettles` names the two ways a deletion may fail to settle: a killed
worker, and a cascade that a foreign key refuses (`Refusable`).

## Proofs

TLC checks the instances above; TLAPS proves the following for **any** number of documents,
requests, workers, chunks, attempts, drafts, calls, fields, sections, pages, archives, texts,
statutes, libraries and failures. The assumptions are the named `ASSUME`s on the constants:
`ConstantsAssumption` (bounds are naturals, at least one chunk and one attempt, documents and
requests are different things), `DraftConstants`, `LawConstants`, `LimitAssumption`,
`AccessAssumption`, `CorporaAssumption` (no passage is in both corpora, both are finite)
`FilingAssumption` (the default spoke is one of the spokes), `LimitsAssumption` (sizes are
naturals), `TargetsAssumption` (the token targets are positive and the overlap is less than a
chunk, `chunking.py`), `FilesAssumption` and `InputsAssumption` (files, archives, texts,
statutes and libraries are of their types).

* **`DocumentLifecycle_proofs`.** `Invariance` proves `Spec => []Inv`, with `Inv` the type
  invariant, `Holds` (what a worker holds depends on where it stands, and nobody else holds
  it), `Owned` (a held job is marked as processing, or its row is gone), `Uploaded` (the order
  of an upload's commits and the foreign keys), `Requested` (a request passed its tombstone
  before it cancels or enqueues), `Purged` (while a deletion job is past its guard, no worker
  is in the part of an ingestion that writes this document's vectors, and what was cleared
  stays clear), `Swept` (what an open cascade has deleted is still there, and what came after
  the statement that would have deleted it belongs to an upload that the DELETE overtook) and
  `NothingSurvivesErasure`. From it follow `TypeCorrect`, `ClaimsAreExclusive`,
  `ErasureIsComplete`, `SettledForGood` and `LifecycleImplementsView`, the refinement.
* **Its second invariant, `Bookkeeping`**, is about what is left behind, and rests on the
  first. `AttemptsCapped` and `NoForgottenTombstone` are inductive with it as they stand.
  `OnlyDeathStrands` needs `Settling`: a worker that has settled its job but not yet the
  document holds a job that is 'processing' no longer; and `RefusalsAreOvertaken`: a cascade is
  refused only when a draft refers to the document or the DELETE overtook its upload.
  `IndexedIsComplete` needs `Ledger`: what a worker has upserted in this attempt is in Qdrant,
  and once it has written the ledger all of the attempt's rows are there, as long as the
  document is live; a deletion's clean-up can take them only after a tombstone. Hence
  `AttemptsStayCapped`, `TombstonesAreRemembered`, `OnlyDeathLeavesJobs`,
  `IndexedDocumentsAreComplete`.
* **Why `Purged` holds** is the result worth knowing. `deletion.py:47-60` calls its
  in-flight guard safe for one worker only. The race it describes (an ingestion claimed
  right after the guard was read) needs an ingestion that *starts* after the tombstone.
  But `process_job` reads the document through `get_document`, which filters
  `deleted_at IS NULL`, so that job fails permanently before it writes anything; a job
  that read the document before the tombstone is 'processing' when the guard looks. The
  guard and the live read together are safe for any number of replicas, and removing
  either one breaks the property (`GuardNothing`, `LoadAnyDocument`).
* **`LegalDraft_proofs`.** Only the call whose claim found the row in 'draft' can have a
  document (`Winners`, `OneWinner`); from then on the row is 'finalized', which no claim,
  confirm or delete satisfies. `Registered`: how far a document has come follows from where its
  call stands, unless it is erased. Hence `FinalizeIsExclusive`, `ConfirmationsAreKept`,
  `DeletionIsFinal`, `LinksAreSound`.
* **`LawRefresh_proofs`.** While a run compares, the ledger is still its baseline
  (`Diffed`), what it wrote agrees with the next ledger and what it did not write keeps its
  row (`Written`), and the version row precedes its ledger (`Announced`). Hence
  `LedgerIsRight`, `IndexedIsRecorded`, `LedgerInOneSpace`, `NeverNoLaw`.

* **`RateLimit_proofs`.** The property speaks of any two admissions in the history. The
  invariant ties the bucket to it: what a client has, refilled to now, is at most a full
  bucket and at most what any earlier admission left it; a client without a bucket has been
  quiet for long enough that a full one is what it is due. Hence `RatesAreCapped`.
* **`Retrieval_proofs`.** What a query holds is typed by where it stands; its statutes are of
  the jurisdictions asked for and its chunks of its owner and, if it asked for one, its spoke;
  no passage is in both corpora, so the border between the two halves of the context is the
  border between kinds. Hence `CitationsAreTrue` and `LawGetsNoVerdict`. `ReadyIsIndexed`: the
  flag goes up only after the indexes, which nobody takes away.
* **`Access_proofs`.** Every session and token in flight was minted at or before now, and
  whatever grants an entitlement was read while it was held or before it was lost
  (`GrantedIssue`, `GrantedAccess`, `GrantedQuery`). `Second` cuts off at most, and `Rounded`
  is off by at most half a second, for any number of ticks: two lemmas on integer division
  carry `RevocationsAreFinal` and `RefusalsAreNear`. `RevokedForGood` follows from the order
  of the writes: the only grant comes with the insert of the row.

* **`Filing_proofs`.** Three arguments. A document being processed is held by one worker, and
  between the read that finds an entry unknown and the insert only the holder of the archive
  could create a child of it (`NoChildYet`): hence `FanoutIsIdempotent`, which the schema does
  not enforce. A move that is still clean is the only one to owe its document an update, and
  every worker that holds a copy of the row has the spoke of the move (`CleanMoves`); so when
  it has retagged the points, they and whatever is still being written agree with the row:
  hence `DocumentsAreFiledWhereShown`. None of this depends on what a file or an archive is.
  `UnpackedIsComplete` does (`Unpacking`): the entries a worker has yet to visit are the tail
  of its archive's entries, and of those it has visited each is among the contents that are
  there, as a child of this attempt, of an earlier one, or as a document the dedupe found. A
  child without a job is left only by a worker that failed or was killed between the two
  commits, and then the archive is not shown as unpacked unless it has been claimed again.
  Hence `UnpackedArchivesAreComplete`. Entries are told apart by what `extract_archive` says of
  them, which is why this module rests on the next.

* **`Algorithms_proofs`.** Each theorem is about every input there is, and says besides that
  the run's property holds. The library's induction theorems take an operator as a parameter,
  which the provers cannot instantiate; induction is had from the well-foundedness of `<` on
  Nat, stated of sets (`NatSetInduction`, `UpToInduction`), and with it that a loop written as
  a recursive function on 0..n is what its equation says (`LoopExists`). Each loop then has an
  invariant of its own: `ReadRightly` (what was read of the first i members), `Covered` and
  `Near` (the chunks of the first i lines and what is pending), `SentencesLaid`, `LinesLaid`
  and `Quoted` (the parts of a statute lie end to end up to what is gathered, and what is
  gathered fits or is one piece). Hence `ArchivesAreRead`, `ChunksCover`,
  `ChunksAreNearTarget`, `StatutesAreWhole`. `ChunksAreNearTarget` has a hypothesis on the
  text: its lines fit, and headings are short, as the pattern of `chunking.py:20-22` takes only
  some eighty characters. `PagesAreComplete` needs no loop: a total order sorts a finite set in
  one way, so pages cut from two sorts agree, and `offset + i` meets each place on one page.

Only model-checked: the liveness properties `IngestionSettles`, `DeletionSettles` and
`FinalizeSettles`, since liveness under fairness is out of the prover's reach. Every invariant
and every other action property of the passing runs is a theorem.

## What the runs show of the code

Each of these is a violation run, with a trace of a few steps.

1. **A killed worker strands its job** (`crash_strands`). A 'processing' row has no lease
   and nothing reclaims it, although `repositories.py:501-503` and docs/21:208 promise
   at-least-once delivery. A deletion waiting for such an ingestion job dead-letters.
   Apart from that, `OnlyDeathStrands` shows, a job is stranded only by (3), and then it is a
   deletion job.
2. **A retry duplicates vectors** (`retry_duplicates`). `pipeline.py:3-5` says
   "deleting-then-reinserting"; nothing deletes. Completeness survives
   (`IndexedIsComplete`), uniqueness does not.
3. **Deleting a finalized draft's document stops the worker** (`draft_kills_worker`). The
   foreign key of `legal_drafts` refuses the cascade, the handler's own UPDATE then runs on
   an aborted transaction, and the exception leaves `run_forever`. No draft is needed: when a
   DELETE overtakes an upload, the upload may commit its version or its job between two
   statements of the cascade, and the next one is refused by the foreign keys of
   `document_versions` and `ingestion_jobs` (0001:45,59). The vectors and blobs are gone then,
   and the deletion job stays 'processing'.
4. **A finalize that fails after its claim can never be repaired** (`finalize_pending`).
   The draft is 'finalized' without a document; callers are told to poll for ever.
5. **A failed law refresh is not undone** (`law_failed`). Vectors are replaced before the
   version row and the ledger; if the page goes back, the next run says 'unchanged' over a
   mixture of both texts.
6. **A move does not reach a document that is being ingested** (`stale_spoke`). The worker
   writes the spoke it read at its start over the move; main.py:432 and qdrant_client.py:242
   say that it reads the spoke afresh. `FiledWhereShown` shows that nothing else misfiles a
   document but overlapping moves and a Qdrant update that failed. That one is not mended by
   "just retry the PATCH" (main.py:437): the retry finds the row as it wants it and skips
   Qdrant.

Met while modelling, without a run of their own:

* A confirm call that loses a race fails `legal.py:234`'s assertion (the answer "assertion" is
  reachable in LegalDraft).
* A DELETE of a draft answers 204 also when the draft was finalized meanwhile.
* A DELETE that dies after its tombstone is never retried, because the next DELETE answers
  `delete_pending` without enqueueing (`NoForgottenTombstone` names this exception).
* A transient deletion failure dead-letters at once, against docs/21:203.
* A changed embedder is not applied to a law source whose page is unchanged.
* PATCH asserts that the row it has just updated is there (`main.py:461`), which a DELETE in
  between makes false (`MoveReread`, 'failed').
* The children of an archive are filed under General, whatever spoke the archive was uploaded
  to.
* An upload or a child that dies between its row and its job is never ingested, and a later
  upload of the same file is deduplicated to it (`UnpackedIsComplete` names the exception).
* A revocation that commits while a token is being minted leaves that token the entitlement it
  had for its 15 minutes, and revoking the sessions as well does not help: a token minted after
  the stamp, from a session checked before the commit, is newer than the stamp and stays
  accepted, and so is the one docs-api mints anew for retrieval from a token it has already
  checked (`RevocationIsFinal` judges a token by its issue time).
* Two overlapping revocations can move the stamp back.
* Two first logins of one person collide on the unique subject and one of them fails.
* `PublicLawQdrant.ensure_collection` returns as soon as the collection is there, so a set-up
  that died half-way is never given its payload indexes, which `OwnerScopedQdrant` mends
  (`ReadyMeansIndexed` holds of the one and not of the other).
* Retrieval cites the chunks of a tombstoned document, as "Untitled document", until the worker
  has removed them.
* `Retry-After` is rounded and can be shorter than the refill.
* A chunk whose tail is followed by a heading may contain nothing but the repeated tail.
* One archive member that zipfile cannot read (bad CRC, unknown compression, truncated data)
  sinks the whole archive, against archive.py:57-60 "so one odd file doesn't sink the rest of
  the archive"; not being an `ArchiveValidationError` it is also retried to the cap
  (`ArchivesExtract` says exactly when).
* docs-api gives `/retrieve` 30 s (main.py:528), while the law search may take 60 s an attempt
  and three attempts (`public_law_client.py:24`): a law corpus that hangs fails the query for
  its user, against retrieval main.py:179-180; the model has the caller that gives up but no
  clock to say when.
* A query for the empty spoke, which nobody refuses, searches all spokes of its owner
  (`qdrant_client.py:181`).
* A law refresh that failed after its version row leaves a stale ledger over which later runs
  of the same page say 'unchanged'; a section carried forward keeps the old heading, address
  and index in its vector's payload.
* `backfill_document_titles.py` uses attributes the Qdrant adapter does not have.

## Not modelled

`PROJECT.json` lists every component with its status. Left out for good: configuration,
logging, telemetry, the backup script, provider adapters (their failures appear as faults
of the models), infrastructure and the marketing site, which keep no state the other parts
read or are pure input and output. Of modelled parts: titles and stage texts;
`/auth/dev-login` (refused outside dev) and the CSRF double submit; clock skew between
services; changes of a library between two of its pages; the endpoints that only read
(`/documents/{id}`, its text and its original, `/auth/whoami`, the probes). The web front
end is not Python and has no part in the state of the services.

## Plan

What is left, in this order:

1. **LiveAvatar**: `useLiveAvatar.ts`, stop during start.
2. A run of the refresh over two sources with the `last_checked_at` stamp and the set-up of
   the law collection.

## Files

`X.tla` is a component, `X_proofs.tla` its theorems, `MCX.tla` the operators its TLC
instances need, `*.cfg` the instances. `Algorithms_proofs` holds the theorems of Archive,
Chunking, LawChunking and Listing. Operators headed "Mutant:" are plausible bugs: with
one of them in place of the definition it varies, TLC finds the property named in
`PROJECT.json` violated, which shows that the property depends on that line of the code.
