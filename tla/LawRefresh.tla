------------------------------ MODULE LawRefresh ------------------------------
(***************************************************************************)
(* The scheduled refresh of one public-law source (law_refresh.py): fetch  *)
(* the published page, compare it with the latest version row, bring the   *)
(* vectors of changed sections up to date and swap the ledger.  Vectors    *)
(* live in Qdrant, the version row and the ledger in Postgres, and every   *)
(* call commits by itself, so a refresh can stop after any of them.  A     *)
(* vector's payload and a ledger row both say where the section stands     *)
(* (heading, source_url, chunk_index), which a refresh does not compare.   *)
(*                                                                         *)
(* A section stands for one (citation, part), whose point id and chunk id  *)
(* are the same in every refresh.  Sources share no rows, and the job      *)
(* visits them one after the other.                                        *)
(***************************************************************************)
EXTENDS Naturals

CONSTANTS
  Sections,      \* (citation, part) pairs: the point ids of the source
  Texts,         \* texts of a section, told apart by content_sha256
  Pages,         \* raw pages the publisher has served, told apart by checksum
  Text,          \* Text[p][s]: the text of section s on page p, or None
  Places,        \* headings, addresses and positions of a section
  Place,         \* Place[p][s]: those of section s on page p
  Embedders,     \* values of embedder.embedding_version
  MaxRefreshes,  \* bound: runs of the job
  MaxFaults,     \* bound: runs that end in an exception or are killed
  None           \* no text, no vector, no ledger row, no version row

ASSUME LawConstants ==
  /\ Text \in [Pages -> [Sections -> Texts \cup {None}]]
  /\ None \notin Texts \cup Pages
  /\ Place \in [Pages -> [Sections -> Places]]
  /\ None \notin [text : Texts, embedder : Embedders, place : Places]
  /\ None \notin [page : Pages, status : {"fetched", "indexed"}]
  /\ MaxRefreshes \in Nat
  /\ MaxFaults \in Nat

VARIABLES
  vector,     \* vector[s]: the point of s in Qdrant: its text, embedder and place
  manifest,   \* manifest[s]: the law_chunk_manifests row of s
  latest,     \* the latest law_source_versions row: its page and status
  embedder,   \* the embedder the job is deployed with
  pc,         \* what the job does next
  page,       \* the page fetched
  baseline,   \* previous_by_point_id
  fresh,      \* new_manifests
  todo,       \* the sections of the page not compared yet
  result,     \* how the last run ended
  refreshes,  \* runs so far
  faults,     \* failed runs so far
  (* history *)
  written,    \* sections whose vector this run has upserted or deleted
  unrecorded, \* sections whose vector was written after their ledger row
  missing     \* sections that some page fetched so far did not have

storeVars == <<vector, manifest, latest>>
runVars == <<page, baseline, fresh, todo>>
boundVars == <<refreshes, faults>>
histVars == <<written, unrecorded, missing>>
vars == <<storeVars, embedder, pc, runVars, result, boundVars, histVars>>

Entries == [text : Texts, embedder : Embedders, place : Places]
Nothing == [s \in Sections |-> None]
OnPage(p) == {s \in Sections : Text[p][s] # None}
SameChecksum == latest # None /\ latest.page = page
Wanted(s) == [text |-> Text[page][s], embedder |-> embedder, place |-> Place[page][s]]

\* Two entries of one text in one embedding space, or none of both.
Same(r, t) ==
  IF r = None THEN t = None
  ELSE t # None /\ t.text = r.text /\ t.embedder = r.embedder

Init ==
  /\ vector = Nothing /\ manifest = Nothing /\ latest = None
  /\ embedder \in Embedders
  /\ pc = "idle" /\ page \in Pages /\ baseline = Nothing /\ fresh = Nothing /\ todo = {}
  /\ result = "none" /\ refreshes = 0 /\ faults = 0
  /\ written = {} /\ unrecorded = {} /\ missing = {}

\* A run reaches the source; its publisher serves any of the pages.
Fetch(p) ==
  /\ pc = "idle"
  /\ refreshes < MaxRefreshes
  /\ refreshes' = refreshes + 1
  /\ page' = p
  /\ missing' = missing \cup (Sections \ OnPage(p))
  /\ pc' = "compare"
  /\ result' = "running"
  /\ UNCHANGED <<storeVars, embedder, baseline, fresh, todo, faults, written, unrecorded>>

Unchanged ==
  /\ pc = "compare"
  /\ SameChecksum
  /\ pc' = "idle"
  /\ result' = "unchanged"
  /\ UNCHANGED <<storeVars, embedder, runVars, boundVars, histVars>>

\* The raw snapshot is stored and the ledger read as the baseline of the diff.
Snapshot ==
  /\ pc = "compare"
  /\ ~SameChecksum
  /\ baseline' = manifest
  /\ fresh' = Nothing
  /\ todo' = OnPage(page)
  /\ written' = {}
  /\ pc' = "diff"
  /\ UNCHANGED <<storeVars, embedder, page, result, boundVars, unrecorded, missing>>

\* Mutant: the embedding version is not compared.
CarryForwardSameText(s) ==
  /\ pc = "diff" /\ s \in todo
  /\ baseline[s] # None /\ baseline[s].text = Text[page][s]
  /\ fresh' = [fresh EXCEPT ![s] = [Wanted(s) EXCEPT !.embedder = baseline[s].embedder]]
  /\ todo' = todo \ {s}
  /\ UNCHANGED <<storeVars, embedder, pc, page, baseline, result, boundVars, histVars>>

\* Neither the text nor the embedding space has changed: the point is kept as it
\* is, and the new ledger row has the place the section stands at now.
CarryForward(s) ==
  /\ pc = "diff" /\ s \in todo
  /\ Same(Wanted(s), baseline[s])
  /\ fresh' = [fresh EXCEPT ![s] = Wanted(s)]
  /\ todo' = todo \ {s}
  /\ UNCHANGED <<storeVars, embedder, pc, page, baseline, result, boundVars, histVars>>

\* Mutant: the new ledger row does not record the embedding version.
EmbedUnversioned(s) ==
  /\ pc = "diff" /\ s \in todo
  /\ ~Same(Wanted(s), baseline[s])
  /\ vector' = [vector EXCEPT ![s] = Wanted(s)]
  /\ fresh' = [fresh EXCEPT ![s] = [text |-> Text[page][s], place |-> Place[page][s]]]
  /\ todo' = todo \ {s}
  /\ written' = written \cup {s}
  /\ unrecorded' = unrecorded \cup {s}
  /\ UNCHANGED <<manifest, latest, embedder, pc, page, baseline, result, boundVars, missing>>

\* A new or changed section replaces its point in place.
Embed(s) ==
  /\ pc = "diff" /\ s \in todo
  /\ ~Same(Wanted(s), baseline[s])
  /\ vector' = [vector EXCEPT ![s] = Wanted(s)]
  /\ fresh' = [fresh EXCEPT ![s] = Wanted(s)]
  /\ todo' = todo \ {s}
  /\ written' = written \cup {s}
  /\ unrecorded' = unrecorded \cup {s}
  /\ UNCHANGED <<manifest, latest, embedder, pc, page, baseline, result, boundVars, missing>>

\* Mutant: carried-forward sections are not among the new point ids.
RemoveCarried ==
  LET removed == {s \in Sections : baseline[s] # None /\ (fresh[s] = None \/ Same(fresh[s], baseline[s]))} IN
  /\ pc = "diff" /\ todo = {}
  /\ vector' = [s \in Sections |-> IF s \in removed THEN None ELSE vector[s]]
  /\ written' = written \cup removed
  /\ unrecorded' = unrecorded \cup removed
  /\ pc' = "version"
  /\ UNCHANGED <<manifest, latest, embedder, runVars, result, boundVars, missing>>

\* Points the ledger knows and the page no longer has.
RemoveRepealed ==
  LET removed == {s \in Sections : baseline[s] # None /\ fresh[s] = None} IN
  /\ pc = "diff" /\ todo = {}
  /\ vector' = [s \in Sections |-> IF s \in removed THEN None ELSE vector[s]]
  /\ written' = written \cup removed
  /\ unrecorded' = unrecorded \cup removed
  /\ pc' = "version"
  /\ UNCHANGED <<manifest, latest, embedder, runVars, result, boundVars, missing>>

\* Mutant: the version is inserted with its final status.
CreateIndexedVersion ==
  /\ pc = "version"
  /\ latest' = [page |-> page, status |-> "indexed"]
  /\ pc' = "manifests"
  /\ UNCHANGED <<vector, manifest, embedder, runVars, result, boundVars, histVars>>

CreateVersion ==
  /\ pc = "version"
  /\ latest' = [page |-> page, status |-> "fetched"]
  /\ pc' = "manifests"
  /\ UNCHANGED <<vector, manifest, embedder, runVars, result, boundVars, histVars>>

\* Mutant: vectors deleted for repealed sections leave their ledger rows.
MergeManifests ==
  /\ pc = "manifests"
  /\ manifest' = [s \in Sections |-> IF fresh[s] = None THEN manifest[s] ELSE fresh[s]]
  /\ unrecorded' = unrecorded \ written
  /\ pc' = "finish"
  /\ UNCHANGED <<vector, latest, embedder, runVars, result, boundVars, written, missing>>

\* One transaction deletes the source's rows and inserts the new ones.
ReplaceManifests ==
  /\ pc = "manifests"
  /\ manifest' = fresh
  /\ unrecorded' = unrecorded \ written
  /\ pc' = "finish"
  /\ UNCHANGED <<vector, latest, embedder, runVars, result, boundVars, written, missing>>

Finish ==
  /\ pc = "finish"
  /\ latest' = [latest EXCEPT !.status = "indexed"]
  /\ pc' = "idle"
  /\ result' = "indexed"
  /\ UNCHANGED <<vector, manifest, embedder, runVars, boundVars, histVars>>

\* Any call of the run raises, or the job is killed; run_refresh rolls the
\* connection back, which undoes nothing: no call leaves its commit open.
Fault ==
  /\ pc # "idle"
  /\ faults < MaxFaults
  /\ faults' = faults + 1
  /\ pc' = "idle"
  /\ result' = "failed"
  /\ UNCHANGED <<storeVars, embedder, runVars, refreshes, histVars>>

\* The job is deployed with another embedder of the same vector size.
Redeploy(e) ==
  /\ pc = "idle"
  /\ e # embedder
  /\ embedder' = e
  /\ UNCHANGED <<storeVars, pc, runVars, result, boundVars, histVars>>

Next ==
  \/ \E p \in Pages : Fetch(p)
  \/ Unchanged \/ Snapshot
  \/ \E s \in Sections : CarryForward(s) \/ Embed(s)
  \/ RemoveRepealed \/ CreateVersion \/ ReplaceManifests \/ Finish
  \/ Fault
  \/ \E e \in Embedders : Redeploy(e)

Spec == Init /\ [][Next]_vars

-----------------------------------------------------------------------------
(* Properties *)

Rows == [Sections -> Entries \cup {None}]

\* Every variable keeps its type.
TypeOK ==
  /\ vector \in Rows /\ manifest \in Rows /\ baseline \in Rows /\ fresh \in Rows
  /\ latest \in [page : Pages, status : {"fetched", "indexed"}] \cup {None}
  /\ embedder \in Embedders
  /\ pc \in {"idle", "compare", "diff", "version", "manifests", "finish"}
  /\ page \in Pages
  /\ todo \subseteq Sections
  /\ result \in {"none", "running", "unchanged", "indexed", "failed"}
  /\ refreshes \in 0..MaxRefreshes
  /\ faults \in 0..MaxFaults
  /\ written \subseteq Sections /\ unrecorded \subseteq Sections /\ missing \subseteq Sections

\* 0005_public_law_corpus.sql:38 "Postgres is the ledger of what is in Qdrant":
\* which sections are there, with which text and in which embedding space, it is
\* wrong only about sections that a run wrote before it failed and that no later
\* run has written and recorded.  A section's place is the ledger's alone: see
\* CarryForward.
LedgerDescribesVectors ==
  \A s \in Sections \ unrecorded : Same(vector[s], manifest[s])

\* law_refresh.py:189-192, the order of the last three writes: a version marked
\* 'indexed' has its ledger, section by section, each with its text and where it
\* stands on the page, and nothing else.
IndexedVersionHasItsLedger ==
  latest # None /\ latest.status = "indexed" =>
    \A s \in Sections :
      IF s \in OnPage(latest.page)
      THEN /\ manifest[s] # None
           /\ manifest[s].text = Text[latest.page][s]
           /\ manifest[s].place = Place[latest.page][s]
      ELSE manifest[s] = None

\* law_refresh.py:141-145: the ledger never mixes embedding spaces.
OneEmbeddingSpace ==
  \A s, t \in Sections :
    manifest[s] # None /\ manifest[t] # None => manifest[s].embedder = manifest[t].embedder

\* law_refresh.py:15-18 "never to no law": a section that has been indexed and
\* that every page had stays searchable, whatever fails.
StandingLawStaysSearchable ==
  \A s \in Sections \ missing : manifest[s] # None => vector[s] # None

-----------------------------------------------------------------------------
(* What the code says and does not do *)

\* law_refresh.py:16-18 "a failed refresh leaves that source's previous good
\* version live in Qdrant", docs/20:355 "slightly staler law": when a run says
\* the page is the one already indexed, what can be searched is that page.
UnchangedLawIsLive ==
  result = "unchanged" /\ latest.status = "indexed" =>
    \A s \in Sections :
      IF s \in OnPage(page) THEN vector[s] # None /\ vector[s].text = Text[page][s]
                            ELSE vector[s] = None

=============================================================================
