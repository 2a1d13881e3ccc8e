-------------------------- MODULE LawRefresh_proofs --------------------------
(***************************************************************************)
(* Proofs about LawRefresh, for any set of sections, pages and embedders   *)
(* and any number of failed runs.  The argument: while a run compares, the *)
(* ledger is still the one it took as its baseline, a section it wrote has *)
(* the vector its new ledger row describes, and a section it did not write *)
(* keeps the text and the embedder of its row.                             *)
(***************************************************************************)
EXTENDS LawRefresh, TLAPS

Comparing == pc \in {"diff", "version", "manifests"}

\* What the next ledger says, and how it differs from the current one.
Diffed ==
  Comparing =>
    /\ baseline = manifest
    /\ todo \subseteq OnPage(page)
    /\ pc # "diff" => todo = {}
    /\ \A s \in Sections :
         fresh[s] = IF s \in OnPage(page) /\ s \notin todo THEN Wanted(s) ELSE None

\* What the run has written agrees with the next ledger.
Written ==
  Comparing =>
    /\ written \subseteq unrecorded
    /\ written \cap todo = {}
    /\ \A s \in written : vector[s] = fresh[s]
    /\ \A s \in Sections : s \notin written =>
         Same(fresh[s], manifest[s]) \/ (pc = "diff" /\ fresh[s] = None)

\* The version row comes before the ledger it announces.
Announced ==
  /\ pc \in {"manifests", "finish"} =>
       latest # None /\ latest.page = page /\ latest.status = "fetched"
  /\ pc = "finish" =>
       \A s \in Sections : manifest[s] = IF s \in OnPage(page) THEN Wanted(s) ELSE None

Noticed == pc # "idle" => Sections \ OnPage(page) \subseteq missing

Inv ==
  /\ TypeOK
  /\ Diffed
  /\ Written
  /\ Announced
  /\ Noticed
  /\ LedgerDescribesVectors
  /\ IndexedVersionHasItsLedger
  /\ OneEmbeddingSpace
  /\ StandingLawStaysSearchable

\* A section of a page has a row that is not None and names text and embedder.
LEMMA WantedRow ==
  ASSUME TypeOK, NEW s \in Sections, s \in OnPage(page)
  PROVE  /\ Wanted(s) \in Entries /\ Wanted(s) # None
         /\ Wanted(s).text = Text[page][s] /\ Wanted(s).embedder = embedder
         /\ Wanted(s).place = Place[page][s]
<1>1. Text[page][s] \in Texts
  BY LawConstants DEF TypeOK, OnPage
<1>2. embedder \in Embedders /\ Place[page][s] \in Places
  BY LawConstants DEF TypeOK
<1>3. Wanted(s) \in Entries
  BY <1>1, <1>2 DEF Wanted, Entries
<1>4. Wanted(s) # None
  BY <1>3, LawConstants DEF Entries
<1> QED
  BY <1>3, <1>4 DEF Wanted

LEMMA InitInv == Init => Inv
<1> SUFFICES ASSUME Init PROVE Inv
  OBVIOUS
<1>1. TypeOK
  BY LawConstants DEF Init, TypeOK, Nothing, Rows
<1>2. Diffed /\ Written /\ Announced /\ Noticed
  BY DEF Init, Diffed, Written, Announced, Noticed, Comparing
<1>3. LedgerDescribesVectors /\ IndexedVersionHasItsLedger
  BY DEF Init, LedgerDescribesVectors, IndexedVersionHasItsLedger, Nothing, Same
<1>4. OneEmbeddingSpace /\ StandingLawStaysSearchable
  BY DEF Init, OneEmbeddingSpace, StandingLawStaysSearchable, Nothing
<1> QED
  BY <1>1, <1>2, <1>3, <1>4 DEF Inv

\* Steps that leave the stores alone keep what Inv says of the stores.
LEMMA StoreFrame ==
  ASSUME Inv, UNCHANGED storeVars, unrecorded' = unrecorded, missing \subseteq missing'
  PROVE  /\ LedgerDescribesVectors' /\ IndexedVersionHasItsLedger'
         /\ OneEmbeddingSpace' /\ StandingLawStaysSearchable'
<1> USE DEF Inv, storeVars
<1>1. LedgerDescribesVectors' /\ OneEmbeddingSpace'
  BY DEF LedgerDescribesVectors, OneEmbeddingSpace
<1>2. IndexedVersionHasItsLedger'
  BY DEF IndexedVersionHasItsLedger
<1>3. StandingLawStaysSearchable'
  BY DEF StandingLawStaysSearchable
<1> QED
  BY <1>1, <1>2, <1>3

LEMMA FetchStep ==
  ASSUME Inv, NEW p \in Pages, Fetch(p)
  PROVE  Inv'
<1> USE DEF Inv, Fetch, storeVars
<1>1. TypeOK'
  BY LawConstants DEF TypeOK
<1>2. Diffed' /\ Written' /\ Announced'
  BY DEF Diffed, Written, Announced, Comparing
<1>3. Noticed'
  BY DEF Noticed, OnPage
<1> QED
  BY <1>1, <1>2, <1>3, StoreFrame

LEMMA IdleStep ==
  ASSUME Inv, Unchanged \/ Fault \/ \E e \in Embedders : Redeploy(e)
  PROVE  Inv'
<1> USE DEF Inv, storeVars, runVars, boundVars, histVars
<1>1. UNCHANGED storeVars /\ UNCHANGED runVars /\ UNCHANGED histVars /\ pc' = "idle"
  BY DEF Unchanged, Fault, Redeploy
<1>2. TypeOK'
  BY <1>1, LawConstants DEF TypeOK, Unchanged, Fault, Redeploy
<1>3. Diffed' /\ Written' /\ Announced' /\ Noticed'
  BY <1>1 DEF Diffed, Written, Announced, Noticed, Comparing
<1> QED
  BY <1>1, <1>2, <1>3, StoreFrame

LEMMA SnapshotStep ==
  ASSUME Inv, Snapshot
  PROVE  Inv'
<1> USE DEF Inv, Snapshot, storeVars, boundVars
<1>1. TypeOK'
  BY DEF TypeOK, OnPage, Nothing, Rows
<1>2. Diffed'
  BY DEF Diffed, Comparing, OnPage, Nothing
<1>3. Written' /\ Announced' /\ Noticed'
  BY DEF Written, Announced, Noticed, Comparing, Nothing, OnPage
<1> QED
  BY <1>1, <1>2, <1>3, StoreFrame

LEMMA CarryStep ==
  ASSUME Inv, NEW s \in Sections, CarryForward(s)
  PROVE  Inv'
<1> USE DEF Inv, CarryForward, storeVars, boundVars, histVars
<1>0. Wanted(s) \in Entries
  BY WantedRow DEF Diffed, Comparing
<1>1. TypeOK'
  BY <1>0 DEF TypeOK, Rows
<1>2. Diffed'
  BY DEF Diffed, Comparing, OnPage, Wanted, TypeOK, Rows
<1>3. Written'
  BY DEF Written, Diffed, Comparing, TypeOK, Rows
<1>4. Announced' /\ Noticed'
  BY DEF Announced, Noticed, OnPage
<1> QED
  BY <1>1, <1>2, <1>3, <1>4, StoreFrame

LEMMA EmbedStep ==
  ASSUME Inv, NEW s \in Sections, Embed(s)
  PROVE  Inv'
<1> USE DEF Inv, Embed, boundVars
<1>1. s \in OnPage(page)
  BY DEF Diffed, Comparing
<1>2. Wanted(s) \in Entries /\ Wanted(s) # None
  BY <1>1, WantedRow
<1>3. TypeOK'
  BY <1>2 DEF TypeOK, Rows
<1>4. Diffed'
  BY DEF Diffed, Comparing, OnPage, Wanted, TypeOK, Rows
<1>5. Written'
  BY DEF Written, Comparing, TypeOK, Rows
<1>6. Announced' /\ Noticed'
  BY DEF Announced, Noticed, OnPage
<1>7. LedgerDescribesVectors' /\ OneEmbeddingSpace'
  BY DEF LedgerDescribesVectors, OneEmbeddingSpace, TypeOK, Rows
<1>8. IndexedVersionHasItsLedger'
  BY DEF IndexedVersionHasItsLedger
<1>9. StandingLawStaysSearchable'
  BY <1>2 DEF StandingLawStaysSearchable, TypeOK, Rows
<1> QED
  BY <1>3, <1>4, <1>5, <1>6, <1>7, <1>8, <1>9

\* Only sections the fetched page does not have are removed.
LEMMA RepealStep ==
  ASSUME Inv, RemoveRepealed
  PROVE  Inv'
<1> DEFINE removed == {s \in Sections : baseline[s] # None /\ fresh[s] = None}
<1> USE DEF Inv, RemoveRepealed, runVars, boundVars
<1>1. \A s \in removed : s \in missing
  <2> TAKE s \in removed
  <2>1. s \in Sections /\ fresh[s] = None /\ todo = {}
    OBVIOUS
  <2>2. s \in OnPage(page) => fresh[s] = Wanted(s) /\ Wanted(s) # None
    BY <2>1, WantedRow DEF Diffed, Comparing
  <2> QED
    BY <2>1, <2>2 DEF Noticed
<1>2. TypeOK'
  BY DEF TypeOK, Rows
<1>3. Diffed'
  BY DEF Diffed, Comparing, OnPage, Wanted
<1>4. Written'
  <2>1. \A s \in removed : vector'[s] = None /\ fresh[s] = None
    OBVIOUS
  <2>2. \A s \in written : vector'[s] = fresh[s]
    BY DEF Written, Comparing, TypeOK
  <2>3. \A s \in Sections : s \notin written \cup removed => Same(fresh[s], manifest[s])
    <3> SUFFICES ASSUME NEW s \in Sections, s \notin written \cup removed
                 PROVE  Same(fresh[s], manifest[s])
      OBVIOUS
    <3>1. CASE fresh[s] = None
      BY <3>1 DEF Diffed, Comparing, Same
    <3>2. CASE fresh[s] # None
      BY <3>2 DEF Written, Comparing
    <3> QED
      BY <3>1, <3>2
  <2> QED
    BY <2>1, <2>2, <2>3 DEF Written, Comparing
<1>5. Announced' /\ Noticed'
  BY DEF Announced, Noticed, OnPage
<1>6. LedgerDescribesVectors' /\ OneEmbeddingSpace'
  BY DEF LedgerDescribesVectors, OneEmbeddingSpace
<1>7. IndexedVersionHasItsLedger'
  BY DEF IndexedVersionHasItsLedger
<1>8. StandingLawStaysSearchable'
  BY <1>1 DEF StandingLawStaysSearchable
<1> QED
  BY <1>2, <1>3, <1>4, <1>5, <1>6, <1>7, <1>8

LEMMA VersionStep ==
  ASSUME Inv, CreateVersion
  PROVE  Inv'
<1> USE DEF Inv, CreateVersion, runVars, boundVars, histVars
<1>1. latest' # None /\ latest'.page = page /\ latest'.status = "fetched"
  BY LawConstants DEF TypeOK
<1>2. TypeOK'
  BY DEF TypeOK
<1>3. Diffed' /\ Written'
  BY DEF Diffed, Written, Comparing, OnPage, Wanted
<1>4. Announced' /\ Noticed'
  BY <1>1 DEF Announced, Noticed, OnPage
<1>5. LedgerDescribesVectors' /\ OneEmbeddingSpace' /\ StandingLawStaysSearchable'
  BY DEF LedgerDescribesVectors, OneEmbeddingSpace, StandingLawStaysSearchable
<1>6. IndexedVersionHasItsLedger'
  BY <1>1 DEF IndexedVersionHasItsLedger
<1> QED
  BY <1>2, <1>3, <1>4, <1>5, <1>6

LEMMA ReplaceStep ==
  ASSUME Inv, ReplaceManifests
  PROVE  Inv'
<1> USE DEF Inv, ReplaceManifests, runVars, boundVars
<1>1. \A s \in Sections : fresh[s] = IF s \in OnPage(page) THEN Wanted(s) ELSE None
  BY DEF Diffed, Comparing
<1>2. \A s \in Sections : s \in written \/ Same(fresh[s], manifest[s])
  BY DEF Written, Comparing
<1>3. \A s \in written : vector[s] = fresh[s]
  BY DEF Written, Comparing
<1>4. TypeOK'
  BY DEF TypeOK
<1>5. Diffed' /\ Written'
  BY DEF Diffed, Written, Comparing
<1>6. Announced' /\ Noticed'
  BY <1>1 DEF Announced, Noticed, OnPage, Wanted
<1>7. LedgerDescribesVectors'
  <2> SUFFICES ASSUME NEW s \in Sections, s \notin unrecorded'
               PROVE  Same(vector'[s], manifest'[s])
    BY DEF LedgerDescribesVectors
  <2>1. CASE s \in written
    BY <1>3, <2>1 DEF Same
  <2>2. CASE s \notin written
    <3>1. Same(vector[s], manifest[s]) /\ Same(fresh[s], manifest[s])
      BY <1>2, <2>2 DEF LedgerDescribesVectors
    <3> QED
      BY <3>1 DEF Same
  <2> QED
    BY <2>1, <2>2
<1>8. IndexedVersionHasItsLedger'
  BY DEF IndexedVersionHasItsLedger, Announced
<1>9. OneEmbeddingSpace'
  <2>1. \A s \in Sections : fresh[s] # None => fresh[s].embedder = embedder
    BY <1>1, WantedRow
  <2> QED
    BY <2>1 DEF OneEmbeddingSpace
<1>10. StandingLawStaysSearchable'
  BY <1>2, <1>3 DEF StandingLawStaysSearchable, Same
<1> QED
  BY <1>4, <1>5, <1>6, <1>7, <1>8, <1>9, <1>10

LEMMA FinishStep ==
  ASSUME Inv, Finish
  PROVE  Inv'
<1> USE DEF Inv, Finish, runVars, boundVars, histVars
<1>1. /\ latest \in [page : Pages, status : {"fetched", "indexed"}] /\ latest.page = page
      /\ \A s \in Sections : manifest[s] = IF s \in OnPage(page) THEN Wanted(s) ELSE None
  BY DEF Announced, TypeOK
<1>2. latest' \in [page : Pages, status : {"fetched", "indexed"}] /\ latest'.page = page
  BY <1>1
<1>3. TypeOK'
  BY <1>2 DEF TypeOK
<1>4. Diffed' /\ Written' /\ Announced' /\ Noticed'
  BY DEF Diffed, Written, Announced, Noticed, Comparing
<1>5. LedgerDescribesVectors' /\ OneEmbeddingSpace' /\ StandingLawStaysSearchable'
  BY DEF LedgerDescribesVectors, OneEmbeddingSpace, StandingLawStaysSearchable
<1>6. IndexedVersionHasItsLedger'
  <2>1. \A s \in OnPage(page) : /\ Wanted(s) # None /\ Wanted(s).text = Text[page][s]
                              /\ Wanted(s).place = Place[page][s]
    BY WantedRow DEF OnPage
  <2> QED
    BY <1>1, <1>2, <2>1 DEF IndexedVersionHasItsLedger, OnPage
<1> QED
  BY <1>3, <1>4, <1>5, <1>6

\* The invariant of the refresh, of which the theorems below are consequences.
THEOREM RefreshInvariance == Spec => []Inv
<1>1. Inv /\ [Next]_vars => Inv'
  <2> SUFFICES ASSUME Inv, [Next]_vars PROVE Inv'
    OBVIOUS
  <2>1. CASE \E p \in Pages : Fetch(p)
    BY <2>1, FetchStep
  <2>2. CASE Unchanged \/ Fault \/ \E e \in Embedders : Redeploy(e)
    BY <2>2, IdleStep
  <2>3. CASE Snapshot
    BY <2>3, SnapshotStep
  <2>4. CASE \E s \in Sections : CarryForward(s) \/ Embed(s)
    BY <2>4, CarryStep, EmbedStep
  <2>5. CASE RemoveRepealed
    BY <2>5, RepealStep
  <2>6. CASE CreateVersion \/ ReplaceManifests \/ Finish
    BY <2>6, VersionStep, ReplaceStep, FinishStep
  <2>7. CASE UNCHANGED vars
    <3> USE <2>7 DEF vars, storeVars, runVars, boundVars, histVars, Inv
    <3>1. TypeOK'
      BY DEF TypeOK
    <3>2. Diffed' /\ Written' /\ Announced' /\ Noticed'
      BY DEF Diffed, Written, Announced, Noticed, Comparing, OnPage, Wanted
    <3> QED
      BY <3>1, <3>2, StoreFrame
  <2> QED
    BY <2>1, <2>2, <2>3, <2>4, <2>5, <2>6, <2>7 DEF Next
<1> QED
  BY <1>1, InitInv, PTL DEF Spec

\* Every variable keeps its type.
THEOREM RefreshTypes == Spec => []TypeOK
<1>1. Inv => TypeOK
  BY DEF Inv
<1> QED
  BY <1>1, RefreshInvariance, PTL

\* 0005_public_law_corpus.sql:38: the ledger is right about every section that
\* no failed run has written since it was recorded.
THEOREM LedgerIsRight == Spec => []LedgerDescribesVectors
<1>1. Inv => LedgerDescribesVectors
  BY DEF Inv
<1> QED
  BY <1>1, RefreshInvariance, PTL

\* law_refresh.py:189-192: an 'indexed' version has exactly its own ledger.
THEOREM IndexedIsRecorded == Spec => []IndexedVersionHasItsLedger
<1>1. Inv => IndexedVersionHasItsLedger
  BY DEF Inv
<1> QED
  BY <1>1, RefreshInvariance, PTL

\* law_refresh.py:141-145: the ledger is in one embedding space.
THEOREM LedgerInOneSpace == Spec => []OneEmbeddingSpace
<1>1. Inv => OneEmbeddingSpace
  BY DEF Inv
<1> QED
  BY <1>1, RefreshInvariance, PTL

\* law_refresh.py:18 "never to no law".
THEOREM NeverNoLaw == Spec => []StandingLawStaysSearchable
<1>1. Inv => StandingLawStaysSearchable
  BY DEF Inv
<1> QED
  BY <1>1, RefreshInvariance, PTL

=============================================================================
