-------------------------- MODULE LegalDraft_proofs --------------------------
(***************************************************************************)
(* Proofs about LegalDraft, for any number of drafts, calls and fields.    *)
(* The argument: only the call whose claim found the row in 'draft' has a  *)
(* document; from then on the row is 'finalized', which no other claim, no *)
(* confirm and no delete satisfies.                                        *)
(***************************************************************************)
EXTENDS LegalDraft, TLAPS

\* Call c won the claim of its draft and may have created a document.
Won(c) == row[c] # "none" \/ step[c] \in {"create", "store", "enqueue", "link"}

Bound ==
  \A c \in Calls :
    /\ step[c] = "idle" => row[c] = "none"
    /\ step[c] # "idle" => of[c] \in Drafts

Confirming ==
  \A c \in Calls :
    /\ step[c] \in {"confirm", "confirmed"} => arg[c] \in Fields
    /\ step[c] = "confirmed" => arg[c] \in values[of[c]]

Winners ==
  \A c \in Calls : Won(c) =>
    /\ status[of[c]] = "finalized"
    /\ claimed[c] = values[of[c]]
    /\ row[c] # "none" => content[c] = claimed[c]

OneWinner ==
  \A b, c \in Calls : Won(b) /\ Won(c) /\ of[b] = of[c] => b = c

Linked ==
  \A d \in Drafts : document[d] # None =>
    /\ status[d] = "finalized"
    /\ row[document[d]] = "queued"
    /\ of[document[d]] = d
    /\ step[document[d]] = "finalized"

\* How far the call that is finalizing has come with its document.
Registered ==
  \A c \in Calls :
    /\ step[c] \in {"store", "enqueue"} => row[c] # "none"
    /\ step[c] = "link" => row[c] \in {"queued", "erased"}

Answered ==
  \A c \in Calls : step[c] = "finalized" =>
    answer[c] # None /\ answer[c] = document[of[c]]

Inv ==
  /\ TypeOK
  /\ Bound
  /\ Confirming
  /\ Winners
  /\ OneWinner
  /\ Linked
  /\ Registered
  /\ Answered

LEMMA InitInv == Init => Inv
<1> SUFFICES ASSUME Init PROVE Inv
  OBVIOUS
<1>1. TypeOK
  BY DraftConstants DEF Init, TypeOK
<1>2. Bound /\ Confirming /\ Winners /\ OneWinner /\ Linked /\ Registered /\ Answered
  BY DEF Init, Bound, Confirming, Winners, OneWinner, Linked, Registered, Answered, Won
<1> QED
  BY <1>1, <1>2 DEF Inv

LEMMA OpenStep ==
  ASSUME Inv, NEW c \in Calls, NEW d \in Drafts, NEW f,
         (f \in Fields /\ OpenConfirm(c, d, f)) \/ OpenDelete(c, d) \/ OpenFinalize(c, d)
  PROVE  Inv'
<1> USE DEF Inv
<1>1. /\ step[c] = "idle" /\ row[c] = "none"
      /\ of' = [of EXCEPT ![c] = d]
      /\ UNCHANGED <<draftVars, docVars, claimed, faults>>
  BY DEF OpenConfirm, OpenDelete, OpenFinalize, Open, Bound
<1>2. \E s \in {"confirm", "delete", "claim", "conflict", "not_found", "finalized"} :
        /\ step' = [step EXCEPT ![c] = s]
        /\ s = "finalized" => document[d] # None /\ answer'[c] = document[d]
        /\ s = "confirm" => arg'[c] \in Fields
  <2>1. CASE f \in Fields /\ OpenConfirm(c, d, f)
    BY <2>1 DEF OpenConfirm, Open, Goto, TypeOK
  <2>2. CASE OpenDelete(c, d)
    BY <2>2 DEF OpenDelete, Open, Goto, TypeOK
  <2>3. CASE OpenFinalize(c, d)
    BY <2>3 DEF OpenFinalize, Open, Goto, TypeOK
  <2> QED
    BY <2>1, <2>2, <2>3
<1>3. PICK s \in {"confirm", "delete", "claim", "conflict", "not_found", "finalized"} :
        /\ step' = [step EXCEPT ![c] = s]
        /\ s = "finalized" => document[d] # None /\ answer'[c] = document[d]
        /\ s = "confirm" => arg'[c] \in Fields
  BY <1>2
<1>4. /\ arg' \in [Calls -> Fields \cup {None}]
      /\ answer' \in [Calls -> Calls \cup {None}]
      /\ \A b \in Calls \ {c} : arg'[b] = arg[b] /\ answer'[b] = answer[b]
  <2>1. CASE f \in Fields /\ OpenConfirm(c, d, f)
    BY <2>1 DEF OpenConfirm, TypeOK
  <2>2. CASE OpenDelete(c, d)
    BY <2>2 DEF OpenDelete, TypeOK
  <2>3. CASE OpenFinalize(c, d)
    BY <2>3 DEF OpenFinalize, TypeOK
  <2> QED
    BY <2>1, <2>2, <2>3
<1>5. TypeOK'
  BY <1>1, <1>3, <1>4 DEF TypeOK, draftVars, docVars
<1>6. Bound' /\ Confirming'
  BY <1>1, <1>3, <1>4 DEF Bound, Confirming, TypeOK, draftVars, docVars
<1>7. \A b \in Calls : Won(b)' => Won(b) /\ b # c /\ of'[b] = of[b]
  BY <1>1, <1>3 DEF Won, TypeOK, draftVars, docVars
<1>8. Winners' /\ OneWinner'
  BY <1>1, <1>7 DEF Winners, OneWinner, TypeOK, draftVars, docVars
<1>9. Linked' /\ Registered'
  BY <1>1, <1>3 DEF Linked, Registered, TypeOK, draftVars, docVars
<1>10. Answered'
  BY <1>1, <1>3, <1>4 DEF Answered, TypeOK, draftVars, docVars
<1> QED
  BY <1>5, <1>6, <1>8, <1>9, <1>10

LEMMA CreateStep ==
  ASSUME Inv, NEW d \in Drafts, CreateDraft(d)
  PROVE  Inv'
<1> USE DEF Inv, CreateDraft, docVars, callVars
<1>1. TypeOK'
  BY DEF TypeOK
<1>2. Bound' /\ Confirming'
  BY DEF Bound, Confirming
<1>3. Winners' /\ OneWinner'
  BY DEF Winners, OneWinner, Won, TypeOK
<1>4. Linked' /\ Registered' /\ Answered'
  BY DEF Linked, Registered, Answered, TypeOK
<1> QED
  BY <1>1, <1>2, <1>3, <1>4

LEMMA ConfirmStep ==
  ASSUME Inv, NEW c \in Calls, Confirm(c)
  PROVE  Inv'
<1> USE DEF Inv, Confirm, Goto, docVars
<1>1. of[c] \in Drafts /\ arg[c] \in Fields
  BY DEF Bound, Confirming
<1>2. TypeOK'
  BY <1>1 DEF TypeOK
<1>3. Bound' /\ Confirming'
  BY <1>1 DEF Bound, Confirming, TypeOK
<1>4. Winners' /\ OneWinner'
  BY <1>1 DEF Winners, OneWinner, Won, TypeOK, Bound
<1>5. Linked' /\ Registered' /\ Answered'
  BY <1>1 DEF Linked, Registered, Answered, TypeOK
<1> QED
  BY <1>2, <1>3, <1>4, <1>5

LEMMA RemoveStep ==
  ASSUME Inv, NEW c \in Calls, Delete(c)
  PROVE  Inv'
<1> USE DEF Inv, Delete, Goto, docVars
<1>1. of[c] \in Drafts
  BY DEF Bound
<1>2. TypeOK'
  BY <1>1 DEF TypeOK
<1>3. Bound' /\ Confirming'
  BY <1>1 DEF Bound, Confirming, TypeOK
<1>4. Winners' /\ OneWinner'
  BY <1>1 DEF Winners, OneWinner, Won, TypeOK, Bound
<1>5. Linked' /\ Registered' /\ Answered'
  BY <1>1 DEF Linked, Registered, Answered, TypeOK
<1> QED
  BY <1>2, <1>3, <1>4, <1>5

\* Only a draft nobody has won can be claimed, and it is won by the claim.
LEMMA ClaimStep ==
  ASSUME Inv, NEW c \in Calls, Claim(c)
  PROVE  Inv'
<1> USE DEF Inv, Claim, Goto, docVars
<1>1. of[c] \in Drafts
  BY DEF Bound
<1>2. TypeOK'
  BY <1>1 DEF TypeOK
<1>3. Bound' /\ Confirming'
  BY <1>1 DEF Bound, Confirming, TypeOK
<1>4. Winners'
  BY <1>1 DEF Winners, Won, TypeOK, Bound
<1>5. OneWinner'
  BY <1>1 DEF Winners, OneWinner, Won, TypeOK, Bound
<1>6. Linked' /\ Registered' /\ Answered'
  BY <1>1 DEF Linked, Registered, Answered, TypeOK
<1> QED
  BY <1>2, <1>3, <1>4, <1>5, <1>6

LEMMA DocumentStep ==
  ASSUME Inv, NEW c \in Calls, CreateDocument(c) \/ FinalizeFault(c)
  PROVE  Inv'
<1> USE DEF Inv, draftVars, docVars
<1>1. of[c] \in Drafts /\ Won(c)
  BY DEF Bound, Won, CreateDocument, FinalizeFault
<1>2. CASE CreateDocument(c)
  <2> USE <1>1, <1>2 DEF CreateDocument, Goto
  <2>1. TypeOK'
    BY DEF TypeOK
  <2>2. Bound' /\ Confirming'
    BY DEF Bound, Confirming, TypeOK
  <2>3. Winners' /\ OneWinner'
    BY DEF Winners, OneWinner, Won, TypeOK, Bound
  <2>4. Linked' /\ Registered' /\ Answered'
    BY DEF Linked, Registered, Answered, TypeOK
  <2> QED
    BY <2>1, <2>2, <2>3, <2>4
<1>4. CASE FinalizeFault(c)
  <2> USE <1>1, <1>4 DEF FinalizeFault, Goto
  <2>1. TypeOK'
    BY DraftConstants DEF TypeOK
  <2>2. Bound' /\ Confirming'
    BY DEF Bound, Confirming, TypeOK
  <2>3. Winners' /\ OneWinner'
    BY DEF Winners, OneWinner, Won, TypeOK, Bound
  <2>4. Linked' /\ Registered' /\ Answered'
    BY DEF Linked, Registered, Answered, TypeOK
  <2> QED
    BY <2>1, <2>2, <2>3, <2>4
<1> QED
  BY <1>2, <1>4

\* The version and the job of a document nobody links to yet.
LEMMA RegisterStep ==
  ASSUME Inv, NEW c \in Calls, StoreVersion(c) \/ EnqueueIngestion(c)
  PROVE  Inv'
<1> USE DEF Inv
<1>1. of[c] \in Drafts /\ Won(c) /\ step[c] \in {"store", "enqueue"}
  BY DEF Bound, Won, StoreVersion, EnqueueIngestion, Register
<1>2. PICK r \in {"stored", "queued", "erased"}, s \in {"enqueue", "link", "error"} :
        /\ row' = [row EXCEPT ![c] = r]
        /\ step' = [step EXCEPT ![c] = s]
        /\ r = "erased" <=> row[c] = "erased"
        /\ s = "link" => r = "queued"
  <2>1. row = [row EXCEPT ![c] = row[c]]
    BY DEF TypeOK
  <2> QED
    BY <2>1 DEF StoreVersion, EnqueueIngestion, Register, Goto
<1>3. UNCHANGED <<status, values, document, content, of, arg, claimed, answer, faults>>
  BY DEF StoreVersion, EnqueueIngestion, Register, draftVars
<1>4. \A d \in Drafts : document[d] # c
  <2> SUFFICES ASSUME NEW d \in Drafts, document[d] = c PROVE FALSE
    OBVIOUS
  <2>1. c # None
    BY DraftConstants
  <2>2. step[c] = "finalized"
    BY <2>1 DEF Linked
  <2> QED
    BY <1>1, <2>2
<1>5. row[c] # "none"
  BY <1>1 DEF Registered
<1>6. TypeOK'
  BY <1>2, <1>3 DEF TypeOK
<1>7. Bound' /\ Confirming'
  BY <1>1, <1>2, <1>3 DEF Bound, Confirming, TypeOK
<1>8. Winners' /\ OneWinner'
  BY <1>1, <1>2, <1>3, <1>5 DEF Winners, OneWinner, Won, TypeOK, Bound
<1>9. Linked' /\ Registered' /\ Answered'
  BY <1>1, <1>2, <1>3, <1>4 DEF Linked, Registered, Answered, TypeOK
<1> QED
  BY <1>6, <1>7, <1>8, <1>9

\* The winner is the only call that links, so no link is ever replaced.
LEMMA LinkStep ==
  ASSUME Inv, NEW c \in Calls, LinkDocument(c)
  PROVE  Inv'
<1> USE DEF Inv, LinkDocument, Goto, docVars
<1>1. of[c] \in Drafts /\ Won(c)
  BY DEF Bound, Won
<1>2. document[of[c]] = None
  <2> SUFFICES ASSUME document[of[c]] # None PROVE FALSE
    OBVIOUS
  <2>1. document[of[c]] \in Calls /\ Won(document[of[c]]) /\ of[document[of[c]]] = of[c]
    BY <1>1 DEF Linked, Won, TypeOK
  <2>2. document[of[c]] = c
    BY <1>1, <2>1 DEF OneWinner
  <2> QED
    BY <1>1, <2>2 DEF Linked
<1>3. TypeOK'
  BY <1>1 DEF TypeOK
<1>4. Bound' /\ Confirming'
  BY <1>1 DEF Bound, Confirming, TypeOK
<1>5. Winners' /\ OneWinner'
  BY <1>1 DEF Winners, OneWinner, Won, TypeOK, Bound
<1>6. Linked' /\ Registered'
  BY <1>1 DEF Linked, Registered, Winners, TypeOK
<1>7. Answered'
  BY <1>1, <1>2, DraftConstants DEF Answered, TypeOK, Bound
<1> QED
  BY <1>3, <1>4, <1>5, <1>6, <1>7

LEMMA EraseStep ==
  ASSUME Inv, NEW c \in Calls, EraseDocument(c)
  PROVE  Inv'
<1> USE DEF Inv, EraseDocument, HasDocument, draftVars, callVars
<1>1. TypeOK'
  BY DEF TypeOK
<1>2. Bound' /\ Confirming'
  BY DEF Bound, Confirming, TypeOK
<1>3. Winners' /\ OneWinner'
  BY DEF Winners, OneWinner, Won, TypeOK
<1>4. Linked' /\ Registered' /\ Answered'
  BY DEF Linked, Registered, Answered, TypeOK
<1> QED
  BY <1>1, <1>2, <1>3, <1>4

\* The invariant of the drafts, of which the theorems below are consequences.
THEOREM DraftInvariance == Spec => []Inv
<1>1. Inv /\ [Next]_vars => Inv'
  <2> SUFFICES ASSUME Inv, [Next]_vars PROVE Inv'
    OBVIOUS
  <2>1. CASE \E d \in Drafts : CreateDraft(d)
    BY <2>1, CreateStep
  <2>2. CASE \E c \in Calls, d \in Drafts : OpenDelete(c, d) \/ OpenFinalize(c, d)
    <3>1. PICK c \in Calls, d \in Drafts : OpenDelete(c, d) \/ OpenFinalize(c, d)
      BY <2>2
    <3> QED
      BY <3>1, OpenStep
  <2>3. CASE \E c \in Calls, d \in Drafts : \E f \in Fields : OpenConfirm(c, d, f)
    BY <2>3, OpenStep
  <2>4. CASE \E c \in Calls : Confirm(c) \/ Delete(c)
    BY <2>4, ConfirmStep, RemoveStep
  <2>5. CASE \E c \in Calls : FinalizeStep(c) \/ FinalizeFault(c) \/ EraseDocument(c)
    BY <2>5, ClaimStep, DocumentStep, RegisterStep, LinkStep, EraseStep DEF FinalizeStep
  <2>6. CASE UNCHANGED vars
    BY <2>6 DEF vars, draftVars, docVars, callVars, Inv, TypeOK, Bound, Confirming,
                Winners, OneWinner, Won, Linked, Registered, Answered
  <2> QED
    BY <2>1, <2>2, <2>3, <2>4, <2>5, <2>6 DEF Next
<1> QED
  BY <1>1, InitInv, PTL DEF Spec

\* Every variable keeps its type.
THEOREM DraftTypes == Spec => []TypeOK
<1>1. Inv => TypeOK
  BY DEF Inv
<1> QED
  BY <1>1, DraftInvariance, PTL

\* finalize_draft: racing finalize calls make at most one document, and every
\* "finalized" answer names it.
THEOREM FinalizeIsExclusive == Spec => []OneDocumentPerDraft
<1>1. Inv => OneDocumentPerDraft
  BY DEF Inv, OneDocumentPerDraft, OneWinner, Won, Answered
<1> QED
  BY <1>1, DraftInvariance, PTL

\* confirm_fields: what was confirmed is in the draft and in its document.
THEOREM ConfirmationsAreKept == Spec => []NoConfirmedFieldIsLost
<1>1. Inv => NoConfirmedFieldIsLost
  BY DEF Inv, NoConfirmedFieldIsLost, Confirming, Winners, Won
<1> QED
  BY <1>1, DraftInvariance, PTL

\* delete_draft: a deleted draft has no document and never gets one.
THEOREM DeletionIsFinal == Spec => []DeletedDraftsStayUndocumented
<1>1. Inv => DeletedDraftsStayUndocumented
  BY DEF Inv, DeletedDraftsStayUndocumented, Linked, Winners, Won
<1> QED
  BY <1>1, DraftInvariance, PTL

\* finalize_draft: the document a draft names is there, with its version and its
\* ingestion job, for any number of calls, faults and deletions.
THEOREM LinksAreSound == Spec => []LinkedDocumentsAreThere
<1>1. Inv => LinkedDocumentsAreThere
  BY DEF Inv, LinkedDocumentsAreThere, Linked
<1> QED
  BY <1>1, DraftInvariance, PTL

=============================================================================
