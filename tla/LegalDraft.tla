------------------------------ MODULE LegalDraft ------------------------------
(***************************************************************************)
(* Legal drafts in docs-api: confirming fields, deleting a draft and       *)
(* finalizing it into a document, by concurrent calls.  Every statement of *)
(* db/repositories.py commits by itself, so each handler is a read followed *)
(* by writes that may meet a state the read did not see.                   *)
(*                                                                         *)
(* A finalize call creates at most one document, named by the call.        *)
(***************************************************************************)
EXTENDS Naturals

CONSTANTS
  Drafts,     \* rows of legal_drafts
  Calls,      \* requests; also the documents that finalize calls create
  Fields,     \* fields of the template
  MaxFaults,  \* bound: finalize calls that die half-way
  None        \* no draft, no document, no field

ASSUME DraftConstants == MaxFaults \in Nat /\ None \notin Drafts \cup Calls \cup Fields

VARIABLES
  status,     \* status[d]: legal_drafts.status, "absent" without a row
  values,     \* values[d]: the fields confirmed in field_values_json
  document,   \* document[d]: legal_drafts.document_id
  row,        \* row[c]: the documents row that finalize call c created, deleted_at
              \* set or not: "bare", with its version "stored", with its job "queued"
  content,    \* content[c]: the fields rendered into that document
  step,       \* step[c]: where call c stands, or its answer
  of,         \* of[c]: the draft call c is about
  arg,        \* arg[c]: the field a confirm call carries
  claimed,    \* claimed[c]: field_values_json as returned by the claim
  answer,     \* answer[c]: the document a finalize call answered with
  faults      \* finalize calls cut short so far

draftVars == <<status, values, document>>
docVars == <<row, content>>
callVars == <<step, of, arg, claimed, answer>>
vars == <<draftVars, docVars, callVars, faults>>

Init ==
  /\ status = [d \in Drafts |-> "absent"]
  /\ values = [d \in Drafts |-> {}]
  /\ document = [d \in Drafts |-> None]
  /\ row = [c \in Calls |-> "none"]
  /\ content = [c \in Calls |-> {}]
  /\ step = [c \in Calls |-> "idle"]
  /\ of = [c \in Calls |-> None]
  /\ arg = [c \in Calls |-> None]
  /\ claimed = [c \in Calls |-> {}]
  /\ answer = [c \in Calls |-> None]
  /\ faults = 0

HasDocument(c) == row[c] \in {"bare", "stored", "queued"}

HasRow(d) == status[d] \in {"draft", "finalized"}

Goto(c, s) == step' = [step EXCEPT ![c] = s]

CreateDraft(d) ==
  /\ status[d] = "absent"
  /\ status' = [status EXCEPT ![d] = "draft"]
  /\ UNCHANGED <<values, document, docVars, callVars, faults>>

\* The read every handler starts with: _owned_draft and the checks on its row.
Open(c, d, s) ==
  /\ step[c] = "idle"
  /\ status[d] # "absent"
  /\ of' = [of EXCEPT ![c] = d]
  /\ Goto(c, IF HasRow(d) THEN s ELSE "not_found")
  /\ UNCHANGED <<draftVars, docVars, claimed, faults>>

-----------------------------------------------------------------------------
(* POST /drafts/{id}/fields/confirm *)

OpenConfirm(c, d, f) ==
  /\ Open(c, d, IF status[d] = "draft" THEN "confirm" ELSE "conflict")
  /\ arg' = [arg EXCEPT ![c] = f]
  /\ UNCHANGED answer

\* Mutant: the UPDATE does not ask for status = 'draft'.
ConfirmAnyway(c) ==
  LET d == of[c] IN
  /\ step[c] = "confirm"
  /\ \/ /\ HasRow(d)
        /\ values' = [values EXCEPT ![d] = @ \cup {arg[c]}]
        /\ Goto(c, "confirmed")
     \/ /\ ~HasRow(d)
        /\ UNCHANGED values
        /\ Goto(c, "assertion")
  /\ UNCHANGED <<status, document, docVars, of, arg, claimed, answer, faults>>

\* The UPDATE merges into a row that is still a draft; the assertion after it
\* fails when there was none.
Confirm(c) ==
  LET d == of[c] IN
  /\ step[c] = "confirm"
  /\ \/ /\ status[d] = "draft"
        /\ values' = [values EXCEPT ![d] = @ \cup {arg[c]}]
        /\ Goto(c, "confirmed")
     \/ /\ status[d] # "draft"
        /\ UNCHANGED values
        /\ Goto(c, "assertion")
  /\ UNCHANGED <<status, document, docVars, of, arg, claimed, answer, faults>>

-----------------------------------------------------------------------------
(* DELETE /drafts/{id} *)

OpenDelete(c, d) ==
  /\ Open(c, d, IF status[d] = "draft" THEN "delete" ELSE "conflict")
  /\ UNCHANGED <<arg, answer>>

\* Mutant: the DELETE does not ask for status = 'draft'.
DeleteAnyway(c) ==
  LET d == of[c] IN
  /\ step[c] = "delete"
  /\ status' = [status EXCEPT ![d] = "deleted"]
  /\ Goto(c, "deleted")
  /\ UNCHANGED <<values, document, docVars, of, arg, claimed, answer, faults>>

\* The handler ignores whether the statement found the row: 204 either way.
Delete(c) ==
  LET d == of[c] IN
  /\ step[c] = "delete"
  /\ status' = [status EXCEPT ![d] = IF @ = "draft" THEN "deleted" ELSE @]
  /\ Goto(c, "deleted")
  /\ UNCHANGED <<values, document, docVars, of, arg, claimed, answer, faults>>

-----------------------------------------------------------------------------
(* POST /drafts/{id}/finalize *)

OpenFinalize(c, d) ==
  /\ Open(c, d, IF document[d] # None THEN "finalized" ELSE "claim")
  /\ answer' = [answer EXCEPT ![c] = IF HasRow(d) THEN document[d] ELSE None]
  /\ UNCHANGED arg

\* Mutant: the claim updates the row whatever its status.
ClaimAnyway(c) ==
  LET d == of[c] IN
  /\ step[c] = "claim"
  /\ HasRow(d)
  /\ status' = [status EXCEPT ![d] = "finalized"]
  /\ claimed' = [claimed EXCEPT ![c] = values[d]]
  /\ Goto(c, "create")
  /\ UNCHANGED <<values, document, docVars, of, arg, answer, faults>>

\* The mutex: one UPDATE that only a row still in 'draft' satisfies.
Claim(c) ==
  LET d == of[c] IN
  /\ step[c] = "claim"
  /\ \/ /\ status[d] = "draft"
        /\ status' = [status EXCEPT ![d] = "finalized"]
        /\ claimed' = [claimed EXCEPT ![c] = values[d]]
        /\ Goto(c, "create")
     \/ /\ status[d] # "draft"
        /\ UNCHANGED <<status, claimed>>
        /\ Goto(c, "pending")
  /\ UNCHANGED <<values, document, docVars, of, arg, answer, faults>>

\* Rendering uses the row the claim returned.
CreateDocument(c) ==
  /\ step[c] = "create"
  /\ row' = [row EXCEPT ![c] = "bare"]
  /\ content' = [content EXCEPT ![c] = claimed[c]]
  /\ Goto(c, "store")
  /\ UNCHANGED <<draftVars, of, arg, claimed, answer, faults>>

\* The foreign keys refuse what hangs off a document erased meanwhile.
Register(c, from, made, next) ==
  /\ step[c] = from
  /\ \/ /\ row[c] # "erased"
        /\ row' = [row EXCEPT ![c] = made]
        /\ Goto(c, next)
     \/ /\ row[c] = "erased"
        /\ UNCHANGED row
        /\ Goto(c, "error")
  /\ UNCHANGED <<draftVars, content, of, arg, claimed, answer, faults>>

\* Mutant: the generated document gets no ingestion job.
StoreVersionAlone(c) == Register(c, "store", "stored", "link")

\* The blob and create_document_version.
StoreVersion(c) == Register(c, "store", "stored", "enqueue")

\* create_ingestion_job.
EnqueueIngestion(c) == Register(c, "enqueue", "queued", "link")

\* Mutant: the answer names the document and the row is never updated.
AnswerOnly(c) ==
  /\ step[c] = "link"
  /\ answer' = [answer EXCEPT ![c] = c]
  /\ Goto(c, "finalized")
  /\ UNCHANGED <<draftVars, docVars, of, arg, claimed, faults>>

\* Mutant: the answer carries the draft's id in place of the document's.
AnswerDraft(c) ==
  /\ step[c] = "link"
  /\ document' = [document EXCEPT ![of[c]] = c]
  /\ answer' = [answer EXCEPT ![c] = of[c]]
  /\ Goto(c, "finalized")
  /\ UNCHANGED <<status, values, docVars, of, arg, claimed, faults>>

\* set_legal_draft_document_id; its foreign key refuses an erased document.
LinkDocument(c) ==
  LET d == of[c] IN
  /\ step[c] = "link"
  /\ \/ /\ row[c] # "erased"
        /\ document' = [document EXCEPT ![d] = c]
        /\ answer' = [answer EXCEPT ![c] = c]
        /\ Goto(c, "finalized")
     \/ /\ row[c] = "erased"
        /\ UNCHANGED <<document, answer>>
        /\ Goto(c, "error")
  /\ UNCHANGED <<status, values, docVars, of, arg, claimed, faults>>

\* Rendering, the blob upload or the database fails, or the replica is killed.
FinalizeFault(c) ==
  /\ step[c] \in {"create", "store", "enqueue", "link"}
  /\ faults < MaxFaults
  /\ faults' = faults + 1
  /\ Goto(c, "error")
  /\ UNCHANGED <<draftVars, docVars, of, arg, claimed, answer>>

\* The owner deletes the document on the Documents page and the worker's
\* cascade removes its row, unless a draft already refers to it.
EraseDocument(c) ==
  /\ HasDocument(c)
  /\ \A d \in Drafts : document[d] # c
  /\ row' = [row EXCEPT ![c] = "erased"]
  /\ UNCHANGED <<draftVars, content, callVars, faults>>

FinalizeStep(c) ==
  \/ Claim(c) \/ CreateDocument(c) \/ StoreVersion(c)
  \/ EnqueueIngestion(c) \/ LinkDocument(c)

Next ==
  \/ \E d \in Drafts : CreateDraft(d)
  \/ \E c \in Calls, d \in Drafts :
       OpenDelete(c, d) \/ OpenFinalize(c, d) \/ \E f \in Fields : OpenConfirm(c, d, f)
  \/ \E c \in Calls : Confirm(c) \/ Delete(c) \/ FinalizeStep(c)
                        \/ FinalizeFault(c) \/ EraseDocument(c)

Spec == Init /\ [][Next]_vars

\* A finalize call that has started goes on.
FairSpec == Spec /\ \A c \in Calls : WF_vars(FinalizeStep(c))

-----------------------------------------------------------------------------
(* Properties *)

\* Every variable keeps its type.
TypeOK ==
  /\ status \in [Drafts -> {"absent", "draft", "finalized", "deleted"}]
  /\ values \in [Drafts -> SUBSET Fields]
  /\ document \in [Drafts -> Calls \cup {None}]
  /\ row \in [Calls -> {"none", "bare", "stored", "queued", "erased"}]
  /\ content \in [Calls -> SUBSET Fields]
  /\ step \in [Calls -> {"idle", "not_found", "conflict", "confirm", "confirmed",
                         "assertion", "delete", "deleted", "claim", "pending",
                         "create", "store", "enqueue", "link", "finalized", "error"}]
  /\ of \in [Calls -> Drafts \cup {None}]
  /\ arg \in [Calls -> Fields \cup {None}]
  /\ claimed \in [Calls -> SUBSET Fields]
  /\ answer \in [Calls -> Calls \cup {None}]
  /\ faults \in 0..MaxFaults

\* legal.py finalize_draft with claim_legal_draft_for_finalize: however many
\* finalize calls race, a draft becomes at most one document, and every call
\* that answers "finalized" names that one.
OneDocumentPerDraft ==
  \A b, c \in Calls :
    /\ row[b] # "none" /\ row[c] # "none" /\ of[b] = of[c] => b = c
    /\ step[c] = "finalized" => answer[c] # None /\ answer[c] = document[of[c]]

\* confirm_legal_draft_fields and the claim's RETURNING: a field whose confirm
\* call was answered is in the draft and, if the draft became a document, in it.
NoConfirmedFieldIsLost ==
  \A c \in Calls : step[c] = "confirmed" =>
    /\ arg[c] \in values[of[c]]
    /\ \A b \in Calls : row[b] # "none" /\ of[b] = of[c] => arg[c] \in content[b]

\* delete_legal_draft: a deleted draft has no document and never gets one.
DeletedDraftsStayUndocumented ==
  \A d \in Drafts : status[d] = "deleted" =>
    /\ document[d] = None
    /\ \A c \in Calls : of[c] = d => row[c] = "none" /\ step[c] # "create"

\* legal.py:348-385: whoever reads a draft with a document finds that document's
\* row with its version and its ingestion job, whatever died or was deleted while
\* the draft was being finalized: a draft never ends at a document that was erased
\* under it, that has nothing to download, or that nobody will ever ingest.
LinkedDocumentsAreThere ==
  \A d \in Drafts : document[d] # None =>
    /\ status[d] = "finalized"
    /\ row[document[d]] = "queued"

\* legal.py:343-346: a caller told to poll is told the document in the end,
\* unless the winning call died or its document was deleted under it.
FinalizeSettles ==
  \A d \in Drafts :
    status[d] = "finalized" ~>
      (document[d] # None \/ faults > 0 \/ \E c \in Calls : of[c] = d /\ row[c] = "erased")

-----------------------------------------------------------------------------
(* What the code says and does not do *)

\* legal.py:343-345 and LegalDraftingView.tsx:279 "Still finalizing - try again
\* in a moment": a caller that lost the race to another finalize call, and was
\* told to poll, finds the document in the end.
PendingEndsInADocument ==
  \A c \in Calls, d \in Drafts :
    step[c] = "pending" /\ of[c] = d /\ status[d] = "finalized" ~> document[d] # None

=============================================================================
