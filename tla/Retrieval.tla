----------------------------- MODULE Retrieval ------------------------------
(***************************************************************************)
(* A query in the retrieval worker (retrieve in main.py, assembly.py, the  *)
(* grounder): embed the question, search the owner's corpus, perhaps the   *)
(* public-law corpus, let the model answer from what was found, build the  *)
(* citations, audit, answer.  The owner's corpus must be there, the law    *)
(* may fail.                                                               *)
(*                                                                         *)
(* Each search first makes sure that its collection exists, once per       *)
(* process; the check, the creation and the payload indexes are separate   *)
(* calls that other queries and other services make too.                   *)
(*                                                                         *)
(* What a vector search finds and what the model says are not computed but *)
(* chosen: any order of the matching chunks, any chunks cited, any verdict.*)
(***************************************************************************)
EXTENDS Naturals, Sequences, FiniteSets

CONSTANTS
  Requests,     \* POST /retrieve requests, past the checks of Access
  UserChunks,   \* [id, owner, spoke]: points of the owners' collection
  LawChunks,    \* [id, jurisdiction]: points of the law collection
  Owners,
  Spokes,       \* with "Legal" among them
  Jurisdictions, \* asked for, or else LAW_DEFAULT_JURISDICTIONS
  Verdicts,     \* what the model may conclude, with "none" and "insufficient"
  UserTopK,     \* USER_CONTEXT_TOP_K
  LawTopK,      \* LAW_CONTEXT_TOP_K
  Attempts,     \* attempts of retry_transient
  MaxFaults     \* bound: failures of the calls a query cannot do without

\* No passage is in both corpora, and searches are bounded.
ASSUME CorporaAssumption ==
  /\ UserChunks \cap LawChunks = {}
  /\ IsFiniteSet(UserChunks) /\ IsFiniteSet(LawChunks)
  /\ {UserTopK, LawTopK} \subseteq Nat

Corpora == {"user", "law"}

NoSpoke == ""

VARIABLES
  lawConfigured,  \* a law collection is configured
  corpus,         \* corpus[c]: the collection exists; its payload is indexed
  ready,          \* ready[c]: what this process believes of that
  request,        \* request[q]: where a query stands and what it has
  gone,           \* queries whose caller has stopped waiting for the response
  audit,          \* queries with a query_audit row
  faults          \* failures so far, those of the law corpus not counted

retrievalVars == <<lawConfigured, corpus, ready, request, gone, audit, faults>>

Idle == [at |-> "idle", of |-> "user", owner |-> "", spoke |-> "", law |-> FALSE, tries |-> 0,
         user |-> <<>>, statutes |-> <<>>, cited |-> <<>>, said |-> "none",
         citations |-> <<>>, verdict |-> "none"]

RetrievalInit ==
  /\ lawConfigured \in BOOLEAN
  /\ corpus = [c \in Corpora |-> [exists |-> FALSE, indexed |-> FALSE]]
  /\ ready = [c \in Corpora |-> FALSE]
  /\ request = [q \in Requests |-> Idle]
  /\ gone = {}
  /\ audit = {}
  /\ faults = 0

-----------------------------------------------------------------------------
\* Top k of what a search may return: k of the matching chunks, or all, in some
\* order of their scores.
Ranked(chunks, k) ==
  LET n == IF Cardinality(chunks) < k THEN Cardinality(chunks) ELSE k IN
  {s \in [1..n -> chunks] : \A i, j \in 1..n : i # j => s[i] # s[j]}

Goto(q, place) == request' = [request EXCEPT ![q].at = place]

Fail(q) ==
  /\ faults < MaxFaults
  /\ faults' = faults + 1
  /\ request' = [request EXCEPT ![q] = [Idle EXCEPT !.at = "failed"]]
  /\ UNCHANGED <<lawConfigured, gone, corpus, ready, audit>>

\* include_public_law, and otherwise the Legal spoke.  Nobody looks at the spoke
\* that is asked for: it may be empty.
Receive(q) ==
  /\ request[q].at = "idle"
  /\ \E o \in Owners, s \in Spokes \cup {NoSpoke}, include \in {"yes", "no", "by spoke"} :
       request' = [request EXCEPT ![q] = [Idle EXCEPT
         !.at = "embed", !.owner = o, !.spoke = s,
         !.law = include = "yes" \/ (include = "by spoke" /\ s = "Legal")]]
  /\ UNCHANGED <<lawConfigured, gone, corpus, ready, audit, faults>>

Embed(q) ==
  /\ request[q].at = "embed"
  /\ Goto(q, "look")
  /\ UNCHANGED <<lawConfigured, gone, corpus, ready, audit, faults>>

-----------------------------------------------------------------------------
(* One attempt: ensure_collection unless the flag is up, then the search.    *)
(* A query is searching of one corpus at a time; an attempt starts at "look". *)

Searching(q, c, step) == request[q].of = c /\ request[q].at = step
Attempting(q, c) == request[q].of = c /\ request[q].at \in {"look", "create", "index", "search"}

\* Mutant: the user's is done as well.
SatisfiedAlways(c) == "search"

\* The law's ensure_collection is done when the collection is there; the user's
\* goes on to the payload indexes every time.
Satisfied(c) == IF c = "law" THEN "search" ELSE "index"

Vouch(c) == ready' = [ready EXCEPT ![c] = @ \/ (corpus[c].exists /\ Satisfied(c) = "search")]

\* get_collections
LookForCollection(q, c) ==
  /\ Searching(q, c, "look")
  /\ Goto(q, IF ready[c] THEN "search"
             ELSE IF corpus[c].exists THEN Satisfied(c) ELSE "create")
  /\ Vouch(c)
  /\ UNCHANGED <<lawConfigured, gone, corpus, audit, faults>>

\* create_collection; a 409 is a success.
CreateCollection(q, c) ==
  /\ Searching(q, c, "create")
  /\ corpus' = [corpus EXCEPT ![c].exists = TRUE]
  /\ Goto(q, IF corpus[c].exists THEN Satisfied(c) ELSE "index")
  /\ Vouch(c)
  /\ UNCHANGED <<lawConfigured, gone, audit, faults>>

IndexPayload(q, c) ==
  /\ Searching(q, c, "index")
  /\ corpus' = [corpus EXCEPT ![c].indexed = TRUE]
  /\ ready' = [ready EXCEPT ![c] = TRUE]
  /\ Goto(q, "search")
  /\ UNCHANGED <<lawConfigured, gone, audit, faults>>

\* The filter: the owner always, the spoke if there is one.
InScope(q) ==
  {k \in UserChunks :
     /\ k.owner = request[q].owner
     /\ request[q].spoke # NoSpoke => k.spoke = request[q].spoke}

SearchUser(q) ==
  /\ Searching(q, "user", "search")
  /\ \E hits \in Ranked(InScope(q), UserTopK) :
       request' = IF request[q].law /\ lawConfigured
                THEN [request EXCEPT ![q].user = hits, ![q].tries = 0,
                                   ![q].of = "law", ![q].at = "look"]
                ELSE [request EXCEPT ![q].user = hits, ![q].at = "ground"]
  /\ UNCHANGED <<lawConfigured, gone, corpus, ready, audit, faults>>

SearchLaw(q) ==
  /\ Searching(q, "law", "search")
  /\ \E hits \in Ranked({k \in LawChunks : k.jurisdiction \in Jurisdictions}, LawTopK) :
       request' = [request EXCEPT ![q].statutes = hits, ![q].at = "ground"]
  /\ UNCHANGED <<lawConfigured, gone, corpus, ready, audit, faults>>

\* A transient failure, at whatever call: the attempt starts again.
RetryAttempt(q, c) ==
  /\ Attempting(q, c)
  /\ request[q].tries + 1 < Attempts
  /\ c = "user" => faults < MaxFaults
  /\ faults' = IF c = "user" THEN faults + 1 ELSE faults
  /\ request' = [request EXCEPT ![q].at = "look", ![q].tries = @ + 1]
  /\ UNCHANGED <<lawConfigured, gone, corpus, ready, audit>>

\* The last attempt, or a failure no attempt can mend: document-only.  So late,
\* perhaps, that the caller is gone.
LawDegrades(q) ==
  /\ Attempting(q, "law")
  /\ request' = [request EXCEPT ![q].statutes = <<>>, ![q].at = "ground"]
  /\ UNCHANGED <<lawConfigured, gone, corpus, ready, audit, faults>>

Search(q) ==
  \/ \E c \in Corpora : \/ LookForCollection(q, c) \/ CreateCollection(q, c)
                        \/ IndexPayload(q, c) \/ RetryAttempt(q, c)
  \/ SearchUser(q) \/ SearchLaw(q) \/ LawDegrades(q)

-----------------------------------------------------------------------------
(* The answer. *)

Context(q) == request[q].user \o request[q].statutes

Ascending(S) ==
  {s \in [1..Cardinality(S) -> S] : \A i, j \in 1..Cardinality(S) : i < j => s[i] < s[j]}

\* The indices of the chunks the text marks, or all of them if it marks none.
Used(marked, n) == Ascending(IF marked = {} THEN 1..n ELSE marked)

\* Without any context no model is asked, and there is no verdict, or the
\* FakeGrounder's.
Ground(q) ==
  LET n == Len(Context(q)) IN
  /\ request[q].at = "ground"
  /\ \E marked \in SUBSET (1..n), said \in Verdicts : \E used \in Used(marked, n) :
       /\ n = 0 => said \in {"none", "insufficient"}
       /\ request' = [request EXCEPT ![q].cited = used, ![q].said = said, ![q].at = "answer"]
  /\ UNCHANGED <<lawConfigured, gone, corpus, ready, audit, faults>>

Cite(kind, chunk) == [kind |-> kind, chunk |-> chunk]

\* Mutant: the budget is taken for the number of the user's chunks.
CitationsByBudget(q) ==
  [i \in DOMAIN request[q].cited |->
    LET idx == request[q].cited[i] IN
    Cite(IF idx <= UserTopK THEN "user_document" ELSE "law", Context(q)[idx])]

\* build_citations: an index is into the user's chunks, then the law's.
Citations(q) ==
  [i \in DOMAIN request[q].cited |->
    LET idx == request[q].cited[i] IN
    Cite(IF idx <= Len(request[q].user) THEN "user_document" ELSE "law", Context(q)[idx])]

CitesLaw(citations) == \E i \in DOMAIN citations : citations[i].kind = "law"

\* Mutant: the badge goes when law was found, cited or not.
VerdictUnlessLawFound(q) == IF request[q].statutes # <<>> THEN "none" ELSE request[q].said

\* suppress_verdict_if_law_cited
Verdict(q) == IF CitesLaw(Citations(q)) THEN "none" ELSE request[q].said

\* record_query_audit, then the response.
Answer(q) ==
  /\ request[q].at = "answer"
  /\ audit' = audit \cup {q}
  /\ request' = [request EXCEPT ![q].at = "answered", ![q].citations = Citations(q),
                            ![q].verdict = Verdict(q)]
  /\ UNCHANGED <<lawConfigured, gone, corpus, ready, faults>>

\* The embedder, the last attempt at the user's corpus or one no attempt can mend,
\* the titles or the audit in the database, or the model: a 500.
EssentialFails(q) ==
  /\ request[q].at \in {"embed", "ground", "answer"} \/ Attempting(q, "user")
  /\ Fail(q)

\* docs-api waits 30 s, and then its user has an error: one call to the law corpus
\* may take 60 s, and is then tried again (any other step may be as slow).  The
\* worker does not notice, answers and audits.
CallerGivesUp(q) ==
  /\ request[q].at \notin {"idle", "answered", "failed"}
  /\ gone' = gone \cup {q}
  /\ UNCHANGED <<lawConfigured, corpus, ready, request, audit, faults>>

\* The process is restarted: its queries are lost, its flags down, the
\* collections as they are.
Restart ==
  /\ faults < MaxFaults
  /\ faults' = faults + 1
  /\ ready' = [c \in Corpora |-> FALSE]
  /\ request' = [q \in Requests |-> IF request[q].at \in {"idle", "answered"} THEN request[q]
                                 ELSE [Idle EXCEPT !.at = "failed"]]
  /\ UNCHANGED <<lawConfigured, gone, corpus, audit>>

QueryStep(q) == \/ Embed(q) \/ Search(q) \/ Ground(q) \/ Answer(q)

RetrievalNext ==
  \/ \E q \in Requests : Receive(q) \/ QueryStep(q) \/ EssentialFails(q) \/ CallerGivesUp(q)
  \/ Restart

RetrievalSpec == RetrievalInit /\ [][RetrievalNext]_retrievalVars

-----------------------------------------------------------------------------
\* An answer bears a verdict badge only if every passage it cites is the user's
\* own, and loses the one the model gave only because it cites law.
NoOpinionOnLaw ==
  \A q \in Requests : request[q].at = "answered" =>
    LET law == \E i \in DOMAIN request[q].citations : request[q].citations[i].chunk \in LawChunks IN
    request[q].verdict = IF law THEN "none" ELSE request[q].said

\* A citation calls a passage the user's document exactly when it is from the
\* documents of the user who asks, and of the spoke asked for if one was given
\* (an empty spoke is no filter), and law exactly when it is law of a jurisdiction
\* asked for; and an answer given from a context cites something.
CitationsNameTheirSource ==
  \A q \in Requests : request[q].at = "answered" =>
    /\ \A i \in DOMAIN request[q].citations :
         LET c == request[q].citations[i] IN
         IF c.kind = "user_document"
         THEN /\ c.chunk \in UserChunks
              /\ c.chunk.owner = request[q].owner
              /\ request[q].spoke \in {NoSpoke, c.chunk.spoke}
         ELSE c.chunk \in LawChunks /\ c.chunk.jurisdiction \in Jurisdictions
    /\ Context(q) # <<>> => request[q].citations # <<>>

\* When the process takes the user's collection for ready, its payload indexes
\* are there, whoever created it, and whatever failed or was restarted between
\* its creation and theirs.  The law's ensure_collection does not give that.
ReadyMeansIndexed == ready["user"] => corpus["user"].indexed
=============================================================================
