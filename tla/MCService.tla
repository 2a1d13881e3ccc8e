------------------------------ MODULE MCService -----------------------------
(***************************************************************************)
(* What stands before and after a query, in one run: RateLimit, Access and *)
(* Retrieval.  They share no state, so the run explores one of them, which *)
(* is chosen at the start.                                                 *)
(***************************************************************************)
EXTENDS Access, RateLimit, Retrieval, TLC

VARIABLE part

MCUserChunks == {[id |-> "g1", owner |-> "alice", spoke |-> "General"],
                 [id |-> "l1", owner |-> "alice", spoke |-> "Legal"],
                 [id |-> "b1", owner |-> "bob", spoke |-> "Legal"]}
MCLawChunks == {[id |-> "s1", jurisdiction |-> "us-nv"],
                [id |-> "s2", jurisdiction |-> "us-ca"]}

ServiceInit ==
  /\ part \in {"limit", "access", "retrieval"}
  /\ LimitInit
  /\ Init
  /\ RetrievalInit
  /\ part # "retrieval" => ~lawConfigured

ServiceNext ==
  \/ part = "limit" /\ LimitNext /\ UNCHANGED <<part, vars, retrievalVars>>
  \/ part = "access" /\ Next /\ UNCHANGED <<part, limitVars, retrievalVars>>
  \/ part = "retrieval" /\ RetrievalNext /\ UNCHANGED <<part, limitVars, vars>>

Service == ServiceInit /\ [][ServiceNext]_<<part, limitVars, vars, retrievalVars>>

-----------------------------------------------------------------------------
Interchangeable == Permutations(Flows) \cup Permutations(Callbacks) \cup Permutations(Requests)

(* Bound: logging in, minting a token and asking do not overlap each other;    *)
(* each overlaps the clock and the revocation script.                          *)
LoggingIn == \/ \E f \in Flows : flow[f].at \in {"started", "code"}
             \/ \E c \in Callbacks : callback[c].at \notin {"idle", "over"}
Issuing == \E b \in Browsers : issue[b].at # "idle"
Querying == \E q \in Queries : query[q].at \in {"authorised", "forwarded"}

Apart == ~(LoggingIn /\ Issuing) /\ ~(LoggingIn /\ Querying) /\ ~(Issuing /\ Querying)

(* Bound: queries overlap until they are answered, and one of them at most has   *)
(* its answer; one caller at most stops waiting.                                 *)
Answering == Cardinality({q \in Requests : request[q].at \in {"answer", "answered"}})
MaxAnswering == 1
MaxGone == 1

Bounded == Apart /\ Answering <= MaxAnswering /\ Cardinality(gone) <= MaxGone
=============================================================================
