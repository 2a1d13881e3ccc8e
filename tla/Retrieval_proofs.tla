-------------------------- MODULE Retrieval_proofs --------------------------
(***************************************************************************)
(* The answers of the retrieval worker, for any queries, corpora, budgets  *)
(* and faults.  Every query is Sound at every step: what was found is what *)
(* was asked for, what the answer cites was found, and what was answered   *)
(* is what follows from these; the properties are read off an answered     *)
(* query.  The readiness of the user's collection needs no more than       *)
(* itself.                                                                 *)
(***************************************************************************)
EXTENDS Retrieval, FiniteSetTheorems, TLAPS

Places == {"idle", "embed", "look", "create", "index", "search", "ground", "answer",
           "answered", "failed"}

CitationLists ==
  Seq([kind : {"user_document", "law"}, chunk : UserChunks \cup LawChunks])

Records ==
  [at : Places, of : Corpora, owner : Owners \cup {""}, spoke : Spokes \cup {NoSpoke},
   law : BOOLEAN, tries : Nat, user : Seq(UserChunks), statutes : Seq(LawChunks),
   cited : Seq(Nat), said : Verdicts \cup {"none"},
   citations : CitationLists,
   verdict : Verdicts \cup {"none"}]

RetrievalTypeOK ==
  /\ faults \in Nat
  /\ corpus \in [Corpora -> [exists : BOOLEAN, indexed : BOOLEAN]]
  /\ ready \in [Corpora -> BOOLEAN]
  /\ request \in [Requests -> Records]

FoundAsAsked(q) ==
  /\ \A i \in DOMAIN request[q].user :
       /\ request[q].user[i].owner = request[q].owner
       /\ request[q].spoke \in {NoSpoke, request[q].user[i].spoke}
  /\ \A i \in DOMAIN request[q].statutes : request[q].statutes[i].jurisdiction \in Jurisdictions

CitesWhatWasFound(q) ==
  request[q].at \in {"answer", "answered"} =>
    /\ \A i \in DOMAIN request[q].cited : request[q].cited[i] \in 1..Len(Context(q))
    /\ Context(q) # <<>> => request[q].cited # <<>>

AnswerFollows(q) ==
  request[q].at = "answered" =>
    request[q].citations = Citations(q) /\ request[q].verdict = Verdict(q)

Sound(q) == FoundAsAsked(q) /\ CitesWhatWasFound(q) /\ AnswerFollows(q)

AllSound == \A q \in Requests : Sound(q)

-----------------------------------------------------------------------------
\* A query a step leaves alone stays sound.
LEMMA OthersSound ==
  ASSUME NEW q \in Requests, Sound(q), request'[q] = request[q]
  PROVE  Sound(q)'
  BY DEF Sound, FoundAsAsked, CitesWhatWasFound, AnswerFollows, Citations, Verdict,
         CitesLaw, Context

\* So a step that changes one query only has that one to keep sound.
OnlyChanged(q) ==
  /\ request' \in [Requests -> Records]
  /\ \A p \in Requests : p # q => request'[p] = request[p]

LEMMA OneChanged ==
  ASSUME AllSound, NEW q \in Requests, OnlyChanged(q), Sound(q)'
  PROVE  AllSound'
<1> SUFFICES ASSUME NEW p \in Requests PROVE Sound(p)'
  BY DEF AllSound
<1>1. CASE p = q
  BY <1>1
<1>2. CASE p # q
  BY <1>2, OthersSound DEF OnlyChanged, AllSound
<1> QED
  BY <1>1, <1>2

\* A query that is on its way keeps what it found.
SameFinds(q) ==
  /\ request'[q].owner = request[q].owner /\ request'[q].spoke = request[q].spoke
  /\ request'[q].user = request[q].user /\ request'[q].statutes = request[q].statutes
  /\ request'[q].at \notin {"answer", "answered"}

LEMMA MoveSound ==
  ASSUME AllSound, NEW q \in Requests, OnlyChanged(q), SameFinds(q)
  PROVE  AllSound'
<1>1. Sound(q)
  BY DEF AllSound
<1>2. FoundAsAsked(q)'
  BY <1>1 DEF SameFinds, Sound, FoundAsAsked
<1>3. CitesWhatWasFound(q)' /\ AnswerFollows(q)'
  BY DEF SameFinds, CitesWhatWasFound, AnswerFollows
<1> QED
  BY <1>2, <1>3, OneChanged DEF Sound

\* The context is the user's passages, then the law's.
LEMMA ContextIsSeq ==
  ASSUME RetrievalTypeOK, NEW q \in Requests
  PROVE  /\ Context(q) \in Seq(UserChunks \cup LawChunks)
         /\ Len(Context(q)) \in Nat
         /\ \A i \in 1..Len(Context(q)) :
              Context(q)[i] = IF i <= Len(request[q].user) THEN request[q].user[i]
                              ELSE request[q].statutes[i - Len(request[q].user)]
         /\ Len(Context(q)) = Len(request[q].user) + Len(request[q].statutes)
<1>1. request[q].user \in Seq(UserChunks) /\ request[q].statutes \in Seq(LawChunks)
  BY DEF RetrievalTypeOK, Records
<1> DEFINE u == request[q].user
           l == request[q].statutes
<1>2. u \in Seq(UserChunks \cup LawChunks) /\ l \in Seq(UserChunks \cup LawChunks)
  BY <1>1
<1>3. Context(q) = u \o l
  BY DEF Context
<1> HIDE DEF u, l
<1>4. /\ u \o l \in Seq(UserChunks \cup LawChunks)
      /\ Len(u \o l) = Len(u) + Len(l) /\ Len(u \o l) \in Nat
      /\ \A i \in 1..Len(u \o l) : (u \o l)[i] = IF i <= Len(u) THEN u[i] ELSE l[i - Len(u)]
  BY <1>2
<1> QED
  BY <1>3, <1>4 DEF u, l

\* A function on 1..m is a sequence.
LEMMA FunctionIsSeq ==
  ASSUME NEW S, NEW m \in Nat, NEW f \in [1..m -> S]
  PROVE  f \in Seq(S) /\ DOMAIN f = 1..m /\ Len(f) = m
  OBVIOUS

\* A search ranks matching chunks.
LEMMA RankedFrom ==
  ASSUME NEW chunks, IsFiniteSet(chunks), NEW k \in Nat, NEW hits \in Ranked(chunks, k)
  PROVE  hits \in Seq(chunks)
<1> DEFINE n == IF Cardinality(chunks) < k THEN Cardinality(chunks) ELSE k
<1>1. n \in Nat
  BY FS_CardinalityType
<1>2. hits \in [1..n -> chunks]
  BY DEF Ranked
<1> HIDE DEF n
<1> QED
  BY <1>1, <1>2, FunctionIsSeq

\* The indices an answer cites are of the context, and some unless it is empty.
LEMMA UsedWithin ==
  ASSUME NEW n \in Nat, NEW marked \in SUBSET (1..n), NEW used \in Used(marked, n)
  PROVE  /\ used \in Seq(Nat)
         /\ \A i \in DOMAIN used : used[i] \in 1..n
         /\ n # 0 => used # <<>>
<1> DEFINE chosen == IF marked = {} THEN 1..n ELSE marked
<1>1. chosen \subseteq 1..n /\ (n # 0 => chosen # {})
  OBVIOUS
<1>2. IsFiniteSet(chosen)
  <2>1. IsFiniteSet(1..n)
    BY FS_Interval
  <2> HIDE DEF chosen
  <2> QED
    BY <1>1, <2>1, FS_Subset
<1>3. Cardinality(chosen) \in Nat /\ (n # 0 => Cardinality(chosen) # 0)
  BY <1>1, <1>2, FS_CardinalityType, FS_EmptySet
<1>4. used \in [1..Cardinality(chosen) -> chosen]
  BY DEF Used, Ascending
<1> HIDE DEF chosen
<1>5. DOMAIN used = 1..Cardinality(chosen) /\ Len(used) = Cardinality(chosen)
  BY <1>3, <1>4, FunctionIsSeq
<1>6. used \in [1..Cardinality(chosen) -> Nat]
  <2>1. chosen \subseteq Nat
    BY <1>1
  <2> QED
    BY <1>4, <2>1
<1>7. used \in Seq(Nat)
  BY <1>3, <1>6, FunctionIsSeq
<1>8. n # 0 => used # <<>>
  BY <1>3, <1>5
<1>9. \A i \in DOMAIN used : used[i] \in 1..n
  BY <1>1, <1>4
<1> QED
  BY <1>7, <1>8, <1>9

-----------------------------------------------------------------------------
Shape == RetrievalTypeOK /\ AllSound

LEMMA IdleIsRecord == Idle \in Records
<1>1. /\ <<>> \in Seq(UserChunks) /\ <<>> \in Seq(LawChunks) /\ <<>> \in Seq(Nat)
      /\ <<>> \in Seq([kind : {"user_document", "law"}, chunk : UserChunks \cup LawChunks])
  OBVIOUS
<1> DEFINE none == <<>>
<1>2. /\ none \in Seq(UserChunks) /\ none \in Seq(LawChunks) /\ none \in Seq(Nat)
      /\ none \in CitationLists
  BY DEF CitationLists
<1> HIDE DEF none
<1>3. [at |-> "idle", of |-> "user", owner |-> "", spoke |-> "", law |-> FALSE, tries |-> 0,
       user |-> none, statutes |-> none, cited |-> none, said |-> "none",
       citations |-> none, verdict |-> "none"] \in Records
  BY <1>2 DEF Records, Places, Corpora, NoSpoke
<1> QED
  BY <1>3 DEF Idle, none

LEMMA ShapeInit == RetrievalInit => Shape
<1> SUFFICES ASSUME RetrievalInit PROVE Shape
  OBVIOUS
<1>1. Idle \in Records
  BY IdleIsRecord
<1>2. RetrievalTypeOK
  BY <1>1 DEF RetrievalInit, RetrievalTypeOK
<1>3. ASSUME NEW q \in Requests PROVE Sound(q)
  <2>1. request[q].user = <<>> /\ request[q].statutes = <<>> /\ request[q].at = "idle"
    BY DEF RetrievalInit, Idle
  <2>2. DOMAIN <<>> = {}
    OBVIOUS
  <2>3. FoundAsAsked(q)
    BY <2>1, <2>2 DEF FoundAsAsked
  <2> QED
    BY <2>1, <2>3 DEF Sound, CitesWhatWasFound, AnswerFollows
<1> QED
  BY <1>2, <1>3 DEF Shape, AllSound

\* The steps of a query on its way to a search, and within one.
LEMMA MovesKeepShape ==
  ASSUME Shape, NEW q \in Requests, NEW c \in Corpora,
         \/ Embed(q) \/ LookForCollection(q, c) \/ CreateCollection(q, c)
         \/ IndexPayload(q, c) \/ RetryAttempt(q, c)
  PROVE  Shape'
<1>1. request[q] \in Records
  BY DEF Shape, RetrievalTypeOK
<1>2. OnlyChanged(q) /\ SameFinds(q)
  <2>1. ASSUME NEW place \in Places \ {"answer", "answered"}, Goto(q, place)
        PROVE  OnlyChanged(q) /\ SameFinds(q)
    BY <1>1, <2>1 DEF Goto, OnlyChanged, SameFinds, Shape, RetrievalTypeOK, Records
  <2>2. CASE Embed(q)
    BY <2>1, <2>2 DEF Embed, Places
  <2>3. CASE LookForCollection(q, c)
    BY <2>1, <2>3 DEF LookForCollection, Places, Satisfied
  <2>4. CASE CreateCollection(q, c)
    BY <2>1, <2>4 DEF CreateCollection, Places, Satisfied
  <2>5. CASE IndexPayload(q, c)
    BY <2>1, <2>5 DEF IndexPayload, Places
  <2>6. CASE RetryAttempt(q, c)
    <3> DEFINE r == [request[q] EXCEPT !.at = "look", !.tries = @ + 1]
    <3>1. request' = [request EXCEPT ![q] = r]
      BY <2>6 DEF RetryAttempt
    <3>2. r \in Records
      <4> DEFINE n == request[q].tries + 1
      <4>1. n \in Nat
        <5>1. request[q].tries \in Nat
          BY <1>1 DEF Records
        <5> QED
          BY <5>1
      <4> HIDE DEF n
      <4>2. [request[q] EXCEPT !.at = "look", !.tries = n] \in Records
        BY <1>1, <4>1 DEF Records, Places
      <4> QED
        BY <4>2 DEF n
    <3>3. /\ r.owner = request[q].owner /\ r.spoke = request[q].spoke
          /\ r.user = request[q].user /\ r.statutes = request[q].statutes /\ r.at = "look"
      BY <1>1 DEF Records
    <3> HIDE DEF r
    <3> QED
      BY <3>1, <3>2, <3>3 DEF OnlyChanged, SameFinds, Shape, RetrievalTypeOK
  <2> QED
    BY <2>2, <2>3, <2>4, <2>5, <2>6
<1>3. AllSound'
  BY <1>2, MoveSound DEF Shape
<1>4. faults' \in Nat
  BY DEF Shape, RetrievalTypeOK, Embed, LookForCollection, CreateCollection, IndexPayload, RetryAttempt
<1>5. corpus' \in [Corpora -> [exists : BOOLEAN, indexed : BOOLEAN]]
  BY DEF Shape, RetrievalTypeOK, Embed, LookForCollection, CreateCollection, IndexPayload, RetryAttempt
<1>6. ready' \in [Corpora -> BOOLEAN]
  BY DEF Shape, RetrievalTypeOK, Embed, LookForCollection, CreateCollection, IndexPayload,
         RetryAttempt, Vouch
<1> QED
  BY <1>2, <1>3, <1>4, <1>5, <1>6 DEF Shape, RetrievalTypeOK, OnlyChanged

\* A query that fails, or is taken up, has found nothing.
LEMMA FreshIsSound ==
  ASSUME Shape, NEW q \in Requests, NEW r \in Records, request' = [request EXCEPT ![q] = r],
         r.user = <<>>, r.statutes = <<>>, r.at \notin {"answer", "answered"}
  PROVE  request' \in [Requests -> Records] /\ AllSound'
<1>1. OnlyChanged(q) /\ request'[q] = r
  BY DEF OnlyChanged, Shape, RetrievalTypeOK
<1>2. DOMAIN <<>> = {}
  OBVIOUS
<1>3. FoundAsAsked(q)'
  BY <1>1, <1>2 DEF FoundAsAsked
<1>4. CitesWhatWasFound(q)' /\ AnswerFollows(q)'
  BY <1>1 DEF CitesWhatWasFound, AnswerFollows
<1> QED
  BY <1>1, <1>3, <1>4, OneChanged DEF Sound, OnlyChanged, Shape

LEMMA ReceiveKeepsShape ==
  ASSUME Shape, NEW q \in Requests, Receive(q)
  PROVE  Shape'
<1>1. PICK o \in Owners, s \in Spokes \cup {NoSpoke}, include \in {"yes", "no", "by spoke"} :
        request' = [request EXCEPT ![q] = [Idle EXCEPT
          !.at = "embed", !.owner = o, !.spoke = s,
          !.law = include = "yes" \/ (include = "by spoke" /\ s = "Legal")]]
  BY DEF Receive
<1> DEFINE law == include = "yes" \/ (include = "by spoke" /\ s = "Legal")
           r == [Idle EXCEPT !.at = "embed", !.owner = o, !.spoke = s, !.law = law]
<1>2. law \in BOOLEAN
  OBVIOUS
<1>3. request' = [request EXCEPT ![q] = r]
  BY <1>1
<1> HIDE DEF law
<1>4. r \in Records
  BY <1>2, IdleIsRecord DEF Records, Places
<1>5. r.user = <<>> /\ r.statutes = <<>> /\ r.at = "embed"
  BY DEF Idle
<1> HIDE DEF r
<1>6. request' \in [Requests -> Records] /\ AllSound'
  BY <1>3, <1>4, <1>5, FreshIsSound
<1> QED
  BY <1>6 DEF Shape, RetrievalTypeOK, Receive

LEMMA FailKeepsShape ==
  ASSUME Shape, NEW q \in Requests, EssentialFails(q)
  PROVE  Shape'
<1> DEFINE r == [Idle EXCEPT !.at = "failed"]
<1>1. r \in Records
  BY IdleIsRecord DEF Records, Places
<1>2. r.user = <<>> /\ r.statutes = <<>> /\ r.at = "failed"
  BY DEF Idle
<1>3. request' = [request EXCEPT ![q] = r] /\ faults' = faults + 1 /\ UNCHANGED <<corpus, ready>>
  BY DEF EssentialFails, Fail
<1> HIDE DEF r
<1>4. request' \in [Requests -> Records] /\ AllSound'
  BY <1>1, <1>2, <1>3, FreshIsSound
<1> QED
  BY <1>3, <1>4 DEF Shape, RetrievalTypeOK

LEMMA SearchUserKeepsShape ==
  ASSUME Shape, NEW q \in Requests, SearchUser(q)
  PROVE  Shape'
<1> DEFINE matching == InScope(q)
<1>1. PICK hits \in Ranked(matching, UserTopK) :
        request' = IF request[q].law /\ lawConfigured
                 THEN [request EXCEPT ![q].user = hits, ![q].tries = 0,
                                    ![q].of = "law", ![q].at = "look"]
                 ELSE [request EXCEPT ![q].user = hits, ![q].at = "ground"]
  BY DEF SearchUser
<1>2. hits \in Seq(matching)
  <2>1. IsFiniteSet(matching) /\ UserTopK \in Nat
    BY FS_Subset, CorporaAssumption DEF InScope
  <2> HIDE DEF matching
  <2> QED
    BY <2>1, RankedFrom
<1>3. /\ hits \in Seq(UserChunks)
      /\ \A i \in DOMAIN hits : /\ hits[i].owner = request[q].owner
                               /\ request[q].spoke \in {NoSpoke, hits[i].spoke}
  BY <1>2 DEF InScope
<1>4. request[q] \in Records
  BY DEF Shape, RetrievalTypeOK
<1>5. OnlyChanged(q)
  BY <1>1, <1>3, <1>4 DEF OnlyChanged, Shape, RetrievalTypeOK, Records, Places, Corpora
<1>6. /\ request'[q].user = hits /\ request'[q].statutes = request[q].statutes
      /\ request'[q].owner = request[q].owner /\ request'[q].spoke = request[q].spoke
      /\ request'[q].at \notin {"answer", "answered"}
  BY <1>1, <1>4 DEF Shape, RetrievalTypeOK, Records
<1>7. Sound(q)
  BY DEF Shape, AllSound
<1>8. FoundAsAsked(q)'
  BY <1>3, <1>6, <1>7 DEF Sound, FoundAsAsked
<1>9. Sound(q)'
  BY <1>6, <1>8 DEF Sound, CitesWhatWasFound, AnswerFollows
<1> QED
  BY <1>5, <1>9, OneChanged DEF Shape, RetrievalTypeOK, OnlyChanged, SearchUser

\* What the law search finds is law of the jurisdictions asked for.
LEMMA SearchLawKeepsShape ==
  ASSUME Shape, NEW q \in Requests, SearchLaw(q)
  PROVE  Shape'
<1> DEFINE matching == {k \in LawChunks : k.jurisdiction \in Jurisdictions}
<1>1. PICK hits \in Ranked(matching, LawTopK) :
        request' = [request EXCEPT ![q].statutes = hits, ![q].at = "ground"]
  BY DEF SearchLaw
<1>2. hits \in Seq(matching)
  <2>1. IsFiniteSet(matching) /\ LawTopK \in Nat
    BY FS_Subset, CorporaAssumption
  <2> HIDE DEF matching
  <2> QED
    BY <2>1, RankedFrom
<1>3. hits \in Seq(LawChunks) /\ \A i \in DOMAIN hits : hits[i] \in matching
  BY <1>2
<1>4. request[q] \in Records
  BY DEF Shape, RetrievalTypeOK
<1>5. OnlyChanged(q)
  BY <1>1, <1>3, <1>4 DEF OnlyChanged, Shape, RetrievalTypeOK, Records, Places
<1>6. /\ request'[q].user = request[q].user /\ request'[q].statutes = hits
      /\ request'[q].owner = request[q].owner /\ request'[q].spoke = request[q].spoke
      /\ request'[q].at = "ground"
  BY <1>1, <1>4 DEF Shape, RetrievalTypeOK, Records
<1>7. Sound(q)
  BY DEF Shape, AllSound
<1>8. FoundAsAsked(q)'
  BY <1>3, <1>6, <1>7 DEF Sound, FoundAsAsked
<1>9. Sound(q)'
  BY <1>6, <1>8 DEF Sound, CitesWhatWasFound, AnswerFollows
<1> QED
  BY <1>5, <1>9, OneChanged DEF Shape, RetrievalTypeOK, OnlyChanged, SearchLaw

\* Without the law nothing of it has been found.
LEMMA DegradeKeepsShape ==
  ASSUME Shape, NEW q \in Requests, LawDegrades(q)
  PROVE  Shape'
<1> DEFINE r == [request[q] EXCEPT !.statutes = <<>>, !.at = "ground"]
<1>1. request[q] \in Records
  BY DEF Shape, RetrievalTypeOK
<1>2. request' = [request EXCEPT ![q] = r] /\ UNCHANGED <<corpus, ready, faults>>
  BY DEF LawDegrades
<1>3. r \in Records
  <2>1. <<>> \in Seq(LawChunks)
    OBVIOUS
  <2> DEFINE none == <<>>
  <2>2. none \in Seq(LawChunks)
    BY <2>1
  <2> HIDE DEF none
  <2>3. [request[q] EXCEPT !.statutes = none, !.at = "ground"] \in Records
    BY <1>1, <2>2 DEF Records, Places
  <2> QED
    BY <2>3 DEF none
<1>4. /\ r.owner = request[q].owner /\ r.spoke = request[q].spoke
      /\ r.user = request[q].user /\ r.statutes = <<>> /\ r.at = "ground"
  BY <1>1 DEF Records
<1> HIDE DEF r
<1>5. OnlyChanged(q) /\ request'[q] = r
  BY <1>2, <1>3 DEF OnlyChanged, Shape, RetrievalTypeOK
<1>6. Sound(q)
  BY DEF Shape, AllSound
<1>7. DOMAIN <<>> = {}
  OBVIOUS
<1>8. FoundAsAsked(q)'
  BY <1>4, <1>5, <1>6, <1>7 DEF Sound, FoundAsAsked
<1>9. Sound(q)'
  BY <1>4, <1>5, <1>8 DEF Sound, CitesWhatWasFound, AnswerFollows
<1> QED
  BY <1>2, <1>5, <1>9, OneChanged DEF Shape, RetrievalTypeOK, OnlyChanged

\* The model may cite what it was shown, and if it marks nothing all of it is cited.
LEMMA GroundKeepsShape ==
  ASSUME Shape, NEW q \in Requests, Ground(q)
  PROVE  Shape'
<1> DEFINE n == Len(Context(q))
<1>1. request[q] \in Records
  BY DEF Shape, RetrievalTypeOK
<1>2. Context(q) \in Seq(UserChunks \cup LawChunks) /\ n \in Nat
  BY ContextIsSeq DEF Shape
<1>3. PICK marked \in SUBSET (1..n), said \in Verdicts :
        \E used \in Used(marked, n) : request' =
               [request EXCEPT ![q].cited = used, ![q].said = said, ![q].at = "answer"]
  BY DEF Ground
<1>a. PICK used \in Used(marked, n) :
        request' = [request EXCEPT ![q].cited = used, ![q].said = said, ![q].at = "answer"]
  BY <1>3
<1>4. /\ used \in Seq(Nat) /\ \A i \in DOMAIN used : used[i] \in 1..n
      /\ n # 0 => used # <<>>
  <2> HIDE DEF n
  <2> QED
    BY <1>2, UsedWithin
<1>5. OnlyChanged(q)
  BY <1>1, <1>a, <1>4 DEF OnlyChanged, Shape, RetrievalTypeOK, Records, Places
<1>6. /\ request'[q].user = request[q].user /\ request'[q].statutes = request[q].statutes
      /\ request'[q].owner = request[q].owner /\ request'[q].spoke = request[q].spoke
      /\ request'[q].at = "answer" /\ request'[q].cited = used
  BY <1>1, <1>a DEF Shape, RetrievalTypeOK, Records
<1>7. Context(q)' = Context(q)
  BY <1>6 DEF Context
<1>8. Sound(q)
  BY DEF Shape, AllSound
<1>9. CitesWhatWasFound(q)'
  <2>1. Context(q) # <<>> => n # 0
    BY <1>2
  <2> QED
    BY <1>4, <1>6, <1>7, <2>1 DEF CitesWhatWasFound
<1>10. FoundAsAsked(q)' /\ AnswerFollows(q)'
  BY <1>6, <1>8 DEF Sound, FoundAsAsked, AnswerFollows
<1> QED
  BY <1>5, <1>9, <1>10, OneChanged DEF Sound, Shape, RetrievalTypeOK, OnlyChanged, Ground

\* The citations are built from what was found, as the answer is given.
LEMMA AnswerKeepsShape ==
  ASSUME Shape, NEW q \in Requests, Answer(q)
  PROVE  Shape'
<1> DEFINE cites == Citations(q)
           verdict == Verdict(q)
<1>1. request[q] \in Records /\ request[q].at = "answer" /\ Sound(q)
  BY DEF Shape, RetrievalTypeOK, AllSound, Answer
<1>2. request' = [request EXCEPT ![q].at = "answered", ![q].citations = cites, ![q].verdict = verdict]
  BY DEF Answer
<1>3. cites \in CitationLists
  <2>1. request[q].cited \in Seq(Nat)
    BY <1>1 DEF Records
  <2>2. \A i \in DOMAIN request[q].cited :
          cites[i] \in [kind : {"user_document", "law"}, chunk : UserChunks \cup LawChunks]
    <3> SUFFICES ASSUME NEW i \in DOMAIN request[q].cited
                 PROVE  cites[i] \in [kind : {"user_document", "law"},
                                      chunk : UserChunks \cup LawChunks]
      OBVIOUS
    <3>1. request[q].cited[i] \in 1..Len(Context(q))
      BY <1>1 DEF Sound, CitesWhatWasFound
    <3>2. Context(q)[request[q].cited[i]] \in UserChunks \cup LawChunks
      <4>1. Context(q) \in Seq(UserChunks \cup LawChunks)
        BY ContextIsSeq DEF Shape
      <4> QED
        BY <3>1, <4>1
    <3> QED
      BY <3>2 DEF Citations, Cite
  <2>3. DOMAIN request[q].cited = 1..Len(request[q].cited) /\ Len(request[q].cited) \in Nat
    BY <2>1
  <2>4. cites \in [1..Len(request[q].cited) ->
                   [kind : {"user_document", "law"}, chunk : UserChunks \cup LawChunks]]
    BY <2>2, <2>3 DEF Citations
  <2> HIDE DEF cites
  <2> QED
    BY <2>3, <2>4, FunctionIsSeq DEF CitationLists
<1>4. verdict \in Verdicts \cup {"none"}
  BY <1>1 DEF Verdict, Records
<1> HIDE DEF cites, verdict
<1>5. OnlyChanged(q)
  BY <1>1, <1>2, <1>3, <1>4 DEF OnlyChanged, Shape, RetrievalTypeOK, Records, Places
<1>6. /\ request'[q].user = request[q].user /\ request'[q].statutes = request[q].statutes
      /\ request'[q].owner = request[q].owner /\ request'[q].spoke = request[q].spoke
      /\ request'[q].cited = request[q].cited /\ request'[q].said = request[q].said
      /\ request'[q].citations = cites /\ request'[q].verdict = verdict
  BY <1>1, <1>2 DEF Shape, RetrievalTypeOK, Records
<1>7. Context(q)' = Context(q)
  BY <1>6 DEF Context
<1>8. Citations(q)' = Citations(q)
  BY <1>6, <1>7 DEF Citations
<1>9. Verdict(q)' = Verdict(q)
  BY <1>6, <1>8 DEF Verdict
<1>10. FoundAsAsked(q)' /\ CitesWhatWasFound(q)'
  BY <1>1, <1>6, <1>7 DEF Sound, FoundAsAsked, CitesWhatWasFound
<1>11. AnswerFollows(q)'
  BY <1>6, <1>8, <1>9 DEF AnswerFollows, cites, verdict
<1> QED
  BY <1>5, <1>10, <1>11, OneChanged DEF Sound, Shape, RetrievalTypeOK, OnlyChanged, Answer

\* What a restart cuts short is over, what was answered was answered.
LEMMA RestartKeepsShape ==
  ASSUME Shape, Restart
  PROVE  Shape'
<1> DEFINE r == [Idle EXCEPT !.at = "failed"]
<1>1. r \in Records
  BY IdleIsRecord DEF Records, Places
<1>2. r.user = <<>> /\ r.statutes = <<>> /\ r.at = "failed"
  BY DEF Idle
<1>3. request' = [q \in Requests |-> IF request[q].at \in {"idle", "answered"} THEN request[q] ELSE r]
  BY DEF Restart
<1> HIDE DEF r
<1>4. request' \in [Requests -> Records]
  BY <1>1, <1>3 DEF Shape, RetrievalTypeOK
<1>5. ASSUME NEW q \in Requests PROVE Sound(q)'
  <2>1. CASE request'[q] = request[q]
    BY <2>1, OthersSound DEF Shape, AllSound
  <2>2. CASE request'[q] = r
    <3>1. DOMAIN <<>> = {}
      OBVIOUS
    <3> QED
      BY <1>2, <2>2, <3>1 DEF Sound, FoundAsAsked, CitesWhatWasFound, AnswerFollows
  <2> QED
    BY <1>3, <2>1, <2>2
<1>6. faults' \in Nat /\ ready' \in [Corpora -> BOOLEAN] /\ corpus' = corpus
  BY DEF Shape, RetrievalTypeOK, Restart
<1> QED
  BY <1>4, <1>5, <1>6 DEF Shape, RetrievalTypeOK, AllSound

\* The shape is kept by every step.
LEMMA ShapeInductive == Shape /\ [RetrievalNext]_retrievalVars => Shape'
<1> SUFFICES ASSUME Shape, [RetrievalNext]_retrievalVars PROVE Shape'
  OBVIOUS
<1>0. ASSUME UNCHANGED <<corpus, ready, request, faults>> PROVE Shape'
  <2>1. RetrievalTypeOK'
    BY <1>0 DEF Shape, RetrievalTypeOK
  <2>2. ASSUME NEW q \in Requests PROVE Sound(q)'
    BY <1>0, OthersSound DEF Shape, AllSound
  <2> QED
    BY <2>1, <2>2 DEF Shape, AllSound
<1>1. ASSUME NEW q \in Requests,
             Receive(q) \/ QueryStep(q) \/ EssentialFails(q) \/ CallerGivesUp(q)
      PROVE  Shape'
  <2>1. CASE Receive(q)
    BY <2>1, ReceiveKeepsShape
  <2>2. CASE EssentialFails(q)
    BY <2>2, FailKeepsShape
  <2>3. ASSUME NEW c \in Corpora,
               \/ Embed(q) \/ LookForCollection(q, c) \/ CreateCollection(q, c)
               \/ IndexPayload(q, c) \/ RetryAttempt(q, c)
        PROVE  Shape'
    BY <2>3, MovesKeepShape
  <2>4. CASE Embed(q)
    BY <2>3, <2>4 DEF Corpora
  <2>5. CASE Search(q)
    BY <2>3, <2>5, SearchUserKeepsShape, SearchLawKeepsShape, DegradeKeepsShape DEF Search
  <2>6. CASE Ground(q)
    BY <2>6, GroundKeepsShape
  <2>7. CASE Answer(q)
    BY <2>7, AnswerKeepsShape
  <2>8. CASE CallerGivesUp(q)
    BY <1>0, <2>8 DEF CallerGivesUp
  <2> QED
    BY <1>1, <2>1, <2>2, <2>4, <2>5, <2>6, <2>7, <2>8 DEF QueryStep
<1>2. CASE Restart
  BY <1>2, RestartKeepsShape
<1>3. CASE UNCHANGED retrievalVars
  BY <1>0, <1>3 DEF retrievalVars
<1> QED
  BY <1>1, <1>2, <1>3 DEF RetrievalNext

LEMMA ShapeHolds == RetrievalSpec => []Shape
<1>1. Shape /\ [RetrievalNext]_retrievalVars => Shape'
  BY ShapeInductive
<1> QED
  BY <1>1, ShapeInit, PTL DEF RetrievalSpec

-----------------------------------------------------------------------------
\* What a citation of an answer says of its passage, and what that passage is.
LEMMA CitedPassage ==
  ASSUME Shape, NEW q \in Requests, request[q].at = "answered",
         NEW i \in DOMAIN request[q].citations
  PROVE  \/ /\ request[q].citations[i].kind = "user_document"
            /\ request[q].citations[i].chunk \in UserChunks
            /\ request[q].citations[i].chunk.owner = request[q].owner
            /\ request[q].spoke \in {NoSpoke, request[q].citations[i].chunk.spoke}
         \/ /\ request[q].citations[i].kind = "law"
            /\ request[q].citations[i].chunk \in LawChunks
            /\ request[q].citations[i].chunk.jurisdiction \in Jurisdictions
<1> DEFINE idx == request[q].cited[i]
<1>1. Sound(q) /\ request[q].citations = Citations(q)
  BY DEF Shape, AllSound, Sound, AnswerFollows
<1>2. i \in DOMAIN request[q].cited
  BY <1>1 DEF Citations
<1>3. idx \in 1..Len(Context(q))
  BY <1>1, <1>2 DEF Sound, CitesWhatWasFound
<1>4. request[q].citations[i] =
        [kind |-> IF idx <= Len(request[q].user) THEN "user_document" ELSE "law",
         chunk |-> Context(q)[idx]]
  BY <1>1, <1>2 DEF Citations, Cite
<1> HIDE DEF idx
<1>5. request[q].user \in Seq(UserChunks) /\ request[q].statutes \in Seq(LawChunks)
  BY DEF Shape, RetrievalTypeOK, Records
<1> DEFINE u == request[q].user
           l == request[q].statutes
<1>6. /\ Context(q)[idx] = IF idx <= Len(u) THEN u[idx] ELSE l[idx - Len(u)]
      /\ Len(Context(q)) = Len(u) + Len(l)
  BY <1>3, ContextIsSeq DEF Shape
<1>9. /\ Len(u) \in Nat /\ DOMAIN u = 1..Len(u)
      /\ Len(l) \in Nat /\ DOMAIN l = 1..Len(l)
  BY <1>5
<1>7. CASE idx <= Len(u)
  <2>1. idx \in DOMAIN u
    <3> HIDE DEF u, l
    <3> QED
      BY <1>3, <1>7, <1>9
  <2>2. /\ u[idx] \in UserChunks /\ u[idx].owner = request[q].owner
        /\ request[q].spoke \in {NoSpoke, u[idx].spoke}
    BY <1>1, <1>5, <2>1 DEF Sound, FoundAsAsked
  <2> QED
    BY <1>4, <1>6, <1>7, <2>2
<1>8. CASE ~(idx <= Len(u))
  <2>1. idx - Len(u) \in DOMAIN l
    <3> HIDE DEF u, l
    <3> QED
      BY <1>3, <1>6, <1>8, <1>9
  <2>2. l[idx - Len(u)] \in LawChunks /\ l[idx - Len(u)].jurisdiction \in Jurisdictions
    BY <1>1, <1>5, <2>1 DEF Sound, FoundAsAsked
  <2> QED
    BY <1>4, <1>6, <1>8, <2>2
<1> QED
  BY <1>7, <1>8

\* A citation never calls a statute the user's document nor the reverse, nor shows
\* another owner's passage, nor one of another spoke than was asked for if one was,
\* and an answer from a context cites something (build_citations, search_user_chunks, search_public_law_chunks).
THEOREM CitationsAreTrue == RetrievalSpec => []CitationsNameTheirSource
<1>1. Shape => CitationsNameTheirSource
  <2> SUFFICES ASSUME Shape, NEW q \in Requests, request[q].at = "answered"
               PROVE  /\ \A i \in DOMAIN request[q].citations :
                           LET c == request[q].citations[i] IN
                           IF c.kind = "user_document"
                           THEN /\ c.chunk \in UserChunks /\ c.chunk.owner = request[q].owner
                                /\ request[q].spoke \in {NoSpoke, c.chunk.spoke}
                           ELSE c.chunk \in LawChunks /\ c.chunk.jurisdiction \in Jurisdictions
                      /\ Context(q) # <<>> => request[q].citations # <<>>
    BY DEF CitationsNameTheirSource
  <2>1. \A i \in DOMAIN request[q].citations :
          LET c == request[q].citations[i] IN
          IF c.kind = "user_document"
          THEN /\ c.chunk \in UserChunks /\ c.chunk.owner = request[q].owner
               /\ request[q].spoke \in {NoSpoke, c.chunk.spoke}
          ELSE c.chunk \in LawChunks /\ c.chunk.jurisdiction \in Jurisdictions
    BY CitedPassage
  <2>2. Context(q) # <<>> => request[q].citations # <<>>
    <3>1. Sound(q) /\ request[q].citations = Citations(q) /\ request[q].cited \in Seq(Nat)
      BY DEF Shape, AllSound, Sound, AnswerFollows, RetrievalTypeOK, Records
    <3>2. Context(q) # <<>> => request[q].cited # <<>>
      BY <3>1 DEF Sound, CitesWhatWasFound
    <3>3. request[q].cited # <<>> => DOMAIN request[q].cited # {}
      <4> DEFINE s == request[q].cited
      <4>1. s \in Seq(Nat)
        BY <3>1
      <4> HIDE DEF s
      <4>2. s # <<>> => 1 \in DOMAIN s
        BY <4>1
      <4> QED
        BY <4>2 DEF s
    <3>4. DOMAIN request[q].citations = DOMAIN request[q].cited /\ DOMAIN <<>> = {}
      BY <3>1 DEF Citations
    <3> QED
      BY <3>2, <3>3, <3>4
  <2> QED
    BY <2>1, <2>2
<1> QED
  BY <1>1, ShapeHolds, PTL

\* An answer that cites law gives no verdict, and no other answer loses the one the
\* model gave (suppress_verdict_if_law_cited).
THEOREM LawGetsNoVerdict == RetrievalSpec => []NoOpinionOnLaw
<1>1. Shape => NoOpinionOnLaw
  <2> SUFFICES ASSUME Shape, NEW q \in Requests, request[q].at = "answered"
               PROVE  request[q].verdict =
                        IF \E i \in DOMAIN request[q].citations :
                             request[q].citations[i].chunk \in LawChunks
                        THEN "none" ELSE request[q].said
    BY DEF NoOpinionOnLaw
  <2>1. request[q].citations = Citations(q) /\ request[q].verdict = Verdict(q)
    BY DEF Shape, AllSound, Sound, AnswerFollows
  <2>2. \A i \in DOMAIN request[q].citations :
          request[q].citations[i].kind = "law" <=> request[q].citations[i].chunk \in LawChunks
    BY CitedPassage, CorporaAssumption
  <2>3. CitesLaw(Citations(q)) <=> \E i \in DOMAIN request[q].citations :
                                     request[q].citations[i].chunk \in LawChunks
    BY <2>1, <2>2 DEF CitesLaw
  <2> QED
    BY <2>1, <2>3 DEF Verdict
<1> QED
  BY <1>1, ShapeHolds, PTL

\* Once the user's collection is taken for ready its payload indexes are there
\* (OwnerScopedQdrant.ensure_collection, ensure_qdrant_ready).
THEOREM ReadyIsIndexed == RetrievalSpec => []ReadyMeansIndexed
<1>1. RetrievalInit => ReadyMeansIndexed
  BY DEF RetrievalInit, ReadyMeansIndexed, Corpora
<1>2. Shape /\ ReadyMeansIndexed /\ [RetrievalNext]_retrievalVars => ReadyMeansIndexed'
  <2> SUFFICES ASSUME Shape, ReadyMeansIndexed, [RetrievalNext]_retrievalVars PROVE ReadyMeansIndexed'
    OBVIOUS
  <2>1. /\ "user" \in Corpora
        /\ corpus \in [Corpora -> [exists : BOOLEAN, indexed : BOOLEAN]]
        /\ ready \in [Corpora -> BOOLEAN]
    BY DEF Shape, RetrievalTypeOK, Corpora
  <2>2. ASSUME UNCHANGED <<corpus, ready>> PROVE ReadyMeansIndexed'
    BY <2>2 DEF ReadyMeansIndexed
  <2>3. ASSUME NEW q \in Requests, NEW c \in Corpora, Vouch(c),
               corpus' = corpus \/ corpus' = [corpus EXCEPT ![c].exists = TRUE]
        PROVE  ReadyMeansIndexed'
    <3>1. ready'["user"] = ready["user"]
      BY <2>1, <2>3 DEF Vouch, Satisfied, Corpora
    <3>2. corpus'["user"].indexed = corpus["user"].indexed
      BY <2>1, <2>3
    <3> QED
      BY <3>1, <3>2 DEF ReadyMeansIndexed
  <2>4. ASSUME NEW q \in Requests, NEW c \in Corpora, IndexPayload(q, c)
        PROVE  ReadyMeansIndexed'
    BY <2>1, <2>4 DEF IndexPayload, ReadyMeansIndexed, Corpora
  <2>5. ASSUME NEW q \in Requests, NEW c \in Corpora,
               LookForCollection(q, c) \/ CreateCollection(q, c)
        PROVE  ReadyMeansIndexed'
    BY <2>3, <2>5 DEF LookForCollection, CreateCollection
  <2>6. ASSUME NEW q \in Requests,
               \/ Receive(q) \/ Embed(q) \/ SearchUser(q) \/ SearchLaw(q) \/ LawDegrades(q)
               \/ Ground(q) \/ Answer(q) \/ EssentialFails(q) \/ CallerGivesUp(q)
               \/ \E c \in Corpora : RetryAttempt(q, c)
        PROVE  ReadyMeansIndexed'
    BY <2>2, <2>6 DEF Receive, Embed, SearchUser, SearchLaw, LawDegrades, Ground, Answer,
       EssentialFails, Fail, RetryAttempt, CallerGivesUp
  <2>7. CASE Restart
    BY <2>7 DEF Restart, ReadyMeansIndexed, Corpora
  <2>8. CASE UNCHANGED retrievalVars
    BY <2>2, <2>8 DEF retrievalVars
  <2> QED
    BY <2>4, <2>5, <2>6, <2>7, <2>8 DEF RetrievalNext, QueryStep, Search
<1> QED
  BY <1>1, <1>2, ShapeHolds, PTL DEF RetrievalSpec
=============================================================================
