--------------------------- MODULE RateLimit_proofs -------------------------
(***************************************************************************)
(* RateCapped for any clients, capacity and refill.  What makes it         *)
(* inductive is Budgeted: what a client holds now and what it was given    *)
(* since any of its requests never exceed a full bucket and the refill     *)
(* since.  A client that is not tracked counts as holding a full bucket,   *)
(* so dropping one that is full changes nothing.                           *)
(***************************************************************************)
EXTENDS RateLimit, TLAPS

\* Every bucket is of a client, between empty and full, and not from the future.
LimitTypeOK ==
  /\ clock \in Nat
  /\ buckets \in [DOMAIN buckets -> [tokens : Nat, last : Nat]]
  /\ \A k \in DOMAIN buckets : buckets[k].tokens <= Full /\ buckets[k].last <= clock
  /\ admitted \in [Clients -> Seq(Nat)]

Budgeted ==
  \A c \in Clients : \A i \in DOMAIN admitted[c] :
    /\ admitted[c][i] <= clock
    /\ Holds(c) + (Len(admitted[c]) - i + 1) * TicksPerToken <= Full + (clock - admitted[c][i])

LimitInv == LimitTypeOK /\ Budgeted /\ RateCapped

-----------------------------------------------------------------------------
\* A full bucket is a number of ticks.
LEMMA FullIsNat == Full \in Nat
  BY LimitAssumption DEF Full

\* What a client holds is between nothing and a full bucket.
LEMMA HoldsBounds ==
  ASSUME LimitTypeOK, NEW c
  PROVE  Holds(c) \in 0..Full
<1>1. CASE c \in DOMAIN buckets
  BY <1>1, FullIsNat DEF LimitTypeOK, Holds, Refilled, Least
<1>2. CASE c \notin DOMAIN buckets
  BY <1>2, FullIsNat DEF Holds
<1> QED
  BY <1>1, <1>2

\* A request of one client leaves the others holding what they held: the buckets
\* it may drop are full.
LEMMA OthersKeepTheirs ==
  ASSUME LimitTypeOK, NEW c, NEW d, c # d, NEW t,
         buckets' = Left(d, t), clock' = clock
  PROVE  Holds(c)' = Holds(c)
<1>1. DOMAIN buckets' = Tracked(d)
  BY DEF Left
<1>2. CASE c \in Tracked(d)
  <2>1. c \in DOMAIN buckets
    BY <1>2 DEF Tracked, EvictIdle
  <2>2. buckets'[c] = buckets[c]
    BY <1>2 DEF Left
  <2> QED
    BY <1>1, <1>2, <2>1, <2>2 DEF Holds, Refilled
<1>3. CASE c \notin Tracked(d) /\ c \in DOMAIN buckets
  <2>1. Refilled(buckets[c]) >= Full
    <3>1. c \notin EvictIdle
      BY <1>3 DEF Tracked
    <3>2. Refilled(buckets[c]) \in Int
      BY <1>3, FullIsNat DEF LimitTypeOK, Refilled, Least
    <3> QED
      BY <1>3, <3>1, <3>2, FullIsNat DEF EvictIdle
  <2>2. Holds(c) \in 0..Full
    BY HoldsBounds
  <2>3. Holds(c) = Full
    BY <1>3, <2>1, <2>2, FullIsNat DEF Holds
  <2> QED
    BY <1>1, <1>3, <2>3 DEF Holds, Full
<1>4. CASE c \notin Tracked(d) /\ c \notin DOMAIN buckets
  BY <1>1, <1>4 DEF Holds, Full
<1> QED
  BY <1>2, <1>3, <1>4

\* A request leaves its own client with the tokens it says.
LEMMA OwnIsWritten ==
  ASSUME NEW d, NEW t \in 0..Full, clock \in Nat,
         buckets' = Left(d, t), clock' = clock
  PROVE  Holds(d)' = t
<1>1. d \in DOMAIN buckets'
  BY DEF Left, Tracked
<1>2. buckets'[d] = [tokens |-> t, last |-> clock]
  BY DEF Left, Tracked
<1> QED
  BY <1>1, <1>2, FullIsNat DEF Holds, Refilled, Least, Full

\* The buckets a request leaves are well-formed.
LEMMA LeftTyped ==
  ASSUME LimitTypeOK, NEW d, NEW t \in 0..Full,
         buckets' = Left(d, t), clock' = clock
  PROVE  /\ buckets' \in [DOMAIN buckets' -> [tokens : Nat, last : Nat]]
         /\ \A k \in DOMAIN buckets' : buckets'[k].tokens <= Full /\ buckets'[k].last <= clock
<1>1. DOMAIN buckets' = Tracked(d)
  BY DEF Left
<1>2. Tracked(d) \subseteq {d} \cup DOMAIN buckets
  BY DEF Tracked, EvictIdle
<1>3. ASSUME NEW k \in Tracked(d)
      PROVE  /\ buckets'[k] \in [tokens : Nat, last : Nat]
             /\ buckets'[k].tokens <= Full /\ buckets'[k].last <= clock
  <2>1. CASE k = d
    BY <2>1, FullIsNat DEF Left, LimitTypeOK
  <2>2. CASE k # d
    <3>1. buckets'[k] = buckets[k] /\ k \in DOMAIN buckets
      BY <1>2, <2>2 DEF Left
    <3> QED
      BY <3>1 DEF LimitTypeOK
  <2> QED
    BY <2>1, <2>2
<1>4. buckets' = [k \in DOMAIN buckets' |-> buckets'[k]]
  BY <1>1 DEF Left
<1> QED
  BY <1>1, <1>3, <1>4

-----------------------------------------------------------------------------
\* At the start nothing was let through.
LEMMA LimitInitInv == LimitInit => LimitInv
<1> SUFFICES ASSUME LimitInit PROVE LimitInv
  OBVIOUS
<1>1. LimitTypeOK
  BY DEF LimitInit, LimitTypeOK
<1>2. Budgeted /\ RateCapped
  BY DEF LimitInit, Budgeted, RateCapped
<1> QED
  BY <1>1, <1>2 DEF LimitInv

\* A tick refills by one at most, and allows one more.
LEMMA TimeKeepsBudget == LimitInv /\ TimePasses => LimitInv'
<1> SUFFICES ASSUME LimitInv, TimePasses PROVE LimitInv'
  OBVIOUS
<1>1. clock' = clock + 1 /\ buckets' = buckets /\ admitted' = admitted /\ clock \in Nat
  BY DEF LimitInv, LimitTypeOK, TimePasses
<1>2. LimitTypeOK'
  BY <1>1, FullIsNat DEF LimitInv, LimitTypeOK, Full
<1>3. ASSUME NEW c \in Clients PROVE Holds(c)' <= Holds(c) + 1 /\ Holds(c)' \in Int
  <2>1. CASE c \in DOMAIN buckets
    BY <1>1, <2>1, FullIsNat DEF LimitInv, LimitTypeOK, Holds, Refilled, Least, Full
  <2>2. CASE c \notin DOMAIN buckets
    BY <1>1, <2>2, FullIsNat DEF Holds, Full
  <2> QED
    BY <2>1, <2>2
<1>4. Budgeted'
  <2> SUFFICES ASSUME NEW c \in Clients, NEW i \in DOMAIN admitted[c]
               PROVE  /\ admitted[c][i] <= clock'
                      /\ Holds(c)' + (Len(admitted[c]) - i + 1) * TicksPerToken
                           <= Full + (clock' - admitted[c][i])
    BY <1>1 DEF Budgeted, Full
  <2> DEFINE spent == (Len(admitted[c]) - i + 1) * TicksPerToken
  <2>1. spent \in Int /\ admitted[c][i] \in Nat
    BY LimitAssumption DEF LimitInv, LimitTypeOK
  <2>2. admitted[c][i] <= clock /\ Holds(c) + spent <= Full + (clock - admitted[c][i])
    BY DEF LimitInv, Budgeted
  <2>3. Holds(c) \in Int
    BY HoldsBounds, FullIsNat DEF LimitInv
  <2> HIDE DEF spent
  <2>4. Holds(c)' + spent <= Full + (clock' - admitted[c][i])
    BY <1>1, <1>3, <2>1, <2>2, <2>3, FullIsNat
  <2> QED
    BY <1>1, <2>1, <2>2, <2>4 DEF spent
<1>5. RateCapped'
  BY <1>1 DEF LimitInv, RateCapped, Full
<1> QED
  BY <1>2, <1>4, <1>5 DEF LimitInv

\* A refusal gives nothing and takes nothing.
LEMMA RefuseKeepsBudget ==
  ASSUME LimitInv, NEW d \in Clients, Refuse(d)
  PROVE  LimitInv'
<1>1. buckets' = Left(d, Holds(d)) /\ clock' = clock /\ admitted' = admitted /\ clock \in Nat
  BY DEF LimitInv, LimitTypeOK, Refuse
<1>2. LimitTypeOK /\ Holds(d) \in 0..Full
  BY HoldsBounds DEF LimitInv
<1>3. LimitTypeOK'
  BY <1>1, <1>2, LeftTyped DEF LimitTypeOK, Full
<1>4. \A c \in Clients : Holds(c)' = Holds(c)
  BY <1>1, <1>2, OthersKeepTheirs, OwnIsWritten
<1>5. Budgeted'
  BY <1>1, <1>4 DEF LimitInv, Budgeted, Full
<1>6. RateCapped'
  BY <1>1 DEF LimitInv, RateCapped, Full
<1> QED
  BY <1>3, <1>5, <1>6 DEF LimitInv

\* A request that is let through is paid for by the tokens it takes.
LEMMA AdmitKeepsBudget ==
  ASSUME LimitInv, NEW d \in Clients, Admit(d)
  PROVE  LimitInv'
<1> DEFINE t == Holds(d) - TicksPerToken
<1>1. /\ buckets' = Left(d, t) /\ clock' = clock /\ clock \in Nat
      /\ admitted' = [admitted EXCEPT ![d] = Append(@, clock)]
      /\ Holds(d) >= TicksPerToken
  BY DEF LimitInv, LimitTypeOK, Admit
<1>2. LimitTypeOK /\ Holds(d) \in 0..Full
  BY HoldsBounds DEF LimitInv
<1>3. t \in 0..Full
  BY <1>1, <1>2, FullIsNat, LimitAssumption
<1>4. Holds(d)' = t /\ \A c \in Clients : c # d => Holds(c)' = Holds(c)
  BY <1>1, <1>2, <1>3, OthersKeepTheirs, OwnIsWritten
<1>5. LimitTypeOK'
  <2>1. admitted' \in [Clients -> Seq(Nat)]
    BY <1>1, <1>2 DEF LimitTypeOK
  <2> QED
    BY <1>1, <1>2, <1>3, <2>1, LeftTyped DEF LimitTypeOK, Full
<1>6. \A c \in Clients : c # d => admitted'[c] = admitted[c]
  BY <1>1, <1>2 DEF LimitTypeOK
<1> DEFINE a == admitted[d]
           n == Len(a) + 1
<1>7. /\ a \in Seq(Nat) /\ admitted'[d] = Append(a, clock) /\ Len(admitted'[d]) = n
      /\ n \in Nat /\ DOMAIN admitted'[d] = 1..n /\ DOMAIN a = 1..(n - 1)
      /\ admitted'[d][n] = clock /\ \A i \in 1..(n - 1) : admitted'[d][i] = a[i]
  BY <1>1, <1>2 DEF LimitTypeOK
<1>l. n = Len(a) + 1 /\ a = admitted[d] /\ t = Holds(d) - TicksPerToken
  OBVIOUS
<1> HIDE DEF a, n, t
\* What the client was given since its request i, this one included.
<1>8. ASSUME NEW i \in 1..n
      PROVE  /\ admitted'[d][i] \in Nat /\ admitted'[d][i] <= clock
             /\ t + (n - i + 1) * TicksPerToken <= Full + (clock - admitted'[d][i])
  <2>1. CASE i = n
    <3>1. (n - i + 1) * TicksPerToken = TicksPerToken
      BY <1>7, <2>1, LimitAssumption
    <3>2. t + TicksPerToken <= Full + (clock - clock)
      BY <1>1, <1>2, <1>l, FullIsNat, LimitAssumption
    <3>3. admitted'[d][i] = clock
      BY <1>7, <2>1
    <3>4. t + (n - i + 1) * TicksPerToken <= Full + (clock - admitted'[d][i])
      BY <3>1, <3>2, <3>3
    <3>5. clock \in Nat /\ clock <= clock
      BY <1>1
    <3> QED
      BY <3>3, <3>4, <3>5
  <2>2. CASE i # n
    <3>1. i \in 1..(n - 1) /\ admitted'[d][i] = a[i] /\ a[i] \in Nat
      BY <1>7, <2>2
    <3>2. a[i] <= clock /\ Holds(d) + (Len(a) - i + 1) * TicksPerToken <= Full + (clock - a[i])
      BY <1>7, <1>l, <3>1 DEF LimitInv, Budgeted
    <3> DEFINE s == (n - i) * TicksPerToken
    <3>3. (n - i + 1) * TicksPerToken = s + TicksPerToken /\ s \in Int
      BY <1>7, LimitAssumption
    <3>4. (Len(a) - i + 1) * TicksPerToken = s
      <4>1. Len(a) - i + 1 = n - i
        BY <1>7, <1>l
      <4> QED
        BY <4>1
    <3> HIDE DEF s
    <3>5. t + (s + TicksPerToken) <= Full + (clock - a[i])
      BY <1>1, <1>2, <1>l, <3>1, <3>2, <3>3, <3>4, FullIsNat, LimitAssumption
    <3> QED
      BY <3>1, <3>2, <3>3, <3>5
  <2> QED
    BY <2>1, <2>2
<1>9. Budgeted'
  <2> SUFFICES ASSUME NEW c \in Clients, NEW i \in DOMAIN admitted'[c]
               PROVE  /\ admitted'[c][i] <= clock'
                      /\ Holds(c)' + (Len(admitted'[c]) - i + 1) * TicksPerToken
                           <= Full + (clock' - admitted'[c][i])
    BY DEF Budgeted, Full
  <2>1. CASE c = d
    BY <1>1, <1>4, <1>7, <1>8, <2>1
  <2>2. CASE c # d
    BY <1>1, <1>4, <1>6, <2>2 DEF LimitInv, Budgeted
  <2> QED
    BY <2>1, <2>2
<1>10. RateCapped'
  <2> SUFFICES ASSUME NEW c \in Clients,
                      NEW i \in DOMAIN admitted'[c], NEW j \in DOMAIN admitted'[c], i <= j
               PROVE  (j - i + 1) * TicksPerToken <= Full + (admitted'[c][j] - admitted'[c][i])
    BY DEF RateCapped, Full
  <2>1. CASE c # d
    BY <1>6, <2>1 DEF LimitInv, RateCapped
  <2>2. CASE c = d /\ j # n
    <3>1. i \in 1..(n - 1) /\ j \in 1..(n - 1)
      BY <1>7, <2>2
    <3>2. /\ i \in DOMAIN admitted[d] /\ j \in DOMAIN admitted[d]
          /\ admitted'[c][i] = admitted[d][i] /\ admitted'[c][j] = admitted[d][j]
      BY <1>7, <1>l, <2>2, <3>1
    <3> QED
      BY <3>2 DEF LimitInv, RateCapped
  <2>3. CASE c = d /\ j = n
    <3>1. i \in 1..n
      BY <1>7, <2>3
    <3>2. t + (n - i + 1) * TicksPerToken <= Full + (clock - admitted'[d][i])
      BY <1>8, <3>1
    <3> DEFINE s == (n - i + 1) * TicksPerToken
    <3>a. admitted'[d][i] \in Nat
      BY <1>8, <3>1
    <3>3. s \in Int
      BY <1>7, <3>1, LimitAssumption
    <3> HIDE DEF s
    <3>4. s <= Full + (clock - admitted'[d][i])
      <4>1. t + s <= Full + (clock - admitted'[d][i])
        BY <3>2 DEF s
      <4>2. t \in Nat /\ clock \in Nat
        BY <1>1, <1>3, FullIsNat
      <4> QED
        BY <3>a, <3>3, <4>1, <4>2, FullIsNat
    <3> QED
      BY <1>7, <2>3, <3>4 DEF s
  <2> QED
    BY <2>1, <2>2, <2>3
<1> QED
  BY <1>5, <1>9, <1>10 DEF LimitInv

-----------------------------------------------------------------------------
\* In no span of time does a client have more requests let through than a full
\* bucket and what was refilled meanwhile, however often it is forgotten
\* (RateLimitMiddleware.dispatch, _evict_idle).
THEOREM RatesAreCapped == LimitSpec => []RateCapped
<1>1. LimitInv /\ [LimitNext]_limitVars => LimitInv'
  <2> SUFFICES ASSUME LimitInv, [LimitNext]_limitVars PROVE LimitInv'
    OBVIOUS
  <2>1. CASE TimePasses
    BY <2>1, TimeKeepsBudget
  <2>2. ASSUME NEW c \in Clients, Admit(c) PROVE LimitInv'
    BY <2>2, AdmitKeepsBudget
  <2>3. ASSUME NEW c \in Clients, Refuse(c) PROVE LimitInv'
    BY <2>3, RefuseKeepsBudget
  <2>4. CASE UNCHANGED limitVars
    BY <2>4 DEF limitVars, LimitInv, LimitTypeOK, Budgeted, RateCapped, Holds, Refilled, Full
  <2> QED
    BY <2>1, <2>2, <2>3, <2>4 DEF LimitNext
<1>2. LimitInv => RateCapped
  BY DEF LimitInv
<1> QED
  BY <1>1, <1>2, LimitInitInv, PTL DEF LimitSpec
=============================================================================
