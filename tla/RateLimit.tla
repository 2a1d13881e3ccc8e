------------------------------ MODULE RateLimit -----------------------------
(***************************************************************************)
(* RateLimitMiddleware (middleware.py): one token bucket per client, kept  *)
(* in the memory of the process.  A bucket is refilled when it is looked   *)
(* at, for the time since; a request takes a token or is answered 429.     *)
(* When many clients are tracked, buckets that are full again are dropped. *)
(*                                                                         *)
(* Nothing is awaited between looking a bucket up and taking its token, so *)
(* a request is one step.  Tokens are counted in the ticks that refill     *)
(* them: a request costs TicksPerToken, a bucket holds Full.               *)
(***************************************************************************)
EXTENDS Integers, Sequences, FiniteSets

CONSTANTS
  Clients,        \* leftmost X-Forwarded-For, or the peer
  Capacity,       \* requests a bucket holds
  TicksPerToken,  \* window_seconds / capacity
  MaxBuckets,     \* _max_buckets
  MaxClock        \* bound: ticks of the clock

ASSUME LimitAssumption ==
  /\ {Capacity, TicksPerToken} \subseteq Nat \ {0}
  /\ {MaxBuckets, MaxClock} \subseteq Nat

VARIABLES
  clock,     \* monotonic time, in ticks
  buckets,   \* _buckets: tracked clients to [tokens, last]
  admitted   \* history: admitted[c]: when the requests of c were let through

limitVars == <<clock, buckets, admitted>>

Full == Capacity * TicksPerToken

Least(a, b) == IF a <= b THEN a ELSE b

\* What a bucket holds now.
Refilled(b) == Least(Full, b.tokens + (clock - b.last))

LimitInit ==
  /\ clock = 0
  /\ buckets = <<>>
  /\ admitted = [c \in Clients |-> <<>>]

TimePasses ==
  /\ clock < MaxClock
  /\ clock' = clock + 1
  /\ UNCHANGED <<buckets, admitted>>

\* Mutant: the limit on buckets drops those that are not full, too.
EvictAll == {}

\* _evict_idle: the clients still tracked.
EvictIdle == {c \in DOMAIN buckets : Refilled(buckets[c]) < Full}

\* The clients tracked when c has been looked up, and the tokens c then has.
Tracked(c) ==
  IF c \in DOMAIN buckets THEN DOMAIN buckets
  ELSE {c} \cup (IF Cardinality(DOMAIN buckets) >= MaxBuckets THEN EvictIdle ELSE DOMAIN buckets)

Holds(c) == IF c \in DOMAIN buckets THEN Refilled(buckets[c]) ELSE Full

\* Every other tracked client's bucket as it was, and the bucket of c with what is
\* left in it.
Left(c, tokens) ==
  [k \in Tracked(c) |-> IF k = c THEN [tokens |-> tokens, last |-> clock] ELSE buckets[k]]

Admit(c) ==
  /\ Holds(c) >= TicksPerToken
  /\ buckets' = Left(c, Holds(c) - TicksPerToken)
  /\ admitted' = [admitted EXCEPT ![c] = Append(@, clock)]
  /\ UNCHANGED clock

\* 429: the refill is kept, nothing is taken.
Refuse(c) ==
  /\ Holds(c) < TicksPerToken
  /\ buckets' = Left(c, Holds(c))
  /\ UNCHANGED <<clock, admitted>>

LimitNext ==
  \/ TimePasses
  \/ \E c \in Clients : Admit(c) \/ Refuse(c)

LimitSpec == LimitInit /\ [][LimitNext]_limitVars

-----------------------------------------------------------------------------
\* Whatever span of time is looked at, a client had no more requests let through
\* in it than a full bucket and what was refilled meanwhile; forgetting a client
\* gives it nothing (RateLimitMiddleware: "This absorbs short bursts while capping
\* the sustained rate"; "an idle client re-creates its bucket harmlessly").
RateCapped ==
  \A c \in Clients : \A i, j \in DOMAIN admitted[c] :
     i <= j => (j - i + 1) * TicksPerToken <= Full + (admitted[c][j] - admitted[c][i])
=============================================================================
