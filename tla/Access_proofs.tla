--------------------------- MODULE Access_proofs ----------------------------
(***************************************************************************)
(* Revocation and entitlements, for any users, browsers, flows, requests   *)
(* and clock.  Two arguments: the arithmetic of the two roundings, which   *)
(* a check must survive whatever the resolution of the clock, and Granted, *)
(* which every place a token is made, copied or minted anew keeps: whoever *)
(* bears the entitlement in a token has it or had it when it was read.     *)
(***************************************************************************)
EXTENDS Access, TLAPS

Sittings == [user : Users, made : Nat]
Bearers == [user : Users, made : Nat, docs : BOOLEAN, read : Nat]

FlowOK ==
  /\ flow \in [Flows -> [at : {"idle", "started", "code", "spent"},
                         browser : Browsers \cup {None}, user : Users \cup {None}]]
  /\ \A f \in Flows : flow[f].at \in {"code", "spent"} => flow[f].user \in Users

\* A callback past its check goes with a flow someone signed in.
CallbackOK ==
  /\ callback \in [Callbacks -> [at : {"idle", "verified", "subject", "update", "insert",
                                       "mint", "over"},
                                 flow : Flows \cup {None}, browser : Browsers \cup {None}]]
  /\ \A c \in Callbacks : callback[c].at \notin {"idle", "over"} =>
       callback[c].flow \in Flows /\ flow[callback[c].flow].at \in {"code", "spent"}

UsersOK ==
  /\ user \in [Users -> [exists : BOOLEAN, docs : {"none", "held", "revoked"},
                         stamp : Int]]
  /\ \A u \in Users : user[u].stamp = Never \/ user[u].stamp \in Nat
  /\ \A u \in Users : user[u].docs # "none" => user[u].exists

ClockOK == now \in Nat

LostOK ==
  /\ lost \in [Users -> Int]
  /\ \A u \in Users : lost[u] <= now

OperatorOK ==
  operator.at = "begun" =>
    operator.user \in Users /\ operator.stamp \in Nat /\ operator.stamp <= now

SessionsOK ==
  /\ session \in [Browsers -> Sittings \cup {None}]
  /\ \A b \in Browsers : session[b] # None => session[b] \in Sittings

IssuesOK ==
  /\ issue \in [Browsers -> [at : {"idle", "checked", "read"}, user : Users \cup {None},
                             docs : BOOLEAN, read : Nat]]
  /\ \A b \in Browsers : /\ issue[b].at # "idle" => issue[b].user \in Users
                         /\ issue[b].read <= now

AccessOK ==
  /\ access \in [Browsers -> Bearers \cup {None}]
  /\ \A b \in Browsers : access[b] # None => access[b] \in Bearers /\ access[b].read <= now

QueriesOK ==
  /\ query \in [Queries -> [at : {"idle", "authorised", "forwarded", "accepted", "refused"},
                            token : Bearers \cup {None}]]
  /\ \A q \in Queries : query[q].at # "idle" =>
       query[q].token \in Bearers /\ query[q].token.docs /\ query[q].token.read <= now

\* u has the entitlement, or has lost it since the time it was read for a token.
HadIt(u, read) == user[u].docs = "held" \/ read <= lost[u]

GrantedAccess ==
  \A b \in Browsers : access[b] # None /\ access[b].docs => HadIt(access[b].user, access[b].read)

GrantedIssue ==
  \A b \in Browsers :
    issue[b].at = "read" /\ issue[b].docs => HadIt(issue[b].user, issue[b].read)

GrantedQuery ==
  \A q \in Queries : query[q].at # "idle" => HadIt(query[q].token.user, query[q].token.read)

Inv ==
  /\ FlowOK /\ CallbackOK /\ UsersOK /\ ClockOK /\ LostOK /\ OperatorOK
  /\ SessionsOK /\ IssuesOK /\ AccessOK /\ QueriesOK
  /\ GrantedAccess /\ GrantedIssue /\ GrantedQuery

-----------------------------------------------------------------------------
(* The two roundings. *)

\* A second of a clock of d ticks.
LEMMA Quotient ==
  ASSUME NEW a \in Nat, NEW d \in Nat \ {0}
  PROVE  /\ a \div d \in Nat
         /\ (a \div d) * d <= a
         /\ a < (a \div d) * d + d
  OBVIOUS

\* The roundings of a minting time and of a stamp, as products.
LEMMA Roundings ==
  ASSUME NEW m \in Nat, NEW s \in Nat
  PROVE  /\ Second(m) \in Nat /\ Rounded(s) \in Nat
         /\ Second(m) * TicksPerSecond <= m /\ m < Second(m) * TicksPerSecond + TicksPerSecond
         /\ 2 * (Rounded(s) * TicksPerSecond) <= 2 * s + TicksPerSecond
         /\ 2 * s < 2 * (Rounded(s) * TicksPerSecond) + TicksPerSecond
<1> DEFINE T == TicksPerSecond
           r == (2 * s + T) \div (2 * T)
<1>1. T \in Nat \ {0} /\ 2 * T \in Nat \ {0} /\ 2 * s + T \in Nat
  BY AccessAssumption
<1>2. /\ m \div T \in Nat /\ (m \div T) * T <= m /\ m < (m \div T) * T + T
  BY <1>1, Quotient
<1>3. /\ r \in Nat /\ r * (2 * T) <= 2 * s + T /\ 2 * s + T < r * (2 * T) + 2 * T
  BY <1>1, Quotient
<1>4. r * (2 * T) = 2 * (r * T) /\ r * T \in Nat
  BY <1>1, <1>3
<1> QED
  BY <1>1, <1>2, <1>3, <1>4 DEF Second, Rounded

\* What the comparison of seconds lets through is later than the stamp, and what it
\* refuses is less than a second and a half later.
LEMMA SecondsDecide ==
  ASSUME NEW m \in Nat, NEW s \in Nat
  PROVE  /\ Second(m) > Rounded(s) => m > s
         /\ Second(m) <= Rounded(s) => 2 * (m - s) < 3 * TicksPerSecond
<1> DEFINE T == TicksPerSecond
           k == Second(m)
           r == Rounded(s)
<1>1. /\ k \in Nat /\ r \in Nat /\ T \in Nat \ {0}
      /\ k * T <= m /\ m < k * T + T
      /\ 2 * (r * T) <= 2 * s + T /\ 2 * s < 2 * (r * T) + T
  BY Roundings, AccessAssumption
<1> HIDE DEF T, k, r
<1>2. k > r => k * T >= r * T + T
  BY <1>1
<1>3. k <= r => k * T <= r * T
  BY <1>1
<1>4. k * T \in Nat /\ r * T \in Nat
  BY <1>1
<1> DEFINE kT == k * T
           rT == r * T
<1> HIDE DEF kT, rT
<1>5. /\ kT \in Nat /\ rT \in Nat /\ kT <= m /\ m < kT + T
      /\ 2 * rT <= 2 * s + T /\ 2 * s < 2 * rT + T
      /\ (k > r => kT >= rT + T) /\ (k <= r => kT <= rT)
  BY <1>1, <1>2, <1>3, <1>4 DEF kT, rT
<1>6. k > r => m > s
  BY <1>1, <1>5
<1>7. k <= r => 2 * (m - s) < 3 * T
  BY <1>1, <1>5
<1> QED
  BY <1>6, <1>7 DEF k, r, T

-----------------------------------------------------------------------------
(* The invariant, part by part. *)

LEMMA InvInit == Init => Inv
<1> SUFFICES ASSUME Init PROVE Inv
  OBVIOUS
<1>1. FlowOK /\ CallbackOK
  BY DEF Init, FlowOK, CallbackOK, IdleFlow, IdleCallback
<1>2. UsersOK /\ ClockOK /\ LostOK /\ OperatorOK
  BY AccessAssumption DEF Init, UsersOK, ClockOK, LostOK, OperatorOK, Never, IdleOperator
<1>3. SessionsOK /\ IssuesOK /\ AccessOK /\ QueriesOK
  BY AccessAssumption DEF Init, SessionsOK, IssuesOK, AccessOK, QueriesOK, IdleIssue, IdleQuery
<1>4. GrantedAccess /\ GrantedIssue /\ GrantedQuery
  BY DEF Init, GrantedAccess, GrantedIssue, GrantedQuery, IdleIssue, IdleQuery
<1> QED
  BY <1>1, <1>2, <1>3, <1>4 DEF Inv

\* A code is somebody's.
LEMMA FlowKept == Inv /\ [Next]_vars => FlowOK'
<1> SUFFICES ASSUME Inv, [Next]_vars PROVE FlowOK'
  OBVIOUS
<1> USE DEF Inv, loginVars, tokenVars, opVars
<1>0. ASSUME UNCHANGED flow PROVE FlowOK'
  BY <1>0 DEF FlowOK
<1>1. ASSUME NEW b \in Browsers, NEW f \in Flows, OidcLogin(b, f)
      PROVE  FlowOK'
  BY <1>1 DEF OidcLogin, FlowOK, IdleFlow
<1>2. ASSUME NEW f \in Flows, NEW u \in Users, SignIn(f, u)
      PROVE  FlowOK'
  BY <1>2 DEF SignIn, FlowOK
<1>3. ASSUME NEW c \in Callbacks, ExchangeCode(c)
      PROVE  FlowOK'
  BY <1>3, AccessAssumption DEF ExchangeCode, FlowOK, CallbackOK
<1>4. ASSUME \/ \E c \in Callbacks, f \in Flows : VerifyFlowState(c, f)
             \/ \E c \in Callbacks : LookUpUser(c) \/ UpdateUser(c)
             \/ \E c \in Callbacks : InsertUser(c) \/ EstablishSession(c)
             \/ \E b \in Browsers : FlowExpires(b) \/ CheckSession(b)
             \/ \E b \in Browsers : ReadEntitlements(b) \/ MintAccessToken(b)
             \/ \E b \in Browsers : Logout(b)
             \/ Tick \/ CommitRevocation
             \/ \E q \in Queries, b \in Browsers : CheckAtDocs(q, b)
             \/ \E q \in Queries : Forward(q) \/ CheckAtRetrieval(q)
             \/ \E u \in Users, kind \in Kinds : BeginRevocation(u, kind)
      PROVE  FlowOK'
  BY <1>0, <1>4 DEF VerifyFlowState, LookUpUser, UpdateUser, InsertUser,
     EstablishSession, FlowExpires, CheckSession, ReadEntitlements, MintAccessToken,
     Logout, Tick, CommitRevocation, CheckAtDocs, Forward, CheckAtRetrieval,
     BeginRevocation
<1>5. CASE UNCHANGED vars
  BY <1>0, <1>5 DEF vars
<1> QED
  BY <1>0, <1>1, <1>2, <1>3, <1>4, <1>5 DEF Next, Login

\* A callback keeps its flow, and a flow stays signed in.
LEMMA CallbackKept == Inv /\ [Next]_vars => CallbackOK'
<1> SUFFICES ASSUME Inv, [Next]_vars PROVE CallbackOK'
  OBVIOUS
<1> USE DEF Inv, loginVars, tokenVars, opVars
<1>0. ASSUME UNCHANGED <<flow, callback>> PROVE CallbackOK'
  BY <1>0 DEF CallbackOK
<1>1. ASSUME NEW b \in Browsers, NEW f \in Flows, OidcLogin(b, f)
      PROVE  CallbackOK'
  BY <1>1 DEF OidcLogin, FlowOK, CallbackOK, IdleFlow
<1>2. ASSUME NEW f \in Flows, NEW u \in Users, SignIn(f, u)
      PROVE  CallbackOK'
  BY <1>2, AccessAssumption DEF SignIn, FlowOK, CallbackOK
<1>3. ASSUME NEW c \in Callbacks, NEW f \in Flows, VerifyFlowState(c, f)
      PROVE  CallbackOK'
  BY <1>3, AccessAssumption DEF VerifyFlowState, FlowOK, CallbackOK
<1>4. ASSUME NEW c \in Callbacks, ExchangeCode(c)
      PROVE  CallbackOK'
  BY <1>4, AccessAssumption DEF ExchangeCode, FlowOK, CallbackOK
<1>5. ASSUME NEW c \in Callbacks, LookUpUser(c)
      PROVE  CallbackOK'
  BY <1>5, AccessAssumption DEF LookUpUser, FlowOK, CallbackOK
<1>6. ASSUME NEW c \in Callbacks, UpdateUser(c)
      PROVE  CallbackOK'
  BY <1>6, AccessAssumption DEF UpdateUser, FlowOK, CallbackOK
<1>7. ASSUME NEW c \in Callbacks, InsertUser(c)
      PROVE  CallbackOK'
  BY <1>7, AccessAssumption DEF InsertUser, FlowOK, CallbackOK
<1>8. ASSUME NEW c \in Callbacks, EstablishSession(c)
      PROVE  CallbackOK'
  BY <1>8, AccessAssumption DEF EstablishSession, FlowOK, CallbackOK
<1>9. ASSUME \/ \E b \in Browsers : FlowExpires(b) \/ CheckSession(b)
             \/ \E b \in Browsers : ReadEntitlements(b) \/ MintAccessToken(b)
             \/ \E b \in Browsers : Logout(b)
             \/ Tick \/ CommitRevocation
             \/ \E q \in Queries, b \in Browsers : CheckAtDocs(q, b)
             \/ \E q \in Queries : Forward(q) \/ CheckAtRetrieval(q)
             \/ \E u \in Users, kind \in Kinds : BeginRevocation(u, kind)
      PROVE  CallbackOK'
  BY <1>0, <1>9 DEF FlowExpires, CheckSession, ReadEntitlements, MintAccessToken,
     Logout, Tick, CommitRevocation, CheckAtDocs, Forward, CheckAtRetrieval,
     BeginRevocation
<1>10. CASE UNCHANGED vars
  BY <1>0, <1>10 DEF vars
<1> QED
  BY <1>0, <1>1, <1>2, <1>3, <1>4, <1>5, <1>6, <1>7, <1>8, <1>9, <1>10 DEF Next, Login

\* Who has an entitlement has a row.
LEMMA UsersKept == Inv /\ [Next]_vars => UsersOK'
<1> SUFFICES ASSUME Inv, [Next]_vars PROVE UsersOK'
  OBVIOUS
<1> USE DEF Inv, loginVars, tokenVars, opVars
<1>0. ASSUME UNCHANGED user PROVE UsersOK'
  BY <1>0 DEF UsersOK
<1>1. ASSUME NEW c \in Callbacks, InsertUser(c)
      PROVE  UsersOK'
  <2>1. PICK u \in Users : user' = user \/ user' = [user EXCEPT ![u].exists = TRUE, ![u].docs = "held"]
    BY <1>1, AccessAssumption DEF InsertUser, CallbackOK, FlowOK
  <2>2. CASE user' = user
    BY <2>2 DEF UsersOK
  <2>3. CASE user' = [user EXCEPT ![u].exists = TRUE, ![u].docs = "held"]
    BY <2>3 DEF UsersOK
  <2> QED
    BY <2>1, <2>2, <2>3
<1>2. CASE CommitRevocation
  <2>0. PICK u \in Users : u = operator.user
    BY <1>2 DEF CommitRevocation, OperatorOK
  <2> DEFINE d == IF operator.kind # "all auth" /\ user[u].docs = "held" THEN "revoked"
                  ELSE user[u].docs
             t == IF operator.kind # "entitlement" /\ user[u].exists THEN operator.stamp
                  ELSE user[u].stamp
  <2>1. user' = [user EXCEPT ![u].docs = d, ![u].stamp = t]
    BY <1>2, <2>0 DEF CommitRevocation
  <2>2. /\ user[u].docs \in {"none", "held", "revoked"} /\ user[u].stamp \in Int
        /\ user[u].stamp = Never \/ user[u].stamp \in Nat
        /\ user[u].docs # "none" => user[u].exists
        /\ operator.stamp \in Nat
    BY <1>2 DEF CommitRevocation, OperatorOK, UsersOK
  <2>3. d \in {"none", "held", "revoked"} /\ (d # "none" => user[u].docs # "none")
    BY <2>2
  <2>4. t \in Int /\ (t = Never \/ t \in Nat)
    BY <2>2
  <2> HIDE DEF d, t
  <2>5. user' \in [Users -> [exists : BOOLEAN, docs : {"none", "held", "revoked"}, stamp : Int]]
    BY <2>1, <2>3, <2>4 DEF UsersOK
  <2>6. ASSUME NEW v \in Users
        PROVE  /\ user'[v].stamp = Never \/ user'[v].stamp \in Nat
               /\ user'[v].docs # "none" => user'[v].exists
    <3>1. CASE v = u
      <4>1. user'[v].docs = d /\ user'[v].stamp = t /\ user'[v].exists = user[u].exists
        BY <2>1, <3>1 DEF UsersOK
      <4> QED
        BY <2>2, <2>3, <2>4, <4>1
    <3>2. CASE v # u
      <4>1. user'[v] = user[v]
        BY <2>1, <3>2 DEF UsersOK
      <4> QED
        BY <4>1 DEF UsersOK
    <3> QED
      BY <3>1, <3>2
  <2> QED
    BY <2>5, <2>6 DEF UsersOK
<1>3. ASSUME \/ \E b \in Browsers, f \in Flows : OidcLogin(b, f)
             \/ \E f \in Flows, u \in Users : SignIn(f, u)
             \/ \E c \in Callbacks, f \in Flows : VerifyFlowState(c, f)
             \/ \E c \in Callbacks : ExchangeCode(c) \/ LookUpUser(c)
             \/ \E c \in Callbacks : UpdateUser(c) \/ EstablishSession(c)
             \/ \E b \in Browsers : FlowExpires(b) \/ CheckSession(b)
             \/ \E b \in Browsers : ReadEntitlements(b) \/ MintAccessToken(b)
             \/ \E b \in Browsers : Logout(b)
             \/ Tick
             \/ \E q \in Queries, b \in Browsers : CheckAtDocs(q, b)
             \/ \E q \in Queries : Forward(q) \/ CheckAtRetrieval(q)
             \/ \E u \in Users, kind \in Kinds : BeginRevocation(u, kind)
      PROVE  UsersOK'
  BY <1>0, <1>3 DEF OidcLogin, SignIn, VerifyFlowState, ExchangeCode, LookUpUser,
     UpdateUser, EstablishSession, FlowExpires, CheckSession, ReadEntitlements,
     MintAccessToken, Logout, Tick, CheckAtDocs, Forward, CheckAtRetrieval,
     BeginRevocation
<1>4. CASE UNCHANGED vars
  BY <1>0, <1>4 DEF vars
<1> QED
  BY <1>0, <1>1, <1>2, <1>3, <1>4 DEF Next, Login

\* The clock stops at its bound.
LEMMA ClockKept == Inv /\ [Next]_vars => ClockOK'
<1> SUFFICES ASSUME Inv, [Next]_vars PROVE ClockOK'
  OBVIOUS
<1> USE DEF Inv, loginVars, tokenVars, opVars
<1>0. ASSUME UNCHANGED now PROVE ClockOK'
  BY <1>0 DEF ClockOK
<1>1. CASE Tick
  BY <1>1, AccessAssumption DEF Tick, ClockOK
<1>2. ASSUME \/ \E b \in Browsers, f \in Flows : OidcLogin(b, f)
             \/ \E f \in Flows, u \in Users : SignIn(f, u)
             \/ \E c \in Callbacks, f \in Flows : VerifyFlowState(c, f)
             \/ \E c \in Callbacks : ExchangeCode(c) \/ LookUpUser(c)
             \/ \E c \in Callbacks : UpdateUser(c) \/ InsertUser(c)
             \/ \E c \in Callbacks : EstablishSession(c)
             \/ \E b \in Browsers : FlowExpires(b) \/ CheckSession(b)
             \/ \E b \in Browsers : ReadEntitlements(b) \/ MintAccessToken(b)
             \/ \E b \in Browsers : Logout(b)
             \/ \E q \in Queries, b \in Browsers : CheckAtDocs(q, b)
             \/ \E q \in Queries : Forward(q) \/ CheckAtRetrieval(q)
             \/ \E u \in Users, kind \in Kinds : BeginRevocation(u, kind)
             \/ CommitRevocation
      PROVE  ClockOK'
  BY <1>0, <1>2 DEF OidcLogin, SignIn, VerifyFlowState, ExchangeCode, LookUpUser,
     UpdateUser, InsertUser, EstablishSession, FlowExpires, CheckSession,
     ReadEntitlements, MintAccessToken, Logout, CheckAtDocs, Forward, CheckAtRetrieval,
     BeginRevocation, CommitRevocation
<1>3. CASE UNCHANGED vars
  BY <1>0, <1>3 DEF vars
<1> QED
  BY <1>0, <1>1, <1>2, <1>3 DEF Next, Login

\* Nothing is lost after now.
LEMMA LostKept == Inv /\ [Next]_vars => LostOK'
<1> SUFFICES ASSUME Inv, [Next]_vars PROVE LostOK'
  OBVIOUS
<1> USE DEF Inv, loginVars, tokenVars, opVars
<1>0. ASSUME UNCHANGED <<now, lost>> PROVE LostOK'
  BY <1>0 DEF LostOK
<1>1. CASE Tick
  BY <1>1, AccessAssumption DEF Tick, LostOK, Never, ClockOK
<1>2. CASE CommitRevocation
  <2>1. lost' = lost \/ lost' = [lost EXCEPT ![operator.user] = now]
    BY <1>2 DEF CommitRevocation
  <2>2. now' = now /\ now \in Nat
    BY <1>2 DEF CommitRevocation, ClockOK
  <2> QED
    BY <2>1, <2>2 DEF LostOK
<1>3. ASSUME \/ \E b \in Browsers, f \in Flows : OidcLogin(b, f)
             \/ \E f \in Flows, u \in Users : SignIn(f, u)
             \/ \E c \in Callbacks, f \in Flows : VerifyFlowState(c, f)
             \/ \E c \in Callbacks : ExchangeCode(c) \/ LookUpUser(c)
             \/ \E c \in Callbacks : UpdateUser(c) \/ InsertUser(c)
             \/ \E c \in Callbacks : EstablishSession(c)
             \/ \E b \in Browsers : FlowExpires(b) \/ CheckSession(b)
             \/ \E b \in Browsers : ReadEntitlements(b) \/ MintAccessToken(b)
             \/ \E b \in Browsers : Logout(b)
             \/ \E q \in Queries, b \in Browsers : CheckAtDocs(q, b)
             \/ \E q \in Queries : Forward(q) \/ CheckAtRetrieval(q)
             \/ \E u \in Users, kind \in Kinds : BeginRevocation(u, kind)
      PROVE  LostOK'
  BY <1>0, <1>3 DEF OidcLogin, SignIn, VerifyFlowState, ExchangeCode, LookUpUser,
     UpdateUser, InsertUser, EstablishSession, FlowExpires, CheckSession,
     ReadEntitlements, MintAccessToken, Logout, CheckAtDocs, Forward, CheckAtRetrieval,
     BeginRevocation
<1>4. CASE UNCHANGED vars
  BY <1>0, <1>4 DEF vars
<1> QED
  BY <1>0, <1>1, <1>2, <1>3, <1>4 DEF Next, Login

\* A revocation began before now.
LEMMA OperatorKept == Inv /\ [Next]_vars => OperatorOK'
<1> SUFFICES ASSUME Inv, [Next]_vars PROVE OperatorOK'
  OBVIOUS
<1> USE DEF Inv, loginVars, tokenVars, opVars
<1>0. ASSUME UNCHANGED <<now, operator>> PROVE OperatorOK'
  BY <1>0 DEF OperatorOK
<1>1. CASE Tick
  BY <1>1 DEF Tick, OperatorOK, ClockOK
<1>2. ASSUME NEW u \in Users, NEW kind \in Kinds, BeginRevocation(u, kind)
      PROVE  OperatorOK'
  BY <1>2 DEF BeginRevocation, OperatorOK, ClockOK
<1>3. CASE CommitRevocation
  BY <1>3 DEF CommitRevocation, OperatorOK, IdleOperator
<1>4. ASSUME \/ \E b \in Browsers, f \in Flows : OidcLogin(b, f)
             \/ \E f \in Flows, u \in Users : SignIn(f, u)
             \/ \E c \in Callbacks, f \in Flows : VerifyFlowState(c, f)
             \/ \E c \in Callbacks : ExchangeCode(c) \/ LookUpUser(c)
             \/ \E c \in Callbacks : UpdateUser(c) \/ InsertUser(c)
             \/ \E c \in Callbacks : EstablishSession(c)
             \/ \E b \in Browsers : FlowExpires(b) \/ CheckSession(b)
             \/ \E b \in Browsers : ReadEntitlements(b) \/ MintAccessToken(b)
             \/ \E b \in Browsers : Logout(b)
             \/ \E q \in Queries, b \in Browsers : CheckAtDocs(q, b)
             \/ \E q \in Queries : Forward(q) \/ CheckAtRetrieval(q)
      PROVE  OperatorOK'
  BY <1>0, <1>4 DEF OidcLogin, SignIn, VerifyFlowState, ExchangeCode, LookUpUser,
     UpdateUser, InsertUser, EstablishSession, FlowExpires, CheckSession,
     ReadEntitlements, MintAccessToken, Logout, CheckAtDocs, Forward, CheckAtRetrieval
<1>5. CASE UNCHANGED vars
  BY <1>0, <1>5 DEF vars
<1> QED
  BY <1>0, <1>1, <1>2, <1>3, <1>4, <1>5 DEF Next, Login

\* Sessions are of users.
LEMMA SessionsKept == Inv /\ [Next]_vars => SessionsOK'
<1> SUFFICES ASSUME Inv, [Next]_vars PROVE SessionsOK'
  OBVIOUS
<1> USE DEF Inv, loginVars, tokenVars, opVars
<1>0. ASSUME UNCHANGED session PROVE SessionsOK'
  BY <1>0 DEF SessionsOK
<1>1. ASSUME NEW c \in Callbacks, EstablishSession(c)
      PROVE  SessionsOK'
  BY <1>1, AccessAssumption DEF EstablishSession, SessionsOK, CallbackOK, FlowOK,
     ClockOK, Sittings
<1>2. ASSUME NEW b \in Browsers, Logout(b)
      PROVE  SessionsOK'
  BY <1>2 DEF Logout, SessionsOK
<1>3. ASSUME \/ \E b \in Browsers, f \in Flows : OidcLogin(b, f)
             \/ \E f \in Flows, u \in Users : SignIn(f, u)
             \/ \E c \in Callbacks, f \in Flows : VerifyFlowState(c, f)
             \/ \E c \in Callbacks : ExchangeCode(c) \/ LookUpUser(c)
             \/ \E c \in Callbacks : UpdateUser(c) \/ InsertUser(c)
             \/ \E b \in Browsers : FlowExpires(b) \/ CheckSession(b)
             \/ \E b \in Browsers : ReadEntitlements(b) \/ MintAccessToken(b)
             \/ Tick \/ CommitRevocation
             \/ \E q \in Queries, b \in Browsers : CheckAtDocs(q, b)
             \/ \E q \in Queries : Forward(q) \/ CheckAtRetrieval(q)
             \/ \E u \in Users, kind \in Kinds : BeginRevocation(u, kind)
      PROVE  SessionsOK'
  BY <1>0, <1>3 DEF OidcLogin, SignIn, VerifyFlowState, ExchangeCode, LookUpUser,
     UpdateUser, InsertUser, FlowExpires, CheckSession, ReadEntitlements,
     MintAccessToken, Tick, CommitRevocation, CheckAtDocs, Forward, CheckAtRetrieval,
     BeginRevocation
<1>4. CASE UNCHANGED vars
  BY <1>0, <1>4 DEF vars
<1> QED
  BY <1>0, <1>1, <1>2, <1>3, <1>4 DEF Next, Login

\* A token on its way is for the user of the session.
LEMMA IssuesKept == Inv /\ [Next]_vars => IssuesOK'
<1> SUFFICES ASSUME Inv, [Next]_vars PROVE IssuesOK'
  OBVIOUS
<1> USE DEF Inv, loginVars, tokenVars, opVars
<1>0. ASSUME UNCHANGED <<now, issue>> PROVE IssuesOK'
  BY <1>0 DEF IssuesOK
<1>1. CASE Tick
  BY <1>1 DEF Tick, IssuesOK, ClockOK
<1>2. ASSUME NEW b \in Browsers, CheckSession(b)
      PROVE  IssuesOK'
  <2> DEFINE u == session[b].user
  <2>1. u \in Users
    BY <1>2 DEF CheckSession, HasSession, SessionsOK, Sittings
  <2> DEFINE r == [IdleIssue EXCEPT !.at = "checked", !.user = u]
  <2>2. issue' = [issue EXCEPT ![b] = r]
    BY <1>2 DEF CheckSession
  <2>4. /\ r \in [at : {"idle", "checked", "read"}, user : Users \cup {None},
                docs : BOOLEAN, read : Nat]
        /\ r.user \in Users /\ r.read = 0
    BY <2>1 DEF IdleIssue
  <2>3. now' = now /\ now \in Nat
    BY <1>2 DEF CheckSession, ClockOK
  <2> HIDE DEF u, r
  <2> QED
    BY <2>2, <2>3, <2>4 DEF IssuesOK
<1>3. ASSUME NEW b \in Browsers, ReadEntitlements(b)
      PROVE  IssuesOK'
  <2> DEFINE d == user[issue[b].user].docs = "held"
  <2>1. issue' = [issue EXCEPT ![b].at = "read", ![b].read = now, ![b].docs = d]
    BY <1>3 DEF ReadEntitlements
  <2>2. issue[b].at = "checked" /\ now' = now /\ now \in Nat
    BY <1>3 DEF ReadEntitlements, ClockOK
  <2>3. d \in BOOLEAN
    OBVIOUS
  <2> DEFINE r == [issue[b] EXCEPT !.at = "read", !.read = now, !.docs = d]
  <2> HIDE DEF d
  <2>4. /\ r \in [at : {"idle", "checked", "read"}, user : Users \cup {None},
                docs : BOOLEAN, read : Nat]
        /\ r.user \in Users /\ r.read = now
    BY <2>2, <2>3 DEF IssuesOK
  <2>5. issue' = [issue EXCEPT ![b] = r]
    BY <2>1 DEF IssuesOK
  <2> HIDE DEF r
  <2> QED
    BY <2>2, <2>4, <2>5 DEF IssuesOK
<1>4. ASSUME NEW b \in Browsers, MintAccessToken(b)
      PROVE  IssuesOK'
  BY <1>4 DEF MintAccessToken, IssuesOK, IdleIssue, ClockOK
<1>5. ASSUME \/ \E b \in Browsers, f \in Flows : OidcLogin(b, f)
             \/ \E f \in Flows, u \in Users : SignIn(f, u)
             \/ \E c \in Callbacks, f \in Flows : VerifyFlowState(c, f)
             \/ \E c \in Callbacks : ExchangeCode(c) \/ LookUpUser(c)
             \/ \E c \in Callbacks : UpdateUser(c) \/ InsertUser(c)
             \/ \E c \in Callbacks : EstablishSession(c)
             \/ \E b \in Browsers : FlowExpires(b) \/ Logout(b)
             \/ \E q \in Queries, b \in Browsers : CheckAtDocs(q, b)
             \/ \E q \in Queries : Forward(q) \/ CheckAtRetrieval(q)
             \/ \E u \in Users, kind \in Kinds : BeginRevocation(u, kind)
             \/ CommitRevocation
      PROVE  IssuesOK'
  BY <1>0, <1>5 DEF OidcLogin, SignIn, VerifyFlowState, ExchangeCode, LookUpUser,
     UpdateUser, InsertUser, EstablishSession, FlowExpires, Logout, CheckAtDocs,
     Forward, CheckAtRetrieval, BeginRevocation, CommitRevocation
<1>6. CASE UNCHANGED vars
  BY <1>0, <1>6 DEF vars
<1> QED
  BY <1>0, <1>1, <1>2, <1>3, <1>4, <1>5, <1>6 DEF Next, Login

\* Bearers hold what was read for them.
LEMMA AccessKept == Inv /\ [Next]_vars => AccessOK'
<1> SUFFICES ASSUME Inv, [Next]_vars PROVE AccessOK'
  OBVIOUS
<1> USE DEF Inv, loginVars, tokenVars, opVars
<1>0. ASSUME UNCHANGED <<now, access>> PROVE AccessOK'
  BY <1>0 DEF AccessOK
<1>1. CASE Tick
  BY <1>1 DEF Tick, AccessOK, ClockOK, Bearers
<1>2. ASSUME NEW b \in Browsers, MintAccessToken(b)
      PROVE  AccessOK'
  BY <1>2 DEF MintAccessToken, AccessOK, IssuesOK, ClockOK, Bearers
<1>3. ASSUME \/ \E b \in Browsers, f \in Flows : OidcLogin(b, f)
             \/ \E f \in Flows, u \in Users : SignIn(f, u)
             \/ \E c \in Callbacks, f \in Flows : VerifyFlowState(c, f)
             \/ \E c \in Callbacks : ExchangeCode(c) \/ LookUpUser(c)
             \/ \E c \in Callbacks : UpdateUser(c) \/ InsertUser(c)
             \/ \E c \in Callbacks : EstablishSession(c)
             \/ \E b \in Browsers : FlowExpires(b) \/ CheckSession(b)
             \/ \E b \in Browsers : ReadEntitlements(b) \/ Logout(b)
             \/ \E q \in Queries, b \in Browsers : CheckAtDocs(q, b)
             \/ \E q \in Queries : Forward(q) \/ CheckAtRetrieval(q)
             \/ \E u \in Users, kind \in Kinds : BeginRevocation(u, kind)
             \/ CommitRevocation
      PROVE  AccessOK'
  BY <1>0, <1>3 DEF OidcLogin, SignIn, VerifyFlowState, ExchangeCode, LookUpUser,
     UpdateUser, InsertUser, EstablishSession, FlowExpires, CheckSession,
     ReadEntitlements, Logout, CheckAtDocs, Forward, CheckAtRetrieval, BeginRevocation,
     CommitRevocation
<1>4. CASE UNCHANGED vars
  BY <1>0, <1>4 DEF vars
<1> QED
  BY <1>0, <1>1, <1>2, <1>3, <1>4 DEF Next, Login

\* Only tokens with the entitlement are let through.
LEMMA QueriesKept == Inv /\ [Next]_vars => QueriesOK'
<1> SUFFICES ASSUME Inv, [Next]_vars PROVE QueriesOK'
  OBVIOUS
<1> USE DEF Inv, loginVars, tokenVars, opVars
<1>0. ASSUME UNCHANGED <<now, query>> PROVE QueriesOK'
  BY <1>0 DEF QueriesOK
<1>1. CASE Tick
  BY <1>1 DEF Tick, QueriesOK, ClockOK, Bearers
<1>2. ASSUME NEW q \in Queries, NEW b \in Browsers, CheckAtDocs(q, b)
      PROVE  QueriesOK'
  BY <1>2 DEF CheckAtDocs, QueriesOK, AccessOK
<1>3. ASSUME NEW q \in Queries, Forward(q)
      PROVE  QueriesOK'
  <2> DEFINE t == [query[q].token EXCEPT !.made = now]
  <2>1. query[q].at = "authorised" /\ now' = now /\ now \in Nat
    BY <1>3 DEF Forward, ClockOK
  <2>2. query[q].token \in Bearers
    BY <2>1 DEF QueriesOK
  <2>3. t \in Bearers /\ t.docs = query[q].token.docs /\ t.read = query[q].token.read
    BY <2>1, <2>2 DEF Bearers
  <2>4. query' = [query EXCEPT ![q] = [query[q] EXCEPT !.at = "forwarded", !.token = t]]
    BY <1>3 DEF Forward, QueriesOK
  <2> HIDE DEF t
  <2> QED
    BY <2>1, <2>3, <2>4 DEF QueriesOK
<1>4. ASSUME NEW q \in Queries, CheckAtRetrieval(q)
      PROVE  QueriesOK'
  BY <1>4 DEF CheckAtRetrieval, QueriesOK
<1>5. ASSUME \/ \E b \in Browsers, f \in Flows : OidcLogin(b, f)
             \/ \E f \in Flows, u \in Users : SignIn(f, u)
             \/ \E c \in Callbacks, f \in Flows : VerifyFlowState(c, f)
             \/ \E c \in Callbacks : ExchangeCode(c) \/ LookUpUser(c)
             \/ \E c \in Callbacks : UpdateUser(c) \/ InsertUser(c)
             \/ \E c \in Callbacks : EstablishSession(c)
             \/ \E b \in Browsers : FlowExpires(b) \/ CheckSession(b)
             \/ \E b \in Browsers : ReadEntitlements(b) \/ MintAccessToken(b)
             \/ \E b \in Browsers : Logout(b)
             \/ \E u \in Users, kind \in Kinds : BeginRevocation(u, kind)
             \/ CommitRevocation
      PROVE  QueriesOK'
  BY <1>0, <1>5 DEF OidcLogin, SignIn, VerifyFlowState, ExchangeCode, LookUpUser,
     UpdateUser, InsertUser, EstablishSession, FlowExpires, CheckSession,
     ReadEntitlements, MintAccessToken, Logout, BeginRevocation, CommitRevocation
<1>6. CASE UNCHANGED vars
  BY <1>0, <1>6 DEF vars
<1> QED
  BY <1>0, <1>1, <1>2, <1>3, <1>4, <1>5, <1>6 DEF Next, Login

\* Nobody's token says more than was there to be read.
LEMMA GrantedAccessKept == Inv /\ [Next]_vars => GrantedAccess'
<1> SUFFICES ASSUME Inv, [Next]_vars PROVE GrantedAccess'
  OBVIOUS
<1> USE DEF Inv, loginVars, tokenVars, opVars
<1>0. ASSUME UNCHANGED <<user, lost, access>> PROVE GrantedAccess'
  BY <1>0 DEF GrantedAccess, HadIt
<1>1. ASSUME NEW c \in Callbacks, InsertUser(c)
      PROVE  GrantedAccess'
  BY <1>1 DEF InsertUser, GrantedAccess, HadIt, UsersOK, CallbackOK, FlowOK, AccessOK,
     Bearers
<1>2. ASSUME NEW b \in Browsers, MintAccessToken(b)
      PROVE  GrantedAccess'
  BY <1>2 DEF MintAccessToken, GrantedAccess, HadIt, GrantedIssue, IssuesOK, AccessOK
<1>3. CASE CommitRevocation
  BY <1>3 DEF CommitRevocation, GrantedAccess, HadIt, UsersOK, LostOK, OperatorOK,
     ClockOK, AccessOK, Bearers, Never
<1>4. ASSUME \/ \E b \in Browsers, f \in Flows : OidcLogin(b, f)
             \/ \E f \in Flows, u \in Users : SignIn(f, u)
             \/ \E c \in Callbacks, f \in Flows : VerifyFlowState(c, f)
             \/ \E c \in Callbacks : ExchangeCode(c) \/ LookUpUser(c)
             \/ \E c \in Callbacks : UpdateUser(c) \/ EstablishSession(c)
             \/ \E b \in Browsers : FlowExpires(b) \/ CheckSession(b)
             \/ \E b \in Browsers : ReadEntitlements(b) \/ Logout(b)
             \/ Tick
             \/ \E q \in Queries, b \in Browsers : CheckAtDocs(q, b)
             \/ \E q \in Queries : Forward(q) \/ CheckAtRetrieval(q)
             \/ \E u \in Users, kind \in Kinds : BeginRevocation(u, kind)
      PROVE  GrantedAccess'
  BY <1>0, <1>4 DEF OidcLogin, SignIn, VerifyFlowState, ExchangeCode, LookUpUser,
     UpdateUser, EstablishSession, FlowExpires, CheckSession, ReadEntitlements, Logout,
     Tick, CheckAtDocs, Forward, CheckAtRetrieval, BeginRevocation
<1>5. CASE UNCHANGED vars
  BY <1>0, <1>5 DEF vars
<1> QED
  BY <1>0, <1>1, <1>2, <1>3, <1>4, <1>5 DEF Next, Login

\* Nor does a token on its way.
LEMMA GrantedIssueKept == Inv /\ [Next]_vars => GrantedIssue'
<1> SUFFICES ASSUME Inv, [Next]_vars PROVE GrantedIssue'
  OBVIOUS
<1> USE DEF Inv, loginVars, tokenVars, opVars
<1>0. ASSUME UNCHANGED <<user, lost, issue>> PROVE GrantedIssue'
  BY <1>0 DEF GrantedIssue, HadIt
<1>1. ASSUME NEW c \in Callbacks, InsertUser(c)
      PROVE  GrantedIssue'
  BY <1>1 DEF InsertUser, GrantedIssue, HadIt, UsersOK, CallbackOK, FlowOK, IssuesOK
<1>2. ASSUME NEW b \in Browsers, CheckSession(b)
      PROVE  GrantedIssue'
  BY <1>2 DEF CheckSession, GrantedIssue, HadIt, IdleIssue, IssuesOK
<1>3. ASSUME NEW b \in Browsers, ReadEntitlements(b)
      PROVE  GrantedIssue'
  BY <1>3 DEF ReadEntitlements, GrantedIssue, HadIt, IssuesOK
<1>4. ASSUME NEW b \in Browsers, MintAccessToken(b)
      PROVE  GrantedIssue'
  BY <1>4 DEF MintAccessToken, GrantedIssue, HadIt, IdleIssue, IssuesOK
<1>5. CASE CommitRevocation
  BY <1>5 DEF CommitRevocation, GrantedIssue, HadIt, UsersOK, LostOK, OperatorOK,
     ClockOK, IssuesOK, Never
<1>6. ASSUME \/ \E b \in Browsers, f \in Flows : OidcLogin(b, f)
             \/ \E f \in Flows, u \in Users : SignIn(f, u)
             \/ \E c \in Callbacks, f \in Flows : VerifyFlowState(c, f)
             \/ \E c \in Callbacks : ExchangeCode(c) \/ LookUpUser(c)
             \/ \E c \in Callbacks : UpdateUser(c) \/ EstablishSession(c)
             \/ \E b \in Browsers : FlowExpires(b) \/ Logout(b)
             \/ Tick
             \/ \E q \in Queries, b \in Browsers : CheckAtDocs(q, b)
             \/ \E q \in Queries : Forward(q) \/ CheckAtRetrieval(q)
             \/ \E u \in Users, kind \in Kinds : BeginRevocation(u, kind)
      PROVE  GrantedIssue'
  BY <1>0, <1>6 DEF OidcLogin, SignIn, VerifyFlowState, ExchangeCode, LookUpUser,
     UpdateUser, EstablishSession, FlowExpires, Logout, Tick, CheckAtDocs, Forward,
     CheckAtRetrieval, BeginRevocation
<1>7. CASE UNCHANGED vars
  BY <1>0, <1>7 DEF vars
<1> QED
  BY <1>0, <1>1, <1>2, <1>3, <1>4, <1>5, <1>6, <1>7 DEF Next, Login

\* Nor does the token of a query, whoever minted it.
LEMMA GrantedQueryKept == Inv /\ [Next]_vars => GrantedQuery'
<1> SUFFICES ASSUME Inv, [Next]_vars PROVE GrantedQuery'
  OBVIOUS
<1> USE DEF Inv, loginVars, tokenVars, opVars
<1>0. ASSUME UNCHANGED <<user, lost, query>> PROVE GrantedQuery'
  BY <1>0 DEF GrantedQuery, HadIt
<1>1. ASSUME NEW c \in Callbacks, InsertUser(c)
      PROVE  GrantedQuery'
  BY <1>1 DEF InsertUser, GrantedQuery, HadIt, UsersOK, CallbackOK, FlowOK, QueriesOK,
     Bearers
<1>2. ASSUME NEW q \in Queries, NEW b \in Browsers, CheckAtDocs(q, b)
      PROVE  GrantedQuery'
  BY <1>2 DEF CheckAtDocs, GrantedQuery, HadIt, GrantedAccess, AccessOK, QueriesOK
<1>3. ASSUME NEW q \in Queries, Forward(q)
      PROVE  GrantedQuery'
  BY <1>3 DEF Forward, GrantedQuery, HadIt, QueriesOK, Bearers
<1>4. ASSUME NEW q \in Queries, CheckAtRetrieval(q)
      PROVE  GrantedQuery'
  BY <1>4 DEF CheckAtRetrieval, GrantedQuery, HadIt, QueriesOK
<1>5. CASE CommitRevocation
  <2> DEFINE u == operator.user
             d == IF operator.kind # "all auth" /\ user[u].docs = "held" THEN "revoked"
                  ELSE user[u].docs
             t == IF operator.kind # "entitlement" /\ user[u].exists THEN operator.stamp
                  ELSE user[u].stamp
  <2>1. /\ u \in Users /\ query' = query
        /\ user' = [user EXCEPT ![u].docs = d, ![u].stamp = t]
        /\ lost' = IF operator.kind # "all auth" /\ user[u].docs = "held"
                   THEN [lost EXCEPT ![u] = now] ELSE lost
    BY <1>5 DEF CommitRevocation, OperatorOK
  <2> SUFFICES ASSUME NEW q \in Queries, query[q].at # "idle"
               PROVE  HadIt(query[q].token.user, query[q].token.read)'
    BY <2>1 DEF GrantedQuery
  <2> DEFINE v == query[q].token.user
             m == query[q].token.read
  <2>2. v \in Users /\ m \in Nat /\ m <= now /\ HadIt(v, m)
    BY DEF QueriesOK, Bearers, GrantedQuery
  <2>3. now \in Nat
    BY DEF ClockOK
  <2>4. query'[q].token.user = v /\ query'[q].token.read = m
    BY <2>1
  <2> HIDE DEF v, m
  <2>5. user'[v].docs = "held" \/ m <= lost'[v]
    <3>1. CASE v = u /\ operator.kind # "all auth" /\ user[u].docs = "held"
      BY <2>1, <2>2, <2>3, <3>1 DEF LostOK
    <3>2. CASE v = u /\ ~(operator.kind # "all auth" /\ user[u].docs = "held")
      BY <2>1, <2>2, <3>2 DEF HadIt, UsersOK
    <3>3. CASE v # u
      BY <2>1, <2>2, <3>3 DEF HadIt, UsersOK, LostOK
    <3> QED
      BY <3>1, <3>2, <3>3
  <2> QED
    BY <2>4, <2>5 DEF HadIt
<1>6. ASSUME \/ \E b \in Browsers, f \in Flows : OidcLogin(b, f)
             \/ \E f \in Flows, u \in Users : SignIn(f, u)
             \/ \E c \in Callbacks, f \in Flows : VerifyFlowState(c, f)
             \/ \E c \in Callbacks : ExchangeCode(c) \/ LookUpUser(c)
             \/ \E c \in Callbacks : UpdateUser(c) \/ EstablishSession(c)
             \/ \E b \in Browsers : FlowExpires(b) \/ CheckSession(b)
             \/ \E b \in Browsers : ReadEntitlements(b) \/ MintAccessToken(b)
             \/ \E b \in Browsers : Logout(b)
             \/ Tick
             \/ \E u \in Users, kind \in Kinds : BeginRevocation(u, kind)
      PROVE  GrantedQuery'
  BY <1>0, <1>6 DEF OidcLogin, SignIn, VerifyFlowState, ExchangeCode, LookUpUser,
     UpdateUser, EstablishSession, FlowExpires, CheckSession, ReadEntitlements,
     MintAccessToken, Logout, Tick, BeginRevocation
<1>7. CASE UNCHANGED vars
  BY <1>0, <1>7 DEF vars
<1> QED
  BY <1>0, <1>1, <1>2, <1>3, <1>4, <1>5, <1>6, <1>7 DEF Next, Login

\* The invariant holds throughout.
LEMMA InvHolds == Spec => []Inv
<1>1. Inv /\ [Next]_vars => Inv'
  BY FlowKept, CallbackKept, UsersKept, ClockKept, LostKept, OperatorKept, SessionsKept,
     IssuesKept, AccessKept, QueriesKept, GrantedAccessKept, GrantedIssueKept, GrantedQueryKept
     DEF Inv
<1> QED
  BY <1>1, InvInit, PTL DEF Spec

-----------------------------------------------------------------------------
\* No login, refresh or hop between services lets a query through with an entitlement
\* its user did not have when it was read (get_user_entitlements, issue_access_token,
\* docs-api's token for the retrieval worker).
THEOREM EntitlementsAreRead == Spec => []EntitlementWasHeld
<1>1. Inv => EntitlementWasHeld
  BY DEF Inv, GrantedQuery, HadIt, EntitlementWasHeld
<1> QED
  BY <1>1, InvHolds, PTL

\* A revoked entitlement is not given back by the default of a login
\* (get_or_create_user).
THEOREM RevokedForGood == Spec => RevokedStaysRevoked
<1> DEFINE Stays == \A u \in Users : user[u].docs = "revoked" => user'[u].docs = "revoked"
<1>1. Inv /\ [Next]_vars => [Stays]_vars
  <2> SUFFICES ASSUME Inv, [Next]_vars, NEW v \in Users, user[v].docs = "revoked"
               PROVE  user'[v].docs = "revoked"
    OBVIOUS
  <2> USE DEF Inv, loginVars, tokenVars, opVars
  <2>0. ASSUME UNCHANGED user PROVE user'[v].docs = "revoked"
    BY <2>0
  <2>1. ASSUME NEW c \in Callbacks, InsertUser(c) PROVE user'[v].docs = "revoked"
    <3>1. PICK u : user' = user \/ (~user[u].exists
                     /\ user' = [user EXCEPT ![u].exists = TRUE, ![u].docs = "held"])
      BY <2>1 DEF InsertUser
    <3> QED
      BY <3>1 DEF UsersOK
  <2>2. CASE CommitRevocation
    <3>1. PICK u, d, t : /\ user' = [user EXCEPT ![u].docs = d, ![u].stamp = t]
                         /\ d = "revoked" \/ d = user[u].docs
      BY <2>2 DEF CommitRevocation
    <3> QED
      BY <3>1 DEF UsersOK
  <2>3. ASSUME \/ \E b \in Browsers, f \in Flows : OidcLogin(b, f)
               \/ \E f \in Flows, u \in Users : SignIn(f, u)
               \/ \E c \in Callbacks, f \in Flows : VerifyFlowState(c, f)
               \/ \E c \in Callbacks : ExchangeCode(c) \/ LookUpUser(c)
               \/ \E c \in Callbacks : UpdateUser(c) \/ EstablishSession(c)
               \/ \E b \in Browsers : FlowExpires(b) \/ CheckSession(b)
               \/ \E b \in Browsers : ReadEntitlements(b) \/ MintAccessToken(b)
               \/ \E b \in Browsers : Logout(b)
               \/ Tick
               \/ \E q \in Queries, b \in Browsers : CheckAtDocs(q, b)
               \/ \E q \in Queries : Forward(q) \/ CheckAtRetrieval(q)
               \/ \E u \in Users, kind \in Kinds : BeginRevocation(u, kind)
       PROVE  user'[v].docs = "revoked"
    BY <2>0, <2>3 DEF OidcLogin, SignIn, VerifyFlowState, ExchangeCode, LookUpUser,
     UpdateUser, EstablishSession, FlowExpires, CheckSession, ReadEntitlements,
     MintAccessToken, Logout, Tick, CheckAtDocs, Forward, CheckAtRetrieval,
     BeginRevocation
  <2>4. CASE UNCHANGED vars
    BY <2>0, <2>4 DEF vars
  <2> QED
    BY <2>0, <2>1, <2>2, <2>3, <2>4 DEF Next, Login
<1> QED
  BY <1>1, InvHolds, PTL DEF Spec, RevokedStaysRevoked

\* What a check accepts after a revocation is later than its stamp.
LEMMA AcceptedIsLater ==
  ASSUME UsersOK, NEW t, t.user \in Users, t.made \in Nat, NEW ttl,
         Accepted(t, ttl), Revoked(t.user)
  PROVE  t.made > user[t.user].stamp
<1> DEFINE m == t.made
           s == user[t.user].stamp
<1>1. m \in Nat /\ s \in Nat
  BY DEF UsersOK, Revoked
<1>2. ~(Second(m) <= Rounded(s))
  BY DEF Accepted, IssuedBeforeRevocation
<1> HIDE DEF m, s
<1>3. Second(m) \in Nat /\ Rounded(s) \in Nat
  BY <1>1, Roundings
<1>4. Second(m) > Rounded(s)
  BY <1>2, <1>3
<1>5. m > s
  BY <1>1, <1>4, SecondsDecide
<1> QED
  BY <1>5 DEF m, s

\* Only the check of the session starts the minting of a token.
LEMMA StartsChecked ==
  ASSUME Inv, [Next]_vars, NEW b \in Browsers, issue[b].at = "idle", issue'[b].at = "checked"
  PROVE  HasSession(b)
<1> USE DEF Inv, IssuesOK, loginVars, tokenVars, opVars
<1>1. ASSUME NEW a \in Browsers, CheckSession(a) PROVE HasSession(b)
  BY <1>1 DEF CheckSession
<1>2. ASSUME NEW a \in Browsers, ReadEntitlements(a) \/ MintAccessToken(a) PROVE FALSE
  BY <1>2 DEF ReadEntitlements, MintAccessToken, IdleIssue
<1>3. UNCHANGED issue => FALSE
  OBVIOUS
<1>4. Login \/ Tick => UNCHANGED issue
  BY DEF Login, OidcLogin, SignIn, VerifyFlowState, ExchangeCode, LookUpUser, UpdateUser,
     InsertUser, EstablishSession, FlowExpires, Tick
<1>5. ASSUME \/ \E a \in Browsers : Logout(a)
             \/ \E q \in Queries, a \in Browsers : CheckAtDocs(q, a)
             \/ \E q \in Queries : Forward(q) \/ CheckAtRetrieval(q)
             \/ \E u \in Users, kind \in Kinds : BeginRevocation(u, kind)
             \/ CommitRevocation
      PROVE  UNCHANGED issue
  BY <1>5 DEF Logout, CheckAtDocs, Forward, CheckAtRetrieval, BeginRevocation, CommitRevocation
<1>6. UNCHANGED vars => UNCHANGED issue
  BY DEF vars
<1> QED
  BY <1>1, <1>2, <1>3, <1>4, <1>5, <1>6 DEF Next

\* What the steps of a query do, and that no other step touches one.
LEMMA QuerySteps ==
  ASSUME Inv, [Next]_vars, NEW q \in Queries, query'[q] # query[q]
  PROVE  \/ \E b \in Browsers : CheckAtDocs(q, b)
         \/ Forward(q) \/ CheckAtRetrieval(q)
<1> USE DEF Inv, QueriesOK, loginVars, tokenVars, opVars
<1>1. Login \/ Tick => UNCHANGED query
  BY DEF Login, OidcLogin, SignIn, VerifyFlowState, ExchangeCode, LookUpUser, UpdateUser,
     InsertUser, EstablishSession, FlowExpires, Tick
<1>2. ASSUME \/ \E b \in Browsers : CheckSession(b) \/ ReadEntitlements(b)
             \/ \E b \in Browsers : MintAccessToken(b) \/ Logout(b)
             \/ \E u \in Users, kind \in Kinds : BeginRevocation(u, kind)
             \/ CommitRevocation
      PROVE  UNCHANGED query
  BY <1>2 DEF CheckSession, ReadEntitlements, MintAccessToken, Logout, BeginRevocation,
     CommitRevocation
<1>3. ASSUME NEW p \in Queries, p # q, Forward(p) \/ CheckAtRetrieval(p) PROVE query'[q] = query[q]
  BY <1>3 DEF Forward, CheckAtRetrieval
<1>4. ASSUME NEW p \in Queries, p # q, NEW b \in Browsers, CheckAtDocs(p, b)
      PROVE  query'[q] = query[q]
  BY <1>4 DEF CheckAtDocs
<1>5. UNCHANGED vars => UNCHANGED query
  BY DEF vars
<1> QED
  BY <1>1, <1>2, <1>3, <1>4, <1>5 DEF Next

\* A check of a query that lets it through.
LEMMA ChecksAccept ==
  ASSUME Inv, [Next]_vars, NEW q \in Queries,
         \/ query[q].at # "authorised" /\ query'[q].at = "authorised"
         \/ query[q].at = "forwarded" /\ query'[q].at = "accepted"
  PROVE  query'[q].token \in Bearers /\ Accepted(query'[q].token, AccessTTL)
<1>1. query'[q] # query[q]
  OBVIOUS
<1>2. ASSUME NEW b \in Browsers, CheckAtDocs(q, b)
      PROVE  query'[q].token \in Bearers /\ Accepted(query'[q].token, AccessTTL)
  <2>1. query'[q].token = access[b]
    BY <1>2 DEF CheckAtDocs, Inv, QueriesOK
  <2> QED
    BY <1>2, <2>1 DEF CheckAtDocs, Inv, AccessOK
<1>3. ~Forward(q)
  BY DEF Forward, Inv, QueriesOK
<1>4. CASE CheckAtRetrieval(q)
  <2>1. query'[q].token = query[q].token /\ query'[q].at = "accepted" /\ query[q].at = "forwarded"
    BY <1>4 DEF CheckAtRetrieval, Inv, QueriesOK
  <2>2. Accepted(query[q].token, AccessTTL)
    BY <1>4, <2>1 DEF CheckAtRetrieval, Inv, QueriesOK
  <2> QED
    BY <2>1, <2>2 DEF Inv, QueriesOK
<1> QED
  BY <1>1, <1>2, <1>3, <1>4, QuerySteps

\* After a revocation is committed no check lets through what was minted up to the
\* instant it bears, for any resolution of the clock
\* (is_issued_before_revocation, get_user_auth_revocation_epoch).
THEOREM RevocationsAreFinal == Spec => RevocationIsFinal
<1> DEFINE Later == \A t \in LetThrough : Revoked(t.user) => t.made > user[t.user].stamp
<1>1. Inv /\ [Next]_vars => [Later]_vars
  <2> SUFFICES ASSUME Inv, [Next]_vars, NEW t \in LetThrough, Revoked(t.user)
               PROVE  t.made > user[t.user].stamp
    OBVIOUS
  <2>1. ASSUME NEW b \in Browsers, issue[b].at = "idle", issue'[b].at = "checked", t = session[b]
        PROVE  t \in Sittings /\ Accepted(t, SessionTTL)
    BY <2>1, StartsChecked DEF HasSession, Inv, SessionsOK
  <2>2. ASSUME NEW q \in Queries, t = query'[q].token,
               \/ query[q].at # "authorised" /\ query'[q].at = "authorised"
               \/ query[q].at = "forwarded" /\ query'[q].at = "accepted"
        PROVE  t \in Bearers /\ Accepted(t, AccessTTL)
    BY <2>2, ChecksAccept
  <2>3. (t \in Sittings /\ Accepted(t, SessionTTL)) \/ (t \in Bearers /\ Accepted(t, AccessTTL))
    BY <2>1, <2>2 DEF LetThrough
  <2>4. t.user \in Users /\ t.made \in Nat
    BY <2>3 DEF Sittings, Bearers
  <2> QED
    BY <2>3, <2>4, AcceptedIsLater DEF Inv
<1> QED
  BY <1>1, InvHolds, PTL DEF Spec, RevocationIsFinal

\* A token docs-api has just minted is refused only for having expired, or within a
\* second and a half of a revocation (the rounding of auth_revoked_at and of iat).
THEOREM RefusalsAreNear == Spec => RefusedOnlyAround
<1> DEFINE Near == \A q \in Queries : query[q].at = "forwarded" /\ query'[q].at = "refused" =>
             LET t == query[q].token IN
             \/ Expired(t, AccessTTL)
             \/ 2 * (t.made - user[t.user].stamp) < 3 * TicksPerSecond
<1>1. Inv /\ [Next]_vars => [Near]_vars
  <2> SUFFICES ASSUME Inv, [Next]_vars, NEW q \in Queries,
                      query[q].at = "forwarded", query'[q].at = "refused",
                      ~Expired(query[q].token, AccessTTL)
               PROVE  2 * (query[q].token.made - user[query[q].token.user].stamp)
                        < 3 * TicksPerSecond
    BY DEF Near
  <2> DEFINE t == query[q].token
  <2>1. CheckAtRetrieval(q)
    <3>1. query'[q] # query[q]
      OBVIOUS
    <3>2. \A b \in Browsers : ~CheckAtDocs(q, b)
      BY DEF CheckAtDocs
    <3>3. ~Forward(q)
      BY DEF Forward
    <3> QED
      BY <3>1, <3>2, <3>3, QuerySteps
  <2>2. t.docs /\ t \in Bearers
    BY DEF Inv, QueriesOK
  <2>3. IssuedBeforeRevocation(t)
    BY <2>1, <2>2 DEF CheckAtRetrieval, Accepted, Inv, QueriesOK
  <2> DEFINE m == t.made
             s == user[t.user].stamp
  <2>4. m \in Nat /\ s \in Nat /\ Second(m) <= Rounded(s)
    BY <2>2, <2>3 DEF IssuedBeforeRevocation, Revoked, Bearers, Inv, UsersOK
  <2> HIDE DEF m, s
  <2>5. 2 * (m - s) < 3 * TicksPerSecond
    BY <2>4, SecondsDecide
  <2> QED
    BY <2>5 DEF m, s
<1> QED
  BY <1>1, InvHolds, PTL DEF Spec, RefusedOnlyAround
=============================================================================
