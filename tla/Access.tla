------------------------------- MODULE Access -------------------------------
(***************************************************************************)
(* Who may ask, and until when: login through the identity provider, the   *)
(* sessions and access tokens hub-api mints, the checks docs-api and the   *)
(* retrieval worker make on every request, and the operator's revocation   *)
(* script.                                                                 *)
(*                                                                         *)
(* Nothing but the user rows is stored.  A session or token is a signed    *)
(* statement of when it was minted and what was read for it, and it is     *)
(* revoked by comparing that time with one stamp in the user's row.  The   *)
(* comparison is of whole seconds: a token's iat is the second it was      *)
(* minted in, rounded down; the revocation epoch is the stamp rounded to   *)
(* the nearest second by PostgreSQL's cast.  So the clock here ticks       *)
(* TicksPerSecond times a second, and all services share it.               *)
(***************************************************************************)
EXTENDS Integers, FiniteSets

CONSTANTS
  Users,           \* subjects the identity provider signs in
  Browsers,        \* cookie jars
  Flows,           \* visits of GET /auth/login
  Callbacks,       \* requests of GET /auth/callback
  Queries,         \* POST /query requests, each used again once over
  None,            \* no cookie, no token
  TicksPerSecond,  \* resolution of the clock
  SessionTTL,      \* SESSION_TOKEN_TTL_SECONDS
  AccessTTL,       \* ACCESS_TOKEN_TTL_SECONDS
  MaxTime,         \* bound: ticks of the clock
  MaxRevocations   \* bound: runs of the revocation script

ASSUME AccessAssumption ==
  /\ {TicksPerSecond, SessionTTL, AccessTTL} \subseteq Nat \ {0}
  /\ {MaxTime, MaxRevocations} \subseteq Nat
  /\ None \notin Flows

VARIABLES
  now,       \* ticks
  user,      \* users rows, with their entitlement to docs
  flow,      \* what the identity provider knows of a login
  cookie,    \* cookie[b]: the flow cookie
  callback,  \* callback[c]: where a callback request stands
  session,   \* session[b]: the session cookie
  issue,     \* issue[b]: where the POST /auth/token of browser b stands
  access,    \* access[b]: the access token the front end holds
  query,     \* query[q]: where a query stands, and the token it carries
  operator,  \* the revocation script
  runs,      \* runs of it so far
  lost       \* history: lost[u]: when u's entitlement was seen revoked

loginVars == <<flow, cookie, callback>>
tokenVars == <<session, issue, access>>
opVars == <<operator, runs, lost>>
vars == <<now, user, loginVars, tokenVars, query, opVars>>

-----------------------------------------------------------------------------
(* Credentials. *)

\* int(time.time())
Second(tick) == tick \div TicksPerSecond

\* EXTRACT(EPOCH FROM auth_revoked_at)::bigint
Rounded(tick) == (2 * tick + TicksPerSecond) \div (2 * TicksPerSecond)

Never == -1
Revoked(u) == user[u].stamp # Never

\* Mutant: a token of the very second of the revocation is let through.
IssuedStrictlyBefore(t) ==
  Revoked(t.user) /\ Second(t.made) < Rounded(user[t.user].stamp)

\* Mutant: a second of leeway for clocks that disagree.
IssuedBeforeWithLeeway(t) ==
  Revoked(t.user) /\ Second(t.made) <= Rounded(user[t.user].stamp) + 1

\* is_issued_before_revocation
IssuedBeforeRevocation(t) ==
  Revoked(t.user) /\ Second(t.made) <= Rounded(user[t.user].stamp)

Expired(t, ttl) == now >= (Second(t.made) + ttl) * TicksPerSecond

Accepted(t, ttl) == ~Expired(t, ttl) /\ ~IssuedBeforeRevocation(t)

-----------------------------------------------------------------------------
IdleFlow == [at |-> "idle", browser |-> None, user |-> None]
IdleCallback == [at |-> "idle", flow |-> None, browser |-> None]
IdleIssue == [at |-> "idle", user |-> None, docs |-> FALSE, read |-> 0]
IdleQuery == [at |-> "idle", token |-> None]
IdleOperator == [at |-> "idle", user |-> None, kind |-> None, stamp |-> 0]

Init ==
  /\ now = 0
  /\ user = [u \in Users |-> [exists |-> FALSE, docs |-> "none", stamp |-> Never]]
  /\ flow = [f \in Flows |-> IdleFlow]
  /\ cookie = [b \in Browsers |-> None]
  /\ callback = [c \in Callbacks |-> IdleCallback]
  /\ session = [b \in Browsers |-> None]
  /\ issue = [b \in Browsers |-> IdleIssue]
  /\ access = [b \in Browsers |-> None]
  /\ query = [q \in Queries |-> IdleQuery]
  /\ operator = IdleOperator
  /\ runs = 0
  /\ lost = [u \in Users |-> Never]

Tick ==
  /\ now < MaxTime
  /\ now' = now + 1
  /\ UNCHANGED <<user, loginVars, tokenVars, query, opVars>>

-----------------------------------------------------------------------------
(* Login.  A tab asks for /auth/login and is given the flow cookie, which    *)
(* holds state, nonce and PKCE verifier; the identity provider redirects it  *)
(* to /auth/callback with the state and a code, good for one exchange.       *)

OidcLogin(b, f) ==
  /\ flow[f].at = "idle"
  /\ flow' = [flow EXCEPT ![f] = [IdleFlow EXCEPT !.at = "started", !.browser = b]]
  /\ cookie' = [cookie EXCEPT ![b] = f]
  /\ UNCHANGED <<now, user, callback, tokenVars, query, opVars>>

\* At the identity provider.
SignIn(f, u) ==
  /\ flow[f].at = "started"
  /\ flow' = [flow EXCEPT ![f].at = "code", ![f].user = u]
  /\ UNCHANGED <<now, user, cookie, callback, tokenVars, query, opVars>>

\* The redirect, perhaps by a reload, in a browser whose cookie is of this very
\* flow: another tab may have replaced it.
VerifyFlowState(c, f) ==
  LET b == flow[f].browser IN
  /\ callback[c].at = "idle"
  /\ flow[f].at \in {"code", "spent"}
  /\ cookie[b] = f
  /\ callback' = [callback EXCEPT ![c] = [at |-> "verified", flow |-> f, browser |-> b]]
  /\ UNCHANGED <<now, user, flow, cookie, tokenVars, query, opVars>>

\* FLOW_STATE_TTL_SECONDS have passed, at some time or other.
FlowExpires(b) ==
  /\ cookie[b] # None
  /\ cookie' = [cookie EXCEPT ![b] = None]
  /\ UNCHANGED <<now, user, flow, callback, tokenVars, query, opVars>>

\* A code that was exchanged before is refused.
ExchangeCode(c) ==
  LET f == callback[c].flow IN
  /\ callback[c].at = "verified"
  /\ flow' = [flow EXCEPT ![f].at = "spent"]
  /\ callback' = [callback EXCEPT ![c].at = IF flow[f].at = "code" THEN "subject" ELSE "over"]
  /\ UNCHANGED <<now, user, cookie, tokenVars, query, opVars>>

\* get_or_create_user: the SELECT, and what it means for the write.
LookUpUser(c) ==
  /\ callback[c].at = "subject"
  /\ callback' = [callback EXCEPT ![c].at =
       IF user[flow[callback[c].flow].user].exists THEN "update" ELSE "insert"]
  /\ UNCHANGED <<now, user, flow, cookie, tokenVars, query, opVars>>

\* Mutant: the default entitlement is granted at every login.
UpdateUserAndGrant(c) ==
  /\ callback[c].at = "update"
  /\ user' = [user EXCEPT ![flow[callback[c].flow].user].docs = "held"]
  /\ callback' = [callback EXCEPT ![c].at = "mint"]
  /\ UNCHANGED <<now, flow, cookie, tokenVars, query, opVars>>

\* Only last_login_at and display_name change.
UpdateUser(c) ==
  /\ callback[c].at = "update"
  /\ callback' = [callback EXCEPT ![c].at = "mint"]
  /\ UNCHANGED <<now, user, flow, cookie, tokenVars, query, opVars>>

\* The first login inserts the row and the default entitlement; of two first
\* logins the second breaks the unique idp_subject.
InsertUser(c) ==
  LET u == flow[callback[c].flow].user IN
  /\ callback[c].at = "insert"
  /\ callback' = [callback EXCEPT ![c].at = IF user[u].exists THEN "over" ELSE "mint"]
  /\ user' = IF user[u].exists THEN user
             ELSE [user EXCEPT ![u].exists = TRUE, ![u].docs = "held"]
  /\ UNCHANGED <<now, flow, cookie, tokenVars, query, opVars>>

\* The session, and a response that deletes the flow cookie, whichever it is.
EstablishSession(c) ==
  LET b == callback[c].browser IN
  /\ callback[c].at = "mint"
  /\ session' = [session EXCEPT ![b] = [user |-> flow[callback[c].flow].user, made |-> now]]
  /\ cookie' = [cookie EXCEPT ![b] = None]
  /\ callback' = [callback EXCEPT ![c].at = "over"]
  /\ UNCHANGED <<now, user, flow, issue, access, query, opVars>>

Login ==
  \/ \E b \in Browsers, f \in Flows : OidcLogin(b, f)
  \/ \E f \in Flows, u \in Users : SignIn(f, u)
  \/ \E b \in Browsers : FlowExpires(b)
  \/ \E c \in Callbacks, f \in Flows : VerifyFlowState(c, f)
  \/ \E c \in Callbacks : \/ ExchangeCode(c) \/ LookUpUser(c) \/ UpdateUser(c)
                          \/ InsertUser(c) \/ EstablishSession(c)

-----------------------------------------------------------------------------
(* POST /auth/token: the session is checked, the entitlements are read, the  *)
(* token is minted, in that order and without a lock.                        *)

HasSession(b) == session[b] # None /\ Accepted(session[b], SessionTTL)

CheckSession(b) ==
  /\ issue[b].at = "idle"
  /\ HasSession(b)
  /\ issue' = [issue EXCEPT ![b] = [IdleIssue EXCEPT !.at = "checked", !.user = session[b].user]]
  /\ UNCHANGED <<now, user, loginVars, session, access, query, opVars>>

\* Mutant: the entitlements of the last token are used again.
ReadEntitlementsCached(b) ==
  /\ issue[b].at = "checked"
  /\ issue' = [issue EXCEPT ![b].at = "read", ![b].read = now,
                            ![b].docs = IF access[b] # None THEN access[b].docs
                                        ELSE user[issue[b].user].docs = "held"]
  /\ UNCHANGED <<now, user, loginVars, session, access, query, opVars>>

ReadEntitlements(b) ==
  /\ issue[b].at = "checked"
  /\ issue' = [issue EXCEPT ![b].at = "read", ![b].read = now,
                            ![b].docs = user[issue[b].user].docs = "held"]
  /\ UNCHANGED <<now, user, loginVars, session, access, query, opVars>>

MintAccessToken(b) ==
  /\ issue[b].at = "read"
  /\ access' = [access EXCEPT ![b] = [user |-> issue[b].user, made |-> now,
                                     docs |-> issue[b].docs, read |-> issue[b].read]]
  /\ issue' = [issue EXCEPT ![b] = IdleIssue]
  /\ UNCHANGED <<now, user, loginVars, session, query, opVars>>

\* Only the cookies go: what was minted stays good.
Logout(b) ==
  /\ HasSession(b)
  /\ session' = [session EXCEPT ![b] = None]
  /\ UNCHANGED <<now, user, loginVars, issue, access, query, opVars>>

-----------------------------------------------------------------------------
(* POST /query: docs-api checks the token it is given, and then mints one of *)
(* its own, with the entitlements it found in the first, for the retrieval   *)
(* worker, which checks that.                                                *)

CheckAtDocs(q, b) ==
  /\ query[q].at \notin {"authorised", "forwarded"}
  /\ access[b] # None
  /\ Accepted(access[b], AccessTTL)
  /\ access[b].docs
  /\ query' = [query EXCEPT ![q] = [at |-> "authorised", token |-> access[b]]]
  /\ UNCHANGED <<now, user, loginVars, tokenVars, opVars>>

Forward(q) ==
  /\ query[q].at = "authorised"
  /\ query' = [query EXCEPT ![q].at = "forwarded", ![q].token.made = now]
  /\ UNCHANGED <<now, user, loginVars, tokenVars, opVars>>

\* A refusal here is a 502 to the caller.
CheckAtRetrieval(q) ==
  /\ query[q].at = "forwarded"
  /\ query' = [query EXCEPT ![q].at =
       IF Accepted(query[q].token, AccessTTL) /\ query[q].token.docs
       THEN "accepted" ELSE "refused"]
  /\ UNCHANGED <<now, user, loginVars, tokenVars, opVars>>

-----------------------------------------------------------------------------
(* scripts/revoke_user_access.py: one transaction, whose now() is the time it *)
(* began.                                                                     *)

Kinds == {"entitlement", "entitlement and sessions", "all auth"}

BeginRevocation(u, kind) ==
  /\ operator.at = "idle"
  /\ runs < MaxRevocations
  /\ runs' = runs + 1
  /\ operator' = [at |-> "begun", user |-> u, kind |-> kind, stamp |-> now]
  /\ UNCHANGED <<now, user, loginVars, tokenVars, query, lost>>

CommitRevocation ==
  LET u == operator.user
      takes == operator.kind # "all auth" /\ user[u].docs = "held"
      stamps == operator.kind # "entitlement" /\ user[u].exists
  IN  /\ operator.at = "begun"
      /\ operator' = IdleOperator
      /\ user' = [user EXCEPT ![u].docs = IF takes THEN "revoked" ELSE @,
                              ![u].stamp = IF stamps THEN operator.stamp ELSE @]
      /\ lost' = IF takes THEN [lost EXCEPT ![u] = now] ELSE lost
      /\ UNCHANGED <<now, loginVars, tokenVars, query, runs>>

-----------------------------------------------------------------------------
Next ==
  \/ Tick
  \/ Login
  \/ \E b \in Browsers : \/ CheckSession(b) \/ ReadEntitlements(b)
                         \/ MintAccessToken(b) \/ Logout(b)
  \/ \E q \in Queries, b \in Browsers : CheckAtDocs(q, b)
  \/ \E q \in Queries : Forward(q) \/ CheckAtRetrieval(q)
  \/ \E u \in Users, kind \in Kinds : BeginRevocation(u, kind)
  \/ CommitRevocation

Spec == Init /\ [][Next]_vars

-----------------------------------------------------------------------------
Ticks == 0..MaxTime
Sessions == [user : Users, made : Ticks]
Tokens == [user : Users, made : Ticks, docs : BOOLEAN, read : Ticks]

\* Every variable has its type, and nothing is dated after now.
TypeOK ==
  /\ now \in Ticks
  /\ user \in [Users -> [exists : BOOLEAN, docs : {"none", "held", "revoked"},
                         stamp : Ticks \cup {Never}]]
  /\ \A b \in Browsers : /\ session[b] # None => session[b] \in Sessions /\ session[b].made <= now
                         /\ access[b] # None => access[b] \in Tokens /\ access[b].made <= now
                         /\ issue[b].at # "idle" => issue[b].user \in Users
                         /\ issue[b].docs \in BOOLEAN
                         /\ issue[b].read \in 0..now
  /\ \A q \in Queries : query[q].at # "idle" => query[q].token \in Tokens /\ query[q].token.made <= now
  /\ operator.at = "begun" => operator.user \in Users /\ operator.stamp \in 0..now
  /\ runs \in 0..MaxRevocations

\* The credentials a step lets through.
LetThrough ==
  {session[b] : b \in {b \in Browsers : issue[b].at = "idle" /\ issue'[b].at = "checked"}}
  \cup {query'[q].token : q \in {q \in Queries :
         query[q].at # "authorised" /\ query'[q].at = "authorised"}}
  \cup {query'[q].token : q \in {q \in Queries :
         query[q].at = "forwarded" /\ query'[q].at = "accepted"}}

\* Once a revocation is committed, no check of any service lets through a
\* session or a token minted up to the instant the revocation bears, whatever
\* rounding makes of the two times (revoke_user_access.py: "every session and
\* access token issued up to that instant dies on its next use, immediately").
RevocationIsFinal ==
  [][\A t \in LetThrough : Revoked(t.user) => t.made > user[t.user].stamp]_vars

\* Rounding costs a user who signs in again at most a second and a half: a token
\* docs-api has just minted is refused by the retrieval worker only so soon
\* after a revocation, or because it expired on the way.
RefusedOnlyAround ==
  [][\A q \in Queries : query[q].at = "forwarded" /\ query'[q].at = "refused" =>
       LET t == query[q].token IN
       \/ Expired(t, AccessTTL)
       \/ 2 * (t.made - user[t.user].stamp) < 3 * TicksPerSecond]_vars

\* A query that is let through has the entitlement, or was given a token for
\* which it was read while it was held: no login, refresh or hop from service to
\* service brings a revoked entitlement back.
EntitlementWasHeld ==
  \A q \in Queries : query[q].at # "idle" =>
    LET t == query[q].token IN
    user[t.user].docs = "held" \/ t.read <= lost[t.user]

\* A revoked entitlement stays revoked: the default of the first login is not
\* given twice.
RevokedStaysRevoked ==
  [][\A u \in Users : user[u].docs = "revoked" => user'[u].docs = "revoked"]_vars
=============================================================================
