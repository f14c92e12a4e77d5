--------------------------- MODULE RefreshTokens ---------------------------
(***************************************************************************)
(* Accounts and refresh tokens of comment-service: Register, Login,        *)
(* Refresh, and Logout of AuthUsecase, for one user name and role.         *)
(*                                                                         *)
(* A refresh token names a row of refresh_token_session.  Refresh checks   *)
(* the row, makes the next token, and then rotates in a transaction that   *)
(* locks the row and checks it again.  A client may send the same token    *)
(* twice, and refresh and log out at the same time.  Secrets and hashes    *)
(* are left out: every request carries a token the service has issued.     *)
(***************************************************************************)
EXTENDS Integers, FiniteSets

CONSTANTS
  Handlers,   \* requests, each served once
  OpOf,       \* OpOf[h]: "register", "login", "refresh", or "logout"
  NoHandler,  \* not a request
  Faults,     \* the kinds of failure that may happen
  MaxFaults   \* bound: failures in a behaviour

FaultKinds ==
  {"db",      \* the statement or transaction has no effect and errs
   "reply"}   \* it takes effect, and the client gets no answer

ASSUME TokenAssumption ==
  /\ OpOf \in [Handlers -> {"register", "login", "refresh", "logout"}]
  /\ IsFiniteSet(Handlers)
  /\ NoHandler \notin Handlers
  /\ Faults \subseteq FaultKinds
  /\ MaxFaults \in Nat

\* A token is named after the request it was issued to.
VARIABLES
  accountBy,   \* the request that created the account, NoHandler before
  row,         \* row[t]: "none", "live", or "revoked"
  replacedBy,  \* replaced_by[t]
  issued,      \* issued[t]: how many tokens had been issued when t was; 0 if t was not
  expired,     \* the tokens issued up to this number have expired
  held,        \* the tokens clients have been given
  at,          \* at[h]: the step h is at
  token,       \* token[h]: the token h carries
  result,      \* result[h]: the answer of h
  session,     \* session[t]: the register or login t descends from
  loggedOut,   \* the sessions a logout has ended by revoking their live token
  faults       \* failures so far

tokenVars == <<row, replacedBy, issued, session>>
vars == <<accountBy, tokenVars, expired, held, at, token, result, loggedOut, faults>>

NumIssued == Cardinality({t \in Handlers : issued[t] # 0})

TypeOK ==
  /\ accountBy \in Handlers \cup {NoHandler}
  /\ row \in [Handlers -> {"none", "live", "revoked"}]
  /\ replacedBy \in [Handlers -> Handlers \cup {NoHandler}]
  /\ issued \in [Handlers -> 0..Cardinality(Handlers)]
  /\ \A t \in Handlers : issued[t] = 0 <=> row[t] = "none"
  /\ expired \in 0..NumIssued
  /\ held \subseteq {t \in Handlers : row[t] # "none"}
  /\ at \in [Handlers -> {"start", "insert", "store", "rotate", "revoke", "done"}]
  /\ token \in [Handlers -> Handlers \cup {NoHandler}]
  /\ result \in [Handlers -> {"none", "ok", "error"}]
  /\ session \in [Handlers -> Handlers \cup {NoHandler}]
  /\ loggedOut \subseteq Handlers
  /\ faults \in 0..MaxFaults

Init ==
  /\ accountBy = NoHandler
  /\ row = [t \in Handlers |-> "none"]
  /\ replacedBy = [t \in Handlers |-> NoHandler]
  /\ issued = [t \in Handlers |-> 0]
  /\ expired = 0
  /\ held = {}
  /\ at = [h \in Handlers |-> "start"]
  /\ token = [h \in Handlers |-> NoHandler]
  /\ result = [h \in Handlers |-> "none"]
  /\ session = [t \in Handlers |-> NoHandler]
  /\ loggedOut = {}
  /\ faults = 0

NoFault == UNCHANGED faults
Fault(k) == k \in Faults /\ faults < MaxFaults /\ faults' = faults + 1

GoTo(h, step) ==
  /\ at' = [at EXCEPT ![h] = step]
  /\ UNCHANGED result

Answer(h, r) ==
  /\ at' = [at EXCEPT ![h] = "done"]
  /\ result' = [result EXCEPT ![h] = r]

Expired(t) == issued[t] <= expired

\* h's client is given the token issued to h, or the answer is lost.
Deliver(h) ==
  \/ Answer(h, "ok") /\ held' = held \cup {h} /\ NoFault
  \/ Answer(h, "error") /\ UNCHANGED held /\ Fault("reply")

----------------------------------------------------------------------------
(* Register and Login.                                                     *)

FindAccount(h) ==
  /\ at[h] = "start"
  /\ OpOf[h] \in {"register", "login"}
  /\ CASE OpOf[h] = "register" /\ accountBy = NoHandler -> GoTo(h, "insert")
       [] OpOf[h] = "login" /\ accountBy # NoHandler -> GoTo(h, "store")
       [] OTHER -> Answer(h, "error")
  /\ NoFault
  /\ UNCHANGED <<accountBy, tokenVars, expired, held, token, loggedOut>>

\* UNIQUE KEY uk_role_username (role, username)
InsertAccount(h) ==
  \/ accountBy = NoHandler /\ accountBy' = h /\ GoTo(h, "store")
  \/ accountBy # NoHandler /\ UNCHANGED accountBy /\ Answer(h, "error")

CreateUser(h) ==
  /\ at[h] = "insert"
  /\ InsertAccount(h)
  /\ NoFault
  /\ UNCHANGED <<tokenVars, expired, held, token, loggedOut>>

\* The row of the next token, for the session s.
Issue(h, s) ==
  /\ issued' = [issued EXCEPT ![h] = NumIssued + 1]
  /\ session' = [session EXCEPT ![h] = s]

CreateRefreshToken(h) ==
  /\ at[h] = "store"
  /\ Issue(h, h)
  /\ row' = [row EXCEPT ![h] = "live"]
  /\ Deliver(h)
  /\ UNCHANGED <<accountBy, replacedBy, expired, token, loggedOut>>

----------------------------------------------------------------------------
(* Refresh.                                                                *)

Valid(t) == row[t] = "live" /\ ~Expired(t)

\* GetRefreshToken, and the check of what it read.
CheckToken(h, t) ==
  /\ at[h] = "start"
  /\ OpOf[h] = "refresh"
  /\ t \in held
  /\ token' = [token EXCEPT ![h] = t]
  /\ IF Valid(t) THEN GoTo(h, "rotate") ELSE Answer(h, "error")
  /\ NoFault
  /\ UNCHANGED <<accountBy, tokenVars, expired, held, loggedOut>>

\* Mutant: the transaction does not check again.
NoSecondLook(t) == row[t] # "none"

\* What the transaction finds once it has the row lock.
StillValid(t) == Valid(t)

\* Mutant: the successor is stored, and the old row stays live.
ReplaceOnly(h, t) ==
  /\ row' = [row EXCEPT ![h] = "live"]
  /\ replacedBy' = [replacedBy EXCEPT ![t] = h]

Replace(h, t) ==
  /\ row' = [row EXCEPT ![h] = "live", ![t] = "revoked"]
  /\ replacedBy' = [replacedBy EXCEPT ![t] = h]

RotateRefreshToken(h) ==
  LET t == token[h] IN
  /\ at[h] = "rotate"
  /\ StillValid(t)
  /\ Issue(h, session[t])
  /\ Replace(h, t)
  /\ Deliver(h)
  /\ UNCHANGED <<accountBy, expired, token, loggedOut>>

RotateRefuses(h) ==
  /\ at[h] = "rotate"
  /\ ~StillValid(token[h])
  /\ Answer(h, "error")
  /\ NoFault
  /\ UNCHANGED <<accountBy, tokenVars, expired, held, token, loggedOut>>

----------------------------------------------------------------------------
(* Logout.                                                                 *)

\* The UPDATE matches the row whatever its state; of a row revoked before it tells a
\* change only if updated_at, in seconds, has moved.
RevokeRefreshToken(h, t) ==
  /\ at[h] = "start"
  /\ OpOf[h] = "logout"
  /\ t \in held
  /\ token' = [token EXCEPT ![h] = t]
  /\ row' = [row EXCEPT ![t] = "revoked"]
  /\ loggedOut' = IF row[t] = "live" THEN loggedOut \cup {session[t]} ELSE loggedOut
  /\ \/ Answer(h, "ok") /\ NoFault
     \/ row[t] = "revoked" /\ Answer(h, "error") /\ NoFault
     \/ Answer(h, "error") /\ Fault("reply")
  /\ UNCHANGED <<accountBy, replacedBy, issued, session, expired, held>>

----------------------------------------------------------------------------
(* Failure and time.                                                       *)

\* What h was about to do in MySQL fails.
CallFails(h) ==
  /\ at[h] # "done"
  /\ Fault("db")
  /\ Answer(h, "error")
  /\ UNCHANGED <<accountBy, tokenVars, expired, held, token, loggedOut>>

\* Tokens live 7 days each, so the oldest is the next to expire.
ExpireNext ==
  /\ expired < NumIssued
  /\ expired' = expired + 1
  /\ NoFault
  /\ UNCHANGED <<accountBy, tokenVars, held, at, token, result, loggedOut>>

Next ==
  \/ \E h \in Handlers :
       \/ FindAccount(h) \/ CreateUser(h) \/ CreateRefreshToken(h)
       \/ RotateRefreshToken(h) \/ RotateRefuses(h)
       \/ CallFails(h)
  \/ \E h, t \in Handlers : CheckToken(h, t) \/ RevokeRefreshToken(h, t)
  \/ ExpireNext

Spec == Init /\ [][Next]_vars

----------------------------------------------------------------------------
(* Properties.                                                             *)

Live(s) == {t \in Handlers : row[t] = "live" /\ session[t] = s}

\* However many refreshes use one token at once, a session has one live token at most:
\* of those that passed the first check, the row lock lets one rotate.
OneLiveTokenPerSession == \A s \in Handlers : Cardinality(Live(s)) <= 1

\* A session whose live token a logout has revoked stays ended: a refresh that was
\* between its check and its rotation does not bring it back.
LoggedOutStaysOut == \A s \in loggedOut : Live(s) = {}
=============================================================================
