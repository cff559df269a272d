---------------------------- MODULE AuthSessions ----------------------------
(***************************************************************************)
(* Refresh-token sessions of the backend: login, refresh rotation, logout, *)
(* logout-all and password reset (backend/src/services/authService.ts and  *)
(* backend/src/modules/auth).                                              *)
(*                                                                         *)
(* No handler uses a transaction: every repository call is one statement   *)
(* that commits by itself, and other requests run between two of them.  A  *)
(* request is a record of reqs whose pc names the next statement; each     *)
(* action below is one statement with the synchronous code after it.       *)
(***************************************************************************)
EXTENDS Naturals

CONSTANTS
  User,        \* rows of users
  Session,     \* uuids that name auth_sessions rows, and the refresh tokens signed over them
  Legacy,      \* rows of refresh_tokens, all written before auth_sessions existed
  Reset,       \* ids of password_reset_tokens rows
  Password,    \* password hashes
  Request,     \* slots for requests being served at the same time
  None,        \* SQL null
  MaxSweeps,   \* bound: sweeps of one user's sessions in a behaviour
  MayFail      \* may a statement fail, or the process die, between two statements

ASSUME IdsAssumption ==
  /\ None \notin User \cup Session \cup Legacy \cup Reset
  /\ Session \cap Legacy = {}
  /\ Session \cap Reset = {}
  /\ Legacy \cap Reset = {}
ASSUME BoundsAssumption == MaxSweeps \in Nat /\ MayFail \in BOOLEAN

VARIABLES
  sessions,    \* auth_sessions; a row whose user is None has not been inserted
  legacy,      \* refresh_tokens
  resets,      \* password_reset_tokens; a row whose user is None has not been inserted
  password,    \* users.password_hash
  expired,     \* tokens whose lifetime is over
  issued,      \* refresh tokens some client has received
  reqs,        \* the requests being served
  epoch,       \* history: number of sweeps of each user's auth_sessions
  origin       \* history: which token a session was rotated from, and when

vars == <<sessions, legacy, resets, password, expired, issued, reqs, epoch, origin>>

Token  == Session \cup Legacy \cup Reset
Reason == {"none", "rotated", "expired", "user_logout", "user_logout_all"}
Op     == {"none", "login", "refresh", "logout", "logoutAll", "requestReset", "reset"}
Pc     == {"idle", "find", "expire", "mark", "insert", "rotate", "reply", "revoke",
           "sweep", "sweepLegacy", "invalidate", "insertReset", "burn", "burnExpired",
           "update"}
Outcome == {"none", "ok", "denied", "error"}

SessionRow == [user : User \cup {None}, revoked : BOOLEAN, reason : Reason,
               replacedBy : Session \cup {None}]
LegacyRow  == [user : User, revoked : BOOLEAN]
ResetRow   == [user : User \cup {None}, used : BOOLEAN]
Req        == [op : Op, pc : Pc, user : User \cup {None}, token : Token \cup {None},
               fresh : Session \cup {None}, pw : Password \cup {None}, read : Nat,
               out : Outcome]
Origin     == [parent : Session \cup Legacy \cup {None}, born : Nat, read : Nat]

TypeOK ==
  /\ sessions \in [Session -> SessionRow]
  /\ legacy \in [Legacy -> LegacyRow]
  /\ resets \in [Reset -> ResetRow]
  /\ password \in [User -> Password]
  /\ expired \in SUBSET Token
  /\ issued \in SUBSET (Session \cup Legacy)
  /\ reqs \in [Request -> Req]
  /\ epoch \in [User -> Nat]
  /\ origin \in [Session -> Origin]

(***************************************************************************)
(* Rows                                                                    *)
(***************************************************************************)
NoSession == [user |-> None, revoked |-> FALSE, reason |-> "none", replacedBy |-> None]
NewSession(u) == [NoSession EXCEPT !.user = u]

Inserted(s) == sessions[s].user # None

\* the row a session or legacy token names, as findAuthSessionById and
\* findRefreshTokenById read it
Owner(t) == IF t \in Session THEN sessions[t].user ELSE legacy[t].user
IsRevoked(t) == IF t \in Session THEN sessions[t].revoked ELSE legacy[t].revoked

\* mutant: replaced_by and revoked_reason swapped
RevokedRowSwapped(row, why, by) ==
  [row EXCEPT !.revoked = TRUE, !.reason = by, !.replacedBy = why]

\* update auth_sessions set revoked_at, revoked_reason,
\*        replaced_by = coalesce(replaced_by, $3)
RevokedRow(row, why, by) ==
  [row EXCEPT !.revoked = TRUE, !.reason = why,
              !.replacedBy = IF row.replacedBy = None THEN by ELSE row.replacedBy]
RevokeSession(s, why, by) ==
  sessions' = [sessions EXCEPT ![s] = RevokedRow(sessions[s], why, by)]
RevokeLegacy(t) == legacy' = [legacy EXCEPT ![t].revoked = TRUE]

(***************************************************************************)
(* Requests                                                                *)
(***************************************************************************)
NoRequest == [op |-> "none", pc |-> "idle", user |-> None, token |-> None,
              fresh |-> None, pw |-> None, read |-> 0, out |-> "none"]

At(r, pc)     == reqs[r].pc = pc
Goto(r, pc)   == reqs' = [reqs EXCEPT ![r].pc = pc]
\* the request is over; what it was about is kept for the properties only
Answered(q, o) == [NoRequest EXCEPT !.op = q.op, !.user = q.user, !.token = q.token,
                                    !.out = o]
Finish(r, o)  == reqs' = [reqs EXCEPT ![r] = Answered(reqs[r], o)]

Begin(r, request) ==
  /\ At(r, "idle")
  /\ reqs' = [reqs EXCEPT ![r] = request]

Init ==
  /\ sessions = [s \in Session |-> NoSession]
  /\ legacy \in [Legacy -> LegacyRow]
  /\ resets = [k \in Reset |-> [user |-> None, used |-> FALSE]]
  /\ password \in [User -> Password]
  /\ expired = {}
  /\ issued = Legacy
  /\ reqs = [r \in Request |-> NoRequest]
  /\ epoch = [u \in User |-> 0]
  /\ origin = [s \in Session |-> [parent |-> None, born |-> 0, read |-> 0]]

\* login: the row is read and the password compared; a wrong one is refused
\* without touching the database
Login(r, u, p) ==
  /\ p = password[u]
  /\ \E s \in Session : ~Inserted(s)          \* bound: an id is left to insert
  /\ Begin(r, [NoRequest EXCEPT !.op = "login", !.pc = "insert", !.user = u,
                                !.read = epoch[u]])
  /\ UNCHANGED <<sessions, legacy, resets, password, expired, issued, epoch, origin>>

\* refresh and logout present a refresh token: jwt.verify refuses an expired one
Present(r, op, u, t) ==
  /\ t \in issued
  /\ Begin(r, [NoRequest EXCEPT
                 !.op = op, !.user = u, !.token = t,
                 !.pc  = IF t \in expired THEN "idle" ELSE "find",
                 !.out = IF t \in expired THEN "denied" ELSE "none"])
  /\ UNCHANGED <<sessions, legacy, resets, password, expired, issued, epoch, origin>>

Refresh(r, t)   == Present(r, "refresh", Owner(t), t)
Logout(r, u, t) == Present(r, "logout", u, t)

\* mutant: the token's user is not compared with the caller's
VerifiedUnchecked(q) ==
  [q EXCEPT !.pc = IF q.op = "refresh" THEN "insert" ELSE "revoke"]

\* where a request goes once verifyRefreshToken has returned
Verified(q) ==
  IF q.op = "refresh" THEN [q EXCEPT !.pc = "insert"]
  ELSE IF Owner(q.token) = q.user THEN [q EXCEPT !.pc = "revoke"]
  ELSE Answered(q, "denied")

\* the row is good: a session is marked used first; read dates the check
Accepted(q) ==
  LET c == [q EXCEPT !.read = epoch[Owner(q.token)]] IN
  IF q.token \in Session THEN [c EXCEPT !.pc = "mark"] ELSE Verified(c)

\* mutant: revoked_at is not looked at
FindIgnoringRevoked(r) ==
  /\ At(r, "find")
  /\ reqs' = [reqs EXCEPT ![r] = Accepted(reqs[r])]
  /\ UNCHANGED <<sessions, legacy, resets, password, expired, issued, epoch, origin>>

\* the select of verifyRefreshToken and the checks on the row it returned
Find(r) ==
  LET t == reqs[r].token IN
  /\ At(r, "find")
  /\ \/ IsRevoked(t) /\ Finish(r, "denied")
     \/ ~IsRevoked(t) /\ t \in expired /\ Goto(r, "expire")
     \/ /\ ~IsRevoked(t) /\ t \notin expired
        /\ reqs' = [reqs EXCEPT ![r] = Accepted(reqs[r])]
  /\ UNCHANGED <<sessions, legacy, resets, password, expired, issued, epoch, origin>>

\* revokeAuthSession or revokeLegacyRefreshToken with reason 'expired'
ExpireRow(r) ==
  LET t == reqs[r].token IN
  /\ At(r, "expire")
  /\ IF t \in Session THEN RevokeSession(t, "expired", None) /\ UNCHANGED legacy
                      ELSE RevokeLegacy(t) /\ UNCHANGED sessions
  /\ Finish(r, "denied")
  /\ UNCHANGED <<resets, password, expired, issued, epoch, origin>>

\* markAuthSessionUsed, then the caller's own check.  last_used_at is never read:
\* what matters of the statement is the time it takes
MarkUsed(r) ==
  /\ At(r, "mark")
  /\ reqs' = [reqs EXCEPT ![r] = Verified(reqs[r])]
  /\ UNCHANGED <<sessions, legacy, resets, password, expired, issued, epoch, origin>>

\* mutant: the old token is left as it is
AfterInsertNoRotation(q) == "reply"

\* issueTokens revokes the old token only when it was given rotateFrom
AfterInsert(q) == IF q.op = "login" THEN "reply" ELSE "rotate"

\* insertAuthSession under a fresh uuid
Insert(r, s) ==
  LET q == reqs[r] IN
  /\ At(r, "insert")
  /\ ~Inserted(s)
  /\ sessions' = [sessions EXCEPT ![s] = NewSession(q.user)]
  /\ origin' = [origin EXCEPT ![s] = [parent |-> q.token, born |-> epoch[q.user],
                                      read |-> q.read]]
  /\ reqs' = [reqs EXCEPT ![r].fresh = s, ![r].pc = AfterInsert(q)]
  /\ UNCHANGED <<legacy, resets, password, expired, issued, epoch>>

\* mutant: the successor's id is not passed on
RotateOldUnlinked(r) ==
  /\ At(r, "rotate")
  /\ reqs[r].token \in Session
  /\ RevokeSession(reqs[r].token, "rotated", None)
  /\ Goto(r, "reply")
  /\ UNCHANGED <<legacy, resets, password, expired, issued, epoch, origin>>

\* revoke(rotateFrom, 'rotated', sessionId).  refresh_tokens.replaced_by
\* references refresh_tokens, which never holds the id of an auth session: the
\* update of a legacy row breaks the foreign key and the request fails
RotateOld(r) ==
  LET q == reqs[r] IN
  /\ At(r, "rotate")
  /\ \/ /\ q.token \in Session
        /\ RevokeSession(q.token, "rotated", q.fresh)
        /\ Goto(r, "reply")
     \/ /\ q.token \in Legacy
        /\ Finish(r, "error")
        /\ UNCHANGED sessions
  /\ UNCHANGED <<legacy, resets, password, expired, issued, epoch, origin>>

\* the tokens leave in the response body
Reply(r) ==
  /\ At(r, "reply")
  /\ issued' = issued \cup {reqs[r].fresh}
  /\ Finish(r, "ok")
  /\ UNCHANGED <<sessions, legacy, resets, password, expired, epoch, origin>>

\* revoke with reason 'user_logout'
RevokeOnLogout(r) ==
  LET t == reqs[r].token IN
  /\ At(r, "revoke")
  /\ IF t \in Session THEN RevokeSession(t, "user_logout", None) /\ UNCHANGED legacy
                      ELSE RevokeLegacy(t) /\ UNCHANGED sessions
  /\ Finish(r, "ok")
  /\ UNCHANGED <<resets, password, expired, issued, epoch, origin>>

LogoutAll(r, u) ==
  /\ epoch[u] < MaxSweeps
  /\ Begin(r, [NoRequest EXCEPT !.op = "logoutAll", !.pc = "sweep", !.user = u])
  /\ UNCHANGED <<sessions, legacy, resets, password, expired, issued, epoch, origin>>

\* revokeAuthSessionsForUser: only rows with revoked_at null
SweepSessions(r) ==
  LET u == reqs[r].user IN
  /\ At(r, "sweep")
  /\ epoch[u] < MaxSweeps
  /\ sessions' = [s \in Session |->
                    IF sessions[s].user = u /\ ~sessions[s].revoked
                    THEN [sessions[s] EXCEPT !.revoked = TRUE, !.reason = "user_logout_all"]
                    ELSE sessions[s]]
  /\ epoch' = [epoch EXCEPT ![u] = epoch[u] + 1]
  /\ Goto(r, "sweepLegacy")
  /\ UNCHANGED <<legacy, resets, password, expired, issued, origin>>

\* revokeAllRefreshTokensForUser of refreshTokensRepository
SweepLegacy(r) ==
  /\ At(r, "sweepLegacy")
  /\ legacy' = [t \in Legacy |-> IF legacy[t].user = reqs[r].user
                                 THEN [legacy[t] EXCEPT !.revoked = TRUE]
                                 ELSE legacy[t]]
  /\ Finish(r, "ok")
  /\ UNCHANGED <<sessions, resets, password, expired, issued, epoch, origin>>

RequestReset(r, u) ==
  /\ \E k \in Reset : resets[k].user = None   \* bound: an id is left to insert
  /\ Begin(r, [NoRequest EXCEPT !.op = "requestReset", !.pc = "invalidate", !.user = u])
  /\ UNCHANGED <<sessions, legacy, resets, password, expired, issued, epoch, origin>>

\* invalidateOutstandingTokensForUser
Invalidate(r) ==
  /\ At(r, "invalidate")
  /\ resets' = [k \in Reset |-> IF resets[k].user = reqs[r].user
                                THEN [resets[k] EXCEPT !.used = TRUE]
                                ELSE resets[k]]
  /\ Goto(r, "insertReset")
  /\ UNCHANGED <<sessions, legacy, password, expired, issued, epoch, origin>>

InsertReset(r, k) ==
  /\ At(r, "insertReset")
  /\ resets[k].user = None
  /\ resets' = [resets EXCEPT ![k] = [user |-> reqs[r].user, used |-> FALSE]]
  /\ Finish(r, "ok")
  /\ UNCHANGED <<sessions, legacy, password, expired, issued, epoch, origin>>

\* consumePasswordResetToken reads the row; used and unknown tokens are refused
ResetPassword(r, k, p) ==
  /\ resets[k].user # None
  /\ ~resets[k].used
  /\ Begin(r, [NoRequest EXCEPT !.op = "reset", !.user = resets[k].user,
                 !.token = k, !.pw = p,
                 !.pc = IF k \in expired THEN "burnExpired" ELSE "burn"])
  /\ UNCHANGED <<sessions, legacy, resets, password, expired, issued, epoch, origin>>

\* mutant: a valid token is left to be marked after the password is set
BurnExpiredOnly(r) ==
  /\ \/ At(r, "burn") /\ Goto(r, "update") /\ UNCHANGED resets
     \/ /\ At(r, "burnExpired") /\ Finish(r, "denied")
        /\ resets' = [resets EXCEPT ![reqs[r].token].used = TRUE]
  /\ UNCHANGED <<sessions, legacy, password, expired, issued, epoch, origin>>

\* markPasswordResetTokenUsed, on the expired path and on the valid one
Burn(r) ==
  /\ \/ At(r, "burn") /\ Goto(r, "update")
     \/ At(r, "burnExpired") /\ Finish(r, "denied")
  /\ resets' = [resets EXCEPT ![reqs[r].token].used = TRUE]
  /\ UNCHANGED <<sessions, legacy, password, expired, issued, epoch, origin>>

\* updateUserPasswordHash, after bcrypt; the sweep of logout-all follows
UpdatePassword(r) ==
  /\ At(r, "update")
  /\ password' = [password EXCEPT ![reqs[r].user] = reqs[r].pw]
  /\ Goto(r, "sweep")
  /\ UNCHANGED <<sessions, legacy, resets, expired, issued, epoch, origin>>

\* a token's lifetime ends: 30 days for a refresh token, 30 minutes for a reset
Expire(t) ==
  /\ t \notin expired
  /\ \/ t \in Legacy
     \/ t \in Session /\ Inserted(t)
     \/ t \in Reset /\ resets[t].user # None
  /\ expired' = expired \cup {t}
  /\ UNCHANGED <<sessions, legacy, resets, password, issued, reqs, epoch, origin>>

\* the next statement throws, or the process dies before it
Fail(r) ==
  /\ MayFail
  /\ ~At(r, "idle")
  /\ reqs' = [reqs EXCEPT ![r] = NoRequest]
  /\ UNCHANGED <<sessions, legacy, resets, password, expired, issued, epoch, origin>>

Step(r) ==
  \/ \E u \in User, p \in Password : Login(r, u, p)
  \/ \E t \in issued : Refresh(r, t)
  \/ \E t \in issued, u \in User : Logout(r, u, t)
  \/ Find(r)
  \/ ExpireRow(r)
  \/ MarkUsed(r)
  \/ \E s \in Session : Insert(r, s)
  \/ RotateOld(r)
  \/ Reply(r)
  \/ RevokeOnLogout(r)
  \/ \E u \in User : LogoutAll(r, u)
  \/ SweepSessions(r)
  \/ SweepLegacy(r)
  \/ \E u \in User : RequestReset(r, u)
  \/ Invalidate(r)
  \/ \E k \in Reset : InsertReset(r, k)
  \/ \E k \in Reset, p \in Password : ResetPassword(r, k, p)
  \/ Burn(r)
  \/ UpdatePassword(r)
  \/ Fail(r)

Next ==
  \/ \E r \in Request : Step(r)
  \/ \E t \in Token : Expire(t)

Spec == Init /\ [][Next]_vars

(***************************************************************************)
(* Properties                                                              *)
(***************************************************************************)

\* A chain of rotations never crosses a logout-all or a password reset, except
\* inside a request already past its check: whenever a session was rotated from
\* another, the other was inserted after every sweep the check could have seen.
SweepEndsEveryChain ==
  \A s \in Session : LET p == origin[s].parent IN
    Inserted(s) /\ p \in Session => origin[p].born = origin[s].read

\* A client never holds a rotated token while the token it replaces still works:
\* the response leaves only after the old row is revoked.
RotationRetiresParent ==
  \A s \in issued : LET p == origin[s].parent IN
    s \in Session /\ p \in Session => sessions[p].revoked

\* A row retired by rotation names its successor, and a named successor is a row
\* of the same user that was rotated from it: a crash between the insert and the
\* revoke strands nobody, and concurrent rotations never cross-link.
ReplacementSound ==
  \A s \in Session :
    LET by == sessions[s].replacedBy IN
    /\ sessions[s].reason = "rotated" => by # None
    /\ by # None => /\ sessions[s].revoked
                    /\ sessions[by].user = sessions[s].user
                    /\ origin[by].parent = s

\* A refresh answered 401 is final: its token is revoked or past its lifetime, so
\* a client that drops its tokens on that answer loses nothing that still worked.
RejectionIsFinal ==
  \A r \in Request :
    reqs[r].op = "refresh" /\ reqs[r].out = "denied" =>
      IsRevoked(reqs[r].token) \/ reqs[r].token \in expired

\* A logout answered 204 has revoked the token it was given, whatever ran beside it.
LogoutIsEffective ==
  \A r \in Request :
    reqs[r].op = "logout" /\ reqs[r].out = "ok" =>
      /\ IsRevoked(reqs[r].token)
      /\ Owner(reqs[r].token) = reqs[r].user

\* Revocation is for ever, and the first replaced_by written stays: no statement
\* of any handler, in any order, brings a refresh token back or relinks its row.
RevocationIsPermanent ==
  [][/\ \A s \in Session :
          /\ sessions[s].revoked => sessions'[s].revoked
          /\ sessions[s].replacedBy # None =>
               sessions'[s].replacedBy = sessions[s].replacedBy
     /\ \A t \in Legacy : legacy[t].revoked => legacy'[t].revoked]_vars

\* A password is replaced only on the strength of a reset token that is already
\* marked used, so a crash may burn a token but never leaves one to be used again.
BurnBeforeChange ==
  [][\A u \in User : password'[u] # password[u] =>
       \E r \in Request : /\ At(r, "update") /\ ~At(r, "update")'
                          /\ resets[reqs[r].token] = [user |-> u, used |-> TRUE]]_vars

(***************************************************************************)
(* The promise to the clients                                              *)
(***************************************************************************)
RefreshToken == Session \cup Legacy

\* A request is admitted once verifyRefreshToken or the password check has let it
\* through, and answers when the tokens leave; a token is handed out by then.
HandedOut == [t \in RefreshToken |-> IF t \in issued THEN Owner(t) ELSE None]
Working   == {t \in issued : ~IsRevoked(t)}
AdmittedAs(q) ==
  IF q.op \in {"login", "refresh"} /\ q.pc \in {"mark", "insert", "rotate", "reply"}
  THEN [who |-> q.user, on |-> q.token] ELSE [who |-> None, on |-> None]
LetThrough == [r \in Request |-> AdmittedAs(reqs[r])]

Promise == INSTANCE RefreshTokens WITH
  Users <- User, Tokens <- RefreshToken, Requests <- Request,
  owner <- HandedOut, live <- Working, expired <- expired \cap RefreshToken,
  admitted <- LetThrough

\* The handlers, statement by statement, with failures and crashes between any two,
\* keep the promise: a refresh is let through on a token that is good, a new token
\* is for the same user and leaves only when the old one works no more, and nothing
\* brings a token back.
PromiseSpec == Promise!Spec

(***************************************************************************)
(* What a comment of the code says and the code does not do                *)
(***************************************************************************)

\* authService.ts, "Legacy refresh token fallback to avoid breaking existing
\* sessions": a refresh whose statements all reach the database is not answered
\* by a 500.
LegacyRefreshServed ==
  \A r \in Request : reqs[r].op = "refresh" => reqs[r].out # "error"
=============================================================================
