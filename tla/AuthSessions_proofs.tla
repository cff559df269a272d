------------------------ MODULE AuthSessions_proofs -------------------------
(***************************************************************************)
(* Proofs about AuthSessions for every set of users, tokens and requests.  *)
(*                                                                         *)
(* The handlers interleave statement by statement, so what one request     *)
(* knows must survive the statements of all the others.  The inductive     *)
(* invariant IInv is a fact about every row, a fact about every issued     *)
(* token and a fact about every request; Grows is what each statement      *)
(* guarantees the requests it does not belong to.  HandInv adds what a     *)
(* request carries to its answer, and with it every statement is a step of *)
(* RefreshTokens or one that no client sees.                               *)
(***************************************************************************)
EXTENDS AuthSessions, TLAPS

\* a row that exists
Known(t) == t \in RefreshToken /\ (t \in Session => Inserted(t))

\* a row of auth_sessions: blank until inserted, live only since the last sweep of
\* its user, rotated from a row at least as recent as the check that allowed it
Blank(s) == ~Inserted(s) => sessions[s] = NoSession
LiveIsRecent(s) ==
  Inserted(s) /\ ~sessions[s].revoked => origin[s].born = epoch[sessions[s].user]
ChainIsRecent(s) ==
  Inserted(s) /\ origin[s].parent \in Session =>
    /\ Inserted(origin[s].parent)
    /\ origin[origin[s].parent].born = origin[s].read
Linked(s) ==
  /\ sessions[s].reason = "rotated" => sessions[s].replacedBy # None
  /\ sessions[s].replacedBy # None =>
       /\ sessions[s].revoked
       /\ Inserted(sessions[s].replacedBy)
       /\ sessions[sessions[s].replacedBy].user = sessions[s].user
       /\ origin[sessions[s].replacedBy].parent = s
RowInv(s) == Blank(s) /\ LiveIsRecent(s) /\ ChainIsRecent(s) /\ Linked(s)

\* a token some client holds, or is about to
Released(t) ==
  t \in Session =>
    /\ Inserted(t)
    /\ origin[t].parent \in Session => /\ Inserted(origin[t].parent)
                                       /\ sessions[origin[t].parent].revoked

\* what a request relies on between two of its statements, by its place
Pending(r) == reqs[r].pc # "idle" => reqs[r].out = "none"
Verifying(r) ==
  /\ reqs[r].pc \in {"find", "expire", "mark"} =>
       /\ reqs[r].op \in {"refresh", "logout"}
       /\ Known(reqs[r].token)
       /\ reqs[r].user \in User
       /\ reqs[r].op = "refresh" => Owner(reqs[r].token) = reqs[r].user
  /\ reqs[r].pc = "expire" => reqs[r].token \in expired
  /\ reqs[r].pc = "mark" =>
       reqs[r].token \in Session /\ origin[reqs[r].token].born = reqs[r].read
Inserting(r) ==
  reqs[r].pc = "insert" =>
    /\ reqs[r].user \in User
    /\ \/ reqs[r].op = "login" /\ reqs[r].token = None
       \/ /\ reqs[r].op = "refresh"
          /\ Known(reqs[r].token)
          /\ Owner(reqs[r].token) = reqs[r].user
          /\ reqs[r].token \in Session => origin[reqs[r].token].born = reqs[r].read
Rotating(r) ==
  reqs[r].pc = "rotate" =>
    /\ reqs[r].op = "refresh"
    /\ Known(reqs[r].token)
    /\ Owner(reqs[r].token) = reqs[r].user
    /\ reqs[r].fresh \in Session /\ Inserted(reqs[r].fresh)
    /\ sessions[reqs[r].fresh].user = reqs[r].user
    /\ origin[reqs[r].fresh].parent = reqs[r].token
Replying(r) ==
  reqs[r].pc = "reply" =>
    /\ reqs[r].op \in {"login", "refresh"}
    /\ reqs[r].fresh \in Session /\ Released(reqs[r].fresh)
LoggingOut(r) ==
  reqs[r].pc = "revoke" =>
    /\ reqs[r].op = "logout"
    /\ Known(reqs[r].token)
    /\ Owner(reqs[r].token) = reqs[r].user
Sweeping(r) ==
  reqs[r].pc \in {"sweep", "sweepLegacy"} =>
    reqs[r].op \in {"logoutAll", "reset"} /\ reqs[r].user \in User
Resetting(r) ==
  /\ reqs[r].pc \in {"invalidate", "insertReset"} =>
       reqs[r].op = "requestReset" /\ reqs[r].user \in User
  /\ reqs[r].pc \in {"burn", "burnExpired", "update"} =>
       /\ reqs[r].op = "reset"
       /\ reqs[r].token \in Reset /\ reqs[r].user \in User
       /\ resets[reqs[r].token].user = reqs[r].user
  /\ reqs[r].pc \in {"burn", "update"} => reqs[r].pw \in Password
  /\ reqs[r].pc = "update" => resets[reqs[r].token].used
AnsweredInv(r) ==
  /\ reqs[r].op = "refresh" /\ reqs[r].out = "denied" =>
       /\ Known(reqs[r].token)
       /\ IsRevoked(reqs[r].token) \/ reqs[r].token \in expired
  /\ reqs[r].op = "logout" /\ reqs[r].out = "ok" =>
       /\ Known(reqs[r].token)
       /\ IsRevoked(reqs[r].token)
       /\ Owner(reqs[r].token) = reqs[r].user
ReqInv(r) ==
  /\ Pending(r) /\ Verifying(r) /\ Inserting(r) /\ Rotating(r) /\ Replying(r)
  /\ LoggingOut(r) /\ Sweeping(r) /\ Resetting(r) /\ AnsweredInv(r)

RowsInv   == \A s \in Session : RowInv(s)
IssuedInv == \A t \in issued : Released(t)
ReqsInv   == \A r \in Request : ReqInv(r)

IInv == TypeOK /\ RowsInv /\ IssuedInv /\ ReqsInv

\* what a statement may do to the tables, seen from the other requests
Grows ==
  /\ \A s \in Session : Inserted(s) =>
       /\ sessions'[s].user = sessions[s].user
       /\ sessions[s].revoked => sessions'[s].revoked
       /\ origin'[s] = origin[s]
  /\ \A t \in Legacy :
       /\ legacy'[t].user = legacy[t].user
       /\ legacy[t].revoked => legacy'[t].revoked
  /\ \A k \in Reset : resets[k].user # None =>
       /\ resets'[k].user = resets[k].user
       /\ resets[k].used => resets'[k].used
  /\ expired \subseteq expired'

-----------------------------------------------------------------------------
\* A row that exists keeps its owner, its revocation and its history.
LEMMA KnownGrows ==
  ASSUME TypeOK, Grows, NEW t, Known(t)
  PROVE  /\ Known(t)' /\ Owner(t)' = Owner(t)
         /\ IsRevoked(t) => IsRevoked(t)'
         /\ t \in Session => origin'[t] = origin[t]
<1>1. CASE t \in Session
  <2>1. sessions[t].user # None BY <1>1 DEF Known, Inserted
  <2>2. sessions'[t].user = sessions[t].user /\ origin'[t] = origin[t]
        /\ (sessions[t].revoked => sessions'[t].revoked)
    BY <1>1, <2>1 DEF Grows, Inserted
  <2> QED BY <1>1, <2>1, <2>2 DEF Known, Owner, IsRevoked, Inserted, RefreshToken
<1>2. CASE t \in Legacy /\ t \notin Session
  BY <1>2 DEF Known, Owner, IsRevoked, Grows, RefreshToken
<1> QED BY <1>1, <1>2 DEF Known, RefreshToken

\* A token that may be released stays so.
LEMMA ReleasedGrows ==
  ASSUME TypeOK, Grows, NEW t, Released(t)
  PROVE  Released(t)'
BY DEF Released, Grows, Inserted

\* A request that is not the one served keeps what it relies on.
LEMMA OthersKeep ==
  ASSUME TypeOK, Grows, NEW r \in Request, reqs'[r] = reqs[r], ReqInv(r)
  PROVE  ReqInv(r)'
<1>0. /\ reqs[r] \in Req
      /\ Known(reqs[r].token) =>
            /\ Known(reqs[r].token)' /\ Owner(reqs[r].token)' = Owner(reqs[r].token)
            /\ IsRevoked(reqs[r].token) => IsRevoked(reqs[r].token)'
            /\ reqs[r].token \in Session => origin'[reqs[r].token] = origin[reqs[r].token]
  <2>1. PICK t : t = reqs[r].token OBVIOUS
  <2>2. Known(t) => /\ Known(t)' /\ Owner(t)' = Owner(t)
                    /\ IsRevoked(t) => IsRevoked(t)'
                    /\ t \in Session => origin'[t] = origin[t]
    BY KnownGrows
  <2> QED BY <2>1, <2>2 DEF TypeOK, Known, Owner, IsRevoked, Inserted
<1>1. Pending(r)' /\ Sweeping(r)' BY DEF ReqInv, Pending, Sweeping
<1>2. Verifying(r)' BY <1>0 DEF ReqInv, Verifying, Grows
<1>3. Inserting(r)' BY <1>0 DEF ReqInv, Inserting
<1>4. Rotating(r)' BY <1>0 DEF ReqInv, Rotating, Grows, Inserted
<1>5. Replying(r)'
  <2>1. PICK t : t = reqs[r].fresh OBVIOUS
  <2>2. Released(t) => Released(t)' BY ReleasedGrows
  <2> QED BY <2>1, <2>2 DEF ReqInv, Replying, Released, Inserted
<1>6. LoggingOut(r)' BY <1>0 DEF ReqInv, LoggingOut
<1>7. Resetting(r)' BY IdsAssumption DEF ReqInv, Resetting, Grows
<1>8. AnsweredInv(r)' BY <1>0 DEF ReqInv, AnsweredInv, Grows
<1> QED BY <1>1, <1>2, <1>3, <1>4, <1>5, <1>6, <1>7, <1>8 DEF ReqInv

\* The served request apart, a statement keeps the invariant if it only lets the
\* tables grow and leaves rows and released tokens as they should be.
LEMMA StepKeeps ==
  ASSUME IInv, NEW r \in Request, TypeOK', Grows, RowsInv', IssuedInv', ReqInv(r)',
         \A x \in Request \ {r} : reqs'[x] = reqs[x]
  PROVE  IInv'
<1>1. ASSUME NEW x \in Request PROVE ReqInv(x)'
  <2>1. CASE x = r BY <2>1
  <2>2. CASE x # r BY <2>2, OthersKeep DEF IInv, ReqsInv
  <2> QED BY <2>1, <2>2
<1> QED BY <1>1 DEF IInv, ReqsInv

\* Rows are only about sessions, their history and the sweeps.
LEMMA RowsFrame ==
  ASSUME RowsInv, UNCHANGED <<sessions, origin, epoch>>
  PROVE  RowsInv'
BY DEF RowsInv, RowInv, Blank, LiveIsRecent, ChainIsRecent, Linked, Inserted

LEMMA IssuedFrame ==
  ASSUME TypeOK, Grows, IssuedInv, issued' = issued
  PROVE  IssuedInv'
<1>1. ASSUME NEW t \in issued PROVE Released(t)' BY ReleasedGrows DEF IssuedInv
<1> QED BY <1>1 DEF IssuedInv

\* A statement that only moves its own request.
LEMMA ReqsOnly ==
  ASSUME IInv, NEW r \in Request, reqs' \in [Request -> Req], ReqInv(r)',
         \A x \in Request \ {r} : reqs'[x] = reqs[x],
         UNCHANGED <<sessions, legacy, resets, password, expired, issued, epoch, origin>>
  PROVE  IInv'
<1>1. TypeOK' BY DEF IInv, TypeOK
<1>2. Grows BY DEF Grows, Inserted
<1>3. RowsInv' BY RowsFrame DEF IInv
<1>4. IssuedInv' BY <1>2, IssuedFrame DEF IInv
<1> QED BY <1>1, <1>2, <1>3, <1>4, StepKeeps

LEMMA LoginKeeps ==
  ASSUME IInv, NEW r \in Request, NEW u \in User, NEW p \in Password, Login(r, u, p)
  PROVE  IInv'
<1>1. reqs' \in [Request -> Req] /\ \A x \in Request \ {r} : reqs'[x] = reqs[x]
  BY DEF IInv, TypeOK, Login, Begin, NoRequest, Req, Op, Pc, Outcome
<1>2. ReqInv(r)'
  BY DEF IInv, TypeOK, Login, Begin, NoRequest, ReqInv, Pending, Verifying, Inserting,
     Rotating, Replying, LoggingOut, Sweeping, Resetting, AnsweredInv
<1> QED BY <1>1, <1>2, ReqsOnly DEF Login

LEMMA PresentKeeps ==
  ASSUME IInv, NEW r \in Request, NEW t \in issued, NEW op \in {"refresh", "logout"},
         NEW u \in User \cup {None}, op = "refresh" => u = Owner(t),
         op = "logout" => u \in User, Present(r, op, u, t)
  PROVE  IInv'
<1>1. Known(t) /\ t \in Token
  BY DEF IInv, IssuedInv, TypeOK, Known, Released, RefreshToken, Token
<1>2. u \in User
  BY <1>1, IdsAssumption DEF IInv, TypeOK, Known, Owner, Inserted, SessionRow, LegacyRow,
     RefreshToken
<1>3. reqs' \in [Request -> Req] /\ \A x \in Request \ {r} : reqs'[x] = reqs[x]
  BY <1>1, <1>2 DEF IInv, TypeOK, Present, Begin, NoRequest, Req, Op, Pc, Outcome
<1>4. /\ reqs'[r].op = op /\ reqs'[r].user = u /\ reqs'[r].token = t
      /\ reqs'[r].pc = (IF t \in expired THEN "idle" ELSE "find")
      /\ reqs'[r].out = (IF t \in expired THEN "denied" ELSE "none")
  BY DEF IInv, TypeOK, Present, Begin, NoRequest
<1>5. Known(t)' /\ Owner(t)' = Owner(t) /\ (t \in expired => t \in expired')
  BY <1>1 DEF Present, Known, Owner, Inserted
<1>6. ReqInv(r)'
  BY <1>2, <1>4, <1>5
  DEF ReqInv, Pending, Verifying, Inserting, Rotating, Replying, LoggingOut, Sweeping,
      Resetting, AnsweredInv
<1> QED BY <1>3, <1>6, ReqsOnly DEF Present

\* The request goes on after verifyRefreshToken, or is refused for its user.
LEMMA VerifiedKeeps ==
  ASSUME IInv, NEW r \in Request, NEW q \in Req,
         q.op \in {"refresh", "logout"}, Known(q.token), q.user \in User,
         q.op = "refresh" => Owner(q.token) = q.user, q.out = "none",
         q.token \in Session => origin[q.token].born = q.read,
         reqs' = [reqs EXCEPT ![r] = Verified(q)],
         UNCHANGED <<sessions, legacy, resets, password, expired, issued, epoch, origin>>
  PROVE  IInv'
<1>1. Verified(q) \in Req
  BY DEF Verified, Answered, NoRequest, Req, Op, Pc, Outcome
<1>2. reqs' \in [Request -> Req] /\ reqs'[r] = Verified(q)
      /\ \A x \in Request \ {r} : reqs'[x] = reqs[x]
  BY <1>1 DEF IInv, TypeOK
<1>3. Known(q.token)' /\ Owner(q.token)' = Owner(q.token)
      /\ (q.token \in Session => origin'[q.token].born = q.read)
  BY DEF Known, Owner, Inserted
<1>4. CASE q.op = "refresh"
  <2>1. /\ reqs'[r].op = "refresh" /\ reqs'[r].pc = "insert" /\ reqs'[r].user = q.user
        /\ reqs'[r].token = q.token /\ reqs'[r].read = q.read /\ reqs'[r].out = "none"
    BY <1>2, <1>4 DEF Verified, Req
  <2>2. ReqInv(r)'
    BY <1>3, <1>4, <2>1
    DEF ReqInv, Pending, Verifying, Inserting, Rotating, Replying, LoggingOut, Sweeping,
        Resetting, AnsweredInv
  <2> QED BY <1>2, <2>2, ReqsOnly
<1>5. CASE q.op = "logout" /\ Owner(q.token) = q.user
  <2>1. /\ reqs'[r].op = "logout" /\ reqs'[r].pc = "revoke" /\ reqs'[r].user = q.user
        /\ reqs'[r].token = q.token /\ reqs'[r].out = "none"
    BY <1>2, <1>5 DEF Verified, Req
  <2>2. ReqInv(r)'
    BY <1>3, <1>5, <2>1
    DEF ReqInv, Pending, Verifying, Inserting, Rotating, Replying, LoggingOut, Sweeping,
        Resetting, AnsweredInv
  <2> QED BY <1>2, <2>2, ReqsOnly
<1>6. CASE q.op = "logout" /\ Owner(q.token) # q.user
  <2>1. reqs'[r].op = "logout" /\ reqs'[r].pc = "idle" /\ reqs'[r].out = "denied"
    BY <1>2, <1>6 DEF Verified, Answered, NoRequest, Req
  <2>2. ReqInv(r)'
    BY <2>1
    DEF ReqInv, Pending, Verifying, Inserting, Rotating, Replying, LoggingOut, Sweeping,
        Resetting, AnsweredInv
  <2> QED BY <1>2, <2>2, ReqsOnly
<1> QED BY <1>4, <1>5, <1>6

\* What Find and MarkUsed know of their request.
LEMMA AtFind ==
  ASSUME IInv, NEW r \in Request, reqs[r].pc \in {"find", "expire", "mark"}
  PROVE  /\ reqs[r] \in Req /\ reqs[r].op \in {"refresh", "logout"}
         /\ Known(reqs[r].token) /\ reqs[r].user \in User /\ reqs[r].out = "none"
         /\ reqs[r].op = "refresh" => Owner(reqs[r].token) = reqs[r].user
BY DEF IInv, TypeOK, ReqsInv, ReqInv, Verifying, Pending

LEMMA FindKeeps ==
  ASSUME IInv, NEW r \in Request, Find(r)
  PROVE  IInv'
<1>0. PICK t : t = reqs[r].token OBVIOUS
<1> USE <1>0
<1>1. /\ reqs[r] \in Req /\ reqs[r].op \in {"refresh", "logout"}
      /\ Known(t) /\ reqs[r].user \in User /\ reqs[r].out = "none"
      /\ reqs[r].op = "refresh" => Owner(t) = reqs[r].user
  BY AtFind DEF Find, At
<1>2. Owner(t) \in User
  BY <1>1, IdsAssumption DEF IInv, TypeOK, Known, Owner, Inserted, SessionRow, LegacyRow,
     RefreshToken
<1>3. epoch[Owner(t)] \in Nat BY <1>2 DEF IInv, TypeOK
<1>4. Known(t)' /\ Owner(t)' = Owner(t) /\ IsRevoked(t)' = IsRevoked(t)
      /\ expired' = expired
  <2>1. sessions' = sessions /\ legacy' = legacy /\ expired' = expired BY DEF Find
  <2> QED BY <1>1, <2>1 DEF Known, Owner, Inserted, IsRevoked
<1>5. CASE IsRevoked(t) /\ Finish(r, "denied")
  <2>1. Answered(reqs[r], "denied") \in Req
    BY <1>1 DEF Answered, NoRequest, Req, Op, Pc, Outcome
  <2>2. /\ reqs' \in [Request -> Req] /\ \A x \in Request \ {r} : reqs'[x] = reqs[x]
        /\ reqs'[r] = Answered(reqs[r], "denied")
    BY <1>5, <2>1 DEF IInv, TypeOK, Finish
  <2>3. /\ reqs'[r].op = reqs[r].op /\ reqs'[r].token = t
        /\ reqs'[r].pc = "idle" /\ reqs'[r].out = "denied"
    BY <2>2 DEF Answered, NoRequest
  <2>4. ReqInv(r)'
    BY <1>1, <1>4, <1>5, <2>3
    DEF ReqInv, Pending, Verifying, Inserting, Rotating, Replying, LoggingOut, Sweeping,
        Resetting, AnsweredInv
  <2> QED BY <2>2, <2>4, ReqsOnly DEF Find
<1>6. CASE ~IsRevoked(t) /\ t \in expired /\ Goto(r, "expire")
  <2>1. /\ reqs' \in [Request -> Req] /\ \A x \in Request \ {r} : reqs'[x] = reqs[x]
        /\ reqs'[r] = [reqs[r] EXCEPT !.pc = "expire"]
    BY <1>1, <1>6 DEF IInv, TypeOK, Goto, Req, Pc
  <2>2. /\ reqs'[r].op = reqs[r].op /\ reqs'[r].token = t /\ reqs'[r].user = reqs[r].user
        /\ reqs'[r].pc = "expire" /\ reqs'[r].out = "none"
    BY <1>1, <2>1 DEF Req
  <2>3. ReqInv(r)'
    BY <1>1, <1>4, <1>6, <2>2
    DEF ReqInv, Pending, Verifying, Inserting, Rotating, Replying, LoggingOut, Sweeping,
        Resetting, AnsweredInv
  <2> QED BY <2>1, <2>3, ReqsOnly DEF Find
<1>7. CASE /\ ~IsRevoked(t) /\ t \notin expired
           /\ reqs' = [reqs EXCEPT ![r] = Accepted(reqs[r])]
  <2>0. PICK q : q = [reqs[r] EXCEPT !.read = epoch[Owner(t)]] OBVIOUS
  <2>1. /\ q \in Req /\ q.op = reqs[r].op /\ q.token = t /\ q.user = reqs[r].user
        /\ q.out = "none" /\ q.read = epoch[Owner(t)]
    BY <1>1, <1>3, <2>0 DEF Req
  <2>2. t \in Session => origin[t].born = epoch[Owner(t)]
    BY <1>1, <1>7 DEF Known, IInv, RowsInv, RowInv, LiveIsRecent, IsRevoked, Owner
  <2>3. CASE t \in Session
    <3>1. /\ reqs' \in [Request -> Req] /\ \A x \in Request \ {r} : reqs'[x] = reqs[x]
          /\ reqs'[r] = [q EXCEPT !.pc = "mark"]
      <4>1. Accepted(reqs[r]) = [q EXCEPT !.pc = "mark"]
        BY <2>0, <2>3 DEF Accepted
      <4>2. [q EXCEPT !.pc = "mark"] \in Req BY <2>1 DEF Req, Pc
      <4> QED BY <1>7, <4>1, <4>2 DEF IInv, TypeOK
    <3>2. /\ reqs'[r].op = reqs[r].op /\ reqs'[r].token = t
          /\ reqs'[r].user = reqs[r].user /\ reqs'[r].read = epoch[Owner(t)]
          /\ reqs'[r].pc = "mark" /\ reqs'[r].out = "none"
      BY <2>1, <3>1 DEF Req
    <3>3. origin' = origin BY DEF Find
    <3>4. ReqInv(r)'
      BY <1>1, <1>4, <2>2, <2>3, <3>2, <3>3
      DEF ReqInv, Pending, Verifying, Inserting, Rotating, Replying, LoggingOut, Sweeping,
          Resetting, AnsweredInv
    <3> QED BY <3>1, <3>4, ReqsOnly DEF Find
  <2>4. CASE t \notin Session
    <3>1. reqs' = [reqs EXCEPT ![r] = Verified(q)]
      BY <1>7, <2>0, <2>4 DEF Accepted
    <3> QED BY <1>1, <2>1, <2>2, <3>1, VerifiedKeeps DEF Find
  <2> QED BY <2>3, <2>4
<1> QED BY <1>5, <1>6, <1>7 DEF Find

LEMMA MarkUsedKeeps ==
  ASSUME IInv, NEW r \in Request, MarkUsed(r)
  PROVE  IInv'
<1>1. /\ reqs[r] \in Req /\ reqs[r].op \in {"refresh", "logout"}
      /\ Known(reqs[r].token) /\ reqs[r].user \in User /\ reqs[r].out = "none"
      /\ reqs[r].op = "refresh" => Owner(reqs[r].token) = reqs[r].user
  BY AtFind DEF MarkUsed, At
<1>2. origin[reqs[r].token].born = reqs[r].read
  BY DEF MarkUsed, At, IInv, ReqsInv, ReqInv, Verifying
<1> HIDE DEF IInv
<1>3. PICK q \in Req : q = reqs[r] BY <1>1
<1>4. reqs' = [reqs EXCEPT ![r] = Verified(q)] BY <1>3 DEF MarkUsed
<1> QED BY <1>1, <1>2, <1>3, <1>4, VerifiedKeeps DEF MarkUsed

\* Revoking a row that exists, and linking it to a row rotated from it, is sound.
LEMMA RevokeSessionKeeps ==
  ASSUME IInv, NEW s \in Session, Inserted(s), NEW why \in Reason,
         NEW by \in Session \cup {None}, why = "rotated" => by # None,
         by # None => /\ Inserted(by) /\ sessions[by].user = sessions[s].user
                      /\ origin[by].parent = s,
         RevokeSession(s, why, by), reqs' \in [Request -> Req],
         UNCHANGED <<legacy, resets, password, expired, issued, epoch, origin>>
  PROVE  /\ TypeOK' /\ Grows /\ RowsInv' /\ IssuedInv'
         /\ sessions'[s].revoked
         /\ \A x \in Session : sessions'[x].user = sessions[x].user
<1>1. /\ sessions \in [Session -> SessionRow] /\ sessions[s] \in SessionRow
  BY DEF IInv, TypeOK
<1>2. PICK row : row = RevokedRow(sessions[s], why, by) OBVIOUS
<1>3. /\ row \in SessionRow /\ row.user = sessions[s].user /\ row.revoked
      /\ row.reason = why
      /\ row.replacedBy = IF sessions[s].replacedBy = None THEN by
                          ELSE sessions[s].replacedBy
  BY <1>1, <1>2 DEF RevokedRow, SessionRow
<1>4. /\ sessions' \in [Session -> SessionRow] /\ sessions'[s] = row
      /\ \A x \in Session \ {s} : sessions'[x] = sessions[x]
  BY <1>1, <1>2, <1>3 DEF RevokeSession
<1>5. \A x \in Session : sessions'[x].user = sessions[x].user BY <1>3, <1>4
<1>6. TypeOK' BY <1>4 DEF IInv, TypeOK
<1>7. Grows BY <1>3, <1>4, <1>5 DEF Grows, Inserted
<1>8. RowsInv'
  <2>1. ASSUME NEW x \in Session PROVE RowInv(x)'
    <3>1. RowInv(x) /\ RowInv(s) BY DEF IInv, RowsInv
    <3>2. Blank(x)' BY <1>3, <1>4, <3>1 DEF RowInv, Blank, Inserted
    <3>3. LiveIsRecent(x)' BY <1>3, <1>4, <3>1 DEF RowInv, LiveIsRecent, Inserted
    <3>4. ChainIsRecent(x)' BY <1>5, <3>1 DEF RowInv, ChainIsRecent, Inserted
    <3>5. Linked(x)'
      <4>1. CASE x # s
        <5>1. sessions'[x] = sessions[x] BY <1>4, <4>1
        <5>2. sessions[x].replacedBy # None => sessions[x].replacedBy \in Session
          BY <1>1 DEF SessionRow
        <5> QED BY <1>5, <3>1, <5>1, <5>2 DEF RowInv, Linked, Inserted
      <4>2. CASE x = s
        <5>1. sessions'[x] = row BY <1>4, <4>2
        <5>2. row.replacedBy # None => row.replacedBy \in Session
          BY <1>3 DEF SessionRow
        <5>3. row.replacedBy # None =>
                /\ Inserted(row.replacedBy)
                /\ sessions[row.replacedBy].user = sessions[s].user
                /\ origin[row.replacedBy].parent = s
          BY <1>3, <3>1 DEF RowInv, Linked
        <5> QED BY <1>3, <1>5, <3>1, <4>2, <5>1, <5>2, <5>3 DEF RowInv, Linked, Inserted
      <4> QED BY <4>1, <4>2
    <3> QED BY <3>2, <3>3, <3>4, <3>5 DEF RowInv
  <2> QED BY <2>1 DEF RowsInv
<1>9. IssuedInv' BY <1>7, IssuedFrame DEF IInv
<1> QED BY <1>3, <1>4, <1>5, <1>6, <1>7, <1>8, <1>9

\* Revoking the row of a token, whichever table it is in, for another reason than
\* rotation.
LEMMA RevokeTokenKeeps ==
  ASSUME IInv, NEW t, Known(t), NEW why \in {"expired", "user_logout"},
         IF t \in Session THEN RevokeSession(t, why, None) /\ UNCHANGED legacy
                          ELSE RevokeLegacy(t) /\ UNCHANGED sessions,
         reqs' \in [Request -> Req],
         UNCHANGED <<resets, password, expired, issued, epoch, origin>>
  PROVE  /\ TypeOK' /\ Grows /\ RowsInv' /\ IssuedInv'
         /\ Known(t)' /\ IsRevoked(t)' /\ Owner(t)' = Owner(t)
<1>1. CASE t \in Session
  <2>1. /\ TypeOK' /\ Grows /\ RowsInv' /\ IssuedInv' /\ sessions'[t].revoked
        /\ sessions'[t].user = sessions[t].user
    BY <1>1, RevokeSessionKeeps DEF Known, Reason
  <2> QED BY <1>1, <2>1 DEF Known, IsRevoked, Owner, Inserted
<1>2. CASE t \notin Session
  <2>1. t \in Legacy BY <1>2 DEF Known, RefreshToken
  <2>2. /\ legacy \in [Legacy -> LegacyRow]
        /\ legacy' = [legacy EXCEPT ![t].revoked = TRUE]
        /\ sessions' = sessions
    BY <1>2 DEF IInv, TypeOK, RevokeLegacy
  <2>3. /\ legacy' \in [Legacy -> LegacyRow] /\ legacy'[t].revoked
        /\ \A x \in Legacy : /\ legacy'[x].user = legacy[x].user
                             /\ legacy[x].revoked => legacy'[x].revoked
    BY <2>1, <2>2 DEF LegacyRow
  <2>4. TypeOK' BY <2>2, <2>3 DEF IInv, TypeOK
  <2>5. Grows BY <2>2, <2>3 DEF Grows, Inserted
  <2>6. RowsInv' BY <2>2, RowsFrame DEF IInv
  <2>7. IssuedInv' BY <2>5, IssuedFrame DEF IInv
  <2>8. Known(t)' /\ IsRevoked(t)' /\ Owner(t)' = Owner(t)
    BY <1>2, <2>1, <2>3 DEF Known, IsRevoked, Owner, RefreshToken
  <2> QED BY <2>4, <2>5, <2>6, <2>7, <2>8
<1> QED BY <1>1, <1>2

\* A request that is over keeps nothing but what it was about and its answer.
LEMMA FinishReq ==
  ASSUME IInv, NEW r \in Request, NEW o \in Outcome, Finish(r, o)
  PROVE  /\ reqs' \in [Request -> Req]
         /\ \A x \in Request \ {r} : reqs'[x] = reqs[x]
         /\ reqs'[r].op = reqs[r].op /\ reqs'[r].token = reqs[r].token
         /\ reqs'[r].user = reqs[r].user
         /\ reqs'[r].pc = "idle" /\ reqs'[r].out = o
<1>1. Answered(reqs[r], o) \in Req
  BY DEF IInv, TypeOK, Answered, NoRequest, Req, Op, Pc, Outcome
<1>2. /\ reqs' \in [Request -> Req] /\ \A x \in Request \ {r} : reqs'[x] = reqs[x]
      /\ reqs'[r] = Answered(reqs[r], o)
  BY <1>1 DEF IInv, TypeOK, Finish
<1> QED BY <1>2 DEF Answered, NoRequest

LEMMA GotoReq ==
  ASSUME IInv, NEW r \in Request, NEW pc \in Pc, Goto(r, pc)
  PROVE  /\ reqs' \in [Request -> Req]
         /\ \A x \in Request \ {r} : reqs'[x] = reqs[x]
         /\ reqs'[r].op = reqs[r].op /\ reqs'[r].token = reqs[r].token
         /\ reqs'[r].user = reqs[r].user /\ reqs'[r].pw = reqs[r].pw
         /\ reqs'[r].fresh = reqs[r].fresh
         /\ reqs'[r].pc = pc /\ reqs'[r].out = reqs[r].out
<1>1. reqs[r] \in Req BY DEF IInv, TypeOK
<1>2. /\ reqs' \in [Request -> Req] /\ \A x \in Request \ {r} : reqs'[x] = reqs[x]
      /\ reqs'[r] = [reqs[r] EXCEPT !.pc = pc]
  BY <1>1 DEF IInv, TypeOK, Goto, Req
<1> QED BY <1>1, <1>2 DEF Req

LEMMA ExpireRowKeeps ==
  ASSUME IInv, NEW r \in Request, ExpireRow(r)
  PROVE  IInv'
<1>0. PICK t : t = reqs[r].token OBVIOUS
<1>1. Known(t) BY <1>0, AtFind DEF ExpireRow, At
<1>2. /\ reqs' \in [Request -> Req] /\ \A x \in Request \ {r} : reqs'[x] = reqs[x]
      /\ reqs'[r].op = reqs[r].op /\ reqs'[r].token = t
      /\ reqs'[r].pc = "idle" /\ reqs'[r].out = "denied"
  BY <1>0, FinishReq DEF ExpireRow, Outcome
<1>3. reqs[r].op \in {"refresh", "logout"} BY AtFind DEF ExpireRow, At
<1>4. /\ TypeOK' /\ Grows /\ RowsInv' /\ IssuedInv'
      /\ Known(t)' /\ IsRevoked(t)' /\ Owner(t)' = Owner(t)
  BY <1>0, <1>1, <1>2, RevokeTokenKeeps DEF ExpireRow
<1>5. ReqInv(r)'
  BY <1>2, <1>3, <1>4
  DEF ReqInv, Pending, Verifying, Inserting, Rotating, Replying, LoggingOut, Sweeping,
      Resetting, AnsweredInv
<1> QED BY <1>2, <1>4, <1>5, StepKeeps

LEMMA RevokeOnLogoutKeeps ==
  ASSUME IInv, NEW r \in Request, RevokeOnLogout(r)
  PROVE  IInv'
<1>0. PICK t : t = reqs[r].token OBVIOUS
<1>1. Known(t) /\ Owner(t) = reqs[r].user /\ reqs[r].op = "logout"
  BY <1>0 DEF IInv, ReqsInv, ReqInv, LoggingOut, RevokeOnLogout, At
<1>2. /\ reqs' \in [Request -> Req] /\ \A x \in Request \ {r} : reqs'[x] = reqs[x]
      /\ reqs'[r].op = reqs[r].op /\ reqs'[r].token = t /\ reqs'[r].user = reqs[r].user
      /\ reqs'[r].pc = "idle" /\ reqs'[r].out = "ok"
  BY <1>0, FinishReq DEF RevokeOnLogout, Outcome
<1>4. /\ TypeOK' /\ Grows /\ RowsInv' /\ IssuedInv'
      /\ Known(t)' /\ IsRevoked(t)' /\ Owner(t)' = Owner(t)
  BY <1>0, <1>1, <1>2, RevokeTokenKeeps DEF RevokeOnLogout
<1>5. ReqInv(r)'
  BY <1>1, <1>2, <1>4
  DEF ReqInv, Pending, Verifying, Inserting, Rotating, Replying, LoggingOut, Sweeping,
      Resetting, AnsweredInv
<1> QED BY <1>2, <1>4, <1>5, StepKeeps

LEMMA InsertKeeps ==
  ASSUME IInv, NEW r \in Request, NEW s \in Session, Insert(r, s)
  PROVE  IInv'
<1>0. PICK q : q = reqs[r] OBVIOUS
<1>1. /\ q \in Req /\ q.pc = "insert" /\ q.out = "none" /\ q.user \in User
      /\ \/ q.op = "login" /\ q.token = None
         \/ /\ q.op = "refresh" /\ Known(q.token) /\ Owner(q.token) = q.user
            /\ q.token \in Session => origin[q.token].born = q.read
  BY <1>0 DEF IInv, TypeOK, ReqsInv, ReqInv, Inserting, Pending, Insert, At
<1>2. /\ sessions \in [Session -> SessionRow] /\ origin \in [Session -> Origin]
      /\ epoch[q.user] \in Nat /\ q.user # None /\ None \notin Session
      /\ sessions[s] = NoSession
  BY <1>1, IdsAssumption
  DEF IInv, TypeOK, RowsInv, RowInv, Blank, Insert, Inserted
<1>3. PICK row : row = NewSession(q.user) OBVIOUS
<1>4. /\ row \in SessionRow /\ row.user = q.user /\ ~row.revoked
      /\ row.reason = "none" /\ row.replacedBy = None
  BY <1>1, <1>3 DEF NewSession, NoSession, SessionRow, Reason
<1>5. PICK o : o = [parent |-> q.token, born |-> epoch[q.user], read |-> q.read] OBVIOUS
<1>6. /\ o \in Origin /\ o.parent = q.token /\ o.born = epoch[q.user] /\ o.read = q.read
  BY <1>1, <1>2, <1>5 DEF Origin, Known, RefreshToken, Req
<1>7. /\ sessions' \in [Session -> SessionRow] /\ sessions'[s] = row
      /\ \A x \in Session \ {s} : sessions'[x] = sessions[x]
  BY <1>0, <1>2, <1>3, <1>4 DEF Insert
<1>8. /\ origin' \in [Session -> Origin] /\ origin'[s] = o
      /\ \A x \in Session \ {s} : origin'[x] = origin[x]
  BY <1>0, <1>2, <1>5, <1>6 DEF Insert
<1>9. /\ reqs' \in [Request -> Req] /\ \A x \in Request \ {r} : reqs'[x] = reqs[x]
      /\ reqs'[r].op = q.op /\ reqs'[r].user = q.user /\ reqs'[r].token = q.token
      /\ reqs'[r].fresh = s /\ reqs'[r].out = "none"
      /\ reqs'[r].pc = AfterInsert(q)
  <2>1. reqs' = [reqs EXCEPT ![r] = [q EXCEPT !.fresh = s, !.pc = AfterInsert(q)]]
    BY <1>0 DEF IInv, TypeOK, Insert
  <2>2. [q EXCEPT !.fresh = s, !.pc = AfterInsert(q)] \in Req
    BY <1>1 DEF Req, Pc, AfterInsert
  <2> QED BY <1>1, <2>1, <2>2 DEF IInv, TypeOK, Req
<1>10. UNCHANGED <<legacy, resets, password, expired, issued, epoch>> BY DEF Insert
<1>11. TypeOK' BY <1>7, <1>8, <1>9, <1>10 DEF IInv, TypeOK
<1>12. Grows BY <1>2, <1>7, <1>8, <1>10 DEF Grows, Inserted, NoSession
<1>13. q.token \in Session => /\ Inserted(q.token) /\ q.token # s
                              /\ sessions'[q.token] = sessions[q.token]
                              /\ origin'[q.token] = origin[q.token]
  BY <1>1, <1>2, <1>7, <1>8 DEF Known, Inserted, NoSession
<1>14. RowsInv'
  <2>1. ASSUME NEW x \in Session PROVE RowInv(x)'
    <3>1. CASE x = s
      <4>1. Blank(x)' BY <1>1, <1>2, <1>4, <1>7, <3>1 DEF Blank, Inserted
      <4>2. LiveIsRecent(x)'
        BY <1>4, <1>6, <1>7, <1>8, <1>10, <3>1 DEF LiveIsRecent
      <4>3. ChainIsRecent(x)'
        BY <1>1, <1>2, <1>6, <1>8, <1>13, <3>1 DEF ChainIsRecent, Inserted
      <4>4. Linked(x)' BY <1>4, <1>7, <3>1 DEF Linked
      <4> QED BY <4>1, <4>2, <4>3, <4>4 DEF RowInv
    <3>2. CASE x # s
      <4>1. RowInv(x) /\ sessions'[x] = sessions[x] /\ origin'[x] = origin[x]
        BY <1>7, <1>8, <3>2 DEF IInv, RowsInv
      <4>2. Blank(x)' BY <4>1 DEF RowInv, Blank, Inserted
      <4>3. LiveIsRecent(x)' BY <1>10, <4>1 DEF RowInv, LiveIsRecent, Inserted
      <4>4. ChainIsRecent(x)'
        BY <1>2, <1>7, <1>8, <4>1 DEF RowInv, ChainIsRecent, Inserted, NoSession
      <4>5. Linked(x)'
        <5>1. sessions[x].replacedBy # None => sessions[x].replacedBy \in Session
          BY <1>2 DEF SessionRow
        <5> QED BY <1>2, <1>7, <1>8, <4>1, <5>1
            DEF RowInv, Linked, Inserted, NoSession
      <4> QED BY <4>1, <4>2, <4>3, <4>4, <4>5 DEF RowInv
    <3> QED BY <3>1, <3>2
  <2> QED BY <2>1 DEF RowsInv
<1>15. IssuedInv' BY <1>10, <1>12, IssuedFrame DEF IInv
<1>16. ReqInv(r)'
  <2>1. CASE q.op = "login"
    <3>1. reqs'[r].pc = "reply" BY <1>9, <2>1 DEF AfterInsert
    <3>2. Released(s)'
      BY <1>1, <1>2, <1>4, <1>6, <1>7, <1>8, <2>1 DEF Released, Inserted
    <3>3. Replying(r)' BY <1>9, <2>1, <3>1, <3>2 DEF Replying
    <3> QED BY <1>9, <2>1, <3>1, <3>3
        DEF ReqInv, Pending, Verifying, Inserting, Rotating, LoggingOut, Sweeping,
            Resetting, AnsweredInv
  <2>2. CASE q.op = "refresh"
    <3>1. reqs'[r].pc = "rotate" BY <1>9, <2>2 DEF AfterInsert
    <3>2. Known(q.token)' /\ Owner(q.token)' = q.user
      BY <1>1, <1>10, <1>13, <2>2 DEF Known, Owner, Inserted
    <3>3. Rotating(r)'
      BY <1>2, <1>4, <1>6, <1>7, <1>8, <1>9, <2>2, <3>1, <3>2 DEF Rotating, Inserted
    <3> QED BY <1>9, <2>2, <3>1, <3>3
        DEF ReqInv, Pending, Verifying, Inserting, Replying, LoggingOut, Sweeping,
            Resetting, AnsweredInv
  <2> QED BY <1>1, <2>1, <2>2
<1> QED BY <1>9, <1>11, <1>12, <1>14, <1>15, <1>16, StepKeeps

LEMMA RotateOldKeeps ==
  ASSUME IInv, NEW r \in Request, RotateOld(r)
  PROVE  IInv'
<1>0. PICK t, f : t = reqs[r].token /\ f = reqs[r].fresh OBVIOUS
<1>1. /\ reqs[r].op = "refresh" /\ reqs[r].out = "none" /\ Known(t)
      /\ f \in Session /\ Inserted(f) /\ sessions[f].user = Owner(t)
      /\ origin[f].parent = t
  BY <1>0 DEF IInv, ReqsInv, ReqInv, Rotating, Pending, RotateOld, At
<1>2. CASE t \in Session
  <2>1. RevokeSession(t, "rotated", f) /\ Goto(r, "reply")
        /\ UNCHANGED <<legacy, resets, password, expired, issued, epoch, origin>>
    BY <1>0, <1>2, IdsAssumption DEF RotateOld
  <2>2. /\ reqs' \in [Request -> Req] /\ \A x \in Request \ {r} : reqs'[x] = reqs[x]
        /\ reqs'[r].op = "refresh" /\ reqs'[r].fresh = f
        /\ reqs'[r].pc = "reply" /\ reqs'[r].out = "none"
    BY <1>0, <1>1, <2>1, GotoReq DEF Pc
  <2>3. f # None BY <1>1, IdsAssumption
  <2>4. /\ TypeOK' /\ Grows /\ RowsInv' /\ IssuedInv' /\ sessions'[t].revoked
        /\ \A x \in Session : sessions'[x].user = sessions[x].user
    BY <1>1, <1>2, <2>1, <2>2, <2>3, RevokeSessionKeeps DEF Known, Owner, Reason
  <2>5. Released(f)' BY <1>1, <1>2, <2>1, <2>4 DEF Released, Known, Inserted
  <2>6. Replying(r)' BY <1>1, <2>2, <2>5 DEF Replying
  <2>7. ReqInv(r)'
    BY <2>2, <2>6
    DEF ReqInv, Pending, Verifying, Inserting, Rotating, LoggingOut, Sweeping,
        Resetting, AnsweredInv
  <2> QED BY <2>2, <2>4, <2>7, StepKeeps
<1>3. CASE t \notin Session
  <2>1. Finish(r, "error") /\ UNCHANGED sessions
        /\ UNCHANGED <<legacy, resets, password, expired, issued, epoch, origin>>
    BY <1>0, <1>3 DEF RotateOld
  <2>2. /\ reqs' \in [Request -> Req] /\ \A x \in Request \ {r} : reqs'[x] = reqs[x]
        /\ reqs'[r].pc = "idle" /\ reqs'[r].out = "error"
    BY <2>1, FinishReq DEF Outcome
  <2>3. ReqInv(r)'
    BY <2>2
    DEF ReqInv, Pending, Verifying, Inserting, Rotating, Replying, LoggingOut, Sweeping,
        Resetting, AnsweredInv
  <2> QED BY <2>1, <2>2, <2>3, ReqsOnly
<1> QED BY <1>2, <1>3

LEMMA ReplyKeeps ==
  ASSUME IInv, NEW r \in Request, Reply(r)
  PROVE  IInv'
<1>0. PICK f : f = reqs[r].fresh OBVIOUS
<1>1. f \in Session /\ Released(f) /\ reqs[r].op \in {"login", "refresh"}
  BY <1>0 DEF IInv, ReqsInv, ReqInv, Replying, Reply, At
<1>2. /\ reqs' \in [Request -> Req] /\ \A x \in Request \ {r} : reqs'[x] = reqs[x]
      /\ reqs'[r].op = reqs[r].op /\ reqs'[r].pc = "idle" /\ reqs'[r].out = "ok"
  BY FinishReq DEF Reply, Outcome
<1>3. /\ issued' = issued \cup {f}
      /\ UNCHANGED <<sessions, legacy, resets, password, expired, epoch, origin>>
  BY <1>0 DEF Reply
<1>4. TypeOK' BY <1>1, <1>2, <1>3 DEF IInv, TypeOK
<1>5. Grows BY <1>3 DEF Grows, Inserted
<1>6. RowsInv' BY <1>3, RowsFrame DEF IInv
<1>7. IssuedInv'
  <2>1. ASSUME NEW t \in issued' PROVE Released(t)'
    <3>1. Released(t) BY <1>1, <1>3 DEF IInv, IssuedInv
    <3> QED BY <1>3, <3>1 DEF Released, Inserted
  <2> QED BY <2>1 DEF IssuedInv
<1>8. ReqInv(r)'
  BY <1>1, <1>2
  DEF ReqInv, Pending, Verifying, Inserting, Rotating, Replying, LoggingOut, Sweeping,
      Resetting, AnsweredInv
<1> QED BY <1>2, <1>4, <1>5, <1>6, <1>7, <1>8, StepKeeps

\* A statement that leaves auth_sessions and the issued tokens as they are.
LEMMA TablesKeep ==
  ASSUME IInv, NEW r \in Request, TypeOK', Grows, ReqInv(r)',
         UNCHANGED <<sessions, origin, epoch, issued>>,
         \A x \in Request \ {r} : reqs'[x] = reqs[x]
  PROVE  IInv'
<1>1. RowsInv' BY RowsFrame DEF IInv
<1>2. IssuedInv' BY IssuedFrame DEF IInv
<1> QED BY <1>1, <1>2, StepKeeps

LEMMA LogoutAllKeeps ==
  ASSUME IInv, NEW r \in Request, NEW u \in User, LogoutAll(r, u)
  PROVE  IInv'
<1>1. reqs' \in [Request -> Req] /\ \A x \in Request \ {r} : reqs'[x] = reqs[x]
  BY DEF IInv, TypeOK, LogoutAll, Begin, NoRequest, Req, Op, Pc, Outcome, Token, ResetRow
<1>2. /\ reqs'[r].op = "logoutAll" /\ reqs'[r].pc = "sweep" /\ reqs'[r].user = u
      /\ reqs'[r].out = "none"
  BY DEF IInv, TypeOK, LogoutAll, Begin, NoRequest
<1>3. ReqInv(r)'
  BY <1>2
  DEF ReqInv, Pending, Verifying, Inserting, Rotating, Replying, LoggingOut, Sweeping,
      Resetting, AnsweredInv
<1> QED BY <1>1, <1>3, ReqsOnly DEF LogoutAll

LEMMA RequestResetKeeps ==
  ASSUME IInv, NEW r \in Request, NEW u \in User, RequestReset(r, u)
  PROVE  IInv'
<1>1. reqs' \in [Request -> Req] /\ \A x \in Request \ {r} : reqs'[x] = reqs[x]
  BY DEF IInv, TypeOK, RequestReset, Begin, NoRequest, Req, Op, Pc, Outcome, Token, ResetRow
<1>2. /\ reqs'[r].op = "requestReset" /\ reqs'[r].pc = "invalidate" /\ reqs'[r].user = u
      /\ reqs'[r].out = "none"
  BY DEF IInv, TypeOK, RequestReset, Begin, NoRequest
<1>3. ReqInv(r)'
  BY <1>2
  DEF ReqInv, Pending, Verifying, Inserting, Rotating, Replying, LoggingOut, Sweeping,
      Resetting, AnsweredInv
<1> QED BY <1>1, <1>3, ReqsOnly DEF RequestReset

LEMMA SweepSessionsKeeps ==
  ASSUME IInv, NEW r \in Request, SweepSessions(r)
  PROVE  IInv'
<1>0. PICK u : u = reqs[r].user OBVIOUS
<1>1. u \in User /\ reqs[r].op \in {"logoutAll", "reset"} /\ reqs[r].out = "none"
  BY <1>0 DEF IInv, ReqsInv, ReqInv, Sweeping, Pending, SweepSessions, At
<1>2. /\ reqs' \in [Request -> Req] /\ \A x \in Request \ {r} : reqs'[x] = reqs[x]
      /\ reqs'[r].op = reqs[r].op /\ reqs'[r].user = u
      /\ reqs'[r].pc = "sweepLegacy" /\ reqs'[r].out = "none"
  BY <1>0, <1>1, GotoReq DEF SweepSessions, Pc
<1>3. /\ sessions \in [Session -> SessionRow] /\ epoch \in [User -> Nat]
  BY DEF IInv, TypeOK
<1>4. sessions' = [s \in Session |->
                    IF sessions[s].user = u /\ ~sessions[s].revoked
                    THEN [sessions[s] EXCEPT !.revoked = TRUE, !.reason = "user_logout_all"]
                    ELSE sessions[s]]
  BY <1>0 DEF SweepSessions
<1>5. ASSUME NEW s \in Session
      PROVE  /\ sessions'[s] \in SessionRow /\ sessions'[s].user = sessions[s].user
             /\ sessions'[s].replacedBy = sessions[s].replacedBy
             /\ sessions[s].revoked => sessions'[s] = sessions[s]
             /\ sessions[s].user # u => sessions'[s] = sessions[s]
             /\ sessions[s].user = u => sessions'[s].revoked
             /\ ~sessions[s].revoked /\ sessions[s].user = u =>
                  sessions'[s].reason = "user_logout_all"
  BY <1>3, <1>4 DEF SessionRow, Reason
<1>6. sessions' \in [Session -> SessionRow] BY <1>4, <1>5
<1>7. /\ epoch' \in [User -> Nat] /\ \A x \in User \ {u} : epoch'[x] = epoch[x]
  <2>1. epoch' = [epoch EXCEPT ![u] = epoch[u] + 1] BY <1>0 DEF SweepSessions
  <2>2. epoch[u] \in Nat BY <1>1, <1>3
  <2>3. epoch[u] + 1 \in Nat BY <2>2
  <2> QED BY <1>3, <2>1, <2>3
<1>8. UNCHANGED <<legacy, resets, password, expired, issued, origin>>
  BY DEF SweepSessions
<1>9. TypeOK' BY <1>2, <1>6, <1>7, <1>8 DEF IInv, TypeOK
<1>10. Grows BY <1>5, <1>8 DEF Grows, Inserted
<1>11. RowsInv'
  <2>1. ASSUME NEW s \in Session PROVE RowInv(s)'
    <3>1. RowInv(s) /\ sessions[s] \in SessionRow BY <1>3 DEF IInv, RowsInv
    <3>2. Blank(s)'
      BY <1>1, <1>5, <3>1, IdsAssumption DEF RowInv, Blank, Inserted
    <3>3. LiveIsRecent(s)'
      BY <1>5, <1>7, <1>8, <3>1 DEF RowInv, LiveIsRecent, Inserted, SessionRow
    <3>4. ChainIsRecent(s)' BY <1>5, <1>8, <3>1 DEF RowInv, ChainIsRecent, Inserted
    <3>5. Linked(s)'
      <4>1. sessions[s].replacedBy # None => sessions[s].replacedBy \in Session
        BY <3>1 DEF SessionRow
      <4>2. sessions'[s].reason = "rotated" => sessions[s].reason = "rotated"
        BY <1>5, <3>1 DEF SessionRow
      <4> QED BY <1>5, <1>8, <3>1, <4>1, <4>2 DEF RowInv, Linked, Inserted
    <3> QED BY <3>2, <3>3, <3>4, <3>5 DEF RowInv
  <2> QED BY <2>1 DEF RowsInv
<1>12. IssuedInv' BY <1>8, <1>10, IssuedFrame DEF IInv
<1>13. ReqInv(r)'
  BY <1>1, <1>2
  DEF ReqInv, Pending, Verifying, Inserting, Rotating, Replying, LoggingOut, Sweeping,
      Resetting, AnsweredInv
<1> QED BY <1>2, <1>9, <1>10, <1>11, <1>12, <1>13, StepKeeps

LEMMA SweepLegacyKeeps ==
  ASSUME IInv, NEW r \in Request, SweepLegacy(r)
  PROVE  IInv'
<1>1. reqs[r].op \in {"logoutAll", "reset"}
  BY DEF IInv, ReqsInv, ReqInv, Sweeping, SweepLegacy, At
<1>2. /\ reqs' \in [Request -> Req] /\ \A x \in Request \ {r} : reqs'[x] = reqs[x]
      /\ reqs'[r].op = reqs[r].op /\ reqs'[r].pc = "idle" /\ reqs'[r].out = "ok"
  BY FinishReq DEF SweepLegacy, Outcome
<1>3. /\ legacy' \in [Legacy -> LegacyRow]
      /\ \A t \in Legacy : /\ legacy'[t].user = legacy[t].user
                           /\ legacy[t].revoked => legacy'[t].revoked
  BY DEF IInv, TypeOK, SweepLegacy, LegacyRow
<1>4. UNCHANGED <<sessions, resets, password, expired, issued, epoch, origin>>
  BY DEF SweepLegacy
<1>5. TypeOK' BY <1>2, <1>3, <1>4 DEF IInv, TypeOK
<1>6. Grows BY <1>3, <1>4 DEF Grows, Inserted
<1>7. ReqInv(r)'
  BY <1>1, <1>2
  DEF ReqInv, Pending, Verifying, Inserting, Rotating, Replying, LoggingOut, Sweeping,
      Resetting, AnsweredInv
<1> QED BY <1>2, <1>4, <1>5, <1>6, <1>7, TablesKeep

LEMMA InvalidateKeeps ==
  ASSUME IInv, NEW r \in Request, Invalidate(r)
  PROVE  IInv'
<1>1. reqs[r].op = "requestReset" /\ reqs[r].user \in User /\ reqs[r].out = "none"
  BY DEF IInv, ReqsInv, ReqInv, Resetting, Pending, Invalidate, At
<1>2. /\ reqs' \in [Request -> Req] /\ \A x \in Request \ {r} : reqs'[x] = reqs[x]
      /\ reqs'[r].op = "requestReset" /\ reqs'[r].user = reqs[r].user
      /\ reqs'[r].pc = "insertReset" /\ reqs'[r].out = "none"
  BY <1>1, GotoReq DEF Invalidate, Pc
<1>3. /\ resets' \in [Reset -> ResetRow]
      /\ \A k \in Reset : /\ resets'[k].user = resets[k].user
                          /\ resets[k].used => resets'[k].used
  BY DEF IInv, TypeOK, Invalidate, ResetRow
<1>4. UNCHANGED <<sessions, legacy, password, expired, issued, epoch, origin>>
  BY DEF Invalidate
<1>5. TypeOK' BY <1>2, <1>3, <1>4 DEF IInv, TypeOK
<1>6. Grows BY <1>3, <1>4 DEF Grows, Inserted
<1>7. ReqInv(r)'
  BY <1>1, <1>2
  DEF ReqInv, Pending, Verifying, Inserting, Rotating, Replying, LoggingOut, Sweeping,
      Resetting, AnsweredInv
<1> QED BY <1>2, <1>4, <1>5, <1>6, <1>7, TablesKeep

LEMMA InsertResetKeeps ==
  ASSUME IInv, NEW r \in Request, NEW k \in Reset, InsertReset(r, k)
  PROVE  IInv'
<1>1. reqs[r].op = "requestReset" /\ reqs[r].user \in User
  BY DEF IInv, ReqsInv, ReqInv, Resetting, InsertReset, At
<1>2. /\ reqs' \in [Request -> Req] /\ \A x \in Request \ {r} : reqs'[x] = reqs[x]
      /\ reqs'[r].op = "requestReset" /\ reqs'[r].pc = "idle" /\ reqs'[r].out = "ok"
  BY <1>1, FinishReq DEF InsertReset, Outcome
<1>3. /\ resets' \in [Reset -> ResetRow]
      /\ \A x \in Reset : resets[x].user # None => resets'[x] = resets[x]
  BY <1>1 DEF IInv, TypeOK, InsertReset, ResetRow
<1>4. UNCHANGED <<sessions, legacy, password, expired, issued, epoch, origin>>
  BY DEF InsertReset
<1>5. TypeOK' BY <1>2, <1>3, <1>4 DEF IInv, TypeOK
<1>6. Grows BY <1>3, <1>4 DEF Grows, Inserted
<1>7. ReqInv(r)'
  BY <1>2
  DEF ReqInv, Pending, Verifying, Inserting, Rotating, Replying, LoggingOut, Sweeping,
      Resetting, AnsweredInv
<1> QED BY <1>2, <1>4, <1>5, <1>6, <1>7, TablesKeep

LEMMA ResetPasswordKeeps ==
  ASSUME IInv, NEW r \in Request, NEW k \in Reset, NEW p \in Password,
         ResetPassword(r, k, p)
  PROVE  IInv'
<1>0. PICK u : u = resets[k].user OBVIOUS
<1>1. u \in User BY <1>0 DEF IInv, TypeOK, ResetPassword, ResetRow
<1>2. reqs' \in [Request -> Req] /\ \A x \in Request \ {r} : reqs'[x] = reqs[x]
  BY <1>0, <1>1
  DEF IInv, TypeOK, ResetPassword, Begin, NoRequest, Req, Op, Pc, Outcome, Token
<1>3. /\ reqs'[r].op = "reset" /\ reqs'[r].user = u /\ reqs'[r].token = k
      /\ reqs'[r].pw = p /\ reqs'[r].out = "none"
      /\ reqs'[r].pc = (IF k \in expired THEN "burnExpired" ELSE "burn")
  BY <1>0 DEF IInv, TypeOK, ResetPassword, Begin, NoRequest
<1>4. resets'[k].user = u BY <1>0 DEF ResetPassword
<1>5. ReqInv(r)'
  BY <1>1, <1>3, <1>4
  DEF ReqInv, Pending, Verifying, Inserting, Rotating, Replying, LoggingOut, Sweeping,
      Resetting, AnsweredInv
<1> QED BY <1>2, <1>5, ReqsOnly DEF ResetPassword

LEMMA BurnKeeps ==
  ASSUME IInv, NEW r \in Request, Burn(r)
  PROVE  IInv'
<1>0. PICK k : k = reqs[r].token OBVIOUS
<1>1. /\ reqs[r].op = "reset" /\ k \in Reset /\ reqs[r].user \in User
      /\ resets[k].user = reqs[r].user /\ reqs[r].out = "none"
      /\ reqs[r].pc = "burn" => reqs[r].pw \in Password
  BY <1>0 DEF IInv, ReqsInv, ReqInv, Resetting, Pending, Burn, At
<1>2. /\ resets' \in [Reset -> ResetRow] /\ resets'[k].used
      /\ \A x \in Reset : /\ resets'[x].user = resets[x].user
                          /\ resets[x].used => resets'[x].used
  BY <1>0, <1>1 DEF IInv, TypeOK, Burn, ResetRow
<1>3. UNCHANGED <<sessions, legacy, password, expired, issued, epoch, origin>>
  BY DEF Burn
<1>4. /\ reqs' \in [Request -> Req] /\ \A x \in Request \ {r} : reqs'[x] = reqs[x]
      /\ reqs'[r].op = "reset" /\ reqs'[r].user = reqs[r].user /\ reqs'[r].token = k
      /\ \/ /\ reqs'[r].pc = "update" /\ reqs'[r].out = "none"
            /\ reqs'[r].pw \in Password
         \/ reqs'[r].pc = "idle"
  <2>1. CASE At(r, "burn") /\ Goto(r, "update")
    BY <1>0, <1>1, <2>1, GotoReq DEF At, Pc
  <2>2. CASE Finish(r, "denied")
    BY <1>0, <1>1, <2>2, FinishReq DEF Outcome
  <2> QED BY <2>1, <2>2 DEF Burn
<1>5. TypeOK' BY <1>2, <1>3, <1>4 DEF IInv, TypeOK
<1>6. Grows BY <1>2, <1>3 DEF Grows, Inserted
<1>7. ReqInv(r)'
  BY <1>1, <1>2, <1>4
  DEF ReqInv, Pending, Verifying, Inserting, Rotating, Replying, LoggingOut, Sweeping,
      Resetting, AnsweredInv
<1> QED BY <1>3, <1>4, <1>5, <1>6, <1>7, TablesKeep

LEMMA UpdatePasswordKeeps ==
  ASSUME IInv, NEW r \in Request, UpdatePassword(r)
  PROVE  IInv'
<1>1. /\ reqs[r].op = "reset" /\ reqs[r].user \in User /\ reqs[r].pw \in Password
      /\ reqs[r].out = "none"
  BY DEF IInv, ReqsInv, ReqInv, Resetting, Pending, UpdatePassword, At
<1>2. /\ reqs' \in [Request -> Req] /\ \A x \in Request \ {r} : reqs'[x] = reqs[x]
      /\ reqs'[r].op = "reset" /\ reqs'[r].user = reqs[r].user
      /\ reqs'[r].pc = "sweep" /\ reqs'[r].out = "none"
  BY <1>1, GotoReq DEF UpdatePassword, Pc
<1>3. password' \in [User -> Password] BY <1>1 DEF IInv, TypeOK, UpdatePassword
<1>4. UNCHANGED <<sessions, legacy, resets, expired, issued, epoch, origin>>
  BY DEF UpdatePassword
<1>5. TypeOK' BY <1>2, <1>3, <1>4 DEF IInv, TypeOK
<1>6. Grows BY <1>4 DEF Grows, Inserted
<1>7. ReqInv(r)'
  BY <1>1, <1>2
  DEF ReqInv, Pending, Verifying, Inserting, Rotating, Replying, LoggingOut, Sweeping,
      Resetting, AnsweredInv
<1> QED BY <1>2, <1>4, <1>5, <1>6, <1>7, TablesKeep

LEMMA FailKeeps ==
  ASSUME IInv, NEW r \in Request, Fail(r)
  PROVE  IInv'
<1>1. /\ reqs' \in [Request -> Req] /\ \A x \in Request \ {r} : reqs'[x] = reqs[x]
      /\ reqs'[r] = NoRequest
  BY DEF IInv, TypeOK, Fail, NoRequest, Req, Op, Pc, Outcome
<1>2. ReqInv(r)'
  BY <1>1
  DEF NoRequest, ReqInv, Pending, Verifying, Inserting, Rotating, Replying, LoggingOut, Sweeping,
      Resetting, AnsweredInv
<1> QED BY <1>1, <1>2, ReqsOnly DEF Fail

LEMMA ExpireKeeps ==
  ASSUME IInv, NEW t \in Token, Expire(t)
  PROVE  IInv'
<1>1. /\ UNCHANGED <<sessions, legacy, resets, password, issued, reqs, epoch, origin>>
      /\ expired' = expired \cup {t}
  BY DEF Expire
<1>2. TypeOK' BY <1>1 DEF IInv, TypeOK
<1>3. Grows BY <1>1 DEF Grows, Inserted
<1>4. RowsInv' BY <1>1, RowsFrame DEF IInv
<1>5. IssuedInv' BY <1>1, <1>3, IssuedFrame DEF IInv
<1>6. ASSUME NEW r \in Request PROVE ReqInv(r)'
  BY <1>1, <1>3, OthersKeep DEF IInv, ReqsInv
<1> QED BY <1>2, <1>4, <1>5, <1>6 DEF IInv, ReqsInv

-----------------------------------------------------------------------------
LEMMA InitIInv == Init => IInv
<1> SUFFICES ASSUME Init PROVE IInv OBVIOUS
<1>1. TypeOK
  BY DEF Init, TypeOK, NoSession, NoRequest, SessionRow, LegacyRow, ResetRow, Req, Op, Pc,
     Outcome, Reason, Origin, Token
<1>2. RowsInv
  BY IdsAssumption
  DEF Init, NoSession, RowsInv, RowInv, Blank, LiveIsRecent, ChainIsRecent, Linked, Inserted
<1>3. IssuedInv BY IdsAssumption DEF Init, IssuedInv, Released
<1>4. ReqsInv
  BY DEF Init, NoRequest, ReqsInv, ReqInv, Pending, Verifying, Inserting, Rotating, Replying, LoggingOut, Sweeping,
      Resetting, AnsweredInv
<1> QED BY <1>1, <1>2, <1>3, <1>4 DEF IInv

LEMMA OneStepKeeps ==
  ASSUME IInv, NEW r \in Request, Step(r)
  PROVE  IInv'
<1>1. ASSUME NEW u \in User, NEW p \in Password, Login(r, u, p) PROVE IInv'
  BY <1>1, LoginKeeps
<1>2. ASSUME NEW t \in issued, Refresh(r, t) PROVE IInv'
  <2>1. Owner(t) \in User \cup {None}
    BY DEF IInv, TypeOK, IssuedInv, Owner, SessionRow, LegacyRow
  <2>2. PICK u \in User \cup {None} : u = Owner(t) BY <2>1
  <2>3. Present(r, "refresh", u, t) BY <1>2, <2>2 DEF Refresh
  <2>4. PICK op : op = "refresh" OBVIOUS
  <2> QED BY <2>2, <2>3, <2>4, PresentKeeps
<1>3. ASSUME NEW t \in issued, NEW u \in User, Logout(r, u, t) PROVE IInv'
  <2>1. Present(r, "logout", u, t) BY <1>3 DEF Logout
  <2> QED BY <2>1, PresentKeeps
<1>4. CASE Find(r) BY <1>4, FindKeeps
<1>5. CASE ExpireRow(r) BY <1>5, ExpireRowKeeps
<1>6. CASE MarkUsed(r) BY <1>6, MarkUsedKeeps
<1>7. ASSUME NEW s \in Session, Insert(r, s) PROVE IInv' BY <1>7, InsertKeeps
<1>8. CASE RotateOld(r) BY <1>8, RotateOldKeeps
<1>9. CASE Reply(r) BY <1>9, ReplyKeeps
<1>10. CASE RevokeOnLogout(r) BY <1>10, RevokeOnLogoutKeeps
<1>11. ASSUME NEW u \in User, LogoutAll(r, u) PROVE IInv' BY <1>11, LogoutAllKeeps
<1>12. CASE SweepSessions(r) BY <1>12, SweepSessionsKeeps
<1>13. CASE SweepLegacy(r) BY <1>13, SweepLegacyKeeps
<1>14. ASSUME NEW u \in User, RequestReset(r, u) PROVE IInv'
  BY <1>14, RequestResetKeeps
<1>15. CASE Invalidate(r) BY <1>15, InvalidateKeeps
<1>16. ASSUME NEW k \in Reset, InsertReset(r, k) PROVE IInv' BY <1>16, InsertResetKeeps
<1>17. ASSUME NEW k \in Reset, NEW p \in Password, ResetPassword(r, k, p) PROVE IInv'
  BY <1>17, ResetPasswordKeeps
<1>18. CASE Burn(r) BY <1>18, BurnKeeps
<1>19. CASE UpdatePassword(r) BY <1>19, UpdatePasswordKeeps
<1>20. CASE Fail(r) BY <1>20, FailKeeps
<1> QED
  BY <1>1, <1>2, <1>3, <1>4, <1>5, <1>6, <1>7, <1>8, <1>9, <1>10, <1>11, <1>12, <1>13,
     <1>14, <1>15, <1>16, <1>17, <1>18, <1>19, <1>20 DEF Step

LEMMA StutterKeeps ==
  ASSUME IInv, UNCHANGED vars
  PROVE  IInv'
<1>1. /\ UNCHANGED <<sessions, legacy, resets, password, expired, issued, reqs, epoch, origin>>
  BY DEF vars
<1>2. TypeOK' BY <1>1 DEF IInv, TypeOK
<1>3. Grows BY <1>1 DEF Grows, Inserted
<1>4. RowsInv' BY <1>1, RowsFrame DEF IInv
<1>5. IssuedInv' BY <1>1, <1>3, IssuedFrame DEF IInv
<1>6. ASSUME NEW r \in Request PROVE ReqInv(r)'
  BY <1>1, <1>3, OthersKeep DEF IInv, ReqsInv
<1> QED BY <1>2, <1>4, <1>5, <1>6 DEF IInv, ReqsInv

LEMMA StepIInv == IInv /\ [Next]_vars => IInv'
BY OneStepKeeps, ExpireKeeps, StutterKeeps DEF Next

\* The invariant holds in every reachable state: the induction that all the
\* properties below rest on.
THEOREM Invariance == Spec => []IInv
BY InitIInv, StepIInv, PTL DEF Spec

\* Type correctness: every row and every request stays of its type, for any number
\* of users, tokens and concurrent requests.
THEOREM TypeCorrect == Spec => []TypeOK
<1>1. IInv => TypeOK BY DEF IInv
<1> QED BY <1>1, Invariance, PTL

\* revokeAuthSessionsForUser cuts every chain of rotations: a session rotated from
\* another is never older than the check that allowed it.
THEOREM SweepsCutChains == Spec => []SweepEndsEveryChain
<1>1. IInv => SweepEndsEveryChain
  BY DEF IInv, RowsInv, RowInv, ChainIsRecent, SweepEndsEveryChain
<1> QED BY <1>1, Invariance, PTL

\* issueTokens revokes the old session before the new token leaves: no client holds
\* two working tokens of one chain link.
THEOREM RotationRetires == Spec => []RotationRetiresParent
<1>1. IInv => RotationRetiresParent
  BY DEF IInv, IssuedInv, Released, RotationRetiresParent
<1> QED BY <1>1, Invariance, PTL

\* replaced_by only ever links a revoked session to one of the same user that was
\* rotated from it.
THEOREM LinksAreSound == Spec => []ReplacementSound
<1>1. IInv => ReplacementSound
  BY DEF IInv, RowsInv, RowInv, Linked, ReplacementSound
<1> QED BY <1>1, Invariance, PTL

\* verifyRefreshToken refuses only tokens that are revoked or out of date, and they
\* stay so.
THEOREM RejectionsAreFinal == Spec => []RejectionIsFinal
<1>1. IInv => RejectionIsFinal
  BY DEF IInv, ReqsInv, ReqInv, AnsweredInv, RejectionIsFinal
<1> QED BY <1>1, Invariance, PTL

\* revokeRefreshTokenForSession has revoked the caller's token when logout answers.
THEOREM LogoutsAreEffective == Spec => []LogoutIsEffective
<1>1. IInv => LogoutIsEffective
  BY DEF IInv, ReqsInv, ReqInv, AnsweredInv, LogoutIsEffective
<1> QED BY <1>1, Invariance, PTL

-----------------------------------------------------------------------------
\* the two action properties, as the state predicates they demand of a step
OnlyRevoked ==
  /\ \A s \in Session :
       /\ sessions[s].revoked => sessions'[s].revoked
       /\ sessions[s].replacedBy # None => sessions'[s].replacedBy = sessions[s].replacedBy
  /\ \A t \in Legacy : legacy[t].revoked => legacy'[t].revoked
BurnedFirst ==
  \A u \in User : password'[u] # password[u] =>
    \E r \in Request : /\ At(r, "update") /\ ~At(r, "update")'
                       /\ resets[reqs[r].token] = [user |-> u, used |-> TRUE]

LEMMA RevokeSessionOnly ==
  ASSUME TypeOK, NEW s \in Session, NEW why, NEW by, RevokeSession(s, why, by),
         legacy' = legacy
  PROVE  OnlyRevoked
<1>1. /\ sessions \in [Session -> SessionRow] /\ sessions[s] \in SessionRow
  BY DEF TypeOK
<1>2. PICK row : row = RevokedRow(sessions[s], why, by) OBVIOUS
<1>3. /\ row.revoked
      /\ sessions[s].replacedBy # None => row.replacedBy = sessions[s].replacedBy
  BY <1>1, <1>2 DEF RevokedRow, SessionRow
<1>4. sessions'[s] = row /\ \A x \in Session \ {s} : sessions'[x] = sessions[x]
  BY <1>1, <1>2 DEF RevokeSession
<1> QED BY <1>3, <1>4 DEF OnlyRevoked

LEMMA RevokeLegacyOnly ==
  ASSUME TypeOK, NEW t, RevokeLegacy(t), sessions' = sessions
  PROVE  OnlyRevoked
<1>1. legacy' = [legacy EXCEPT ![t].revoked = TRUE] BY DEF RevokeLegacy
<1>2. legacy \in [Legacy -> LegacyRow] BY DEF TypeOK
<1>3. \A x \in Legacy : legacy[x].revoked => legacy'[x].revoked
  BY <1>1, <1>2 DEF LegacyRow
<1> QED BY <1>3 DEF OnlyRevoked

LEMMA StepOnlyRevokes ==
  ASSUME IInv, [Next]_vars
  PROVE  OnlyRevoked
<1>1. ASSUME UNCHANGED <<sessions, legacy>> PROVE OnlyRevoked
  BY <1>1 DEF OnlyRevoked
<1>2. TypeOK BY DEF IInv
<1>3. ASSUME NEW r \in Request, ExpireRow(r) PROVE OnlyRevoked
  <2>1. PICK t : t = reqs[r].token OBVIOUS
  <2>2. Known(t) BY <1>3, <2>1, AtFind DEF ExpireRow, At
  <2>3. CASE t \in Session
    BY <1>2, <1>3, <2>1, <2>3, RevokeSessionOnly DEF ExpireRow
  <2>4. CASE t \notin Session
    BY <1>2, <1>3, <2>1, <2>4, RevokeLegacyOnly DEF ExpireRow
  <2> QED BY <2>3, <2>4
<1>4. ASSUME NEW r \in Request, RevokeOnLogout(r) PROVE OnlyRevoked
  <2>1. PICK t : t = reqs[r].token OBVIOUS
  <2>2. CASE t \in Session
    BY <1>2, <1>4, <2>1, <2>2, RevokeSessionOnly DEF RevokeOnLogout
  <2>3. CASE t \notin Session
    BY <1>2, <1>4, <2>1, <2>3, RevokeLegacyOnly DEF RevokeOnLogout
  <2> QED BY <2>2, <2>3
<1>5. ASSUME NEW r \in Request, RotateOld(r) PROVE OnlyRevoked
  <2>1. PICK t, f : t = reqs[r].token /\ f = reqs[r].fresh OBVIOUS
  <2>2. legacy' = legacy BY <1>5 DEF RotateOld
  <2>3. CASE t \in Session /\ RevokeSession(t, "rotated", f)
    BY <1>2, <2>2, <2>3, RevokeSessionOnly
  <2>4. CASE sessions' = sessions BY <1>1, <2>2, <2>4
  <2> QED BY <1>5, <2>1, <2>3, <2>4 DEF RotateOld
<1>6. ASSUME NEW r \in Request, NEW s \in Session, Insert(r, s) PROVE OnlyRevoked
  <2>1. sessions[s] = NoSession
    BY <1>6 DEF IInv, RowsInv, RowInv, Blank, Insert, Inserted
  <2>2. ~sessions[s].revoked /\ sessions[s].replacedBy = None BY <2>1 DEF NoSession
  <2>3. /\ legacy' = legacy
        /\ \A x \in Session \ {s} : sessions'[x] = sessions[x]
    BY <1>2, <1>6 DEF TypeOK, Insert
  <2> QED BY <2>2, <2>3 DEF OnlyRevoked
<1>7. ASSUME NEW r \in Request, SweepSessions(r) PROVE OnlyRevoked
  <2>1. PICK u : u = reqs[r].user OBVIOUS
  <2>2. sessions' = [s \in Session |->
                      IF sessions[s].user = u /\ ~sessions[s].revoked
                      THEN [sessions[s] EXCEPT !.revoked = TRUE,
                                               !.reason = "user_logout_all"]
                      ELSE sessions[s]]
    BY <1>7, <2>1 DEF SweepSessions
  <2>3. legacy' = legacy BY <1>7 DEF SweepSessions
  <2>4. ASSUME NEW s \in Session
        PROVE  /\ sessions[s].revoked => sessions'[s].revoked
               /\ sessions'[s].replacedBy = sessions[s].replacedBy
    BY <1>2, <2>2 DEF TypeOK, SessionRow
  <2> QED BY <2>3, <2>4 DEF OnlyRevoked
<1>8. ASSUME NEW r \in Request, SweepLegacy(r) PROVE OnlyRevoked
  BY <1>2, <1>8 DEF TypeOK, SweepLegacy, LegacyRow, OnlyRevoked
<1>9. ASSUME NEW r \in Request, Step(r) PROVE OnlyRevoked
  BY <1>1, <1>3, <1>4, <1>5, <1>6, <1>7, <1>8, <1>9
  DEF Step, Login, Refresh, Logout, Present, Find, MarkUsed, Reply, LogoutAll,
      RequestReset, Invalidate, InsertReset, ResetPassword, Burn, UpdatePassword, Fail
<1>10. ASSUME NEW t \in Token, Expire(t) PROVE OnlyRevoked
  BY <1>1, <1>10 DEF Expire
<1> QED BY <1>1, <1>9, <1>10 DEF Next, vars

LEMMA StepBurnsFirst ==
  ASSUME IInv, [Next]_vars
  PROVE  BurnedFirst
<1>1. ASSUME password' = password PROVE BurnedFirst BY <1>1 DEF BurnedFirst
<1>2. ASSUME NEW r \in Request, UpdatePassword(r) PROVE BurnedFirst
  <2>1. PICK k, v : k = reqs[r].token /\ v = reqs[r].user OBVIOUS
  <2>2. /\ k \in Reset /\ v \in User /\ resets[k].user = v /\ resets[k].used
    BY <1>2, <2>1 DEF IInv, ReqsInv, ReqInv, Resetting, UpdatePassword, At
  <2>3. resets[k] = [user |-> v, used |-> TRUE]
    BY <2>2 DEF IInv, TypeOK, ResetRow
  <2>4. \A u \in User \ {v} : password'[u] = password[u]
    BY <1>2, <2>1 DEF IInv, TypeOK, UpdatePassword
  <2>5. At(r, "update") BY <1>2 DEF UpdatePassword
  <2>6. reqs'[r].pc = "sweep" BY <1>2, GotoReq DEF UpdatePassword, Pc
  <2>7. ~At(r, "update")' BY <2>6 DEF At
  <2> QED BY <2>1, <2>3, <2>4, <2>5, <2>7 DEF BurnedFirst
<1>3. ASSUME NEW r \in Request, Step(r) PROVE BurnedFirst
  BY <1>1, <1>2, <1>3
  DEF Step, Login, Refresh, Logout, Present, Find, ExpireRow, MarkUsed, Insert, RotateOld,
      Reply, RevokeOnLogout, LogoutAll, SweepSessions, SweepLegacy, RequestReset,
      Invalidate, InsertReset, ResetPassword, Burn, Fail
<1>4. ASSUME NEW t \in Token, Expire(t) PROVE BurnedFirst
  BY <1>1, <1>4 DEF Expire
<1> QED BY <1>1, <1>3, <1>4 DEF Next, vars

\* No statement un-revokes a token or relinks a session row, however the handlers of
\* any number of requests interleave, fail or crash.
THEOREM RevocationsArePermanent == Spec => RevocationIsPermanent
<1>1. IInv /\ [Next]_vars => [OnlyRevoked]_vars BY StepOnlyRevokes
<1>2. [][OnlyRevoked]_vars => RevocationIsPermanent
  BY PTL DEF OnlyRevoked, RevocationIsPermanent
<1> QED BY <1>1, <1>2, Invariance, PTL DEF Spec

\* resetPasswordWithToken never sets a password on a token it has not yet burned.
THEOREM BurnsComeFirst == Spec => BurnBeforeChange
<1>1. IInv /\ [Next]_vars => [BurnedFirst]_vars BY StepBurnsFirst
<1>2. [][BurnedFirst]_vars => BurnBeforeChange
  BY PTL DEF BurnedFirst, BurnBeforeChange
<1> QED BY <1>1, <1>2, Invariance, PTL DEF Spec
-----------------------------------------------------------------------------
(***************************************************************************)
(* The refinement.  Besides IInv it needs to know what a request carries   *)
(* from its check to its answer: a token that was handed out, and a fresh  *)
(* session that nobody else has and no client has seen.                    *)
(***************************************************************************)
Holding(r) == reqs[r].pc \in {"rotate", "reply"}
Carrying(r) ==
  reqs[r].pc \in {"find", "expire", "mark", "insert", "rotate", "reply"} =>
    \/ reqs[r].op = "login" /\ reqs[r].token = None
    \/ reqs[r].op \in {"refresh", "logout"} /\ reqs[r].token \in issued
FreshIsOwn(r) ==
  Holding(r) =>
    /\ reqs[r].user \in User
    /\ reqs[r].fresh \in Session \ issued
    /\ sessions[reqs[r].fresh].user = reqs[r].user
    /\ \A x \in Request \ {r} : Holding(x) => reqs[x].fresh # reqs[r].fresh
OldIsDead(r) ==
  reqs[r].pc = "reply" /\ reqs[r].op # "login" =>
    reqs[r].token \in Session /\ sessions[reqs[r].token].revoked
Handing(r) == Carrying(r) /\ FreshIsOwn(r) /\ OldIsDead(r)
HandInv == IInv /\ \A r \in Request : Handing(r)

\* A token that was handed out exists.
LEMMA IssuedKnown ==
  ASSUME IInv, NEW t \in issued
  PROVE  Known(t) /\ Owner(t) \in User
<1>1. Known(t) BY DEF IInv, TypeOK, IssuedInv, Released, Known, RefreshToken
<1> QED
  BY <1>1, IdsAssumption DEF IInv, TypeOK, Known, Owner, Inserted, SessionRow, LegacyRow,
     RefreshToken

\* No statement moves a row to another user.
OwnersStay ==
  /\ \A s \in Session : Inserted(s) => sessions'[s].user = sessions[s].user
  /\ \A t \in Legacy : legacy'[t].user = legacy[t].user

LEMMA RevokeSessionStays ==
  ASSUME TypeOK, NEW s, NEW why, NEW by, RevokeSession(s, why, by), legacy' = legacy
  PROVE  OwnersStay
<1>1. sessions \in [Session -> SessionRow] BY DEF TypeOK
<1>2. PICK row : row = RevokedRow(sessions[s], why, by) OBVIOUS
<1>3. s \in Session => row.user = sessions[s].user BY <1>1, <1>2 DEF RevokedRow, SessionRow
<1>4. sessions' = [sessions EXCEPT ![s] = row] BY <1>2 DEF RevokeSession
<1>5. \A x \in Session : sessions'[x].user = sessions[x].user BY <1>1, <1>3, <1>4
<1> QED BY <1>5 DEF OwnersStay

LEMMA StepOwnersStay ==
  ASSUME IInv, [Next]_vars
  PROVE  OwnersStay
<1>1. ASSUME UNCHANGED <<sessions, legacy>> PROVE OwnersStay
  BY <1>1 DEF OwnersStay
<1>2. TypeOK BY DEF IInv
<1>3. ASSUME NEW t, RevokeLegacy(t), sessions' = sessions PROVE OwnersStay
  BY <1>2, <1>3 DEF TypeOK, LegacyRow, RevokeLegacy, OwnersStay
<1>4. ASSUME NEW r \in Request, ExpireRow(r) PROVE OwnersStay
  BY <1>2, <1>3, <1>4, RevokeSessionStays DEF ExpireRow
<1>5. ASSUME NEW r \in Request, RevokeOnLogout(r) PROVE OwnersStay
  BY <1>2, <1>3, <1>5, RevokeSessionStays DEF RevokeOnLogout
<1>6. ASSUME NEW r \in Request, RotateOld(r) PROVE OwnersStay
  BY <1>1, <1>2, <1>6, RevokeSessionStays DEF RotateOld
<1>7. ASSUME NEW r \in Request, NEW s \in Session, Insert(r, s) PROVE OwnersStay
  BY <1>2, <1>7 DEF TypeOK, Insert, Inserted, OwnersStay
<1>8. ASSUME NEW r \in Request, SweepSessions(r) PROVE OwnersStay
  <2>1. PICK u : u = reqs[r].user OBVIOUS
  <2>2. /\ legacy' = legacy
        /\ sessions' = [s \in Session |->
                         IF sessions[s].user = u /\ ~sessions[s].revoked
                         THEN [sessions[s] EXCEPT !.revoked = TRUE,
                                                  !.reason = "user_logout_all"]
                         ELSE sessions[s]]
    BY <1>8, <2>1 DEF SweepSessions
  <2>3. \A s \in Session : sessions'[s].user = sessions[s].user
    BY <1>2, <2>2 DEF TypeOK, SessionRow
  <2> QED BY <2>2, <2>3 DEF OwnersStay
<1>9. ASSUME NEW r \in Request, SweepLegacy(r) PROVE OwnersStay
  BY <1>2, <1>9 DEF TypeOK, SweepLegacy, LegacyRow, OwnersStay
<1>10. ASSUME NEW r \in Request, Step(r) PROVE OwnersStay
  BY <1>1, <1>4, <1>5, <1>6, <1>7, <1>8, <1>9, <1>10
  DEF Step, Login, Refresh, Logout, Present, Find, MarkUsed, Reply, LogoutAll,
      RequestReset, Invalidate, InsertReset, ResetPassword, Burn, UpdatePassword, Fail
<1>11. ASSUME NEW t \in Token, Expire(t) PROVE OwnersStay
  BY <1>1, <1>11 DEF Expire
<1> QED BY <1>1, <1>10, <1>11 DEF Next, vars

\* A token that was handed out keeps its owner, and its revocation.
LEMMA IssuedStays ==
  ASSUME IInv, [Next]_vars, NEW t \in issued
  PROVE  Owner(t)' = Owner(t) /\ (IsRevoked(t) => IsRevoked(t)')
<1>1. OwnersStay /\ OnlyRevoked BY StepOwnersStay, StepOnlyRevokes
<1>2. Known(t) BY IssuedKnown
<1> QED BY <1>1, <1>2 DEF Known, OwnersStay, OnlyRevoked, Owner, IsRevoked, RefreshToken

\* Another request keeps what it carries.
LEMMA OthersCarry ==
  ASSUME HandInv, [Next]_vars, NEW r \in Request, NEW x \in Request \ {r},
         \A y \in Request \ {r} : reqs'[y] = reqs[y],
         issued \subseteq issued',
         \A t \in issued' \ issued : Holding(r) /\ t = reqs[r].fresh,
         Holding(r)' => \A y \in Request \ {r} : Holding(y) => reqs[y].fresh # reqs'[r].fresh
  PROVE  Handing(x)'
<1>1. /\ reqs'[x] = reqs[x] /\ Handing(x) /\ Handing(r) /\ IInv
  BY DEF HandInv
<1>2. Carrying(x)' BY <1>1 DEF Handing, Carrying
<1>3. FreshIsOwn(x)'
  <2> SUFFICES ASSUME Holding(x)'
               PROVE  /\ reqs[x].user \in User
                      /\ reqs[x].fresh \in Session \ issued'
                      /\ sessions'[reqs[x].fresh].user = reqs[x].user
                      /\ \A y \in Request \ {x} : Holding(y)' => reqs'[y].fresh # reqs[x].fresh
    BY <1>1 DEF FreshIsOwn
  <2>1. Holding(x) BY <1>1 DEF Holding
  <2>2. PICK f : f = reqs[x].fresh OBVIOUS
  <2>3. /\ reqs[x].user \in User /\ f \in Session \ issued
        /\ sessions[f].user = reqs[x].user
        /\ \A y \in Request \ {x} : Holding(y) => reqs[y].fresh # f
    BY <1>1, <2>1, <2>2 DEF Handing, FreshIsOwn
  <2>4. f \notin issued' BY <2>2, <2>3
  <2>5. sessions'[f].user = sessions[f].user
    BY <1>1, <2>3, StepOwnersStay, IdsAssumption DEF OwnersStay, Inserted
  <2>6. ASSUME NEW y \in Request \ {x}, Holding(y)' PROVE reqs'[y].fresh # f
    BY <2>1, <2>2, <2>3, <2>6 DEF Holding
  <2> QED BY <2>2, <2>3, <2>4, <2>5, <2>6
<1>4. OldIsDead(x)'
  <2>1. OnlyRevoked BY <1>1, StepOnlyRevokes
  <2> QED BY <1>1, <2>1 DEF Handing, OldIsDead, OnlyRevoked
<1> QED BY <1>2, <1>3, <1>4 DEF Handing

\* A statement that hands nothing out, and takes its own request where it should go.
LEMMA OwnCarries ==
  ASSUME HandInv, [Next]_vars, IInv', NEW r \in Request,
         \A y \in Request \ {r} : reqs'[y] = reqs[y],
         issued' = issued, Handing(r)',
         Holding(r)' => \/ Holding(r) /\ reqs'[r].fresh = reqs[r].fresh
                        \/ ~Inserted(reqs'[r].fresh)
  PROVE  HandInv'
<1>1. ASSUME Holding(r)', NEW y \in Request \ {r}, Holding(y)
      PROVE  reqs[y].fresh # reqs'[r].fresh
  <2>1. CASE Holding(r) /\ reqs'[r].fresh = reqs[r].fresh
    BY <1>1, <2>1 DEF HandInv, Handing, FreshIsOwn
  <2>2. CASE ~Inserted(reqs'[r].fresh)
    BY <1>1, <2>2, IdsAssumption DEF HandInv, Handing, FreshIsOwn, Inserted
  <2> QED BY <1>1, <2>1, <2>2
<1>2. ASSUME NEW x \in Request \ {r} PROVE Handing(x)' BY <1>1, OthersCarry
<1> QED BY <1>2 DEF HandInv

\* A request that is over, or about something else, carries nothing.
LEMMA CarriesNothing ==
  ASSUME NEW r,
         reqs'[r].pc \notin {"find", "expire", "mark", "insert", "rotate", "reply"}
  PROVE  Handing(r)' /\ ~Holding(r)'
BY DEF Handing, Carrying, FreshIsOwn, OldIsDead, Holding

\* A request with no fresh session carries its token only.
LEMMA CarriesToken ==
  ASSUME NEW r, reqs'[r].pc \in {"find", "expire", "mark", "insert"}, Carrying(r)'
  PROVE  Handing(r)' /\ ~Holding(r)'
BY DEF Handing, FreshIsOwn, OldIsDead, Holding

\* Where verifyRefreshToken leaves its request.
LEMMA VerifiedLeads ==
  ASSUME TypeOK, NEW r \in Request, NEW q \in Req, q.op \in {"refresh", "logout"},
         reqs' = [reqs EXCEPT ![r] = Verified(q)]
  PROVE  /\ reqs'[r].op = q.op /\ reqs'[r].token = q.token /\ reqs'[r].user = q.user
         /\ q.op = "refresh" => reqs'[r].pc = "insert"
         /\ q.op = "logout" => reqs'[r].pc \in {"revoke", "idle"}
         /\ \A y \in Request \ {r} : reqs'[y] = reqs[y]
<1>1. /\ reqs'[r] = Verified(q) /\ \A y \in Request \ {r} : reqs'[y] = reqs[y]
  BY DEF TypeOK
<1>2. CASE q.op = "refresh"
  <2>1. reqs'[r] = [q EXCEPT !.pc = "insert"] BY <1>1, <1>2 DEF Verified
  <2> QED BY <1>1, <1>2, <2>1 DEF Req
<1>3. CASE q.op = "logout" /\ Owner(q.token) = q.user
  <2>1. reqs'[r] = [q EXCEPT !.pc = "revoke"] BY <1>1, <1>3 DEF Verified
  <2> QED BY <1>1, <1>3, <2>1 DEF Req
<1>4. CASE q.op = "logout" /\ Owner(q.token) # q.user
  <2>1. reqs'[r] = Answered(q, "denied") BY <1>1, <1>4 DEF Verified
  <2>2. PICK a : a = Answered(q, "denied") OBVIOUS
  <2>3. a.op = q.op /\ a.token = q.token /\ a.user = q.user /\ a.pc = "idle"
    BY <2>2 DEF Answered, NoRequest
  <2> QED BY <1>1, <1>4, <2>1, <2>2, <2>3
<1> QED BY <1>2, <1>3, <1>4

\* What the select and its checks make of a request.
LEMMA FindLeads ==
  ASSUME IInv, NEW r \in Request, Find(r)
  PROVE  /\ reqs'[r].op = reqs[r].op /\ reqs'[r].token = reqs[r].token
         /\ reqs'[r].user = reqs[r].user
         /\ \A y \in Request \ {r} : reqs'[y] = reqs[y]
         /\ \/ reqs'[r].pc \in {"idle", "expire", "revoke"}
            \/ /\ ~IsRevoked(reqs[r].token) /\ reqs[r].token \notin expired
               /\ \/ reqs'[r].pc = "mark"
                  \/ reqs[r].op = "refresh" /\ reqs'[r].pc = "insert"
<1>0. PICK t : t = reqs[r].token OBVIOUS
<1>1. reqs[r] \in Req /\ reqs[r].op \in {"refresh", "logout"} BY AtFind DEF Find, At
<1>2. CASE Finish(r, "denied") BY <1>2, FinishReq DEF Outcome
<1>3. CASE Goto(r, "expire") BY <1>3, GotoReq DEF Pc
<1>4. CASE /\ ~IsRevoked(t) /\ t \notin expired
           /\ reqs' = [reqs EXCEPT ![r] = Accepted(reqs[r])]
  <2>1. PICK q : q = [reqs[r] EXCEPT !.read = epoch[Owner(t)]] OBVIOUS
  <2>2. /\ q \in Req /\ q.op = reqs[r].op /\ q.token = t /\ q.user = reqs[r].user
    <3>1. Known(t) BY <1>0, AtFind DEF Find, At
    <3>2. Owner(t) \in User
      BY <3>1, IdsAssumption DEF IInv, TypeOK, Known, Owner, Inserted, SessionRow, LegacyRow,
         RefreshToken
    <3>3. epoch[Owner(t)] \in Nat BY <3>2 DEF IInv, TypeOK
    <3> QED BY <1>0, <1>1, <2>1, <3>3 DEF Req
  <2>3. CASE t \in Session
    <3>1. reqs' = [reqs EXCEPT ![r] = [q EXCEPT !.pc = "mark"]]
      BY <1>0, <1>4, <2>1, <2>3 DEF Accepted
    <3>2. reqs'[r] = [q EXCEPT !.pc = "mark"] /\ \A y \in Request \ {r} : reqs'[y] = reqs[y]
      BY <3>1 DEF IInv, TypeOK
    <3>3. /\ reqs'[r].pc = "mark" /\ reqs'[r].op = q.op /\ reqs'[r].token = q.token
          /\ reqs'[r].user = q.user
      BY <2>2, <3>2 DEF Req
    <3> QED BY <1>0, <1>4, <2>2, <3>2, <3>3
  <2>4. CASE t \notin Session
    <3>1. reqs' = [reqs EXCEPT ![r] = Verified(q)]
      BY <1>0, <1>4, <2>1, <2>4 DEF Accepted
    <3>2. /\ reqs'[r].op = q.op /\ reqs'[r].token = q.token /\ reqs'[r].user = q.user
          /\ q.op = "refresh" => reqs'[r].pc = "insert"
          /\ q.op = "logout" => reqs'[r].pc \in {"revoke", "idle"}
          /\ \A y \in Request \ {r} : reqs'[y] = reqs[y]
      BY <1>1, <2>2, <3>1, VerifiedLeads DEF IInv
    <3> QED BY <1>0, <1>1, <1>4, <2>2, <3>2
  <2> QED BY <2>3, <2>4
<1> QED BY <1>0, <1>2, <1>3, <1>4 DEF Find

LEMMA InitHand == Init => HandInv
<1>1. Init => \A r \in Request : Handing(r)
  BY DEF Init, NoRequest, Handing, Carrying, FreshIsOwn, OldIsDead, Holding
<1> QED BY <1>1, InitIInv DEF HandInv

LEMMA HandFrame ==
  ASSUME HandInv, IInv', UNCHANGED <<sessions, issued, reqs>>
  PROVE  HandInv'
BY DEF HandInv, Handing, Carrying, FreshIsOwn, OldIsDead, Holding

LEMMA InsertCarries ==
  ASSUME HandInv, [Next]_vars, IInv', NEW r \in Request, NEW s \in Session, Insert(r, s)
  PROVE  HandInv'
<1>1. /\ reqs[r] \in Req /\ reqs[r].pc = "insert" /\ ~Inserted(s)
      /\ sessions \in [Session -> SessionRow] /\ reqs[r].user \in User
      /\ Carrying(r) /\ reqs[r].op \in {"login", "refresh"}
  BY DEF HandInv, IInv, TypeOK, Insert, At, Handing, ReqsInv, ReqInv, Inserting
<1>2. PICK q : q = reqs[r] OBVIOUS
<1>3. /\ reqs' = [reqs EXCEPT ![r] = [q EXCEPT !.fresh = s, !.pc = AfterInsert(q)]]
      /\ sessions' = [sessions EXCEPT ![s] = NewSession(q.user)]
      /\ issued' = issued
  BY <1>2 DEF Insert
<1>4. /\ \A y \in Request \ {r} : reqs'[y] = reqs[y]
      /\ reqs'[r] = [q EXCEPT !.fresh = s, !.pc = AfterInsert(q)]
  BY <1>3 DEF HandInv, IInv, TypeOK
<1>5. /\ reqs'[r].op = q.op /\ reqs'[r].user = q.user /\ reqs'[r].token = q.token
      /\ reqs'[r].fresh = s /\ reqs'[r].pc = AfterInsert(q)
  BY <1>1, <1>2, <1>4 DEF Req
<1>6. s \notin issued BY <1>1, IssuedKnown DEF HandInv, Known
<1>7. sessions'[s].user = q.user BY <1>1, <1>3 DEF NewSession, NoSession
<1>8. ASSUME NEW x \in Request \ {r}, Holding(x)' PROVE reqs'[x].fresh # s
  BY <1>1, <1>4, <1>8, IdsAssumption DEF HandInv, Handing, FreshIsOwn, Holding, Inserted
<1>9. FreshIsOwn(r)' BY <1>1, <1>2, <1>3, <1>5, <1>6, <1>7, <1>8 DEF FreshIsOwn
<1>10. Carrying(r)' BY <1>1, <1>2, <1>3, <1>5 DEF Carrying
<1>11. OldIsDead(r)' BY <1>1, <1>2, <1>5 DEF OldIsDead, AfterInsert
<1> QED BY <1>1, <1>3, <1>4, <1>5, <1>9, <1>10, <1>11, OwnCarries DEF Handing

LEMMA RotateOldCarries ==
  ASSUME HandInv, [Next]_vars, IInv', NEW r \in Request, RotateOld(r)
  PROVE  HandInv'
<1>1. PICK t, f : t = reqs[r].token /\ f = reqs[r].fresh OBVIOUS
<1>2. /\ IInv /\ Handing(r) /\ reqs[r].pc = "rotate" /\ Holding(r)
      /\ reqs[r].op = "refresh" /\ issued' = issued
  BY DEF HandInv, IInv, RotateOld, At, Holding, ReqsInv, ReqInv, Rotating
<1>3. CASE t \in Session /\ RevokeSession(t, "rotated", f) /\ Goto(r, "reply")
  <2>1. /\ \A y \in Request \ {r} : reqs'[y] = reqs[y]
        /\ reqs'[r].op = "refresh" /\ reqs'[r].token = t
        /\ reqs'[r].user = reqs[r].user /\ reqs'[r].fresh = f
        /\ reqs'[r].pc = "reply"
    BY <1>1, <1>2, <1>3, GotoReq DEF Pc
  <2>2. sessions'[t].revoked
    <3>1. sessions \in [Session -> SessionRow] BY <1>2 DEF IInv, TypeOK
    <3>2. sessions'[t] = RevokedRow(sessions[t], "rotated", f)
      BY <1>3, <3>1 DEF RevokeSession
    <3> QED BY <1>3, <3>1, <3>2 DEF RevokedRow, SessionRow
  <2>3. /\ f \in Session \ issued /\ sessions[f].user = reqs[r].user
        /\ reqs[r].user \in User
        /\ \A x \in Request \ {r} : Holding(x) => reqs[x].fresh # f
    BY <1>1, <1>2 DEF Handing, FreshIsOwn
  <2>4. sessions'[f].user = sessions[f].user
    BY <1>2, <2>3, StepOwnersStay, IdsAssumption DEF OwnersStay, Inserted
  <2>5. FreshIsOwn(r)' BY <1>2, <2>1, <2>3, <2>4 DEF FreshIsOwn, Holding
  <2>6. Carrying(r)' BY <1>1, <1>2, <2>1 DEF Handing, Carrying
  <2>7. OldIsDead(r)' BY <1>3, <2>1, <2>2 DEF OldIsDead
  <2> QED BY <1>1, <1>2, <2>1, <2>5, <2>6, <2>7, OwnCarries DEF Handing
<1>4. CASE Finish(r, "error")
  <2>1. reqs'[r].pc = "idle" /\ \A y \in Request \ {r} : reqs'[y] = reqs[y]
    BY <1>2, <1>4, FinishReq DEF Outcome
  <2> QED BY <1>2, <2>1, CarriesNothing, OwnCarries
<1> QED BY <1>1, <1>3, <1>4 DEF RotateOld

LEMMA ReplyCarries ==
  ASSUME HandInv, [Next]_vars, IInv', NEW r \in Request, Reply(r)
  PROVE  HandInv'
<1>1. IInv /\ Holding(r) BY DEF HandInv, Reply, At, Holding
<1>2. issued' = issued \cup {reqs[r].fresh} BY DEF Reply
<1>3. reqs'[r].pc = "idle" /\ \A y \in Request \ {r} : reqs'[y] = reqs[y]
  BY <1>1, FinishReq DEF Reply, Outcome
<1>4. Handing(r)' /\ ~Holding(r)' BY <1>3, CarriesNothing
<1>5. ASSUME NEW x \in Request \ {r} PROVE Handing(x)'
  BY <1>1, <1>2, <1>3, <1>4, OthersCarry
<1> QED BY <1>4, <1>5 DEF HandInv

LEMMA PresentCarries ==
  ASSUME HandInv, [Next]_vars, IInv', NEW r \in Request, NEW t \in issued,
         NEW op \in {"refresh", "logout"}, NEW u, Present(r, op, u, t)
  PROVE  HandInv'
<1>1. /\ reqs'[r].op = op /\ reqs'[r].token = t /\ reqs'[r].pc \in {"idle", "find"}
      /\ \A y \in Request \ {r} : reqs'[y] = reqs[y]
      /\ issued' = issued
  BY DEF HandInv, IInv, TypeOK, Present, Begin, NoRequest
<1>2. Carrying(r)' BY <1>1 DEF Carrying
<1>3. Handing(r)' /\ ~Holding(r)' BY <1>1, <1>2, CarriesNothing, CarriesToken
<1> QED BY <1>1, <1>3, OwnCarries

\* The actions that leave their request with nothing to carry.
LEMMA LeavesNothing ==
  ASSUME IInv, NEW r \in Request,
         \/ ExpireRow(r) \/ RevokeOnLogout(r) \/ SweepSessions(r) \/ SweepLegacy(r)
         \/ Invalidate(r) \/ Burn(r) \/ UpdatePassword(r) \/ Fail(r)
         \/ (\E u \in User : LogoutAll(r, u) \/ RequestReset(r, u))
         \/ (\E k \in Reset : InsertReset(r, k) \/ \E p \in Password : ResetPassword(r, k, p))
  PROVE  /\ reqs'[r].pc \in {"idle", "sweep", "sweepLegacy", "invalidate", "insertReset",
                             "burn", "burnExpired", "update"}
         /\ \A y \in Request \ {r} : reqs'[y] = reqs[y]
         /\ issued' = issued
<1>1. \/ \E o \in Outcome : Finish(r, o)
      \/ \E pc \in {"sweepLegacy", "insertReset", "update", "sweep"} : Goto(r, pc)
      \/ \E q : /\ reqs' = [reqs EXCEPT ![r] = q]
                /\ q.pc \in {"idle", "sweep", "invalidate", "burn", "burnExpired"}
  <2>1. CASE ExpireRow(r) \/ RevokeOnLogout(r) \/ SweepLegacy(r)
    BY <2>1 DEF ExpireRow, RevokeOnLogout, SweepLegacy, Outcome
  <2>2. CASE SweepSessions(r) \/ Invalidate(r) \/ UpdatePassword(r)
    BY <2>2 DEF SweepSessions, Invalidate, UpdatePassword
  <2>3. CASE Burn(r) \/ \E k \in Reset : InsertReset(r, k)
    BY <2>3 DEF Burn, InsertReset, Outcome
  <2>4. CASE Fail(r)
    <3>1. reqs' = [reqs EXCEPT ![r] = NoRequest] BY <2>4 DEF Fail
    <3>2. NoRequest.pc = "idle" BY DEF NoRequest
    <3> QED BY <3>1, <3>2
  <2>5. ASSUME NEW u \in User, LogoutAll(r, u) \/ RequestReset(r, u)
        PROVE  \E q : /\ reqs' = [reqs EXCEPT ![r] = q]
                      /\ q.pc \in {"sweep", "invalidate"}
    <3>1. CASE LogoutAll(r, u)
      <4>1. PICK q : q = [NoRequest EXCEPT !.op = "logoutAll", !.pc = "sweep", !.user = u]
        OBVIOUS
      <4>2. q.pc = "sweep" BY <4>1 DEF NoRequest
      <4> QED BY <3>1, <4>1, <4>2 DEF LogoutAll, Begin
    <3>2. CASE RequestReset(r, u)
      <4>1. PICK q : q = [NoRequest EXCEPT !.op = "requestReset", !.pc = "invalidate",
                                           !.user = u]
        OBVIOUS
      <4>2. q.pc = "invalidate" BY <4>1 DEF NoRequest
      <4> QED BY <3>2, <4>1, <4>2 DEF RequestReset, Begin
    <3> QED BY <2>5, <3>1, <3>2
  <2>6. ASSUME NEW k \in Reset, NEW p \in Password, ResetPassword(r, k, p)
        PROVE  \E q : /\ reqs' = [reqs EXCEPT ![r] = q]
                      /\ q.pc \in {"burn", "burnExpired"}
    <3>1. PICK q : q = [NoRequest EXCEPT
                         !.op = "reset", !.user = resets[k].user, !.token = k, !.pw = p,
                         !.pc = IF k \in expired THEN "burnExpired" ELSE "burn"]
      OBVIOUS
    <3>2. q.pc \in {"burn", "burnExpired"} BY <3>1 DEF NoRequest
    <3> QED BY <2>6, <3>1, <3>2 DEF ResetPassword, Begin
  <2> QED BY <2>1, <2>2, <2>3, <2>4, <2>5, <2>6
<1>2. issued' = issued
  BY DEF ExpireRow, RevokeOnLogout, SweepSessions, SweepLegacy, Invalidate, Burn,
     UpdatePassword, Fail, LogoutAll, RequestReset, InsertReset, ResetPassword
<1>3. ASSUME NEW o \in Outcome, Finish(r, o)
      PROVE  reqs'[r].pc = "idle" /\ \A y \in Request \ {r} : reqs'[y] = reqs[y]
  BY <1>3, FinishReq
<1>4. ASSUME NEW pc \in {"sweepLegacy", "insertReset", "update", "sweep"}, Goto(r, pc)
      PROVE  reqs'[r].pc = pc /\ \A y \in Request \ {r} : reqs'[y] = reqs[y]
  BY <1>4, GotoReq DEF Pc
<1>5. ASSUME NEW q, reqs' = [reqs EXCEPT ![r] = q]
      PROVE  reqs'[r] = q /\ \A y \in Request \ {r} : reqs'[y] = reqs[y]
  BY <1>5 DEF IInv, TypeOK
<1> QED BY <1>1, <1>2, <1>3, <1>4, <1>5

LEMMA StepHand == HandInv /\ [Next]_vars => HandInv'
<1> SUFFICES ASSUME HandInv, [Next]_vars PROVE HandInv' OBVIOUS
<1>0. IInv /\ IInv' BY StepIInv DEF HandInv
<1>1. ASSUME NEW r \in Request, NEW u \in User, NEW p \in Password, Login(r, u, p)
      PROVE  HandInv'
  <2>1. /\ reqs'[r].op = "login" /\ reqs'[r].token = None /\ reqs'[r].pc = "insert"
        /\ \A y \in Request \ {r} : reqs'[y] = reqs[y]
        /\ issued' = issued
    BY <1>0, <1>1 DEF IInv, TypeOK, Login, Begin, NoRequest
  <2>2. Handing(r)' /\ ~Holding(r)' BY <2>1, CarriesToken DEF Carrying
  <2> QED BY <1>0, <2>1, <2>2, OwnCarries
<1>2. ASSUME NEW r \in Request, NEW t \in issued, Refresh(r, t) PROVE HandInv'
  <2>1. PICK op, u : op = "refresh" /\ u = Owner(t) OBVIOUS
  <2>2. Present(r, op, u, t) BY <1>2, <2>1 DEF Refresh
  <2> QED BY <1>0, <2>1, <2>2, PresentCarries
<1>3. ASSUME NEW r \in Request, NEW t \in issued, NEW u \in User, Logout(r, u, t)
      PROVE  HandInv'
  BY <1>0, <1>3, PresentCarries DEF Logout
<1>4. ASSUME NEW r \in Request, Find(r) PROVE HandInv'
  <2>1. Carrying(r) /\ reqs[r].pc = "find" /\ reqs[r].op \in {"refresh", "logout"}
        /\ issued' = issued
    BY <1>0, <1>4, AtFind DEF HandInv, Handing, Find, At
  <2>2. /\ reqs'[r].pc \in {"idle", "expire", "revoke", "mark", "insert"}
        /\ Carrying(r)'
        /\ \A y \in Request \ {r} : reqs'[y] = reqs[y]
    BY <1>0, <1>4, <2>1, FindLeads DEF Carrying
  <2>3. Handing(r)' /\ ~Holding(r)' BY <2>2, CarriesToken, CarriesNothing
  <2> QED BY <1>0, <2>1, <2>2, <2>3, OwnCarries
<1>5. ASSUME NEW r \in Request, MarkUsed(r) PROVE HandInv'
  <2>1. /\ Carrying(r) /\ reqs[r].pc = "mark" /\ reqs[r].op \in {"refresh", "logout"}
        /\ issued' = issued /\ reqs[r] \in Req
        /\ reqs' = [reqs EXCEPT ![r] = Verified(reqs[r])]
    BY <1>0, <1>5, AtFind DEF HandInv, Handing, MarkUsed, At
  <2>2. PICK q \in Req : q = reqs[r] BY <2>1
  <2>3. reqs' = [reqs EXCEPT ![r] = Verified(q)] /\ q.op \in {"refresh", "logout"}
    BY <2>1, <2>2
  <2>4. /\ reqs'[r].op = q.op /\ reqs'[r].token = q.token
        /\ reqs'[r].pc \in {"insert", "revoke", "idle"}
        /\ \A y \in Request \ {r} : reqs'[y] = reqs[y]
    BY <1>0, <2>3, VerifiedLeads DEF IInv
  <2>5. Carrying(r)' BY <2>1, <2>2, <2>4 DEF Carrying
  <2>6. Handing(r)' /\ ~Holding(r)' BY <2>4, <2>5, CarriesToken, CarriesNothing
  <2> QED BY <1>0, <2>1, <2>4, <2>6, OwnCarries
<1>6. ASSUME NEW r \in Request, NEW s \in Session, Insert(r, s) PROVE HandInv'
  BY <1>0, <1>6, InsertCarries
<1>7. ASSUME NEW r \in Request, RotateOld(r) PROVE HandInv' BY <1>0, <1>7, RotateOldCarries
<1>8. ASSUME NEW r \in Request, Reply(r) PROVE HandInv' BY <1>0, <1>8, ReplyCarries
<1>9. ASSUME NEW r \in Request,
        \/ ExpireRow(r) \/ RevokeOnLogout(r) \/ SweepSessions(r) \/ SweepLegacy(r)
        \/ Invalidate(r) \/ Burn(r) \/ UpdatePassword(r) \/ Fail(r)
        \/ (\E u \in User : LogoutAll(r, u) \/ RequestReset(r, u))
        \/ (\E k \in Reset : InsertReset(r, k) \/ \E p \in Password : ResetPassword(r, k, p))
      PROVE  HandInv'
  <2>1. /\ reqs'[r].pc \in {"idle", "sweep", "sweepLegacy", "invalidate", "insertReset",
                            "burn", "burnExpired", "update"}
        /\ \A y \in Request \ {r} : reqs'[y] = reqs[y]
        /\ issued' = issued
    BY <1>0, <1>9, LeavesNothing
  <2>2. Handing(r)' /\ ~Holding(r)' BY <2>1, CarriesNothing
  <2> QED BY <1>0, <2>1, <2>2, OwnCarries
<1>10. ASSUME NEW t \in Token, Expire(t) PROVE HandInv'
  BY <1>0, <1>10, HandFrame DEF Expire
<1>11. CASE UNCHANGED vars BY <1>0, <1>11, HandFrame DEF vars
<1> QED
  BY <1>1, <1>2, <1>3, <1>4, <1>5, <1>6, <1>7, <1>8, <1>9, <1>10, <1>11 DEF Next, Step

LEMMA HandAlways == Spec => []HandInv
BY InitHand, StepHand, PTL DEF Spec
-----------------------------------------------------------------------------
\* What the clients see of a step.

\* Without a new token in anyone's hands, who was handed what stays.
LEMMA HandsStay ==
  ASSUME IInv, [Next]_vars, issued' = issued
  PROVE  HandedOut' = HandedOut
<1>1. ASSUME NEW t \in issued PROVE Owner(t)' = Owner(t) BY <1>1, IssuedStays
<1> QED BY <1>1 DEF HandedOut

LEMMA WorkingStays ==
  ASSUME UNCHANGED <<sessions, legacy, issued>>
  PROVE  Working' = Working
BY DEF Working, IsRevoked

\* Only the request served may be admitted, or answered.
LEMMA AdmissionMoves ==
  ASSUME NEW r \in Request, \A y \in Request \ {r} : reqs'[y] = reqs[y]
  PROVE  LetThrough' = [LetThrough EXCEPT ![r] = AdmittedAs(reqs'[r])]
<1>1. LetThrough' = [y \in Request |-> AdmittedAs(reqs'[y])] BY DEF LetThrough, AdmittedAs
<1> QED BY <1>1 DEF LetThrough

LEMMA AdmissionStays ==
  ASSUME NEW r \in Request, \A y \in Request \ {r} : reqs'[y] = reqs[y],
         AdmittedAs(reqs'[r]) = AdmittedAs(reqs[r])
  PROVE  LetThrough' = LetThrough
BY AdmissionMoves DEF LetThrough

\* A request that is not on its way to an answer.
LEMMA NotOnItsWay ==
  ASSUME NEW q, \/ q.op \notin {"login", "refresh"}
                \/ q.pc \notin {"mark", "insert", "rotate", "reply"}
  PROVE  AdmittedAs(q) = Promise!Idle
BY DEF AdmittedAs, Promise!Idle

Unseen == UNCHANGED <<HandedOut, Working, expired \cap RefreshToken, LetThrough>>

\* A statement that changes no row and hands nothing out.
LEMMA UnseenMove ==
  ASSUME IInv, [Next]_vars, UNCHANGED <<sessions, legacy, issued, expired>>,
         NEW r \in Request, \A y \in Request \ {r} : reqs'[y] = reqs[y],
         AdmittedAs(reqs'[r]) = AdmittedAs(reqs[r])
  PROVE  Unseen
BY HandsStay, WorkingStays, AdmissionStays DEF Unseen

\* Rows that are revoked, all of one user, with no request admitted or answered.
LEMMA RevokedMove ==
  ASSUME IInv, [Next]_vars, issued' = issued, expired' = expired, NEW u \in User,
         \A t \in issued : Owner(t) # u => IsRevoked(t)' = IsRevoked(t),
         NEW r \in Request, \A y \in Request \ {r} : reqs'[y] = reqs[y],
         AdmittedAs(reqs'[r]) = AdmittedAs(reqs[r])
  PROVE  Promise!Revoke(u)
<1>1. HandedOut' = HandedOut /\ LetThrough' = LetThrough BY HandsStay, AdmissionStays
<1>2. PICK gone : gone = {t \in issued : ~IsRevoked(t) /\ IsRevoked(t)'} OBVIOUS
<1>3. gone \subseteq Promise!Of(u)
  BY <1>2 DEF Promise!Of, HandedOut, IInv, TypeOK, RefreshToken
<1>4. Working' = Working \ gone
  <2>1. ASSUME NEW t \in issued PROVE IsRevoked(t) => IsRevoked(t)' BY IssuedStays
  <2>2. Working' = {t \in issued : ~IsRevoked(t)'} BY DEF Working
  <2> QED BY <1>2, <2>1, <2>2 DEF Working
<1> QED BY <1>1, <1>3, <1>4 DEF Promise!Revoke

\* login is let through on the password.
LEMMA LoginMove ==
  ASSUME HandInv, [Next]_vars, NEW r \in Request, NEW u \in User, NEW p \in Password,
         Login(r, u, p)
  PROVE  Promise!AdmitLogin(r, u)
<1>1. /\ reqs[r].pc = "idle" /\ reqs'[r].op = "login" /\ reqs'[r].pc = "insert"
      /\ reqs'[r].user = u /\ reqs'[r].token = None
      /\ \A y \in Request \ {r} : reqs'[y] = reqs[y]
  BY DEF HandInv, IInv, TypeOK, Login, Begin, NoRequest, At
<1>2. AdmittedAs(reqs[r]) = Promise!Idle BY <1>1, NotOnItsWay
<1>3. AdmittedAs(reqs'[r]) = [who |-> u, on |-> None] BY <1>1 DEF AdmittedAs
<1>4. LetThrough[r] = Promise!Idle BY <1>2 DEF LetThrough
<1>5. LetThrough' = [LetThrough EXCEPT ![r] = [who |-> u, on |-> None]]
  BY <1>1, <1>3, AdmissionMoves
<1>6. HandedOut' = HandedOut /\ Working' = Working /\ expired' = expired
  BY HandsStay, WorkingStays DEF Login, HandInv
<1> QED BY <1>4, <1>5, <1>6 DEF Promise!AdmitLogin

\* The select lets a refresh through on a token that is good; of all else the
\* clients see nothing.
LEMMA FindMove ==
  ASSUME HandInv, [Next]_vars, NEW r \in Request, Find(r)
  PROVE  Unseen \/ \E t \in RefreshToken : Promise!AdmitRefresh(r, t)
<1>1. PICK t, u : t = reqs[r].token /\ u = reqs[r].user OBVIOUS
<1>2. /\ IInv /\ reqs[r].pc = "find" /\ t \in issued /\ reqs[r].op \in {"refresh", "logout"}
      /\ UNCHANGED <<sessions, legacy, issued, expired>>
  BY <1>1, AtFind, IdsAssumption DEF HandInv, Handing, Carrying, Find, At
<1>3. AdmittedAs(reqs[r]) = Promise!Idle BY <1>2, NotOnItsWay
<1>4. /\ reqs'[r].op = reqs[r].op /\ reqs'[r].token = t /\ reqs'[r].user = u
      /\ \A y \in Request \ {r} : reqs'[y] = reqs[y]
      /\ \/ reqs'[r].pc \in {"idle", "expire", "revoke"}
         \/ /\ ~IsRevoked(t) /\ t \notin expired
            /\ \/ reqs'[r].pc = "mark"
               \/ reqs[r].op = "refresh" /\ reqs'[r].pc = "insert"
  BY <1>1, <1>2, FindLeads
<1>5. CASE reqs[r].op = "logout" \/ reqs'[r].pc \in {"idle", "expire", "revoke"}
  <2>1. AdmittedAs(reqs'[r]) = Promise!Idle BY <1>4, <1>5, NotOnItsWay
  <2> QED BY <1>2, <1>3, <1>4, <2>1, UnseenMove
<1>6. CASE /\ reqs[r].op = "refresh" /\ reqs'[r].pc \in {"mark", "insert"}
           /\ ~IsRevoked(t) /\ t \notin expired
  <2>1. t \in Working \ (expired \cap RefreshToken) BY <1>2, <1>6 DEF Working
  <2>2. t \in RefreshToken BY <1>2 DEF IInv, TypeOK, RefreshToken
  <2>3. Owner(t) = u BY <1>1, <1>2, <1>6, AtFind
  <2>4. HandedOut[t] = u BY <1>2, <2>2, <2>3 DEF HandedOut
  <2>5. AdmittedAs(reqs'[r]) = [who |-> u, on |-> t] BY <1>4, <1>6 DEF AdmittedAs
  <2>6. LetThrough' = [LetThrough EXCEPT ![r] = [who |-> u, on |-> t]]
    BY <1>4, <2>5, AdmissionMoves
  <2>7. LetThrough[r] = Promise!Idle BY <1>3 DEF LetThrough
  <2>8. HandedOut' = HandedOut /\ Working' = Working BY <1>2, HandsStay, WorkingStays
  <2>9. Promise!AdmitRefresh(r, t)
    BY <1>2, <2>1, <2>4, <2>6, <2>7, <2>8 DEF Promise!AdmitRefresh
  <2> QED BY <2>2, <2>9
<1> QED BY <1>2, <1>4, <1>5, <1>6

\* The marking of the row, while the request is under way.
LEMMA MarkMove ==
  ASSUME HandInv, [Next]_vars, NEW r \in Request, MarkUsed(r)
  PROVE  Unseen
<1>1. /\ IInv /\ reqs[r].pc = "mark" /\ reqs[r].op \in {"refresh", "logout"}
      /\ reqs[r] \in Req /\ reqs' = [reqs EXCEPT ![r] = Verified(reqs[r])]
      /\ UNCHANGED <<sessions, legacy, issued, expired>>
  BY AtFind DEF HandInv, MarkUsed, At
<1>2. PICK q \in Req : q = reqs[r] BY <1>1
<1>3. reqs' = [reqs EXCEPT ![r] = Verified(q)] /\ q.op \in {"refresh", "logout"}
  BY <1>1, <1>2
<1>4. /\ reqs'[r].op = q.op /\ reqs'[r].token = q.token /\ reqs'[r].user = q.user
      /\ q.op = "refresh" => reqs'[r].pc = "insert"
      /\ \A y \in Request \ {r} : reqs'[y] = reqs[y]
  BY <1>1, <1>3, VerifiedLeads DEF IInv
<1>5. AdmittedAs(reqs'[r]) = AdmittedAs(reqs[r])
  <2>1. CASE q.op = "refresh" BY <1>1, <1>2, <1>4, <2>1 DEF AdmittedAs
  <2>2. CASE q.op = "logout" BY <1>1, <1>2, <1>4, <2>2 DEF AdmittedAs
  <2> QED BY <1>3, <2>1, <2>2
<1> QED BY <1>1, <1>4, <1>5, UnseenMove

\* A new row nobody has the token of yet.
LEMMA InsertMove ==
  ASSUME HandInv, [Next]_vars, NEW r \in Request, NEW s \in Session, Insert(r, s)
  PROVE  Unseen
<1>1. /\ reqs[r] \in Req /\ reqs[r].pc = "insert" /\ ~Inserted(s) /\ IInv
      /\ reqs[r].op \in {"login", "refresh"}
  BY DEF HandInv, IInv, TypeOK, Insert, At, ReqsInv, ReqInv, Inserting
<1>2. PICK q : q = reqs[r] OBVIOUS
<1>3. /\ reqs' = [reqs EXCEPT ![r] = [q EXCEPT !.fresh = s, !.pc = AfterInsert(q)]]
      /\ sessions' = [sessions EXCEPT ![s] = NewSession(q.user)]
      /\ issued' = issued /\ legacy' = legacy /\ expired' = expired
  BY <1>2 DEF Insert
<1>4. /\ \A y \in Request \ {r} : reqs'[y] = reqs[y]
      /\ reqs'[r] = [q EXCEPT !.fresh = s, !.pc = AfterInsert(q)]
  BY <1>1, <1>3 DEF IInv, TypeOK
<1>5. /\ reqs'[r].op = q.op /\ reqs'[r].user = q.user /\ reqs'[r].token = q.token
      /\ reqs'[r].pc \in {"rotate", "reply"}
  BY <1>1, <1>2, <1>4 DEF Req, AfterInsert
<1>6. AdmittedAs(reqs'[r]) = AdmittedAs(reqs[r]) BY <1>1, <1>2, <1>5 DEF AdmittedAs
<1>7. LetThrough' = LetThrough BY <1>4, <1>6, AdmissionStays
<1>8. HandedOut' = HandedOut BY <1>1, <1>3, HandsStay
<1>9. Working' = Working
  <2>1. ASSUME NEW t \in issued PROVE IsRevoked(t)' = IsRevoked(t)
    <3>1. t # s BY <1>1, <2>1, IssuedKnown DEF Known
    <3>2. t \in Session => sessions'[t] = sessions[t] BY <1>1, <1>3, <3>1 DEF IInv, TypeOK
    <3> QED BY <1>3, <3>2 DEF IsRevoked
  <2> QED BY <1>3, <2>1 DEF Working
<1> QED BY <1>3, <1>7, <1>8, <1>9 DEF Unseen

\* The answer.
LEMMA ReplyMove ==
  ASSUME HandInv, [Next]_vars, NEW r \in Request, Reply(r)
  PROVE  \E t \in RefreshToken : Promise!Answer(r, t)
<1>1. PICK f, u, old : f = reqs[r].fresh /\ u = reqs[r].user /\ old = reqs[r].token OBVIOUS
<1>2. /\ IInv /\ reqs[r].pc = "reply" /\ reqs[r].op \in {"login", "refresh"}
      /\ Carrying(r) /\ FreshIsOwn(r) /\ OldIsDead(r)
      /\ issued' = issued \cup {f} /\ UNCHANGED <<sessions, legacy, expired>>
  BY <1>1 DEF HandInv, Handing, IInv, ReqsInv, ReqInv, Replying, Reply, At
<1>3. /\ reqs'[r].pc = "idle" /\ \A y \in Request \ {r} : reqs'[y] = reqs[y]
  BY <1>2, FinishReq DEF Reply, Outcome
<1>4. f \in Session \ issued /\ sessions[f].user = u /\ u \in User
  BY <1>1, <1>2 DEF FreshIsOwn, Holding
<1>5. LetThrough[r] = [who |-> u, on |-> old]
  BY <1>1, <1>2 DEF LetThrough, AdmittedAs
<1>6. LetThrough' = [LetThrough EXCEPT ![r] = Promise!Idle]
  BY <1>3, NotOnItsWay, AdmissionMoves
<1>7. LetThrough[r] # Promise!Idle
  BY <1>4, <1>5, IdsAssumption DEF Promise!Idle
<1>8. old \notin Working
  <2>1. CASE reqs[r].op = "login"
    BY <1>1, <1>2, <2>1, IdsAssumption DEF Carrying, Working, IInv, TypeOK
  <2>2. CASE reqs[r].op # "login"
    BY <1>1, <1>2, <2>2 DEF OldIsDead, Working, IsRevoked
  <2> QED BY <2>1, <2>2
<1>9. f \in RefreshToken /\ HandedOut[f] = None BY <1>4 DEF RefreshToken, HandedOut
<1>10. \A t : Owner(t)' = Owner(t) /\ IsRevoked(t)' = IsRevoked(t)
  BY <1>2 DEF Owner, IsRevoked
<1>11. HandedOut' = [HandedOut EXCEPT ![f] = u]
  <2>1. HandedOut' = [t \in RefreshToken |-> IF t \in issued' THEN Owner(t)' ELSE None]
    BY DEF HandedOut
  <2>2. Owner(f) = u BY <1>4 DEF Owner
  <2> QED BY <1>2, <1>10, <2>1, <2>2 DEF HandedOut
<1>12. Working' \in {Working, Working \cup {f}}
  <2>1. Working' = {t \in issued \cup {f} : ~IsRevoked(t)} BY <1>2, <1>10 DEF Working
  <2> QED BY <2>1 DEF Working
<1>13. Promise!Answer(r, f)
  BY <1>2, <1>5, <1>6, <1>7, <1>8, <1>9, <1>11, <1>12 DEF Promise!Answer
<1> QED BY <1>9, <1>13

\* Requests about something else, and the first step of those about a token: they
\* change no refresh token and let nobody through.
Aside(r) ==
  \/ \E t \in issued : Refresh(r, t) \/ \E u \in User : Logout(r, u, t)
  \/ \E u \in User : LogoutAll(r, u) \/ RequestReset(r, u)
  \/ Invalidate(r) \/ Burn(r) \/ UpdatePassword(r)
  \/ \E k \in Reset : InsertReset(r, k) \/ \E p \in Password : ResetPassword(r, k, p)

LEMMA AsideMove ==
  ASSUME HandInv, [Next]_vars, NEW r \in Request, Aside(r)
  PROVE  Unseen
<1>1. UNCHANGED <<sessions, legacy, issued>>
  BY DEF Aside, Refresh, Logout, Present, LogoutAll, RequestReset, Invalidate, Burn,
     UpdatePassword, InsertReset, ResetPassword
<1>2. expired' = expired
  BY DEF Aside, Refresh, Logout, Present, LogoutAll, RequestReset, Invalidate, Burn,
     UpdatePassword, InsertReset, ResetPassword
<1>3. reqs[r].pc \in {"idle", "invalidate", "insertReset", "burn", "burnExpired", "update"}
  BY DEF Aside, Refresh, Logout, Present, LogoutAll, RequestReset, Invalidate, Burn,
     UpdatePassword, InsertReset, ResetPassword, Begin, At
<1>4. /\ reqs'[r].pc \in {"idle", "find", "sweep", "sweepLegacy", "invalidate",
                          "insertReset", "burn", "burnExpired", "update"}
      /\ \A y \in Request \ {r} : reqs'[y] = reqs[y]
  <2>1. ASSUME NEW t \in issued, NEW op \in {"refresh", "logout"}, NEW u,
               Present(r, op, u, t)
        PROVE  /\ reqs'[r].pc \in {"idle", "find"}
               /\ \A y \in Request \ {r} : reqs'[y] = reqs[y]
    BY <2>1 DEF HandInv, IInv, TypeOK, Present, Begin, NoRequest
  <2>2. CASE \E t \in issued : Refresh(r, t) \/ \E u \in User : Logout(r, u, t)
    BY <2>1, <2>2 DEF Refresh, Logout
  <2>3. CASE \/ \E u \in User : LogoutAll(r, u) \/ RequestReset(r, u)
             \/ Invalidate(r) \/ Burn(r) \/ UpdatePassword(r)
             \/ \E k \in Reset : InsertReset(r, k) \/ \E p \in Password : ResetPassword(r, k, p)
    BY <2>3, LeavesNothing DEF HandInv
  <2> QED BY <2>2, <2>3 DEF Aside
<1>5. AdmittedAs(reqs[r]) = Promise!Idle BY <1>3, NotOnItsWay
<1>6. AdmittedAs(reqs'[r]) = Promise!Idle BY <1>4, NotOnItsWay
<1> QED BY <1>1, <1>2, <1>4, <1>5, <1>6, UnseenMove DEF HandInv

\* A statement on the row of one token.
LEMMA OneRowMove ==
  ASSUME IInv, [Next]_vars, issued' = issued, expired' = expired,
         NEW t, Known(t), NEW why, NEW by,
         IF t \in Session THEN RevokeSession(t, why, by) /\ UNCHANGED legacy
                          ELSE RevokeLegacy(t) /\ UNCHANGED sessions,
         NEW r \in Request, \A y \in Request \ {r} : reqs'[y] = reqs[y],
         AdmittedAs(reqs'[r]) = AdmittedAs(reqs[r])
  PROVE  \E u \in User : Promise!Revoke(u)
<1>1. Owner(t) \in User
  BY IdsAssumption DEF IInv, TypeOK, Known, Owner, Inserted, SessionRow, LegacyRow,
     RefreshToken
<1>2. ASSUME NEW x \in issued, x # t PROVE IsRevoked(x)' = IsRevoked(x)
  <2>1. CASE t \in Session
    BY <1>2, <2>1 DEF IInv, TypeOK, RevokeSession, IsRevoked
  <2>2. CASE t \notin Session
    BY <1>2, <2>2 DEF IInv, TypeOK, RevokeLegacy, IsRevoked
  <2> QED BY <2>1, <2>2
<1>3. \A x \in issued : Owner(x) # Owner(t) => IsRevoked(x)' = IsRevoked(x) BY <1>2
<1> QED BY <1>1, <1>3, RevokedMove

LEMMA ExpireRowMove ==
  ASSUME HandInv, [Next]_vars, NEW r \in Request, ExpireRow(r)
  PROVE  \E u \in User : Promise!Revoke(u)
<1>1. PICK t : t = reqs[r].token OBVIOUS
<1>2. IInv /\ reqs[r].pc = "expire" /\ Known(t)
  BY <1>1, AtFind DEF HandInv, ExpireRow, At
<1>3. reqs'[r].pc = "idle" /\ \A y \in Request \ {r} : reqs'[y] = reqs[y]
  BY <1>2, LeavesNothing, FinishReq DEF ExpireRow, Outcome
<1>4. AdmittedAs(reqs[r]) = Promise!Idle /\ AdmittedAs(reqs'[r]) = Promise!Idle
  BY <1>2, <1>3, NotOnItsWay
<1>5. /\ IF t \in Session THEN RevokeSession(t, "expired", None) /\ UNCHANGED legacy
                          ELSE RevokeLegacy(t) /\ UNCHANGED sessions
      /\ issued' = issued /\ expired' = expired
  BY <1>1 DEF ExpireRow
<1> QED BY <1>2, <1>3, <1>4, <1>5, OneRowMove

LEMMA RevokeOnLogoutMove ==
  ASSUME HandInv, [Next]_vars, NEW r \in Request, RevokeOnLogout(r)
  PROVE  \E u \in User : Promise!Revoke(u)
<1>1. PICK t : t = reqs[r].token OBVIOUS
<1>2. IInv /\ reqs[r].pc = "revoke" /\ Known(t)
  BY <1>1 DEF HandInv, IInv, ReqsInv, ReqInv, LoggingOut, RevokeOnLogout, At
<1>3. reqs'[r].pc = "idle" /\ \A y \in Request \ {r} : reqs'[y] = reqs[y]
  BY <1>2, FinishReq DEF RevokeOnLogout, Outcome
<1>4. AdmittedAs(reqs[r]) = Promise!Idle /\ AdmittedAs(reqs'[r]) = Promise!Idle
  BY <1>2, <1>3, NotOnItsWay
<1>5. /\ IF t \in Session THEN RevokeSession(t, "user_logout", None) /\ UNCHANGED legacy
                          ELSE RevokeLegacy(t) /\ UNCHANGED sessions
      /\ issued' = issued /\ expired' = expired
  BY <1>1 DEF RevokeOnLogout
<1> QED BY <1>2, <1>3, <1>4, <1>5, OneRowMove

\* A request that is let through and fails.
LEMMA GiveUpMove ==
  ASSUME HandInv, [Next]_vars, NEW r \in Request, reqs'[r].pc = "idle",
         \A y \in Request \ {r} : reqs'[y] = reqs[y],
         UNCHANGED <<sessions, legacy, issued, expired>>
  PROVE  Unseen \/ Promise!GiveUp(r)
<1>1. AdmittedAs(reqs'[r]) = Promise!Idle BY NotOnItsWay
<1>2. LetThrough' = [LetThrough EXCEPT ![r] = Promise!Idle] BY <1>1, AdmissionMoves
<1>3. HandedOut' = HandedOut /\ Working' = Working
  BY HandsStay, WorkingStays DEF HandInv
<1>4. CASE AdmittedAs(reqs[r]) = Promise!Idle
  BY <1>1, <1>4, UnseenMove DEF HandInv
<1>5. CASE AdmittedAs(reqs[r]) # Promise!Idle
  <2>1. LetThrough[r] # Promise!Idle BY <1>5 DEF LetThrough
  <2> QED BY <1>2, <1>3, <2>1 DEF Promise!GiveUp
<1> QED BY <1>4, <1>5

LEMMA RotateOldMove ==
  ASSUME HandInv, [Next]_vars, NEW r \in Request, RotateOld(r)
  PROVE  Unseen \/ Promise!GiveUp(r) \/ \E u \in User : Promise!Revoke(u)
<1>1. PICK t, f : t = reqs[r].token /\ f = reqs[r].fresh OBVIOUS
<1>2. /\ IInv /\ reqs[r].pc = "rotate" /\ Known(t) /\ reqs[r].op = "refresh"
      /\ UNCHANGED <<legacy, issued, expired>>
  BY <1>1 DEF HandInv, IInv, ReqsInv, ReqInv, Rotating, RotateOld, At
<1>3. CASE t \in Session /\ RevokeSession(t, "rotated", f) /\ Goto(r, "reply")
  <2>1. /\ \A y \in Request \ {r} : reqs'[y] = reqs[y]
        /\ reqs'[r].op = "refresh" /\ reqs'[r].token = t
        /\ reqs'[r].user = reqs[r].user /\ reqs'[r].pc = "reply"
    BY <1>1, <1>2, <1>3, GotoReq DEF Pc
  <2>2. AdmittedAs(reqs'[r]) = AdmittedAs(reqs[r]) BY <1>1, <1>2, <2>1 DEF AdmittedAs
  <2>3. IF t \in Session THEN RevokeSession(t, "rotated", f) /\ UNCHANGED legacy
                         ELSE RevokeLegacy(t) /\ UNCHANGED sessions
    BY <1>2, <1>3
  <2> QED BY <1>2, <2>1, <2>2, <2>3, OneRowMove
<1>4. CASE Finish(r, "error") /\ UNCHANGED sessions
  <2>1. reqs'[r].pc = "idle" /\ \A y \in Request \ {r} : reqs'[y] = reqs[y]
    BY <1>2, <1>4, FinishReq DEF Outcome
  <2> QED BY <1>2, <1>4, <2>1, GiveUpMove
<1> QED BY <1>1, <1>3, <1>4 DEF RotateOld

LEMMA SweepMove ==
  ASSUME HandInv, [Next]_vars, NEW r \in Request, SweepSessions(r) \/ SweepLegacy(r)
  PROVE  \E u \in User : Promise!Revoke(u)
<1>1. PICK u : u = reqs[r].user OBVIOUS
<1>2. /\ IInv /\ reqs[r].pc \in {"sweep", "sweepLegacy"} /\ u \in User
      /\ issued' = issued /\ expired' = expired
  BY <1>1 DEF HandInv, IInv, ReqsInv, ReqInv, Sweeping, SweepSessions, SweepLegacy, At
<1>3. /\ reqs'[r].pc \in {"idle", "sweep", "sweepLegacy", "invalidate", "insertReset",
                          "burn", "burnExpired", "update"}
      /\ \A y \in Request \ {r} : reqs'[y] = reqs[y]
  BY <1>2, LeavesNothing
<1>4. AdmittedAs(reqs[r]) = Promise!Idle /\ AdmittedAs(reqs'[r]) = Promise!Idle
  BY <1>2, <1>3, NotOnItsWay
<1>5. ASSUME NEW t \in issued, Owner(t) # u PROVE IsRevoked(t)' = IsRevoked(t)
  <2>0. t \in RefreshToken BY <1>2 DEF IInv, TypeOK, RefreshToken
  <2>1. CASE SweepSessions(r)
    <3>1. /\ legacy' = legacy
          /\ sessions' = [s \in Session |->
                           IF sessions[s].user = u /\ ~sessions[s].revoked
                           THEN [sessions[s] EXCEPT !.revoked = TRUE,
                                                    !.reason = "user_logout_all"]
                           ELSE sessions[s]]
      BY <1>1, <2>1 DEF SweepSessions
    <3> QED BY <1>5, <2>0, <3>1 DEF Owner, IsRevoked
  <2>2. CASE SweepLegacy(r)
    <3>1. /\ sessions' = sessions
          /\ legacy' = [x \in Legacy |-> IF legacy[x].user = u
                                         THEN [legacy[x] EXCEPT !.revoked = TRUE]
                                         ELSE legacy[x]]
      BY <1>1, <2>2 DEF SweepLegacy
    <3> QED BY <1>5, <2>0, <3>1 DEF Owner, IsRevoked, RefreshToken
  <2> QED BY <2>1, <2>2
<1> QED BY <1>2, <1>3, <1>4, <1>5, RevokedMove

LEMMA ExpireMove ==
  ASSUME HandInv, [Next]_vars, NEW t \in Token, Expire(t)
  PROVE  Unseen \/ \E x \in RefreshToken : Promise!Expire(x)
<1>1. /\ UNCHANGED <<sessions, legacy, issued, reqs>> /\ expired' = expired \cup {t}
  BY DEF Expire
<1>2. HandedOut' = HandedOut /\ Working' = Working
  BY <1>1, HandsStay, WorkingStays DEF HandInv
<1>3. LetThrough' = LetThrough BY <1>1 DEF LetThrough
<1>4. CASE t \in RefreshToken
  BY <1>1, <1>2, <1>3, <1>4 DEF Promise!Expire
<1>5. CASE t \notin RefreshToken
  BY <1>1, <1>2, <1>3, <1>5 DEF Unseen
<1> QED BY <1>4, <1>5

\* Every step of the handlers is one of the promise, or one that no client sees.
LEMMA StepPromise ==
  HandInv /\ [Next]_vars => [Promise!Next]_(Promise!vars)
<1> SUFFICES ASSUME HandInv, [Next]_vars PROVE [Promise!Next]_(Promise!vars) OBVIOUS
<1>1. ASSUME Unseen PROVE UNCHANGED Promise!vars BY <1>1 DEF Unseen, Promise!vars
<1>2. ASSUME NEW r \in Request, Promise!GiveUp(r) PROVE Promise!Next
  BY <1>2 DEF Promise!Next
<1>3. ASSUME \E u \in User : Promise!Revoke(u) PROVE Promise!Next
  BY <1>3 DEF Promise!Next
<1>4. ASSUME NEW r \in Request, NEW u \in User, NEW p \in Password, Login(r, u, p)
      PROVE  Promise!Next
  BY <1>4, LoginMove DEF Promise!Next
<1>5. ASSUME NEW r \in Request, Find(r) PROVE [Promise!Next]_(Promise!vars)
  BY <1>1, <1>5, FindMove DEF Promise!Next
<1>6. ASSUME NEW r \in Request, MarkUsed(r) \/ \E s \in Session : Insert(r, s)
      PROVE  Unseen
  BY <1>6, MarkMove, InsertMove
<1>7. ASSUME NEW r \in Request, Reply(r) PROVE Promise!Next
  BY <1>7, ReplyMove DEF Promise!Next
<1>8. ASSUME NEW r \in Request, RotateOld(r) PROVE [Promise!Next]_(Promise!vars)
  BY <1>1, <1>2, <1>3, <1>8, RotateOldMove
<1>9. ASSUME NEW r \in Request,
             ExpireRow(r) \/ RevokeOnLogout(r) \/ SweepSessions(r) \/ SweepLegacy(r)
      PROVE  Promise!Next
  BY <1>3, <1>9, ExpireRowMove, RevokeOnLogoutMove, SweepMove
<1>10. ASSUME NEW r \in Request, Fail(r) PROVE [Promise!Next]_(Promise!vars)
  <2>1. reqs'[r].pc = "idle" /\ \A y \in Request \ {r} : reqs'[y] = reqs[y]
    BY <1>10 DEF HandInv, IInv, TypeOK, Fail, NoRequest
  <2>2. UNCHANGED <<sessions, legacy, issued, expired>> BY <1>10 DEF Fail
  <2> QED BY <1>1, <1>2, <2>1, <2>2, GiveUpMove
<1>11. ASSUME NEW r \in Request, Aside(r) PROVE Unseen BY <1>11, AsideMove
<1>12. ASSUME NEW r \in Request, Step(r) PROVE [Promise!Next]_(Promise!vars)
  BY <1>1, <1>4, <1>5, <1>6, <1>7, <1>8, <1>9, <1>10, <1>11, <1>12 DEF Step, Aside
<1>13. ASSUME NEW t \in Token, Expire(t) PROVE [Promise!Next]_(Promise!vars)
  BY <1>1, <1>13, ExpireMove DEF Promise!Next
<1>14. CASE UNCHANGED vars
  BY <1>14 DEF vars, Promise!vars, HandedOut, Working, LetThrough, Owner, IsRevoked
<1> QED BY <1>12, <1>13, <1>14 DEF Next

LEMMA InitPromise == Init => Promise!Init
<1> SUFFICES ASSUME Init PROVE Promise!Init OBVIOUS
<1>1. HandInv BY InitHand
<1>2. LetThrough = [r \in Request |-> Promise!Idle]
  BY DEF Init, NoRequest, LetThrough, AdmittedAs, Promise!Idle
<1>3. ASSUME NEW t \in issued PROVE t \in RefreshToken /\ Owner(t) \in User
  BY <1>1, IssuedKnown DEF HandInv, IInv, TypeOK, RefreshToken
<1>4. HandedOut \in [RefreshToken -> User \cup {None}] BY <1>3 DEF HandedOut
<1>5. \A t \in issued : HandedOut[t] # None BY <1>3, IdsAssumption DEF HandedOut
<1>6. Working \in SUBSET {t \in RefreshToken : HandedOut[t] # None}
  BY <1>3, <1>5 DEF Working
<1>7. expired \cap RefreshToken = {} BY DEF Init
<1> QED BY <1>2, <1>4, <1>6, <1>7 DEF Promise!Init

\* The handlers keep the promise of RefreshTokens, for any number of users, tokens and
\* requests in flight, and with failures between any two statements: a refresh is let
\* through on a good token only, answers with a token nobody had, for the same user and
\* after the old one is dead, and no statement brings a token back.
THEOREM KeepsPromise == Spec => PromiseSpec
<1>1. Init => Promise!Init BY InitPromise
<1>2. HandInv /\ [Next]_vars => [Promise!Next]_(Promise!vars) BY StepPromise
<1> QED BY <1>1, <1>2, HandAlways, PTL DEF Spec, PromiseSpec, Promise!Spec
=============================================================================
