--------------------------- MODULE RefreshTokens ---------------------------
(***************************************************************************)
(* What the backend promises about refresh tokens, with every request that *)
(* hands one out reduced to two steps: it is admitted, on a password or on *)
(* a token that is good at that moment, and it answers with a new token,   *)
(* once the token it was admitted on works no more.  A token that has been *)
(* revoked, or has lived out its time, is never good again.  The abstract  *)
(* specification that AuthSessions implements (authService.ts).            *)
(***************************************************************************)
CONSTANTS Users, Tokens, Requests, None

VARIABLES
    owner,      \* token -> whom it was handed to, None if it was not
    live,       \* tokens handed out and not revoked
    expired,    \* tokens whose lifetime is over
    admitted    \* request -> for whom, and on which token, it was let through

vars == <<owner, live, expired, admitted>>

Idle == [who |-> None, on |-> None]
Of(u) == {t \in Tokens : owner[t] = u}

\* Tokens of an earlier release may be about.
Init ==
    /\ owner \in [Tokens -> Users \cup {None}]
    /\ live \in SUBSET {t \in Tokens : owner[t] # None}
    /\ expired = {}
    /\ admitted = [r \in Requests |-> Idle]

AdmitLogin(r, u) ==
    /\ admitted[r] = Idle
    /\ admitted' = [admitted EXCEPT ![r] = [who |-> u, on |-> None]]
    /\ UNCHANGED <<owner, live, expired>>

AdmitRefresh(r, t) ==
    /\ admitted[r] = Idle
    /\ t \in live \ expired
    /\ admitted' = [admitted EXCEPT ![r] = [who |-> owner[t], on |-> t]]
    /\ UNCHANGED <<owner, live, expired>>

\* The answer, with a token nobody was given before.  It may be dead already: the
\* sessions of its user may have been ended while the request was under way.
Answer(r, t) ==
    /\ admitted[r] # Idle
    /\ admitted[r].on \notin live
    /\ owner[t] = None
    /\ owner' = [owner EXCEPT ![t] = admitted[r].who]
    /\ live' \in {live, live \cup {t}}
    /\ admitted' = [admitted EXCEPT ![r] = Idle]
    /\ UNCHANGED expired

\* The request fails, and hands out nothing.
GiveUp(r) ==
    /\ admitted[r] # Idle
    /\ admitted' = [admitted EXCEPT ![r] = Idle]
    /\ UNCHANGED <<owner, live, expired>>

\* Rotation, logout, the end of all sessions: tokens of one user stop working.
Revoke(u) ==
    /\ \E gone \in SUBSET Of(u) : live' = live \ gone
    /\ UNCHANGED <<owner, expired, admitted>>

Expire(t) ==
    /\ expired' = expired \cup {t}
    /\ UNCHANGED <<owner, live, admitted>>

Next ==
    \/ \E r \in Requests :
         \/ \E u \in Users : AdmitLogin(r, u)
         \/ \E t \in Tokens : AdmitRefresh(r, t) \/ Answer(r, t)
         \/ GiveUp(r)
    \/ \E u \in Users : Revoke(u)
    \/ \E t \in Tokens : Expire(t)

Spec == Init /\ [][Next]_vars
=============================================================================
