----------------------------- MODULE WebSession -----------------------------
(***************************************************************************)
(* The web app's session: every tab keeps the tokens in memory, all tabs   *)
(* share the copy in localStorage, and the requests of a tab share one     *)
(* refresh (web/lib/authStore.ts, web/lib/api/httpClient.ts,               *)
(* web/app/(app)/layout.tsx, web/lib/useSessionTimeout.ts).  A tab does    *)
(* not hear of what another one stores.  Cookie mode is off.               *)
(***************************************************************************)
EXTENDS SessionServer

CONSTANTS
    Tabs,
    Slots           \* bound: requests under way in a tab at a time

VARIABLES
    storage,        \* localStorage: the pair stored, or NoPair
    held,           \* tab -> the pair in its memory, or NoPair
    phase,          \* tab -> what it shows
    refresh,        \* tab -> its shared refresh, [pc, pair]
    requests,       \* tab -> slot -> request
    steady,         \* history: one tab at a time, no answer lost, none revoked
    signedOut       \* history: a sign-out, and no login since

webVars == <<storage, held, phase, refresh, requests, steady, signedOut>>

Held == Pairs \cup {NoPair}
\* "leaving": signed out, the page about to be unloaded.
Phases == {"closed", "boot", "ready", "leaving", "login"}
Request == [pc : {"idle", "sent", "waiting"}, kind : {"api", "boot", "login"},
            good : BOOLEAN, retried : BOOLEAN]

WebTypeOK ==
    /\ storage \in Held
    /\ held \in [Tabs -> Held]
    /\ phase \in [Tabs -> Phases]
    /\ refresh \in [Tabs -> [pc : {"none", "sent", "accepted"}, pair : Held]]
    /\ requests \in [Tabs -> [Slots -> Request]]
    /\ {steady, signedOut} \subseteq BOOLEAN

NoRequest == [pc |-> "idle", kind |-> "api", good |-> FALSE, retried |-> FALSE]
NoRefresh == [pc |-> "none", pair |-> NoPair]

WebInit ==
    /\ storage = NoPair
    /\ held = [t \in Tabs |-> NoPair]
    /\ phase = [t \in Tabs |-> "closed"]
    /\ refresh = [t \in Tabs |-> NoRefresh]
    /\ requests = [t \in Tabs |-> [s \in Slots |-> NoRequest]]
    /\ steady = TRUE
    /\ signedOut = FALSE

-----------------------------------------------------------------------------
OthersOpen(t) == \E d \in Tabs \ {t} : phase[d] # "closed"
Quietly == UNCHANGED <<steady, signedOut>>
\* Steady goes on if no other tab is open.
SteadyIfAlone(t) ==
    /\ steady' = (steady /\ ~OthersOpen(t))
    /\ UNCHANGED signedOut
Lost == steady' = FALSE /\ UNCHANGED signedOut

\* Every `set` of the store is persisted: the tab's tokens replace what is stored.
Persist(t, pair) ==
    /\ held' = [held EXCEPT ![t] = pair]
    /\ storage' = pair
\* mutant: the tokens of a refresh reach localStorage only.
SetTokensBehind(t, pair) ==
    /\ storage' = pair
    /\ UNCHANGED held
\* setTokens
SetTokens(t, pair) == Persist(t, pair)
\* mutant: logoutAll leaves localStorage to be cleared by the next page.
ForgetInMemory(t) ==
    /\ held' = [held EXCEPT ![t] = NoPair]
    /\ UNCHANGED storage
\* logoutAll
Forget(t) == Persist(t, NoPair)

Slot(t, s, pc) == requests[t][s].pc = pc
SetSlot(t, s, r) == requests' = [requests EXCEPT ![t][s] = r]
Done(t, s) == SetSlot(t, s, NoRequest)

SendRequest(t, s, kind, good) ==
    /\ Slot(t, s, "idle")
    /\ SetSlot(t, s, [pc |-> "sent", kind |-> kind, good |-> good, retried |-> FALSE])

\* The profile's request, while the layout that waits for it is shown.
Bootstraps(t, s) == requests[t][s].kind = "boot" /\ phase[t] \in {"boot", "ready", "leaving"}

\* A page is loaded: the store is filled from localStorage, and the layout asks
\* for the profile.  What the page before had under way is gone.
Open(t) ==
    /\ phase[t] = "closed"
    /\ held' = [held EXCEPT ![t] = storage]
    /\ phase' = [phase EXCEPT ![t] = "boot"]
    /\ \E s \in Slots : SendRequest(t, s, "boot", storage \in fresh)
    /\ Quietly
    /\ UNCHANGED <<serverVars, storage, refresh>>

\* The page is unloaded: reloaded, closed, or left after a sign-out.
Unload(t) ==
    /\ phase[t] # "closed"
    /\ phase' = [phase EXCEPT ![t] = "closed"]
    /\ held' = [held EXCEPT ![t] = NoPair]
    /\ requests' = [requests EXCEPT ![t] = [s \in Slots |-> NoRequest]]
    /\ refresh' = [refresh EXCEPT ![t] = NoRefresh]
    /\ steady' = (steady /\ refresh[t].pc = "none")
    /\ UNCHANGED <<serverVars, storage, signedOut>>

\* Another page of the app: the layout asks for the profile again, and no longer
\* hears of the answers to its earlier questions.
Navigate(t, s) ==
    /\ phase[t] \in {"boot", "ready"}
    /\ Slot(t, s, "idle")
    /\ requests' = [requests EXCEPT ![t] = [q \in Slots |->
           IF q = s
           THEN [pc |-> "sent", kind |-> "boot", good |-> held[t] \in fresh, retried |-> FALSE]
           ELSE IF requests[t][q].kind = "boot" THEN [requests[t][q] EXCEPT !.kind = "api"]
                                                ELSE requests[t][q]]]
    /\ Quietly
    /\ UNCHANGED <<serverVars, storage, held, phase, refresh>>

\* Any other request of the app.
Ask(t, s) ==
    /\ phase[t] = "ready"
    /\ SendRequest(t, s, "api", held[t] \in fresh)
    /\ Quietly
    /\ UNCHANGED <<serverVars, storage, held, phase, refresh>>

\* The login form, with the right password or a wrong one.
SubmitLogin(t, s, right) ==
    /\ phase[t] = "login"
    /\ \A q \in Slots : requests[t][q].kind # "login"
    /\ SendRequest(t, s, "login", right)
    /\ Quietly
    /\ UNCHANGED <<serverVars, storage, held, phase, refresh>>

\* recordActivity, at the next move of the mouse.
RecordActivity(t) ==
    /\ phase[t] \in {"boot", "ready", "leaving"}
    /\ held[t] # NoPair
    /\ Persist(t, held[t])
    /\ Quietly
    /\ UNCHANGED <<serverVars, phase, refresh, requests>>

\* The sign-out button, or the idle or absolute timeout: the page is left
\* only then.  Not steady: a refresh under way, or another tab.
SignOutHere(t) ==
    /\ phase[t] \in {"boot", "ready"}
    /\ held[t] # NoPair
    /\ Forget(t)
    /\ phase' = [phase EXCEPT ![t] = "leaving"]
    /\ steady' = (steady /\ ~OthersOpen(t) /\ refresh[t].pc = "none")
    /\ signedOut' = TRUE
    /\ UNCHANGED <<serverVars, refresh, requests>>

-----------------------------------------------------------------------------
\* A request is answered with success; the profile makes the app ready, and
\* recordActivity stores what the tab holds.
Answered(t, s) ==
    /\ Slot(t, s, "sent")
    /\ requests[t][s].good
    /\ requests[t][s].kind # "login"
    /\ Done(t, s)
    /\ IF Bootstraps(t, s)
       THEN /\ phase' = [phase EXCEPT ![t] = IF @ = "leaving" THEN "leaving" ELSE "ready"]
            /\ Persist(t, held[t])
       ELSE UNCHANGED <<phase, held, storage>>
    /\ Quietly
    /\ UNCHANGED <<serverVars, refresh>>

\* The login form then opens the app, which asks for the profile.
LoginAnswered(t, s, u) ==
    /\ Slot(t, s, "sent")
    /\ requests[t][s].good
    /\ requests[t][s].kind = "login"
    /\ phase[t] = "login"
    /\ \E p \in Pairs : Issue(u, p) /\ Persist(t, p)
    /\ SetSlot(t, s, [pc |-> "sent", kind |-> "boot", good |-> TRUE, retried |-> FALSE])
    /\ phase' = [phase EXCEPT ![t] = "boot"]
    /\ signedOut' = FALSE
    /\ steady' = (steady /\ ~OthersOpen(t))
    /\ UNCHANGED refresh

\* A failed request is rejected; the layout signs out when it was the profile's,
\* whatever the failure was, even an app that was ready.
Rejected(t, rejected) ==
    IF \E s \in rejected : Bootstraps(t, s)
    THEN /\ Forget(t)
         /\ phase' = [phase EXCEPT ![t] = IF @ = "leaving" THEN "leaving" ELSE "login"]
         /\ signedOut' = TRUE
    ELSE UNCHANGED <<held, storage, phase, signedOut>>

\* No answer, or one of a failing server.
Failed(t, s) ==
    /\ Slot(t, s, "sent")
    /\ Rejected(t, {s})
    /\ Done(t, s)
    /\ steady' = FALSE
    /\ UNCHANGED <<serverVars, refresh>>

\* A second 401.
RefusedAgain(t, s) ==
    /\ Slot(t, s, "sent")
    /\ ~requests[t][s].good
    /\ requests[t][s].retried
    /\ Rejected(t, {s})
    /\ Done(t, s)
    /\ UNCHANGED <<serverVars, refresh, steady>>

\* The first 401: the request waits for the shared refresh, which it starts
\* unless one is under way.
Joins(t, s) ==
    /\ SetSlot(t, s, [requests[t][s] EXCEPT !.pc = "waiting", !.retried = TRUE])
    /\ IF refresh[t].pc = "none"
       THEN refresh' = [refresh EXCEPT ![t] = [pc |-> "sent", pair |-> held[t]]]
       ELSE UNCHANGED refresh

Unauthorised(t, s) ==
    /\ Slot(t, s, "sent")
    /\ ~requests[t][s].good
    /\ ~requests[t][s].retried
    /\ held[t] # NoPair \/ refresh[t].pc # "none"
    /\ Joins(t, s)
    /\ Quietly
    /\ UNCHANGED <<serverVars, storage, held, phase>>

\* Without a token to refresh with, the tab signs out, and so does what is stored.
NothingToRefreshWith(t, s) ==
    /\ Slot(t, s, "sent")
    /\ ~requests[t][s].good
    /\ ~requests[t][s].retried
    /\ held[t] = NoPair
    /\ refresh[t].pc = "none"
    /\ Forget(t)
    /\ phase' = [phase EXCEPT ![t] = IF phase[t] = "leaving" THEN "leaving" ELSE "login"]
    /\ Done(t, s)
    /\ SteadyIfAlone(t)
    /\ UNCHANGED <<serverVars, refresh>>

-----------------------------------------------------------------------------
WaitingIn(t) == {s \in Slots : Slot(t, s, "waiting")}
Drop(t, dropped) ==
    requests' = [requests EXCEPT ![t] =
                    [s \in Slots |-> IF s \in dropped THEN NoRequest ELSE requests[t][s]]]
EndRefresh(t) == refresh' = [refresh EXCEPT ![t] = NoRefresh]

RefreshAccepted(t) ==
    /\ refresh[t].pc = "sent"
    /\ refresh[t].pair \in live
    /\ refresh' = [refresh EXCEPT ![t].pc = "accepted"]
    /\ Quietly
    /\ UNCHANGED <<serverVars, storage, held, phase, requests>>

\* The new pair is stored, whatever has become of the session since, and the
\* requests that waited are sent again.
Refreshed(t) ==
    /\ refresh[t].pc = "accepted"
    /\ \E p \in Pairs : Rotate(refresh[t].pair, p) /\ SetTokens(t, p)
    /\ EndRefresh(t)
    /\ requests' = [requests EXCEPT ![t] = [s \in Slots |->
           IF Slot(t, s, "waiting")
           THEN [requests[t][s] EXCEPT !.pc = "sent", !.good = requests[t][s].kind # "login"]
           ELSE requests[t][s]]]
    /\ SteadyIfAlone(t)
    /\ UNCHANGED phase

\* 401 or 403: the session is over, for this tab and in localStorage.
RefreshRefused(t) ==
    /\ refresh[t].pc = "sent"
    /\ refresh[t].pair \notin live
    /\ Forget(t)
    /\ phase' = [phase EXCEPT ![t] = IF phase[t] = "leaving" THEN "leaving" ELSE "login"]
    /\ EndRefresh(t)
    /\ Drop(t, WaitingIn(t))
    /\ Quietly
    /\ UNCHANGED serverVars

\* No answer: the tokens stay, though the server may have rotated them.
RefreshLost(t) ==
    /\ refresh[t].pc # "none"
    /\ \/ UNCHANGED serverVars
       \/ refresh[t].pc = "accepted" /\ \E p \in Pairs : Rotate(refresh[t].pair, p)
    /\ Rejected(t, WaitingIn(t))
    /\ EndRefresh(t)
    /\ Drop(t, WaitingIn(t))
    /\ steady' = FALSE

ExpireAccess(p) ==
    /\ p \in fresh
    /\ fresh' = fresh \ {p}
    /\ UNCHANGED <<owner, live, webVars>>

RevokeSessions(u) ==
    /\ \E p \in live : owner[p] = u
    /\ live' = {p \in live : owner[p] # u}
    /\ Lost
    /\ UNCHANGED <<owner, fresh, storage, held, phase, refresh, requests>>

WebNext ==
    \/ \E t \in Tabs :
          \/ Open(t) \/ Unload(t) \/ RecordActivity(t) \/ SignOutHere(t)
          \/ RefreshAccepted(t) \/ Refreshed(t) \/ RefreshRefused(t) \/ RefreshLost(t)
          \/ \E s \in Slots :
                \/ Navigate(t, s) \/ Ask(t, s) \/ Answered(t, s) \/ Failed(t, s)
                \/ Unauthorised(t, s) \/ RefusedAgain(t, s) \/ NothingToRefreshWith(t, s)
                \/ \E right \in BOOLEAN : SubmitLogin(t, s, right)
                \/ \E u \in Users : LoginAnswered(t, s, u)
    \/ \E p \in Pairs : ExpireAccess(p)
    \/ \E u \in Users : RevokeSessions(u)

-----------------------------------------------------------------------------
\* Used in one tab, with no answer lost, no failing server and no session revoked, the
\* web app drops its tokens only when the user signs out or leaves the page: the
\* requests of the tab share a refresh and never spend one refresh token twice
\* (httpClient.ts:61).
OneTabKeepsSession ==
    [][\A t \in Tabs :
         steady' /\ held[t] # NoPair /\ held'[t] = NoPair =>
             phase'[t] \in {"closed", "leaving"}]_webVars

\* A sign-out sticks: until the next login no token is stored or held, unless
\* another tab was open or a refresh under way when the user signed out, or an
\* answer was lost or a session revoked before.
WebSignOutSticks ==
    steady /\ signedOut => storage = NoPair /\ \A t \in Tabs : held[t] = NoPair
=============================================================================
