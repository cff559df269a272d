--------------------------- MODULE MobileSession ---------------------------
(***************************************************************************)
(* The mobile app's session: tokens in memory and in the secure store, the *)
(* calls under way, and what an answer of 401 makes of them                *)
(* (mobile/app/api/client.ts, mobile/app/store/authStore.ts, App.tsx).     *)
(* Every `await` is a place where another call may move.  The secure store *)
(* itself does not fail here.                                              *)
(***************************************************************************)
EXTENDS SessionServer

CONSTANTS
    Calls           \* bound: calls under way at a time

VARIABLES
    accessToken, refreshToken,  \* the store: the pair each is from, or NoPair
    user,                       \* the user shown, or Nobody
    isHydrated,
    authChecked,
    checked,                    \* the access token loadUser last ran for
    disk,                       \* the secure store: [access, refresh]
    calls,                      \* call -> its progress
    calm,                       \* history: nothing but time has gone wrong
    crossed,                    \* history: two sessions' calls have crossed
    torn                        \* history: a deletion overlapped a save or the end of the app

mobileVars == <<accessToken, refreshToken, user, isHydrated, authChecked,
                checked, disk, calls, calm, crossed, torn>>
storeVars == <<accessToken, refreshToken, user, isHydrated, authChecked, checked>>

Unseen == MaxPairs + 1
Tokens == Pairs \cup {NoPair}

\* A login that was answered goes on as "setAuth".
Kinds == {"api", "me", "login", "setAuth", "logout"}
\* Where a call stands: its request or its refresh under way, the three writes
\* of setAuth and updateTokens, the three steps of clearAuth.
Places == {"idle", "sent", "refreshing", "accepted", "saveAccess", "saveRefresh",
           "saved", "dropAccess", "dropRefresh", "dropped"}

\* `good`: the server will accept the request; `pair`: the pair refreshed with,
\* then the pair received; `token`: the access token /auth/me is asked with;
\* `again`: loadUser clears the session once more.
Call == [kind : Kinds, pc : Places, who : Users \cup {Nobody}, token : Tokens,
         good : BOOLEAN, pair : Tokens, retried : BOOLEAN, again : BOOLEAN]

MobileTypeOK ==
    /\ {accessToken, refreshToken} \subseteq Tokens
    /\ user \in Users \cup {Nobody}
    /\ {isHydrated, authChecked, calm, crossed, torn} \subseteq BOOLEAN
    /\ checked \in Tokens \cup {Unseen}
    /\ disk \in [access : Tokens, refresh : Tokens]
    /\ calls \in [Calls -> Call]

Idle == [kind |-> "api", pc |-> "idle", who |-> Nobody, token |-> NoPair,
         good |-> FALSE, pair |-> NoPair, retried |-> FALSE, again |-> FALSE]

MobileInit ==
    /\ accessToken = NoPair /\ refreshToken = NoPair
    /\ user = Nobody
    /\ isHydrated = FALSE /\ authChecked = FALSE
    /\ checked = Unseen
    /\ disk = [access |-> NoPair, refresh |-> NoPair]
    /\ calls = [c \in Calls |-> Idle]
    /\ calm = TRUE
    /\ crossed = FALSE
    /\ torn = FALSE

-----------------------------------------------------------------------------
Refreshing(c) == calls[c].pc \in {"refreshing", "accepted"}
Saving(c) == calls[c].pc \in {"saveAccess", "saveRefresh", "saved"}
Wiping(c) == calls[c].pc \in {"dropAccess", "dropRefresh", "dropped"}
Others(c) == Calls \ {c}

At(c, pc) == calls[c].pc = pc
Move(c, pc) == calls' = [calls EXCEPT ![c].pc = pc]
End(c) == calls' = [calls EXCEPT ![c] = Idle]
Keep == UNCHANGED <<calm, crossed>>
Storm == calm' = FALSE /\ UNCHANGED crossed
\* Calm goes on if nothing is being saved, or fetched to be saved, beside c.
CalmIfAlone(c) ==
    /\ calm' = (calm /\ \A d \in Others(c) : ~Refreshing(d) /\ ~Saving(d))
    /\ UNCHANGED crossed

\* A login is being stored beside another call: that one may still refresh, save
\* or clear over the new session.
Crosses(crosses) ==
    /\ crossed' = (crossed \/ crosses)
    /\ calm' = (calm /\ ~crosses)
Storing == \E c \in Calls : calls[c].kind = "setAuth"

\* The call now clears the session; after a 401 loadUser does so a second time.
Wipe(c, again) ==
    calls' = [calls EXCEPT ![c] = [Idle EXCEPT
        !.kind = calls[c].kind, !.pc = "dropAccess",
        !.again = again /\ calls[c].kind = "me"]]

\* Only /auth/me answers for its token.
Asked(kind, t) == IF kind = "me" THEN t ELSE NoPair

Send(c, kind) ==
    /\ At(c, "idle")
    /\ calls' = [calls EXCEPT ![c] = [Idle EXCEPT
           !.kind = kind, !.pc = "sent", !.token = Asked(kind, accessToken),
           !.good = accessToken \in fresh]]
    /\ Crosses(Storing)
    /\ UNCHANGED <<serverVars, disk>>

\* A screen asks for data.
StartApi(c) ==
    /\ user # Nobody
    /\ Send(c, "api")
    /\ UNCHANGED storeVars

\* The effect of App.tsx, run again when the access token has changed.
LoadUser(c) ==
    /\ isHydrated
    /\ accessToken # NoPair
    /\ checked # accessToken
    /\ Send(c, "me")
    /\ checked' = accessToken
    /\ UNCHANGED <<accessToken, refreshToken, user, isHydrated, authChecked>>

NothingToLoad ==
    /\ isHydrated
    /\ accessToken = NoPair
    /\ checked # NoPair
    /\ checked' = NoPair
    /\ authChecked' = TRUE
    /\ UNCHANGED <<serverVars, accessToken, refreshToken, user, isHydrated, disk, calls, calm, crossed>>

\* The login screen, with the right password or a wrong one.
Login(c, u, right) ==
    /\ At(c, "idle")
    /\ user = Nobody
    /\ isHydrated /\ authChecked
    /\ \A d \in Calls : calls[d].kind \notin {"login", "setAuth"}
    /\ calls' = [calls EXCEPT ![c] = [Idle EXCEPT
           !.kind = "login", !.pc = "sent", !.who = u, !.good = right]]
    /\ Keep
    /\ UNCHANGED <<serverVars, storeVars, disk>>

\* `finally` of loadUser: only the call of the effect sets it.
Checked(c) == authChecked' = (authChecked \/ calls[c].kind = "me")

\* The request is answered with success.
Accepted(c) ==
    /\ At(c, "sent")
    /\ calls[c].good
    /\ calls[c].kind # "login"
    /\ user' = IF calls[c].kind = "me" THEN owner[calls[c].token] ELSE user
    /\ Checked(c)
    /\ End(c)
    /\ Keep
    /\ UNCHANGED <<serverVars, accessToken, refreshToken, isHydrated, checked, disk>>

LoggedIn(c) ==
    /\ At(c, "sent")
    /\ calls[c].good
    /\ calls[c].kind = "login"
    /\ \E p \in Pairs :
           /\ Issue(calls[c].who, p)
           /\ calls' = [calls EXCEPT ![c].kind = "setAuth", ![c].pc = "saveAccess",
                                     ![c].pair = p]
    /\ Crosses(\E d \in Others(c) : ~At(d, "idle"))
    /\ UNCHANGED <<storeVars, disk>>

\* The request is answered with 401: refresh and retry once.  Not calm from
\* here: a refresh beside another one, which is refused then, or beside a wipe.
Unauthorized(c) ==
    /\ At(c, "sent")
    /\ ~calls[c].good
    /\ ~calls[c].retried
    /\ refreshToken # NoPair
    /\ calls' = [calls EXCEPT ![c].pc = "refreshing", ![c].pair = refreshToken,
                              ![c].retried = TRUE]
    /\ calm' = (calm /\ \A d \in Others(c) : ~Refreshing(d) /\ ~Saving(d) /\ ~Wiping(d))
    /\ UNCHANGED <<serverVars, storeVars, disk, crossed>>

\* Without a refresh token the session is cleared.
NothingToRefresh(c) ==
    /\ At(c, "sent")
    /\ ~calls[c].good
    /\ ~calls[c].retried
    /\ refreshToken = NoPair
    /\ Wipe(c, TRUE)
    /\ CalmIfAlone(c)
    /\ UNCHANGED <<serverVars, storeVars, disk>>

\* A second 401: the call fails, and loadUser clears the session.
UnauthorizedAgain(c) ==
    /\ At(c, "sent")
    /\ ~calls[c].good
    /\ calls[c].retried
    /\ IF calls[c].kind = "me" THEN Wipe(c, FALSE) ELSE End(c)
    /\ CalmIfAlone(c)
    /\ UNCHANGED <<serverVars, storeVars, disk>>

\* No answer comes: the call fails and nothing else happens.
NoAnswer(c) ==
    /\ At(c, "sent")
    /\ End(c)
    /\ Checked(c)
    /\ Keep
    /\ UNCHANGED <<serverVars, accessToken, refreshToken, user, isHydrated, checked, disk>>

-----------------------------------------------------------------------------
\* The refresh: the server accepts the token ...
Verify(c) ==
    /\ At(c, "refreshing")
    /\ calls[c].pair \in live
    /\ Move(c, "accepted")
    /\ Keep
    /\ UNCHANGED <<serverVars, storeVars, disk>>

\* ... and answers with a new pair ...
Rotated(c) ==
    /\ At(c, "accepted")
    /\ \E p \in Pairs :
           /\ Rotate(calls[c].pair, p)
           /\ calls' = [calls EXCEPT ![c].pc = "saveAccess", ![c].pair = p]
    /\ Keep
    /\ UNCHANGED <<storeVars, disk>>

\* ... or refuses it, and the session is cleared.
Refused(c) ==
    /\ At(c, "refreshing")
    /\ calls[c].pair \notin live
    /\ Wipe(c, TRUE)
    /\ CalmIfAlone(c)
    /\ UNCHANGED <<serverVars, storeVars, disk>>

\* No answer to the refresh, whether or not the server has rotated the pair:
\* the session is cleared, too.
LoseRefresh(c) ==
    /\ Refreshing(c)
    /\ Wipe(c, FALSE)
    /\ Storm
    /\ \/ UNCHANGED serverVars
       \/ At(c, "accepted") /\ \E p \in Pairs : Rotate(calls[c].pair, p)
    /\ UNCHANGED <<storeVars, disk>>

-----------------------------------------------------------------------------
\* setAuth and updateTokens: two writes to the secure store, then the memory.
SaveAccess(c) ==
    /\ At(c, "saveAccess")
    /\ disk' = [disk EXCEPT !.access = calls[c].pair]
    /\ Move(c, "saveRefresh")
    /\ Keep
    /\ UNCHANGED <<serverVars, storeVars>>

SaveRefresh(c) ==
    /\ At(c, "saveRefresh")
    /\ disk' = [disk EXCEPT !.refresh = calls[c].pair]
    /\ Move(c, "saved")
    /\ Keep
    /\ UNCHANGED <<serverVars, storeVars>>

\* mutant: setAuth leaves the refresh token in memory as it was.
SetAuthAccessOnly(c) ==
    /\ At(c, "saved")
    /\ calls[c].kind = "setAuth"
    /\ accessToken' = calls[c].pair
    /\ user' = calls[c].who
    /\ End(c)
    /\ Keep
    /\ UNCHANGED <<serverVars, refreshToken, isHydrated, authChecked, checked, disk>>

\* The last step of setAuth.
SetAuth(c) ==
    /\ At(c, "saved")
    /\ calls[c].kind = "setAuth"
    /\ accessToken' = calls[c].pair /\ refreshToken' = calls[c].pair
    /\ user' = calls[c].who
    /\ End(c)
    /\ Keep
    /\ UNCHANGED <<serverVars, isHydrated, authChecked, checked, disk>>

\* mutant: updateTokens leaves the refresh token in memory as it was.
UpdateAccessOnly(c) ==
    /\ At(c, "saved")
    /\ calls[c].kind # "setAuth"
    /\ accessToken' = calls[c].pair
    /\ calls' = [calls EXCEPT ![c].pc = "sent", ![c].pair = NoPair,
           ![c].token = Asked(calls[c].kind, calls[c].pair),
           ![c].good = calls[c].kind # "login" /\ calls[c].pair \in fresh]
    /\ Keep
    /\ UNCHANGED <<serverVars, refreshToken, user, isHydrated, authChecked, checked, disk>>

\* The last step of updateTokens; the request is then sent again.
UpdateTokens(c) ==
    /\ At(c, "saved")
    /\ calls[c].kind # "setAuth"
    /\ accessToken' = calls[c].pair /\ refreshToken' = calls[c].pair
    /\ calls' = [calls EXCEPT ![c].pc = "sent", ![c].pair = NoPair,
           ![c].token = Asked(calls[c].kind, calls[c].pair),
           ![c].good = calls[c].kind # "login" /\ calls[c].pair \in fresh]
    /\ Keep
    /\ UNCHANGED <<serverVars, user, isHydrated, authChecked, checked, disk>>

-----------------------------------------------------------------------------
\* The sign-out button.  The server is not told.
Logout(c) ==
    /\ At(c, "idle")
    /\ user # Nobody
    /\ calls' = [calls EXCEPT ![c].kind = "logout", ![c].pc = "dropAccess"]
    /\ calm' = (calm /\ \A d \in Others(c) : ~Refreshing(d) /\ ~Saving(d))
    /\ crossed' = (crossed \/ Storing)
    /\ UNCHANGED <<serverVars, storeVars, disk>>

\* clearAuth: two deletions in the secure store, then the memory.
DropAccess(c) ==
    /\ At(c, "dropAccess")
    /\ disk' = [disk EXCEPT !.access = NoPair]
    /\ Move(c, "dropRefresh")
    /\ Keep
    /\ UNCHANGED <<serverVars, storeVars>>

\* mutant: clearAuth deletes the access token twice.
DropAccessTwice(c) ==
    /\ At(c, "dropRefresh")
    /\ disk' = [disk EXCEPT !.access = NoPair]
    /\ Move(c, "dropped")
    /\ Keep
    /\ UNCHANGED <<serverVars, storeVars>>

DropRefresh(c) ==
    /\ At(c, "dropRefresh")
    /\ disk' = [disk EXCEPT !.refresh = NoPair]
    /\ Move(c, "dropped")
    /\ Keep
    /\ UNCHANGED <<serverVars, storeVars>>

\* A refresh under way beside it will sign in again: not calm.
ClearAuth(c) ==
    /\ At(c, "dropped")
    /\ accessToken' = NoPair /\ refreshToken' = NoPair
    /\ user' = Nobody
    /\ IF calls[c].again
       THEN Wipe(c, FALSE) /\ UNCHANGED authChecked
       ELSE End(c) /\ Checked(c)
    /\ CalmIfAlone(c)
    /\ UNCHANGED <<serverVars, isHydrated, checked, disk>>

-----------------------------------------------------------------------------
\* The app is killed; what the server was told stays done.  A login may then
\* have stored its access token only, next to another's refresh token.
Kill ==
    /\ isHydrated
    /\ calm' = (calm /\ \A c \in Calls : ~Refreshing(c) /\ ~Saving(c) /\ ~Wiping(c))
    /\ crossed' = (crossed \/ \E c \in Calls : calls[c].kind = "setAuth" /\ At(c, "saveRefresh"))
    /\ accessToken' = NoPair /\ refreshToken' = NoPair
    /\ user' = Nobody
    /\ isHydrated' = FALSE /\ authChecked' = FALSE
    /\ checked' = Unseen
    /\ calls' = [c \in Calls |-> Idle]
    /\ UNCHANGED <<serverVars, disk>>

HydrateFromSecureStore ==
    /\ isHydrated = FALSE
    /\ accessToken' = disk.access /\ refreshToken' = disk.refresh
    /\ user' = Nobody
    /\ isHydrated' = TRUE
    /\ Keep
    /\ UNCHANGED <<serverVars, authChecked, checked, disk, calls>>

\* An access token expires; not calm while it is still being saved.
Expire(p) ==
    /\ p \in fresh
    /\ fresh' = fresh \ {p}
    /\ calm' = (calm /\ \A c \in Calls : Saving(c) => calls[c].pair # p)
    /\ UNCHANGED <<owner, live, storeVars, disk, calls, crossed>>

\* All sessions of a user are revoked.
RevokeAll(u) ==
    /\ \E p \in live : owner[p] = u
    /\ live' = {p \in live : owner[p] # u}
    /\ Storm
    /\ UNCHANGED <<owner, fresh, storeVars, disk, calls>>

\* Tokens are being saved while others are deleted, or the app ends in the middle of
\* a deletion.
Tears ==
    \/ \E c, d \in Calls : Saving(c)' /\ Wiping(d)'
    \/ ~isHydrated' /\ \E c \in Calls : Wiping(c)

MobileStep ==
    \/ \E c \in Calls :
          \/ StartApi(c) \/ LoadUser(c) \/ Logout(c)
          \/ \E u \in Users, right \in BOOLEAN : Login(c, u, right)
          \/ Accepted(c) \/ LoggedIn(c) \/ NoAnswer(c)
          \/ Unauthorized(c) \/ UnauthorizedAgain(c) \/ NothingToRefresh(c)
          \/ Verify(c) \/ Rotated(c) \/ Refused(c) \/ LoseRefresh(c)
          \/ SaveAccess(c) \/ SaveRefresh(c) \/ SetAuth(c) \/ UpdateTokens(c)
          \/ DropAccess(c) \/ DropRefresh(c) \/ ClearAuth(c)
    \/ NothingToLoad
    \/ Kill
    \/ HydrateFromSecureStore
    \/ \E p \in Pairs : Expire(p)
    \/ \E u \in Users : RevokeAll(u)

MobileNext == MobileStep /\ torn' = (torn \/ Tears)

-----------------------------------------------------------------------------
\* Expiry alone never signs a user out: the memory loses its tokens only to the
\* sign-out button or the end of the app, unless a refresh was lost, refused or
\* ran beside another, or sessions crossed (client.ts, clearAuth).
OnlyMishapsSignOut ==
    [][calm' /\ accessToken # NoPair /\ accessToken' = NoPair =>
        ~isHydrated' \/ \E c \in Calls : calls[c].kind = "logout" /\ At(c, "dropped")
      ]_mobileVars

\* A sign-out sticks: with no token in memory and none being saved, the secure store
\* holds none to sign in with at the next start, whatever was lost, refused, revoked or
\* refreshed side by side before - unless the deletions of a sign-out have overlapped
\* the saves of a refresh or a login, or the app has ended between them.
SignOutSticks ==
    ~torn /\ isHydrated /\ accessToken = NoPair /\ (\A c \in Calls : ~Saving(c))
        => refreshToken = NoPair /\ disk = [access |-> NoPair, refresh |-> NoPair]

\* The user shown is the one the tokens act for, unless calls of an earlier
\* session were still under way at a login.
ShownUserOwnsTokens ==
    ~crossed /\ user # Nobody /\ accessToken # NoPair => owner[accessToken] = user
=============================================================================
