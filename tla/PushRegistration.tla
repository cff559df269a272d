-------------------------- MODULE PushRegistration --------------------------
(***************************************************************************)
(* Which user the phone's push token is registered for: the server's row   *)
(* (backend/src/modules/push/pushTokensRepository.ts), the flags by which  *)
(* the phone remembers that it registered (usePushRegistration.ts) and     *)
(* their removal at sign-out (authStore.ts, clearAuth).  Whether the user  *)
(* wants alerts, and the permission of the phone, only decide whether an   *)
(* effect registers at all.                                                *)
(***************************************************************************)
EXTENDS Accounts, Naturals

CONSTANTS
    Runs,           \* bound: effects under way at a time
    MaxTokens       \* bound: push tokens the phone is given, one after the other

ASSUME PushAssumption == MaxTokens \in Nat \ {0}

VARIABLES
    phoneUser,      \* the user signed in, or Nobody
    phoneToken,     \* the phone's push token
    row,            \* auth_device_push_tokens: token -> user, or Nobody
    flags,          \* LAST_REGISTERED_*: [token, user]
    runs,           \* effect -> its progress
    signingOut,     \* clearAuth: "no", "begun", "removed"
    untidy          \* history: a sign-out left flags or a registration behind

pushVars == <<phoneUser, phoneToken, row, flags, runs, signingOut, untidy>>

PushTokens == 1..MaxTokens
NoToken == 0
NoFlags == [token |-> NoToken, user |-> Nobody]
\* "late": given up on by the phone, and not yet seen by the server.
RunPlaces == {"idle", "check", "post", "sent", "applied", "set", "late"}
Run == [pc : RunPlaces, user : Users \cup {Nobody}, token : PushTokens \cup {NoToken},
        who : Users \cup {Nobody}, cancelled : BOOLEAN]
NoRun == [pc |-> "idle", user |-> Nobody, token |-> NoToken, who |-> Nobody,
          cancelled |-> FALSE]

PushTypeOK ==
    /\ phoneUser \in Users \cup {Nobody}
    /\ phoneToken \in PushTokens
    /\ row \in [PushTokens -> Users \cup {Nobody}]
    /\ flags \in [token : PushTokens \cup {NoToken}, user : Users \cup {Nobody}]
    /\ runs \in [Runs -> Run]
    /\ signingOut \in {"no", "begun", "removed"}
    /\ untidy \in BOOLEAN

PushInit ==
    /\ phoneUser = Nobody
    /\ phoneToken = 1
    /\ row = [t \in PushTokens |-> Nobody]
    /\ flags = NoFlags
    /\ runs = [r \in Runs |-> NoRun]
    /\ signingOut = "no"
    /\ untidy = FALSE

-----------------------------------------------------------------------------
RunAt(r, pc) == runs[r].pc = pc
RunTo(r, pc) == runs' = [runs EXCEPT ![r].pc = pc]
EndRun(r) == runs' = [runs EXCEPT ![r] = NoRun]
Cancelled(rs) == [r \in Runs |-> [rs[r] EXCEPT !.cancelled = rs[r].pc # "idle"]]
\* Registrations that still change the row or the flags when the user has changed.
Loose == {r \in Runs : runs[r].pc \in {"sent", "set", "late"}}

\* mutant: a new push token is taken for the registered one.
FlaggedForAnyToken(u, t) == flags.user = u

AlreadyRegistered(u, t) == flags.token = t /\ flags.user = u

PhoneSignIn(u) ==
    /\ phoneUser = Nobody
    /\ phoneUser' = u
    /\ UNCHANGED <<phoneToken, row, flags, runs, signingOut, untidy>>

\* The effect runs for a new user or new preferences, and cancels the run before.
StartRun(r) ==
    /\ phoneUser # Nobody
    /\ RunAt(r, "idle")
    /\ runs' = [Cancelled(runs) EXCEPT ![r] =
           [NoRun EXCEPT !.pc = "check", !.user = phoneUser, !.token = phoneToken]]
    /\ UNCHANGED <<phoneUser, phoneToken, row, flags, signingOut, untidy>>

CheckFlags(r) ==
    /\ RunAt(r, "check")
    /\ IF AlreadyRegistered(runs[r].user, runs[r].token) THEN EndRun(r) ELSE RunTo(r, "post")
    /\ UNCHANGED <<phoneUser, phoneToken, row, flags, signingOut, untidy>>

\* The request is sent for whoever is signed in by now.
PostToken(r) ==
    /\ RunAt(r, "post")
    /\ IF phoneUser = Nobody
       THEN EndRun(r)
       ELSE runs' = [runs EXCEPT ![r].pc = "sent", ![r].who = phoneUser]
    /\ UNCHANGED <<phoneUser, phoneToken, row, flags, signingOut, untidy>>

\* The server: a token has one row, and the last to register it has the row.
UpsertPushToken(r) ==
    /\ runs[r].pc \in {"sent", "late"}
    /\ row' = [row EXCEPT ![runs[r].token] = runs[r].who]
    /\ IF RunAt(r, "sent") THEN RunTo(r, "applied") ELSE EndRun(r)
    /\ UNCHANGED <<phoneUser, phoneToken, flags, signingOut, untidy>>

Registered(r) ==
    /\ RunAt(r, "applied")
    /\ IF runs[r].cancelled THEN EndRun(r) ELSE RunTo(r, "set")
    /\ UNCHANGED <<phoneUser, phoneToken, row, flags, signingOut, untidy>>

SetFlags(r) ==
    /\ RunAt(r, "set")
    /\ flags' = [token |-> runs[r].token, user |-> runs[r].user]
    /\ EndRun(r)
    /\ UNCHANGED <<phoneUser, phoneToken, row, signingOut, untidy>>

\* mutant: a failed request leaves its effect in a place of its own.
PostFailsForGood(r) ==
    /\ runs[r].pc \in {"sent", "applied"}
    /\ RunTo(r, "failed")
    /\ UNCHANGED <<phoneUser, phoneToken, row, flags, signingOut, untidy>>

\* The request fails, before or after the server has seen it, or while it still may.
PostFails(r) ==
    /\ runs[r].pc \in {"sent", "applied"}
    /\ EndRun(r) \/ (RunAt(r, "sent") /\ RunTo(r, "late"))
    /\ UNCHANGED <<phoneUser, phoneToken, row, flags, signingOut, untidy>>

-----------------------------------------------------------------------------
BeginSignOut ==
    /\ phoneUser # Nobody
    /\ signingOut = "no"
    /\ signingOut' = "begun"
    /\ UNCHANGED <<phoneUser, phoneToken, row, flags, runs, untidy>>

RemoveFlags ==
    /\ signingOut = "begun"
    /\ signingOut' = "removed"
    /\ flags' = NoFlags
    /\ UNCHANGED <<phoneUser, phoneToken, row, runs, untidy>>

\* The removal fails: the error is logged and the sign-out goes on.
RemovalFails ==
    /\ signingOut = "begun"
    /\ signingOut' = "removed"
    /\ untidy' = (untidy \/ flags # NoFlags)
    /\ UNCHANGED <<phoneUser, phoneToken, row, flags, runs>>

\* The server keeps the row: the phone is still sent this user's alerts.
EndSignOut ==
    /\ signingOut = "removed"
    /\ signingOut' = "no"
    /\ phoneUser' = Nobody
    /\ runs' = Cancelled(runs)
    /\ untidy' = (untidy \/ Loose # {})
    /\ UNCHANGED <<phoneToken, row, flags>>

\* The app is killed.  clearAuth deletes the session before the flags.
KillApp ==
    /\ runs' = [r \in Runs |->
           IF runs[r].pc \in {"sent", "late"} THEN [runs[r] EXCEPT !.pc = "late"] ELSE NoRun]
    /\ phoneUser' = IF signingOut = "no" THEN phoneUser ELSE Nobody
    /\ signingOut' = "no"
    /\ untidy' = (untidy \/ (signingOut # "no" /\ (flags # NoFlags \/ Loose # {})))
    /\ UNCHANGED <<phoneToken, row, flags>>

NewPushToken ==
    /\ phoneToken < MaxTokens
    /\ phoneToken' = phoneToken + 1
    /\ UNCHANGED <<phoneUser, row, flags, runs, signingOut, untidy>>

PushNext ==
    \/ \E u \in Users : PhoneSignIn(u)
    \/ \E r \in Runs :
          \/ StartRun(r) \/ CheckFlags(r) \/ PostToken(r) \/ UpsertPushToken(r)
          \/ Registered(r) \/ SetFlags(r) \/ PostFails(r)
    \/ BeginSignOut \/ RemoveFlags \/ RemovalFails \/ EndSignOut
    \/ KillApp
    \/ NewPushToken

-----------------------------------------------------------------------------
\* A phone that believes it is registered for the user signed in is registered
\* for that user, and so does not skip a registration it needs
\* (usePushRegistration.ts:135), unless a sign-out failed to remove the flags or
\* overtook a registration.
FlagsTellTheTruth ==
    ~untidy /\ phoneUser # Nobody /\ AlreadyRegistered(phoneUser, phoneToken)
        => row[phoneToken] = phoneUser
=============================================================================
