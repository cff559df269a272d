---------------------- MODULE NotificationPreferences ----------------------
(***************************************************************************)
(* Whether a user wants alerts: the setting on the server and its copies   *)
(* on the phone, which are the query data, the auth store and AsyncStorage *)
(* (mobile/app/api/preferences, usePushRegistration.ts, ProfileScreen.tsx, *)
(* backend/src/services/userPreferencesService.ts).  The query's key does  *)
(* not name the user.  Effects of React run in the step that causes them;  *)
(* a read of AsyncStorage takes its value when it is asked for, since the  *)
(* storage works in order, and is acted on later; of two reads that one    *)
(* effect has under way the later stands for both.  The storage itself     *)
(* does not fail here, except when a sign-out empties it.                  *)
(***************************************************************************)
EXTENDS Accounts

CONSTANT Saves      \* bound: changes of the setting under way at a time

VARIABLES
    wish,           \* user_preferences.alerts_enabled, on where there is no row
    person,         \* the user signed in on the phone, or Nobody
    hydrated,       \* preferencesHydrated
    shown,          \* the store's notificationPreferences
    cache,          \* the query's data, or Unset
    recent,         \* the data is younger than staleTime
    failed,         \* the query's isError
    kept,           \* AsyncStorage: user -> setting, or Unset
    profile,        \* is the profile screen open?
    fetching,       \* the query's request: "no", "sent", or the setting it has read
    saves,          \* changes of the setting under way
    reads,          \* reads of AsyncStorage under way, by the effect that waits
    due,            \* the registration effect has to run
    leaving,        \* clearAuth has emptied the storage
    registering,    \* users for whom a registration was begun since they signed in
    told,           \* history: users whose setting the phone was told and has kept
    quiet           \* history: nothing has set the copies at odds: see Mishap

prefVars == <<wish, person, hydrated, shown, cache, recent, failed, kept, profile,
              fetching, saves, reads, due, leaving, registering, told, quiet>>
queryVars == <<cache, recent, failed>>
storeVarsOfPrefs == <<person, hydrated, shown, due>>

Setting == {"on", "off"}
Default == "on"
Unset == "none"
Other(v) == IF v = "on" THEN "off" ELSE "on"

\* `here`: asked by the profile screen that is open now; "late": given up on by
\* the phone, and not yet seen by the server.
Save == [pc : {"idle", "sent", "applied", "late"}, who : Users \cup {Nobody},
         want : Setting, before : Setting, here : BOOLEAN]
NoSave == [pc |-> "idle", who |-> Nobody, want |-> Default, before |-> Default,
           here |-> FALSE]
Effects == {"hydrate", "prime", "fallback"}
NoRead == [who |-> Nobody, value |-> Default]

PrefTypeOK ==
    /\ wish \in [Users -> Setting]
    /\ person \in Users \cup {Nobody}
    /\ shown \in Setting
    /\ cache \in Setting \cup {Unset}
    /\ kept \in [Users -> Setting \cup {Unset}]
    /\ fetching \in Setting \cup {"no", "sent"}
    /\ saves \in [Saves -> Save]
    /\ reads \in [Effects -> [who : Users \cup {Nobody}, value : Setting]]
    /\ {hydrated, recent, failed, profile, due, leaving, quiet} \subseteq BOOLEAN
    /\ registering \subseteq Users
    /\ told \subseteq Users

PrefInit ==
    /\ wish \in [Users -> Setting]
    /\ person = Nobody
    /\ hydrated = FALSE
    /\ shown = Default
    /\ cache = Unset
    /\ recent = FALSE
    /\ failed = FALSE
    /\ kept = [u \in Users |-> Unset]
    /\ profile = FALSE
    /\ fetching = "no"
    /\ saves = [s \in Saves |-> NoSave]
    /\ reads = [e \in Effects |-> NoRead]
    /\ due = FALSE
    /\ leaving = FALSE
    /\ registering = {}
    /\ told = {}
    /\ quiet = TRUE

-----------------------------------------------------------------------------
Reading(e) == reads[e].who # Nobody
NothingRead == \A e \in Effects : ~Reading(e)
SaveOf(u) == \E s \in Saves : saves[s].pc # "idle" /\ saves[s].who = u
Changing == \E s \in Saves : saves[s].pc # "idle"

\* mutant: what is stored is not read.
StoredIgnored(u) == Default

\* readNotificationPreferences
Stored(u) == IF kept[u] = Unset THEN Default ELSE kept[u]

ReadFor(u) == [who |-> u, value |-> Stored(u)]
StartRead(e) == reads' = [reads EXCEPT ![e] = ReadFor(person)]
EndRead(e) == reads' = [reads EXCEPT ![e] = NoRead]

\* What may set the copies at odds: `bad` happened in this step.
Mishap(bad) == quiet' = (quiet /\ ~bad)

\* setNotificationPreferences; a new object, so that the registration runs again.
SetNotificationPreferences(v) ==
    /\ shown' = v
    /\ hydrated' = TRUE
    /\ due' = TRUE

\* setQueryData
SetQueryData(v) ==
    /\ cache' = v
    /\ recent' = TRUE
    /\ failed' = FALSE

\* The effect of the open profile screen stores new data for the user it shows.
Persisted(v, to) == IF profile /\ v # cache THEN [to EXCEPT ![person] = v] ELSE to

-----------------------------------------------------------------------------
(***************************************************************************)
(* Signing in and out                                                      *)
(***************************************************************************)
\* A login, or loadUser at a start.  Bound: the storage has answered before.
SignInWithPrefs(u) ==
    /\ person = Nobody
    /\ ~Reading("hydrate")
    /\ person' = u
    /\ hydrated' = FALSE
    /\ reads' = [reads EXCEPT !["hydrate"] = ReadFor(u)]
    /\ UNCHANGED <<wish, shown, queryVars, kept, profile, fetching, saves, due, leaving,
                   registering, told, quiet>>

\* hydrateNotificationPreferences, whoever is signed in by now; with no query
\* data yet, primeQueryCache reads the storage once more.
Hydrate ==
    /\ Reading("hydrate")
    /\ SetNotificationPreferences(reads["hydrate"].value)
    /\ reads' = [reads EXCEPT
                   !["hydrate"] = NoRead,
                   !["prime"] = IF ~hydrated /\ person # Nobody /\ cache = Unset
                                THEN ReadFor(person) ELSE @]
    /\ Mishap(reads["hydrate"].who # person)
    /\ UNCHANGED <<wish, person, queryVars, kept, profile, fetching, saves, leaving,
                   registering, told>>

\* primeQueryCache; a sign-out cancels it.
PrimeQueryCache ==
    /\ Reading("prime")
    /\ LET v == reads["prime"].value IN
         /\ SetQueryData(v)
         /\ SetNotificationPreferences(v)
         /\ kept' = Persisted(v, kept)
    /\ EndRead("prime")
    /\ UNCHANGED <<wish, person, profile, fetching, saves, leaving, registering, told, quiet>>

\* clearAuth: the stored settings of all users are removed, or that fails.
EmptyStorage ==
    /\ person # Nobody
    /\ ~leaving
    /\ leaving' = TRUE
    /\ \/ kept' = [u \in Users |-> Unset] /\ told' = {}
       \/ UNCHANGED <<kept, told>>
    /\ UNCHANGED <<wish, storeVarsOfPrefs, queryVars, profile, fetching, saves, reads,
                   registering, quiet>>

\* What an end of the session leaves: the store as at a start, no query, no screen.
Reset ==
    /\ person' = Nobody
    /\ hydrated' = FALSE
    /\ shown' = Default
    /\ cache' = Unset /\ recent' = FALSE /\ failed' = FALSE
    /\ profile' = FALSE
    /\ fetching' = "no"
    /\ due' = FALSE
    /\ leaving' = FALSE
    /\ registering' = {}

\* The last step of clearAuth.  Changes under way go on, and so do reads that
\* no effect cancels.
EndSession ==
    /\ leaving
    /\ Reset
    /\ EndRead("prime")
    /\ saves' = [s \in Saves |-> [saves[s] EXCEPT !.here = FALSE]]
    /\ Mishap(Changing \/ Reading("fallback"))
    /\ UNCHANGED <<wish, kept, told>>

\* The process of the app ends.
KillWithPrefs ==
    /\ Reset
    /\ reads' = [e \in Effects |-> NoRead]
    /\ saves' = [s \in Saves |->
                   IF saves[s].pc \in {"sent", "late"}
                   THEN [saves[s] EXCEPT !.pc = "late", !.here = FALSE] ELSE NoSave]
    /\ Mishap(Changing)
    /\ UNCHANGED <<wish, kept, told>>

-----------------------------------------------------------------------------
(***************************************************************************)
(* The profile screen and its query                                        *)
(***************************************************************************)
\* gcTime passes with no screen to show the data.
Collect ==
    /\ cache # Unset
    /\ ~profile
    /\ fetching = "no"
    /\ cache' = Unset /\ recent' = FALSE /\ failed' = FALSE
    /\ Mishap(Changing \/ ~NothingRead)
    /\ UNCHANGED <<wish, storeVarsOfPrefs, kept, profile, fetching, saves, reads, leaving,
                   registering, told>>

\* The query starts from initialData where it has no data, and that counts as
\* recent; it asks the server only for data that is not.
OpenProfile ==
    /\ person # Nobody
    /\ ~profile
    /\ profile' = TRUE
    /\ LET v == IF cache = Unset THEN Default ELSE cache IN
         /\ cache' = v
         /\ recent' = (recent \/ cache = Unset)
         /\ SetNotificationPreferences(v)
         /\ kept' = IF failed THEN kept ELSE [kept EXCEPT ![person] = v]
    /\ fetching' = IF fetching = "no" /\ ~recent' THEN "sent" ELSE fetching
    /\ IF failed THEN StartRead("fallback") ELSE UNCHANGED reads
    /\ Mishap(cache = Unset \/ ~NothingRead \/ (Changing /\ fetching' # "no"))
    /\ UNCHANGED <<wish, person, failed, saves, leaving, registering, told>>

CloseProfile ==
    /\ profile
    /\ profile' = FALSE
    /\ saves' = [s \in Saves |-> [saves[s] EXCEPT !.here = FALSE]]
    /\ UNCHANGED <<wish, storeVarsOfPrefs, queryVars, kept, fetching, reads, leaving,
                   registering, told, quiet>>

\* getUserPreferencesForUser
GetUserPreferences ==
    /\ fetching = "sent"
    /\ fetching' = wish[person]
    /\ UNCHANGED <<wish, storeVarsOfPrefs, queryVars, kept, profile, saves, reads, leaving,
                   registering, told, quiet>>

\* The query is answered; an open screen shows and stores what is new.
Fetched ==
    /\ fetching \in Setting
    /\ SetQueryData(fetching)
    /\ IF profile /\ (fetching # cache \/ failed)
       THEN SetNotificationPreferences(fetching) ELSE UNCHANGED <<hydrated, shown, due>>
    /\ kept' = Persisted(fetching, kept)
    /\ fetching' = "no"
    /\ told' = IF profile /\ ~leaving THEN told \cup {person} ELSE told
    /\ Mishap(~NothingRead)
    /\ UNCHANGED <<wish, person, profile, saves, reads, leaving, registering>>

\* It fails, before or behind the server; an open screen reads the storage,
\* unless the query had failed before.
FetchFails ==
    /\ fetching # "no"
    /\ fetching' = "no"
    /\ failed' = TRUE
    /\ recent' \in {recent, FALSE}
    /\ IF profile /\ ~failed THEN StartRead("fallback") ELSE UNCHANGED reads
    /\ UNCHANGED <<wish, storeVarsOfPrefs, cache, kept, profile, saves, leaving,
                   registering, told, quiet>>

\* What was stored takes the place of the answer, whoever is signed in by now.
FallBack ==
    /\ Reading("fallback")
    /\ LET v == reads["fallback"].value IN
         /\ SetQueryData(v)
         /\ SetNotificationPreferences(v)
         /\ kept' = Persisted(v, kept)
    /\ EndRead("fallback")
    /\ Mishap(reads["fallback"].who # person)
    /\ UNCHANGED <<wish, person, profile, fetching, saves, leaving, registering, told>>

\* staleTime passes.
Age ==
    /\ recent
    /\ recent' = FALSE
    /\ UNCHANGED <<wish, storeVarsOfPrefs, cache, failed, kept, profile, fetching, saves,
                   reads, leaving, registering, told, quiet>>

-----------------------------------------------------------------------------
(***************************************************************************)
(* Changing the setting                                                    *)
(***************************************************************************)
\* The switch is pressed: it is off while the query or this screen's change is
\* under way.  The copies change before the server is asked.
Toggle(s) ==
    /\ profile
    /\ fetching = "no"
    /\ \A x \in Saves : saves[x].pc # "idle" => ~saves[x].here
    /\ saves[s].pc = "idle"
    /\ LET want == Other(shown) IN
         /\ saves' = [saves EXCEPT ![s] = [pc |-> "sent", who |-> person, want |-> want,
                                           before |-> cache, here |-> TRUE]]
         /\ SetQueryData(want)
         /\ SetNotificationPreferences(want)
         /\ kept' = Persisted(want, kept)
    /\ Mishap(Changing \/ ~NothingRead)
    /\ UNCHANGED <<wish, person, profile, fetching, reads, leaving, registering, told>>

\* updateUserPreferencesForUser
UpsertUserPreferences(s) ==
    /\ saves[s].pc \in {"sent", "late"}
    /\ wish' = [wish EXCEPT ![saves[s].who] = saves[s].want]
    /\ saves' = [saves EXCEPT ![s] = IF @.pc = "sent" THEN [@ EXCEPT !.pc = "applied"]
                                                      ELSE NoSave]
    /\ UNCHANGED <<storeVarsOfPrefs, queryVars, kept, profile, fetching, reads, leaving,
                   registering, told, quiet>>

\* onSuccess, whoever is signed in by now.
Saved(s) ==
    /\ saves[s].pc = "applied"
    /\ LET v == saves[s].want IN
         /\ SetQueryData(v)
         /\ SetNotificationPreferences(v)
         /\ kept' = Persisted(v, [kept EXCEPT ![saves[s].who] = v])
    /\ saves' = [saves EXCEPT ![s] = NoSave]
    /\ told' = told \cup {saves[s].who}
    /\ Mishap(saves[s].who # person)
    /\ UNCHANGED <<wish, person, profile, fetching, reads, leaving, registering>>

\* mutant: the query keeps what was asked for.
SaveFailsForStoreOnly(s) ==
    /\ saves[s].pc \in {"sent", "applied"}
    /\ SetNotificationPreferences(saves[s].before)
    /\ saves' = [saves EXCEPT ![s] = NoSave]
    /\ Mishap(saves[s].pc = "applied" \/ ~profile \/ saves[s].who # person)
    /\ UNCHANGED <<wish, person, queryVars, kept, profile, fetching, reads, leaving,
                   registering, told>>

\* onError: back to the data before, whatever came of the request; only an open
\* screen stores it.
SaveFails(s) ==
    /\ saves[s].pc \in {"sent", "applied"}
    /\ LET v == saves[s].before IN
         /\ SetQueryData(v)
         /\ SetNotificationPreferences(v)
         /\ kept' = Persisted(v, kept)
    /\ \/ saves' = [saves EXCEPT ![s] = NoSave]
       \/ /\ saves[s].pc = "sent"
          /\ saves' = [saves EXCEPT ![s].pc = "late", ![s].here = FALSE]
    /\ Mishap(saves[s].pc = "applied" \/ saves'[s].pc = "late" \/ ~profile
                                      \/ saves[s].who # person)
    /\ UNCHANGED <<wish, person, profile, fetching, reads, leaving, registering, told>>

\* A user changes the setting on another phone, which this one is not told.
ChangedElsewhere(u) ==
    /\ wish' = [wish EXCEPT ![u] = Other(@)]
    /\ told' = told \ {u}
    /\ Mishap(SaveOf(u) \/ (u = person /\ fetching # "no"))
    /\ UNCHANGED <<storeVarsOfPrefs, queryVars, kept, profile, fetching, saves, reads,
                   leaving, registering>>

-----------------------------------------------------------------------------
\* The registration effect: query data before store.  What a registration it
\* begins makes of the phone's token is PushRegistration's.
RunRegistration ==
    /\ due
    /\ person # Nobody
    /\ hydrated
    /\ LET v == IF cache = Unset THEN shown ELSE cache IN
         /\ IF v # shown THEN SetNotificationPreferences(v)
            ELSE due' = FALSE /\ UNCHANGED <<hydrated, shown>>
         /\ registering' = IF v = "on" THEN registering \cup {person} ELSE registering
    /\ UNCHANGED <<wish, person, queryVars, kept, profile, fetching, saves, reads, leaving,
                   told, quiet>>

PrefNext ==
    \/ \E u \in Users : SignInWithPrefs(u) \/ ChangedElsewhere(u)
    \/ Hydrate \/ PrimeQueryCache \/ EmptyStorage \/ EndSession \/ KillWithPrefs
    \/ OpenProfile \/ CloseProfile \/ Age \/ Collect
    \/ GetUserPreferences \/ Fetched \/ FetchFails \/ FallBack
    \/ \E s \in Saves : Toggle(s) \/ UpsertUserPreferences(s) \/ Saved(s) \/ SaveFails(s)
    \/ RunRegistration

-----------------------------------------------------------------------------
\* The profile screen tells the truth: once the server has told this phone the
\* setting, and with nothing under way, the switch, the query and the storage all
\* say what the server has, however often a change failed and was taken back.
\* Unless the screen was opened when the query had no data (hooks.ts:61), or two
\* changes, a change and an answer, or two users met (hooks.ts:111-144).
SwitchTellsTheTruth ==
    quiet /\ profile /\ person \in told /\ ~leaving /\ ~Changing /\ NothingRead
        => /\ cache = wish[person]
           /\ shown = wish[person]
           /\ kept[person] = wish[person]

\* A phone that was told that its user wants no alerts begins no registration for
\* that user, across restarts and sign-outs that failed to empty the storage,
\* with the same exceptions (usePushRegistration.ts:122).
DisabledStaysSilent ==
    [][\A u \in registering' \ registering :
         quiet /\ u \in told /\ ~SaveOf(u) => wish[u] = "on"]_prefVars
=============================================================================
