------------------------------ MODULE Clients ------------------------------
(***************************************************************************)
(* What the two apps keep of a session, and what the phone keeps of its    *)
(* push registration and of its user's wish for alerts.  The mobile app    *)
(* and the web app each talk to the API (SessionServer) with sessions of   *)
(* their own; the registration and the wish need no more of a session than *)
(* who is signed in.  So each is explored beside the others at rest:       *)
(* `part` says which one moves.                                            *)
(***************************************************************************)
EXTENDS MobileSession, WebSession, PushRegistration, NotificationPreferences

VARIABLE part

vars == <<part, serverVars, mobileVars, webVars, pushVars, prefVars>>

Parts == {"mobile", "web", "push", "preferences"}

TypeOK ==
    /\ part \in Parts
    /\ ServerTypeOK
    /\ MobileTypeOK
    /\ WebTypeOK
    /\ PushTypeOK
    /\ PrefTypeOK

Init ==
    /\ part \in Parts
    /\ ServerInit
    /\ MobileInit
    /\ WebInit
    /\ PushInit
    /\ PrefInit
    /\ part = "preferences" \/ wish = [u \in Users |-> Default]

MobileMoves ==
    /\ part = "mobile"
    /\ MobileNext
    /\ UNCHANGED <<part, webVars, pushVars, prefVars>>

WebMoves ==
    /\ part = "web"
    /\ WebNext
    /\ UNCHANGED <<part, mobileVars, pushVars, prefVars>>

PushMoves ==
    /\ part = "push"
    /\ PushNext
    /\ UNCHANGED <<part, serverVars, mobileVars, webVars, prefVars>>

PreferencesMove ==
    /\ part = "preferences"
    /\ PrefNext
    /\ UNCHANGED <<part, serverVars, mobileVars, webVars, pushVars>>

Next == MobileMoves \/ WebMoves \/ PushMoves \/ PreferencesMove

Spec == Init /\ [][Next]_vars
=============================================================================
