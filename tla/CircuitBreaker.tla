--------------------------- MODULE CircuitBreaker ---------------------------
(***************************************************************************)
(* What a circuit breaker around an upstream service promises: after       *)
(* MaxFailures failures in a row nothing is sent until the window has      *)
(* passed, except that the success of a call that was already under way    *)
(* closes it; the first call after the window starts a new count.  The     *)
(* abstract specification that HistoryClient implements                    *)
(* (backend/src/integrations/heatPumpHistoryClient.ts).                    *)
(***************************************************************************)
EXTENDS Naturals

CONSTANTS Calls, MaxFailures, OpenWindow

VARIABLES
    now,
    state,      \* "closed", "open", or "rested": the window has passed
    fails,      \* failures in a row while closed
    trippedAt,  \* when it opened
    pending     \* calls that were let through and may still report

vars == <<now, state, fails, trippedAt, pending>>

Init ==
    /\ now = 1
    /\ state = "closed"
    /\ fails = 0
    /\ trippedAt = 0
    /\ pending = {}

\* A call is let through.
Admit(c) ==
    /\ state # "open"
    /\ c \notin pending
    /\ pending' = pending \cup {c}
    /\ state' = "closed"
    /\ fails' = IF state = "rested" THEN 0 ELSE fails
    /\ trippedAt' = 0
    /\ UNCHANGED now

\* A call reports a success: it closes the circuit, whatever its state.
Succeed(c) ==
    /\ c \in pending
    /\ state' = "closed"
    /\ fails' = 0
    /\ trippedAt' = 0
    /\ UNCHANGED <<now, pending>>

\* A call reports a failure, and may or may not report again.
Fail(c) ==
    /\ c \in pending
    /\ pending' \in {pending, pending \ {c}}
    /\ IF state = "closed"
       THEN /\ fails' = fails + 1
            /\ state' = IF fails' >= MaxFailures THEN "open" ELSE "closed"
            /\ trippedAt' = IF fails' >= MaxFailures THEN now ELSE 0
       ELSE UNCHANGED <<state, fails, trippedAt>>
    /\ UNCHANGED now

Leave(c) ==
    /\ c \in pending
    /\ pending' = pending \ {c}
    /\ UNCHANGED <<now, state, fails, trippedAt>>

Tick ==
    /\ now' = now + 1
    /\ state' = IF state = "open" /\ now' - trippedAt >= OpenWindow THEN "rested" ELSE state
    /\ UNCHANGED <<fails, trippedAt, pending>>

Next ==
    \/ \E c \in Calls : Admit(c) \/ Succeed(c) \/ Fail(c) \/ Leave(c)
    \/ Tick

Spec == Init /\ [][Next]_vars
=============================================================================
