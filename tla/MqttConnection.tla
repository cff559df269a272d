--------------------------- MODULE MqttConnection ---------------------------
(***************************************************************************)
(* The connection of the MQTT worker (initConnection and scheduleReconnect *)
(* of backend/src/integrations/mqttClient.ts).  Every attempt makes a new  *)
(* client; the handlers of a replaced one stay registered, and act on the  *)
(* module's `client` and on its one reconnect timer.                       *)
(* The mqtt library is external: a client connects at most once, reports   *)
(* an error any number of times while it is connected, reports a refusal   *)
(* and then, whenever the socket ends, its close.                          *)
(***************************************************************************)
EXTENDS SystemStatus

CONSTANTS
    Clients,        \* bound: how many clients exist at a time
    FirstClient,
    MaxDelay        \* MAX_RECONNECT_MS in units of BASE_RECONNECT_MS

ASSUME ConnectionAssumption ==
    /\ FirstClient \in Clients
    /\ MaxDelay \in Nat \ {0}

VARIABLES
    conn,           \* client -> what became of its connection
    subscribed,     \* clients on which the topic was subscribed
    client,         \* the module's current client
    reconnectTimer, \* is the reconnect timer set?
    reconnectDelay, \* reconnectDelayMs
    unheard,        \* history: a subscribe of the current client failed
    errorMarks,     \* when errors were reported whose mark is not yet written
    calm            \* the environment: from now on nothing fails

connectionVars ==
    <<conn, subscribed, client, reconnectTimer, reconnectDelay, unheard, errorMarks, calm>>

ConnectionTypeOK ==
    /\ conn \in [Clients -> {"none", "connecting", "refused", "open", "closed"}]
    /\ subscribed \subseteq Clients
    /\ client \in Clients
    /\ reconnectTimer \in BOOLEAN
    /\ reconnectDelay \in 1..MaxDelay
    /\ unheard \in BOOLEAN
    /\ errorMarks \subseteq Clock
    /\ calm \in BOOLEAN

ConnectionInit ==
    /\ conn = [c \in Clients |-> IF c = FirstClient THEN "connecting" ELSE "none"]
    /\ subscribed = {}
    /\ client = FirstClient
    /\ reconnectTimer = FALSE
    /\ reconnectDelay = 1
    /\ unheard = FALSE
    /\ errorMarks = {}
    /\ calm = FALSE

\* mutant: the delay is not capped.
DoubledForever == 2 * reconnectDelay

Doubled == IF 2 * reconnectDelay > MaxDelay THEN MaxDelay ELSE 2 * reconnectDelay

ScheduleReconnect ==
    /\ reconnectTimer' = TRUE
    /\ reconnectDelay' = IF reconnectTimer THEN reconnectDelay ELSE Doubled

ResetBackoff ==
    /\ reconnectTimer' = FALSE
    /\ reconnectDelay' = 1

\* mutant: only the first connection subscribes.
OnConnectOnce(c) ==
    /\ conn[c] = "connecting"
    /\ conn' = [conn EXCEPT ![c] = "open"]
    /\ ResetBackoff
    /\ subscribed' = IF reconnectDelay = 1 THEN subscribed \cup {client} ELSE subscribed
    /\ UNCHANGED <<client, unheard, errorMarks, calm, statusVars>>

\* 'connect': the handler subscribes on the current client, which need not be c; an
\* error of the subscribe is logged, and nothing tries again.
OnConnect(c) ==
    /\ conn[c] = "connecting"
    /\ conn' = [conn EXCEPT ![c] = "open"]
    /\ ResetBackoff
    /\ \/ subscribed' = subscribed \cup {client} /\ UNCHANGED unheard
       \/ ~calm /\ UNCHANGED subscribed /\ unheard' = TRUE
    /\ UNCHANGED <<client, errorMarks, calm, statusVars>>

\* 'error', of a connection that is refused or of one that goes on.
OnError(c) ==
    /\ ~calm
    /\ \/ conn[c] = "connecting" /\ conn' = [conn EXCEPT ![c] = "refused"]
       \/ conn[c] = "open" /\ UNCHANGED conn
    /\ errorMarks' = errorMarks \cup {now}
    /\ ScheduleReconnect
    /\ UNCHANGED <<subscribed, client, unheard, calm, statusVars>>

\* The mark of an error is written, or its write fails; nothing waits for it.
SafeMarkMqttError(at) ==
    /\ at \in errorMarks
    /\ errorMarks' = errorMarks \ {at}
    /\ MarkMqttIngestError(at) \/ UNCHANGED status
    /\ UNCHANGED <<conn, subscribed, client, reconnectTimer, reconnectDelay, unheard,
                   calm, now>>

\* mutant: a closed connection is not retried when the error was already seen.
OnCloseSilent(c) ==
    /\ \/ conn[c] = "refused"
       \/ ~calm /\ conn[c] \in {"connecting", "open"}
    /\ conn' = [conn EXCEPT ![c] = "closed"]
    /\ UNCHANGED <<subscribed, client, reconnectTimer, reconnectDelay, unheard,
                   errorMarks, calm, statusVars>>

\* 'close', which a refused connection ends with even when nothing else fails.
OnClose(c) ==
    /\ \/ conn[c] = "refused"
       \/ ~calm /\ conn[c] \in {"connecting", "open"}
    /\ conn' = [conn EXCEPT ![c] = "closed"]
    /\ ScheduleReconnect
    /\ UNCHANGED <<subscribed, client, unheard, errorMarks, calm, statusVars>>

\* The timer fires: initConnection(true) replaces the client, whatever its state.  The
\* id may be that of a replaced connection which stays up and hears nothing: what would
\* become of that one is then not followed any further.
InitConnection(c) ==
    /\ reconnectTimer
    /\ reconnectTimer' = FALSE
    /\ \/ conn[c] \in {"none", "closed"}
       \/ conn[c] = "open" /\ c \notin subscribed /\ c # client
    /\ conn' = [conn EXCEPT ![c] = "connecting"]
    /\ subscribed' = subscribed \ {c}
    /\ client' = c
    /\ unheard' = FALSE
    /\ UNCHANGED <<reconnectDelay, errorMarks, calm, statusVars>>

NetworkSettles ==
    /\ ~calm
    /\ calm' = TRUE
    /\ UNCHANGED <<conn, subscribed, client, reconnectTimer, reconnectDelay, unheard,
                   errorMarks, statusVars>>

ConnectionNext ==
    \/ \E c \in Clients : OnConnect(c) \/ OnError(c) \/ OnClose(c) \/ InitConnection(c)
    \/ \E at \in Clock : SafeMarkMqttError(at)
    \/ NetworkSettles
    \/ Tick /\ UNCHANGED connectionVars

\* Timers fire, an attempt ends (connectTimeout), a refused socket is closed.
ConnectionFairness ==
    /\ WF_connectionVars(\E c \in Clients : InitConnection(c))
    /\ \A c \in Clients : WF_connectionVars(OnConnect(c) \/ OnClose(c))

ConnectionSpec ==
    /\ StatusInit
    /\ ConnectionInit
    /\ [][ConnectionNext]_<<statusVars, connectionVars>>
    /\ ConnectionFairness

-----------------------------------------------------------------------------
Listening == \E c \in Clients : conn[c] = "open" /\ c \in subscribed

\* The two ways in which the code leaves the worker deaf with no retry due: the one
\* subscribe of the current client failed, and the connection is good; or the current
\* client is closed and the retry was cancelled by the connect handler of a replaced
\* one, which is still open and whose close alone will set the timer again.
Stuck ==
    /\ ~reconnectTimer
    /\ \/ conn[client] = "open" /\ unheard
       \/ conn[client] = "closed" /\ \E c \in Clients \ {client} : conn[c] = "open"

\* The worker is never deaf with nothing to wake it but in those two ways, and no longer
\* than the connection that caused it lasts: a retry is due, the current client is under
\* way, it is open and subscribed, or the worker is stuck as it is now.
NeverStranded ==
    \/ reconnectTimer
    \/ conn[client] \in {"connecting", "refused"}
    \/ conn[client] = "open" /\ client \in subscribed
    \/ Stuck

\* Once nothing fails any more, the worker gets to listen again (the retries of
\* scheduleReconnect), or is stuck in one of the two ways.
Recovers == calm ~> (Listening \/ Stuck)
=============================================================================
