---------------------------- MODULE AlertsWorker ----------------------------
(***************************************************************************)
(* One cycle after another of the alerts worker: it reads devices and      *)
(* telemetry, raises and clears rows of alerts, and pushes notifications   *)
(* (backend/src/workers/alertsWorker.ts, services/alertService.ts,         *)
(* repositories/alertsRepository.ts), while devices report or fall silent, *)
(* rules change, and operators mute alerts.  An acknowledgement is left    *)
(* out: the evaluator neither reads nor writes it.                         *)
(*                                                                         *)
(* Every statement commits by itself.  A cycle is a list of readings, each *)
(* followed by a loop over what was read: todo holds the items of the loop *)
(* still to be done, and the database moves on between two of them.        *)
(***************************************************************************)
EXTENDS Naturals

CONSTANTS
  Worker,    \* the processes that evaluate, one after the other while the lease holds
  Device,    \* rows of devices
  Rule,      \* rows of alert_rules
  Alert,     \* ids of rows of alerts
  None,      \* SQL null
  MayFail    \* may a statement fail, or a worker crash

ASSUME IdsAssumption ==
  /\ None \notin Device \cup Rule \cup Alert
  /\ Rule \cap {"offline", "high_temp"} = {}
ASSUME FailAssumption == MayFail \in BOOLEAN

VARIABLES
  age,       \* how long ago each device's snapshot was taken
  temp,      \* supply_temp in the snapshot, against the limit
  rules,     \* alert_rules
  alerts,    \* alerts; a row whose device is None has not been inserted
  wk,        \* the workers
  steady,    \* history: devices nothing has happened to since a worker's cycle began
  overlap    \* history: has a cycle begun while another was under way

vars == <<age, temp, rules, alerts, wk, steady, overlap>>

Age      == {"never", "online", "offline", "lost"}  \* offline: 10 minutes, lost: 60
Temp     == {"none", "ok", "high"}
Kind     == {"offline_window", "supply_temp", "other"}
Severity == {"warning", "critical"}
Check    == {"offline", "high_temp"} \cup Rule
Phase    == {"rules", "offline", "online", "temp"}
Pc       == {"idle", "rules", "work", "write", "push", "settled"}

RuleRow  == [kind : Kind, grace : {"offline", "lost"}, scope : SUBSET Device,
             enabled : BOOLEAN]
AlertRow == [device : Device \cup {None}, check : Check, severity : Severity,
             status : {"active", "cleared"}, muted : BOOLEAN, pushes : Nat]
Item     == [check : Check, device : Device, verdict : {"raise", "clear"},
             severity : Severity]
Evaluator == [pc : Pc, phase : Phase, loaded : BOOLEAN, cache : SUBSET Rule,
              todo : SUBSET Item, item : Item \cup {None}, alert : Alert \cup {None}]

TypeOK ==
  /\ age \in [Device -> Age]
  /\ temp \in [Device -> Temp]
  /\ rules \in [Rule -> RuleRow]
  /\ alerts \in [Alert -> AlertRow]
  /\ wk \in [Worker -> Evaluator]
  /\ steady \in [Worker -> SUBSET Device]
  /\ overlap \in BOOLEAN

NoAlert == [device |-> None, check |-> "offline", severity |-> "warning",
            status |-> "cleared", muted |-> FALSE, pushes |-> 0]
Stopped == [pc |-> "idle", phase |-> "rules", loaded |-> FALSE, cache |-> {},
            todo |-> {}, item |-> None, alert |-> None]

Init ==
  /\ age = [d \in Device |-> "never"]
  /\ temp = [d \in Device |-> "none"]
  /\ rules \in [Rule -> RuleRow]
  /\ alerts = [a \in Alert |-> NoAlert]
  /\ wk = [w \in Worker |-> Stopped]
  /\ steady = [w \in Worker |-> {}]
  /\ overlap = FALSE

Inserted(a)  == alerts[a].device # None
Active(d, c) == {a \in Alert : /\ alerts[a].device = d /\ alerts[a].check = c
                               /\ alerts[a].status = "active"}

\* mutant: only the mute of an active alert counts
MutedActive(d) == \E a \in Active(d, "offline") : alerts[a].muted

\* max(muted_until) over the device's offline alerts, the cleared ones too
Muted(d) ==
  \E a \in Alert : /\ alerts[a].device = d /\ alerts[a].check = "offline"
                   /\ alerts[a].muted

\* something happened to a device: no worker's cycle has seen it steady any more
Disturb(d) == steady' = [w \in Worker |-> steady[w] \ {d}]

(***************************************************************************)
(* Devices, rules and operators                                            *)
(***************************************************************************)

\* telemetry arrives and replaces the snapshot, whatever the timestamp of its payload
Report(d) ==
  /\ \E g \in Age \ {"never"} : age' = [age EXCEPT ![d] = g]
  /\ \E t \in Temp : temp' = [temp EXCEPT ![d] = t]
  /\ Disturb(d)
  /\ UNCHANGED <<rules, alerts, wk, overlap>>

\* the snapshot passes ALERT_OFFLINE_MINUTES, then ALERT_OFFLINE_CRITICAL_MINUTES
FallSilent(d) ==
  /\ \/ age[d] = "online" /\ age' = [age EXCEPT ![d] = "offline"]
     \/ age[d] = "offline" /\ age' = [age EXCEPT ![d] = "lost"]
  /\ Disturb(d)
  /\ UNCHANGED <<temp, rules, alerts, wk, overlap>>

\* updateAlertRule turns a rule on or off
SwitchRule(r) ==
  /\ rules' = [rules EXCEPT ![r].enabled = ~@]
  /\ UNCHANGED <<age, temp, alerts, wk, steady, overlap>>

\* muteAlert, and the end of the mute.  Only the mutes of offline alerts are ever read
Mute(a) ==
  /\ Inserted(a) /\ alerts[a].check = "offline"
  /\ alerts' = [alerts EXCEPT ![a].muted = ~@]
  /\ Disturb(alerts[a].device)
  /\ UNCHANGED <<age, temp, rules, wk, overlap>>

(***************************************************************************)
(* A cycle                                                                 *)
(***************************************************************************)
AtPc(w, pc)    == wk[w].pc = pc
Become(w, now) == wk' = [wk EXCEPT ![w] = now]
MidCycle(w)    == wk[w].pc \notin {"idle", "settled"}
Overlaps(w)    == \E v \in Worker \ {w} : MidCycle(v)

\* the loop of one phase is over
Through(w, phase) == AtPc(w, "work") /\ wk[w].phase = phase /\ wk[w].todo = {}

HasOfflineRule(w)  == \E r \in wk[w].cache : rules[r].kind = "offline_window"
HasHighTempRule(w) == \E r \in wk[w].cache : rules[r].kind = "supply_temp"

\* runOnce, which runManagedCycle calls again some time after the last has returned,
\* and refreshRulesCache: rules loaded less than ALERT_RULE_REFRESH_MINUTES ago are kept.
\* A load that fails ends the cycle before it has done anything
StartCycle(w) ==
  /\ ~MidCycle(w)
  /\ \E cache \in {{r \in Rule : rules[r].enabled}} \cup
                  (IF wk[w].loaded THEN {wk[w].cache} ELSE {}) :
       Become(w, [wk[w] EXCEPT !.loaded = TRUE, !.cache = cache, !.phase = "rules",
                               !.pc = IF cache = {} THEN "work" ELSE "rules"])
  /\ steady' = [steady EXCEPT ![w] = Device]
  /\ overlap' = (overlap \/ Overlaps(w))
  /\ UNCHANGED <<age, temp, rules, alerts>>

\* past the rule's offline_grace_sec
OverGrace(r, d) == age[d] \in {"lost", rules[r].grace}

\* what a rule finds.  telemetry_points is left out: the rules that read it, threshold
\* and rate_of_change, may find anything
Verdicts(r, d) ==
  IF rules[r].kind = "offline_window"
  THEN {IF OverGrace(r, d) THEN "raise" ELSE "clear"}
  ELSE {"raise", "clear", "skip"}

\* resolveRuleTargets; a device without snapshot is skipped
RuleTargets(w) ==
  {p \in wk[w].cache \X Device : p[2] \in rules[p[1]].scope /\ age[p[2]] # "never"}

\* getDeviceLastSeen, and what the double loop of evaluateRules makes of it.  The
\* severity is the rule's, or a warning in a load-shedding window of the site
ReadLastSeen(w) ==
  /\ AtPc(w, "rules")
  /\ \E verdict \in [RuleTargets(w) -> {"raise", "clear", "skip"}],
        severity \in [RuleTargets(w) -> Severity] :
       /\ \A p \in RuleTargets(w) : /\ verdict[p] \in Verdicts(p[1], p[2])
                                    /\ verdict[p] # "raise" => severity[p] = "warning"
       /\ Become(w, [wk[w] EXCEPT !.pc = "work",
            !.todo = {[check |-> p[1], device |-> p[2], verdict |-> verdict[p],
                       severity |-> severity[p]] :
                        p \in {q \in RuleTargets(w) : verdict[q] # "skip"}}])
  /\ UNCHANGED <<age, temp, rules, alerts, steady, overlap>>

\* findOfflineDevices; the muted ones are passed over
ReadOffline(w) ==
  /\ Through(w, "rules") /\ ~HasOfflineRule(w)
  /\ Become(w, [wk[w] EXCEPT !.phase = "offline",
       !.todo = {[check |-> "offline", device |-> d, verdict |-> "raise",
                  severity |-> IF age[d] = "lost" THEN "critical" ELSE "warning"] :
                   d \in {e \in Device : age[e] \in {"offline", "lost"} /\ ~Muted(e)}}])
  /\ UNCHANGED <<age, temp, rules, alerts, steady, overlap>>

\* findOnlineDevices
ReadOnline(w) ==
  /\ Through(w, "offline")
  /\ Become(w, [wk[w] EXCEPT !.phase = "online",
       !.todo = {[check |-> "offline", device |-> d, verdict |-> "clear",
                  severity |-> "warning"] : d \in {e \in Device : age[e] = "online"}}])
  /\ UNCHANGED <<age, temp, rules, alerts, steady, overlap>>

OfflineDone(w) ==
  \/ Through(w, "online")
  \/ Through(w, "rules") /\ HasOfflineRule(w)

\* getDeviceSnapshotTemperatures
ReadTemps(w) ==
  /\ OfflineDone(w) /\ ~HasHighTempRule(w)
  /\ Become(w, [wk[w] EXCEPT !.phase = "temp",
       !.todo = {[check |-> "high_temp", device |-> d, severity |-> "critical",
                  verdict |-> IF temp[d] = "high" THEN "raise" ELSE "clear"] :
                   d \in {e \in Device : age[e] # "never" /\ temp[e] # "none"}}])
  /\ UNCHANGED <<age, temp, rules, alerts, steady, overlap>>

EndCycle(w) ==
  /\ \/ Through(w, "temp")
     \/ OfflineDone(w) /\ HasHighTempRule(w)
  /\ Become(w, [wk[w] EXCEPT !.pc = "settled"])
  /\ UNCHANGED <<age, temp, rules, alerts, steady, overlap>>

\* mutant: the type is not looked at
ClearDevice(w, i) ==
  /\ AtPc(w, "work") /\ i.verdict = "clear"
  /\ alerts' = [a \in Alert |-> IF alerts[a].device = i.device
                                THEN [alerts[a] EXCEPT !.status = "cleared"]
                                ELSE alerts[a]]
  /\ Become(w, [wk[w] EXCEPT !.todo = @ \ {i}])
  /\ UNCHANGED <<age, temp, rules, steady, overlap>>

\* clearAlertIfExists
Clear(w, i) ==
  /\ AtPc(w, "work") /\ i.verdict = "clear"
  /\ alerts' = [a \in Alert |-> IF a \in Active(i.device, i.check)
                                THEN [alerts[a] EXCEPT !.status = "cleared"]
                                ELSE alerts[a]]
  /\ Become(w, [wk[w] EXCEPT !.todo = @ \ {i}])
  /\ UNCHANGED <<age, temp, rules, steady, overlap>>

\* mutants: the row is looked for under another site; the status is not looked at
FindNothing(w, i) ==
  /\ AtPc(w, "work") /\ i.verdict = "raise"
  /\ Become(w, [wk[w] EXCEPT !.pc = "write", !.todo = @ \ {i}, !.item = i])
  /\ UNCHANGED <<age, temp, rules, alerts, steady, overlap>>
FindAny(w, i) ==
  /\ AtPc(w, "work") /\ i.verdict = "raise"
  /\ \E a \in LET rows == {b \in Alert : alerts[b].device = i.device /\ alerts[b].check = i.check}
             IN IF rows = {} THEN {None} ELSE rows :
       Become(w, [wk[w] EXCEPT !.pc = "write", !.todo = @ \ {i}, !.item = i, !.alert = a])
  /\ UNCHANGED <<age, temp, rules, alerts, steady, overlap>>

\* findActiveAlert, with limit 1
FindActive(w, i) ==
  /\ AtPc(w, "work") /\ i.verdict = "raise"
  /\ \E a \in IF Active(i.device, i.check) = {} THEN {None} ELSE Active(i.device, i.check) :
       Become(w, [wk[w] EXCEPT !.pc = "write", !.todo = @ \ {i}, !.item = i, !.alert = a])
  /\ UNCHANGED <<age, temp, rules, alerts, steady, overlap>>

\* mutants: the parameters are shifted; a critical alert is pushed at every update
UpdateShifted(w) ==
  /\ AtPc(w, "write") /\ wk[w].alert # None
  /\ alerts' = [alerts EXCEPT ![wk[w].alert].severity = wk[w].item.verdict]
  /\ Become(w, [wk[w] EXCEPT !.pc = "work", !.item = None, !.alert = None])
  /\ UNCHANGED <<age, temp, rules, steady, overlap>>
UpdateAndPush(w) ==
  /\ AtPc(w, "write") /\ wk[w].alert # None
  /\ alerts' = [alerts EXCEPT ![wk[w].alert].severity = wk[w].item.severity]
  /\ Become(w, [wk[w] EXCEPT !.pc = "push"])
  /\ UNCHANGED <<age, temp, rules, steady, overlap>>

\* updateAlert, by id alone
Update(w) ==
  /\ AtPc(w, "write") /\ wk[w].alert # None
  /\ alerts' = [alerts EXCEPT ![wk[w].alert].severity = wk[w].item.severity]
  /\ Become(w, [wk[w] EXCEPT !.pc = "work", !.item = None, !.alert = None])
  /\ UNCHANGED <<age, temp, rules, steady, overlap>>

\* the rules push nothing, and offline alerts only when critical
Notifies(i) == i.check \notin Rule /\ i.severity = "critical"

\* insertAlert
Insert(w, a) ==
  LET i == wk[w].item IN
  /\ AtPc(w, "write") /\ wk[w].alert = None
  /\ ~Inserted(a)
  /\ alerts' = [alerts EXCEPT ![a] = [NoAlert EXCEPT
                  !.device = i.device, !.check = i.check, !.severity = i.severity,
                  !.status = "active"]]
  /\ Become(w, IF Notifies(i) THEN [wk[w] EXCEPT !.pc = "push", !.alert = a]
               ELSE [wk[w] EXCEPT !.pc = "work", !.item = None])
  /\ UNCHANGED <<age, temp, rules, steady, overlap>>

\* sendAlertNotification: what Expo answers is recorded, not thrown
Push(w) ==
  /\ AtPc(w, "push")
  /\ alerts' = [alerts EXCEPT ![wk[w].alert].pushes = @ + 1]
  /\ Become(w, [wk[w] EXCEPT !.pc = "work", !.item = None, !.alert = None])
  /\ UNCHANGED <<age, temp, rules, steady, overlap>>

\* a statement throws.  A target of a rule is given up alone, anything else with the cycle
FailTarget(w, i) ==
  /\ MayFail
  /\ wk[w].phase = "rules"
  /\ \/ AtPc(w, "work") /\ i \in wk[w].todo
     \/ AtPc(w, "write") /\ i = wk[w].item
  /\ Become(w, [wk[w] EXCEPT !.pc = "work", !.todo = @ \ {i}, !.item = None, !.alert = None])
  /\ steady' = [steady EXCEPT ![w] = @ \ {i.device}]
  /\ UNCHANGED <<age, temp, rules, alerts, overlap>>

GivenUp(w) == [wk[w] EXCEPT !.pc = "idle", !.todo = {}, !.item = None, !.alert = None]
FailCycle(w) ==
  /\ MayFail
  /\ MidCycle(w)
  /\ wk[w].phase = "rules" => wk[w].pc # "write" /\ wk[w].todo = {}
  /\ Become(w, GivenUp(w))
  /\ UNCHANGED <<age, temp, rules, alerts, steady, overlap>>
Crash(w) ==
  /\ MayFail
  /\ Become(w, Stopped)
  /\ UNCHANGED <<age, temp, rules, alerts, steady, overlap>>

Step(w) ==
  \/ StartCycle(w) \/ ReadLastSeen(w)
  \/ ReadOffline(w) \/ ReadOnline(w) \/ ReadTemps(w) \/ EndCycle(w)
  \/ \E i \in wk[w].todo : Clear(w, i) \/ FindActive(w, i)
  \/ Update(w)
  \/ \E a \in Alert : Insert(w, a)
  \/ Push(w)
  \/ \E i \in wk[w].todo \cup {wk[w].item} : FailTarget(w, i)
  \/ FailCycle(w)
  \/ Crash(w)

Next ==
  \/ \E d \in Device : Report(d) \/ FallSilent(d)
  \/ \E r \in Rule : SwitchRule(r)
  \/ \E a \in Alert : Mute(a)
  \/ \E w \in Worker : Step(w)

Spec == Init /\ [][Next]_vars

(***************************************************************************)
(* Properties                                                              *)
(***************************************************************************)

\* what the lease is there to ensure, for alerts has no unique index: the cycles of all
\* the workers there have been have followed one another, also where one crashed
InTurn == ~overlap

\* Evaluators that take turns never open a second alert for a device and a check,
\* although the insert is another statement than the find.
OneActive ==
  InTurn => \A d \in Device, c \in Check : \A a, b \in Active(d, c) : a = b

\* A completed cycle leaves the alerts in agreement with the devices, for each device
\* nothing happened to and no target was given up on: active when the condition holds,
\* with the severity it calls for, cleared when it does not.
CycleSettles ==
  InTurn => \A w \in Worker : \A d \in steady[w] : AtPc(w, "settled") =>
    /\ ~HasOfflineRule(w) =>
         /\ age[d] = "online" => Active(d, "offline") = {}
         /\ age[d] \in {"offline", "lost"} /\ ~Muted(d) =>
              \E a \in Active(d, "offline") :
                alerts[a].severity = IF age[d] = "lost" THEN "critical" ELSE "warning"
    /\ ~HasHighTempRule(w) /\ age[d] # "never" =>
         /\ temp[d] = "ok" => Active(d, "high_temp") = {}
         /\ temp[d] = "high" => \E a \in Active(d, "high_temp") :
                                  alerts[a].severity = "critical"
    /\ \A r \in wk[w].cache :
         rules[r].kind = "offline_window" /\ d \in rules[r].scope /\ age[d] # "never" =>
           (Active(d, r) # {} <=> OverGrace(r, d))

\* An alert is pushed once at most, only when it opens as critical, and never for a rule.
PushesOnce ==
  [][\A a \in Alert : alerts'[a].pushes # alerts[a].pushes =>
       /\ alerts'[a].pushes = 1
       /\ alerts[a].check \notin Rule
       /\ InTurn => alerts[a].severity = "critical"]_vars

\* The evaluator never reopens or rewrites a cleared alert: an operator who looks at a
\* past alert sees what it was, and a new outage gets an alert of its own.
ClearedIsHistory ==
  [][\A a \in Alert : Inserted(a) /\ alerts[a].status = "cleared" =>
       /\ alerts'[a].status = "cleared"
       /\ InTurn => alerts'[a].severity = alerts[a].severity]_vars

\* A mute outlives the alert it was set on: while it lasts the device may come back
\* and be lost again, and no cycle that began since opens an offline alert for it.
MuteOutlivesAlert ==
  [][\A w \in Worker : \A m, a \in Alert :
       /\ alerts[m].device \in steady[w] /\ alerts[m].check = "offline" /\ alerts[m].muted
       /\ AtPc(w, "write") /\ ~AtPc(w, "write")'
       /\ a \in Active(alerts[m].device, "offline")'
       => Inserted(a)]_vars

(***************************************************************************)
(* What the documents say and the code does not do                         *)
(***************************************************************************)

\* backend/README.md, "warning vs critical thresholds for offline alerts (only critical
\* sends push)": once a cycle has found a device lost, its alert has been pushed.
CriticalIsPushed ==
  \A w \in Worker : \A d \in steady[w] : AtPc(w, "settled") =>
    \A a \in Active(d, "offline") : alerts[a].severity = "critical" => alerts[a].pushes > 0
=============================================================================
