------------------------- MODULE AlertsWorker_proofs -------------------------
(***************************************************************************)
(* Proofs about AlertsWorker, for any workers, devices, rules and alerts.  *)
(*                                                                         *)
(* Between findActiveAlert and the write that follows it, other workers    *)
(* and the operators act.  The inductive invariant says what a worker may  *)
(* still rely on when it writes, and what it may as well as long as the    *)
(* workers take turns, however often one of them crashes and another goes  *)
(* on.                                                                     *)
(***************************************************************************)
EXTENDS AlertsWorker, TLAPS

(***************************************************************************)
(* The inductive invariant                                                 *)
(***************************************************************************)
Blank == \A a \in Alert : ~Inserted(a) => alerts[a] = NoAlert

\* the items of a loop that have not been written yet
Pending(w) == wk[w].todo \cup (IF AtPc(w, "write") THEN {wk[w].item} ELSE {})

\* what findActiveAlert has found is still there; a worker whose turn it is also knows
\* that it is still active, or that there still is nothing to find
FoundInv(w) ==
  AtPc(w, "write") =>
    /\ wk[w].item \in Item /\ wk[w].item.verdict = "raise"
    /\ wk[w].alert # None =>
         /\ alerts[wk[w].alert].device = wk[w].item.device
         /\ alerts[wk[w].alert].check = wk[w].item.check
         /\ InTurn => alerts[wk[w].alert].status = "active"
    /\ wk[w].alert = None /\ InTurn => Active(wk[w].item.device, wk[w].item.check) = {}

\* an alert about to be pushed is one this worker has opened and nobody has pushed
PushInv(w) ==
  AtPc(w, "push") =>
    /\ wk[w].alert \in Alert /\ Inserted(wk[w].alert)
    /\ alerts[wk[w].alert].check \notin Rule /\ alerts[wk[w].alert].pushes = 0
    /\ InTurn => alerts[wk[w].alert].severity = "critical"

\* a device whose offline alert is about to be raised was not muted when it was read
MuteInv(w) ==
  \A i \in Pending(w) :
    i.check = "offline" /\ i.verdict = "raise" /\ i.device \in steady[w] => ~Muted(i.device)

\* a loop is over before anything else begins
RestInv(w) == wk[w].pc \in {"idle", "rules", "settled"} => wk[w].todo = {}

WorkerInv(w) == FoundInv(w) /\ PushInv(w) /\ MuteInv(w) /\ RestInv(w)

\* as long as they take turns, one worker at most is in a cycle
TurnInv == InTurn => \A v, w \in Worker : MidCycle(v) /\ MidCycle(w) => v = w

PushesApart ==
  \A v, w \in Worker :
    AtPc(v, "push") /\ AtPc(w, "push") /\ wk[v].alert = wk[w].alert => v = w

IInv ==
  /\ TypeOK
  /\ Blank
  /\ OneActive
  /\ TurnInv
  /\ \A w \in Worker : WorkerInv(w)
  /\ PushesApart

USE IdsAssumption, FailAssumption

\* Before the first report there are no alerts and no worker has begun.
LEMMA InitIInv == Init => IInv
<1> SUFFICES ASSUME Init PROVE IInv
  OBVIOUS
<1>1. NoAlert \in AlertRow
  BY DEF NoAlert, AlertRow, Check, Severity
<1>2. Stopped \in Evaluator
  BY DEF Stopped, Evaluator, Pc, Phase
<1>3. TypeOK
  BY <1>1, <1>2 DEF Init, TypeOK, Age, Temp
<1>4. Blank /\ OneActive
  BY DEF Init, Blank, OneActive, Active, NoAlert
<1>5. \A w \in Worker : WorkerInv(w)
  BY DEF Init, Stopped, WorkerInv, FoundInv, PushInv, MuteInv, RestInv, AtPc, Pending
<1>6. PushesApart /\ TurnInv
  BY DEF Init, Stopped, PushesApart, TurnInv, MidCycle, AtPc
<1> QED
  BY <1>3, <1>4, <1>5, <1>6 DEF IInv

(***************************************************************************)
(* What a step of a worker leaves to the others                            *)
(***************************************************************************)

\* Rows keep what they are about, only the worker at a push counts it, and no mute and
\* no other worker's history changes.
Kept(w) ==
  /\ \A a \in Alert : Inserted(a) =>
       /\ alerts'[a].device = alerts[a].device /\ alerts'[a].check = alerts[a].check
       /\ \/ alerts'[a].pushes = alerts[a].pushes
          \/ AtPc(w, "push") /\ wk[w].alert = a
  /\ \A a \in Alert : alerts'[a].muted =>
       /\ alerts[a].muted
       /\ alerts'[a].device = alerts[a].device /\ alerts'[a].check = alerts[a].check
  /\ \A v \in Worker \ {w} : steady'[v] = steady[v]

\* A worker goes on with a cycle or leaves it, or begins one and says whom it meets.
Turn(w, y) ==
  \/ overlap' = overlap /\ (y.pc \in {"idle", "settled"} \/ MidCycle(w))
  \/ overlap' = (overlap \/ Overlaps(w))

LEMMA TurnKeeps ==
  ASSUME IInv, NEW w \in Worker, NEW y \in Evaluator, wk' = [wk EXCEPT ![w] = y], Turn(w, y)
  PROVE  TurnInv' /\ (overlap => overlap') /\ overlap' \in BOOLEAN
<1>1. \A v \in Worker : wk'[v] = IF v = w THEN y ELSE wk[v]
  BY DEF IInv, TypeOK
<1>2. (overlap => overlap') /\ overlap' \in BOOLEAN
  BY DEF Turn, IInv, TypeOK
<1>3. TurnInv'
  BY <1>1 DEF Turn, IInv, TurnInv, InTurn, MidCycle, Overlaps
<1> QED
  BY <1>2, <1>3

\* A worker keeps what it relies on when another steps: as long as they take turns the
\* other writes nothing while it is in a cycle.
LEMMA OthersKept ==
  ASSUME IInv, NEW w \in Worker, NEW y \in Evaluator, wk' = [wk EXCEPT ![w] = y], Kept(w),
         alerts' = alerts \/ MidCycle(w), overlap => overlap'
  PROVE  \A v \in Worker \ {w} : WorkerInv(v)'
<1> SUFFICES ASSUME NEW v \in Worker \ {w} PROVE WorkerInv(v)'
  OBVIOUS
<1>1. wk'[v] = wk[v] /\ wk[v] \in Evaluator /\ WorkerInv(v) /\ (InTurn' => InTurn)
  BY DEF IInv, TypeOK, InTurn
<1>2. ASSUME MidCycle(v), alerts' # alerts PROVE ~InTurn'
  BY <1>1, <1>2 DEF IInv, TurnInv
<1>3. FoundInv(v)'
  <2>1. CASE alerts' = alerts
    BY <1>1, <2>1 DEF WorkerInv, FoundInv, AtPc, Active
  <2>2. CASE alerts' # alerts
    <3>1. SUFFICES ASSUME AtPc(v, "write"), wk[v].alert # None
                   PROVE  /\ alerts'[wk[v].alert].device = wk[v].item.device
                          /\ alerts'[wk[v].alert].check = wk[v].item.check
      BY <1>1, <1>2, <2>2 DEF WorkerInv, FoundInv, AtPc, MidCycle
    <3>2. wk[v].alert \in Alert /\ wk[v].item \in Item
      BY <1>1, <3>1 DEF Evaluator, WorkerInv, FoundInv
    <3>3. alerts[wk[v].alert].device = wk[v].item.device /\ wk[v].item.device \in Device
      BY <1>1, <3>1, <3>2 DEF WorkerInv, FoundInv, Item
    <3>4. Inserted(wk[v].alert)
      BY <3>3 DEF Inserted
    <3> QED
      BY <1>1, <3>1, <3>2, <3>4 DEF Kept, WorkerInv, FoundInv
  <2> QED
    BY <2>1, <2>2
<1>4. PushInv(v)'
  <2>1. SUFFICES ASSUME AtPc(v, "push") PROVE PushInv(v)'
    BY <1>1 DEF PushInv, AtPc
  <2>2. ~(AtPc(w, "push") /\ wk[w].alert = wk[v].alert)
    BY <2>1 DEF IInv, PushesApart
  <2>3. alerts' = alerts \/ ~InTurn'
    BY <1>2, <2>1 DEF MidCycle, AtPc
  <2> QED
    BY <1>1, <2>1, <2>2, <2>3 DEF Kept, WorkerInv, PushInv, Inserted
<1>5. MuteInv(v)'
  <2>1. Pending(v)' = Pending(v) /\ steady'[v] = steady[v]
    BY <1>1 DEF Pending, AtPc, Kept
  <2>2. \A d : Muted(d)' => Muted(d)
    BY DEF Kept, Muted
  <2> QED
    BY <1>1, <2>1, <2>2 DEF WorkerInv, MuteInv
<1>6. RestInv(v)'
  BY <1>1 DEF WorkerInv, RestInv
<1> QED
  BY <1>3, <1>4, <1>5, <1>6 DEF WorkerInv

\* A step of a worker, but for what it makes of the worker itself.
LEMMA WorkerStep ==
  ASSUME IInv, NEW w \in Worker, NEW y \in Evaluator, wk' = [wk EXCEPT ![w] = y], Kept(w),
         Turn(w, y), alerts' = alerts \/ MidCycle(w),
         TypeOK', Blank', OneActive', WorkerInv(w)',
         y.pc = "push" => \A v \in Worker \ {w} : AtPc(v, "push") => wk[v].alert # y.alert
  PROVE  IInv'
<1>1. TurnInv' /\ \A v \in Worker \ {w} : WorkerInv(v)'
  BY TurnKeeps, OthersKept
<1>2. PushesApart'
  <2>1. \A v \in Worker : wk'[v] = IF v = w THEN y ELSE wk[v]
    BY DEF IInv, TypeOK
  <2> QED
    BY <2>1 DEF IInv, PushesApart, AtPc
<1> QED
  BY <1>1, <1>2 DEF IInv

\* A step of a worker that leaves the alerts alone.
LEMMA QuietStep ==
  ASSUME IInv, NEW w \in Worker, NEW y \in Evaluator, wk' = [wk EXCEPT ![w] = y],
         UNCHANGED <<age, temp, rules, alerts>>,
         NEW s \in SUBSET Device, steady' = [steady EXCEPT ![w] = s],
         Turn(w, y), y.pc # "push", FoundInv(w)', MuteInv(w)', RestInv(w)'
  PROVE  IInv'
<1>1. TypeOK' /\ (InTurn' => InTurn)
  BY TurnKeeps DEF IInv, TypeOK, InTurn
<1>2. Kept(w)
  BY DEF IInv, TypeOK, Kept
<1>3. Blank' /\ OneActive'
  BY <1>1 DEF IInv, Blank, Inserted, OneActive, Active
<1>4. PushInv(w)'
  BY DEF IInv, TypeOK, PushInv, AtPc
<1> QED
  BY <1>1, <1>2, <1>3, <1>4, WorkerStep DEF WorkerInv

(***************************************************************************)
(* The steps of a worker                                                   *)
(***************************************************************************)
LEMMA StartCycleKeeps ==
  ASSUME IInv, NEW w \in Worker, StartCycle(w)
  PROVE  IInv'
<1>1. wk[w] \in Evaluator /\ wk[w].todo = {}
  BY DEF StartCycle, MidCycle, IInv, TypeOK, WorkerInv, RestInv
<1>2. PICK cache \in SUBSET Rule :
        wk' = [wk EXCEPT ![w] = [wk[w] EXCEPT
                 !.loaded = TRUE, !.cache = cache, !.phase = "rules",
                 !.pc = IF cache = {} THEN "work" ELSE "rules"]]
  BY <1>1 DEF StartCycle, Become, Evaluator
<1> DEFINE y == [wk[w] EXCEPT !.loaded = TRUE, !.cache = cache, !.phase = "rules",
                              !.pc = IF cache = {} THEN "work" ELSE "rules"]
<1>3. y \in Evaluator /\ y.todo = {} /\ y.pc \in {"work", "rules"}
  BY <1>1 DEF Evaluator, Pc, Phase
<1>4. wk'[w] = y
  BY <1>2 DEF IInv, TypeOK
<1> HIDE DEF y
<1>5. FoundInv(w)' /\ MuteInv(w)' /\ RestInv(w)'
  BY <1>3, <1>4 DEF FoundInv, MuteInv, RestInv, Pending, AtPc
<1>6. /\ steady' = [steady EXCEPT ![w] = Device] /\ UNCHANGED <<age, temp, rules, alerts>>
      /\ Turn(w, y)
  BY DEF StartCycle, Turn
<1> QED
  BY <1>2, <1>3, <1>5, <1>6, QuietStep DEF y

\* The loops over what was read: whatever a reading finds, no offline alert is to be
\* raised for a device that is muted then.
LEMMA ReadingKeeps ==
  ASSUME IInv, NEW w \in Worker, NEW phase \in Phase, NEW todo \in SUBSET Item,
         wk' = [wk EXCEPT ![w] = [wk[w] EXCEPT !.pc = "work", !.phase = phase, !.todo = todo]],
         UNCHANGED <<age, temp, rules, alerts, steady, overlap>>, MidCycle(w),
         \A i \in todo : i.check = "offline" /\ i.verdict = "raise" => ~Muted(i.device)
  PROVE  IInv'
<1> DEFINE y == [wk[w] EXCEPT !.pc = "work", !.phase = phase, !.todo = todo]
<1>1. y \in Evaluator /\ y.todo = todo /\ y.pc = "work"
  BY DEF IInv, TypeOK, Evaluator, Pc
<1>2. wk'[w] = y
  BY DEF IInv, TypeOK
<1> HIDE DEF y
<1>3. FoundInv(w)' /\ RestInv(w)'
  BY <1>1, <1>2 DEF FoundInv, RestInv, AtPc
<1>4. MuteInv(w)'
  BY <1>1, <1>2 DEF MuteInv, Pending, AtPc, Muted
<1>5. /\ steady[w] \in SUBSET Device /\ steady' = [steady EXCEPT ![w] = steady[w]]
      /\ Turn(w, y)
  BY DEF IInv, TypeOK, Turn
<1> QED
  BY <1>1, <1>3, <1>4, <1>5, QuietStep DEF y

LEMMA ReadLastSeenKeeps ==
  ASSUME IInv, NEW w \in Worker, ReadLastSeen(w)
  PROVE  IInv'
<1>1. wk[w] \in Evaluator
  BY DEF IInv, TypeOK
<1>2. PICK verdict \in [RuleTargets(w) -> {"raise", "clear", "skip"}],
           severity \in [RuleTargets(w) -> Severity] :
        Become(w, [wk[w] EXCEPT !.pc = "work",
          !.todo = {[check |-> p[1], device |-> p[2], verdict |-> verdict[p],
                     severity |-> severity[p]] :
                      p \in {q \in RuleTargets(w) : verdict[q] # "skip"}}])
  BY DEF ReadLastSeen
<1> DEFINE targets == {q \in RuleTargets(w) : verdict[q] # "skip"}
           todo == {[check |-> p[1], device |-> p[2], verdict |-> verdict[p],
                     severity |-> severity[p]] : p \in targets}
<1>3. \A p \in targets : /\ p[1] \in Rule /\ p[2] \in Device
                         /\ verdict[p] \in {"raise", "clear"} /\ severity[p] \in Severity
  BY <1>1 DEF RuleTargets, Evaluator
<1>4. todo \in SUBSET Item /\ \A i \in todo : i.check \in Rule
  BY <1>3 DEF Item, Check
<1> HIDE DEF todo
<1>5. wk' = [wk EXCEPT ![w] = [wk[w] EXCEPT !.pc = "work", !.phase = wk[w].phase,
                                            !.todo = todo]]
  BY <1>1, <1>2 DEF Become, Evaluator, todo
<1>6. wk[w].phase \in Phase /\ \A i \in todo : i.check # "offline"
  BY <1>1, <1>4 DEF Evaluator
<1> QED
  BY <1>4, <1>5, <1>6, ReadingKeeps DEF ReadLastSeen, MidCycle, AtPc

LEMMA ReadOfflineKeeps ==
  ASSUME IInv, NEW w \in Worker, ReadOffline(w)
  PROVE  IInv'
<1> DEFINE silent == {e \in Device : age[e] \in {"offline", "lost"} /\ ~Muted(e)}
           todo == {[check |-> "offline", device |-> d, verdict |-> "raise",
                     severity |-> IF age[d] = "lost" THEN "critical" ELSE "warning"] :
                      d \in silent}
<1>1. todo \in SUBSET Item /\ \A i \in todo : ~Muted(i.device)
  BY DEF Item, Check, Severity
<1>2. wk' = [wk EXCEPT ![w] = [wk[w] EXCEPT !.pc = "work", !.phase = "offline", !.todo = todo]]
  BY DEF ReadOffline, Become, Through, AtPc, IInv, TypeOK, Evaluator
<1> HIDE DEF todo
<1> QED
  BY <1>1, <1>2, ReadingKeeps DEF ReadOffline, Through, MidCycle, AtPc, Phase

LEMMA ReadOnlineKeeps ==
  ASSUME IInv, NEW w \in Worker, ReadOnline(w)
  PROVE  IInv'
<1> DEFINE todo == {[check |-> "offline", device |-> d, verdict |-> "clear",
                     severity |-> "warning"] : d \in {e \in Device : age[e] = "online"}}
<1>1. todo \in SUBSET Item /\ \A i \in todo : i.verdict # "raise"
  BY DEF Item, Check, Severity
<1>2. wk' = [wk EXCEPT ![w] = [wk[w] EXCEPT !.pc = "work", !.phase = "online", !.todo = todo]]
  BY DEF ReadOnline, Become, Through, AtPc, IInv, TypeOK, Evaluator
<1> HIDE DEF todo
<1> QED
  BY <1>1, <1>2, ReadingKeeps DEF ReadOnline, Through, MidCycle, AtPc, Phase

LEMMA ReadTempsKeeps ==
  ASSUME IInv, NEW w \in Worker, ReadTemps(w)
  PROVE  IInv'
<1> DEFINE measured == {e \in Device : age[e] # "never" /\ temp[e] # "none"}
           todo == {[check |-> "high_temp", device |-> d, severity |-> "critical",
                     verdict |-> IF temp[d] = "high" THEN "raise" ELSE "clear"] :
                      d \in measured}
<1>1. todo \in SUBSET Item /\ \A i \in todo : i.check # "offline"
  BY DEF Item, Check, Severity
<1>2. wk' = [wk EXCEPT ![w] = [wk[w] EXCEPT !.pc = "work", !.phase = "temp", !.todo = todo]]
  BY DEF ReadTemps, OfflineDone, Become, Through, AtPc, IInv, TypeOK, Evaluator
<1> HIDE DEF todo
<1> QED
  BY <1>1, <1>2, ReadingKeeps
  DEF ReadTemps, OfflineDone, Through, MidCycle, AtPc, Phase

LEMMA EndCycleKeeps ==
  ASSUME IInv, NEW w \in Worker, EndCycle(w)
  PROVE  IInv'
<1> DEFINE y == [wk[w] EXCEPT !.pc = "settled"]
<1>1. wk[w] \in Evaluator /\ wk[w].todo = {}
  BY DEF EndCycle, OfflineDone, Through, IInv, TypeOK
<1>2. y \in Evaluator /\ y.todo = {} /\ y.pc = "settled"
  BY <1>1 DEF Evaluator, Pc
<1>3. wk' = [wk EXCEPT ![w] = y] /\ wk'[w] = y
  BY DEF EndCycle, Become, IInv, TypeOK
<1> HIDE DEF y
<1>4. FoundInv(w)' /\ MuteInv(w)' /\ RestInv(w)'
  BY <1>2, <1>3 DEF FoundInv, MuteInv, RestInv, Pending, AtPc
<1>5. /\ steady[w] \in SUBSET Device /\ steady' = [steady EXCEPT ![w] = steady[w]]
      /\ UNCHANGED <<age, temp, rules, alerts>> /\ Turn(w, y)
  BY <1>2 DEF EndCycle, IInv, TypeOK, Turn
<1> QED
  BY <1>2, <1>3, <1>4, <1>5, QuietStep

LEMMA FindActiveKeeps ==
  ASSUME IInv, NEW w \in Worker, NEW i \in wk[w].todo, FindActive(w, i)
  PROVE  IInv'
<1>1. wk[w] \in Evaluator /\ i \in Item /\ i.verdict = "raise" /\ AtPc(w, "work")
  BY DEF FindActive, IInv, TypeOK, Evaluator
<1>2. PICK a \in (IF Active(i.device, i.check) = {} THEN {None}
                  ELSE Active(i.device, i.check)) :
        wk' = [wk EXCEPT ![w] = [wk[w] EXCEPT !.pc = "write", !.todo = @ \ {i},
                                              !.item = i, !.alert = a]]
  BY DEF FindActive, Become
<1> DEFINE y == [wk[w] EXCEPT !.pc = "write", !.todo = @ \ {i}, !.item = i, !.alert = a]
<1>3. \/ a = None /\ Active(i.device, i.check) = {}
      \/ /\ a \in Alert /\ a # None
         /\ alerts[a].device = i.device /\ alerts[a].check = i.check
         /\ alerts[a].status = "active"
  BY <1>2 DEF Active
<1>4. y \in Evaluator /\ y.todo = wk[w].todo \ {i} /\ y.pc = "write" /\ y.item = i /\ y.alert = a
  BY <1>1, <1>3 DEF Evaluator, Pc
<1>5. wk'[w] = y
  BY <1>2 DEF IInv, TypeOK
<1>6. UNCHANGED <<age, temp, rules, alerts, steady>> /\ Turn(w, y)
  BY <1>1 DEF FindActive, Turn, MidCycle, AtPc
<1> HIDE DEF y
<1>7. FoundInv(w)' /\ RestInv(w)'
  BY <1>1, <1>3, <1>4, <1>5, <1>6 DEF FoundInv, RestInv, AtPc, Active
<1>8. MuteInv(w)'
  <2>1. Pending(w)' \subseteq Pending(w)
    BY <1>4, <1>5 DEF Pending, AtPc
  <2> QED
    BY <1>6, <2>1 DEF IInv, WorkerInv, MuteInv, Muted
<1>9. steady[w] \in SUBSET Device /\ steady' = [steady EXCEPT ![w] = steady[w]]
  BY <1>6 DEF IInv, TypeOK
<1> QED
  BY <1>2, <1>4, <1>6, <1>7, <1>8, <1>9, QuietStep DEF y

\* A worker that gives up a target, a cycle, or dies.
LEMMA GiveUpKeeps ==
  ASSUME IInv, NEW w \in Worker, NEW y \in Evaluator, wk' = [wk EXCEPT ![w] = y],
         y.pc \in {"idle", "work"}, y.todo \subseteq wk[w].todo,
         y.pc = "idle" => y.todo = {},
         NEW s \in SUBSET steady[w], steady' = [steady EXCEPT ![w] = s],
         UNCHANGED <<age, temp, rules, alerts, overlap>>,
         y.pc = "idle" \/ MidCycle(w)
  PROVE  IInv'
<1>1. wk'[w] = y /\ steady'[w] = s /\ steady[w] \in SUBSET Device
  BY DEF IInv, TypeOK
<1>2. FoundInv(w)' /\ RestInv(w)'
  BY <1>1 DEF FoundInv, RestInv, AtPc
<1>3. MuteInv(w)'
  BY <1>1 DEF IInv, WorkerInv, MuteInv, Pending, AtPc, Muted
<1>4. Turn(w, y)
  BY DEF Turn
<1> QED
  BY <1>1, <1>2, <1>3, <1>4, QuietStep

LEMMA FailTargetKeeps ==
  ASSUME IInv, NEW w \in Worker, NEW i, FailTarget(w, i)
  PROVE  IInv'
<1> DEFINE y == [wk[w] EXCEPT !.pc = "work", !.todo = @ \ {i}, !.item = None, !.alert = None]
<1>1. wk[w] \in Evaluator /\ steady[w] \in SUBSET Device
  BY DEF IInv, TypeOK
<1>2. y \in Evaluator /\ y.pc = "work" /\ y.todo \subseteq wk[w].todo
  BY <1>1 DEF Evaluator, Pc
<1>3. /\ wk' = [wk EXCEPT ![w] = y] /\ UNCHANGED <<age, temp, rules, alerts, overlap>>
      /\ steady' = [steady EXCEPT ![w] = steady[w] \ {i.device}] /\ MidCycle(w)
  BY DEF FailTarget, Become, MidCycle, AtPc
<1> HIDE DEF y
<1> QED
  BY <1>1, <1>2, <1>3, GiveUpKeeps

LEMMA FailCycleKeeps ==
  ASSUME IInv, NEW w \in Worker, FailCycle(w)
  PROVE  IInv'
<1>1. wk[w] \in Evaluator /\ steady[w] \in SUBSET Device
  BY DEF IInv, TypeOK
<1>2. GivenUp(w) \in Evaluator /\ GivenUp(w).pc = "idle" /\ GivenUp(w).todo = {}
  BY <1>1 DEF GivenUp, Evaluator, Pc
<1>3. /\ wk' = [wk EXCEPT ![w] = GivenUp(w)] /\ UNCHANGED <<age, temp, rules, alerts, overlap>>
      /\ steady' = [steady EXCEPT ![w] = steady[w]]
  BY DEF FailCycle, Become, IInv, TypeOK
<1> QED
  BY <1>1, <1>2, <1>3, GiveUpKeeps

LEMMA CrashKeeps ==
  ASSUME IInv, NEW w \in Worker, Crash(w)
  PROVE  IInv'
<1>1. steady[w] \in SUBSET Device
  BY DEF IInv, TypeOK
<1>2. Stopped \in Evaluator /\ Stopped.pc = "idle" /\ Stopped.todo = {}
  BY DEF Stopped, Evaluator, Pc, Phase
<1>3. /\ wk' = [wk EXCEPT ![w] = Stopped] /\ UNCHANGED <<age, temp, rules, alerts, overlap>>
      /\ steady' = [steady EXCEPT ![w] = steady[w]]
  BY DEF Crash, Become, IInv, TypeOK
<1> QED
  BY <1>1, <1>2, <1>3, GiveUpKeeps

\* A statement of a worker on one item that ends there, or leaves a push to do.
LEMMA WriteStep ==
  ASSUME IInv, NEW w \in Worker, NEW y \in Evaluator, wk' = [wk EXCEPT ![w] = y],
         UNCHANGED <<age, temp, rules, steady, overlap>>, MidCycle(w),
         alerts' \in [Alert -> AlertRow],
         Kept(w), Blank', OneActive',
         y.pc \in {"work", "push"}, y.todo \subseteq wk[w].todo,
         y.pc = "push" => /\ PushInv(w)'
                          /\ \A v \in Worker \ {w} : AtPc(v, "push") => wk[v].alert # y.alert
  PROVE  IInv'
<1>1. TypeOK' /\ wk'[w] = y /\ steady'[w] = steady[w]
  BY DEF IInv, TypeOK
<1>2. FoundInv(w)' /\ RestInv(w)' /\ PushInv(w)'
  BY <1>1 DEF FoundInv, RestInv, PushInv, AtPc
<1>3. MuteInv(w)'
  <2>1. Pending(w)' \subseteq Pending(w)
    BY <1>1 DEF Pending, AtPc
  <2>2. \A d : Muted(d)' => Muted(d)
    BY DEF Kept, Muted
  <2> QED
    BY <1>1, <2>1, <2>2 DEF IInv, WorkerInv, MuteInv
<1> QED
  BY <1>1, <1>2, <1>3, WorkerStep DEF WorkerInv, Turn

\* What clearAlertIfExists, updateAlert and a push leave of every row.
SameRows(w) ==
  \A a \in Alert :
    /\ alerts'[a] \in AlertRow
    /\ alerts'[a].device = alerts[a].device /\ alerts'[a].check = alerts[a].check
    /\ alerts'[a].muted = alerts[a].muted
    /\ alerts'[a].status = "active" => alerts[a].status = "active"
    /\ alerts'[a].pushes = alerts[a].pushes \/ (AtPc(w, "push") /\ wk[w].alert = a)
    /\ ~Inserted(a) => alerts'[a] = alerts[a]

LEMMA SameRowsKept ==
  ASSUME IInv, NEW w \in Worker, SameRows(w), alerts' = [a \in Alert |-> alerts'[a]],
         steady' = steady, overlap' = overlap
  PROVE  alerts' \in [Alert -> AlertRow] /\ Kept(w) /\ Blank' /\ OneActive'
<1>1. alerts' \in [Alert -> AlertRow] /\ Kept(w)
  BY DEF SameRows, Kept
<1>2. Blank'
  BY DEF IInv, Blank, SameRows, Inserted
<1>3. \A d, c : Active(d, c)' \subseteq Active(d, c)
  BY DEF SameRows, Active
<1>4. OneActive'
  BY <1>3 DEF IInv, OneActive, InTurn
<1> QED
  BY <1>1, <1>2, <1>4

LEMMA OneRow ==
  ASSUME IInv, NEW w \in Worker, NEW a \in Alert, Inserted(a), NEW x \in AlertRow,
         alerts' = [alerts EXCEPT ![a] = x],
         x.device = alerts[a].device, x.check = alerts[a].check, x.muted = alerts[a].muted,
         x.status = alerts[a].status,
         x.pushes = alerts[a].pushes \/ (AtPc(w, "push") /\ wk[w].alert = a)
  PROVE  SameRows(w) /\ alerts' = [b \in Alert |-> alerts'[b]]
<1>1. \A b \in Alert : alerts'[b] = IF b = a THEN x ELSE alerts[b]
  BY DEF IInv, TypeOK
<1>2. \A b \in Alert : alerts[b] \in AlertRow
  BY DEF IInv, TypeOK
<1>3. SameRows(w)
  BY <1>1, <1>2 DEF SameRows
<1>4. alerts' = [b \in Alert |-> alerts'[b]]
  BY DEF IInv, TypeOK
<1> QED
  BY <1>3, <1>4

\* The worker is done with the item.
LEMMA DoneType ==
  ASSUME IInv, NEW w \in Worker
  PROVE  LET y == [wk[w] EXCEPT !.pc = "work", !.item = None, !.alert = None] IN
         /\ wk[w] \in Evaluator /\ y \in Evaluator
         /\ y.pc = "work" /\ y.todo \subseteq wk[w].todo
<1>1. wk[w] \in Evaluator
  BY DEF IInv, TypeOK
<1> QED
  BY <1>1 DEF Evaluator, Pc

LEMMA ClearKeeps ==
  ASSUME IInv, NEW w \in Worker, NEW i \in wk[w].todo, Clear(w, i)
  PROVE  IInv'
<1> DEFINE y == [wk[w] EXCEPT !.todo = @ \ {i}]
<1>1. wk[w] \in Evaluator /\ i \in Item /\ i.device \in Device /\ wk[w].pc = "work"
  BY DEF Clear, AtPc, IInv, TypeOK, Evaluator, Item
<1>2. y \in Evaluator /\ y.pc = "work" /\ y.todo \subseteq wk[w].todo
  BY <1>1 DEF Evaluator
<1>3. /\ wk' = [wk EXCEPT ![w] = y] /\ UNCHANGED <<age, temp, rules, steady, overlap>>
      /\ MidCycle(w)
      /\ alerts' = [a \in Alert |-> IF a \in Active(i.device, i.check)
                                    THEN [alerts[a] EXCEPT !.status = "cleared"]
                                    ELSE alerts[a]]
  BY DEF Clear, Become, MidCycle, AtPc
<1>4. SameRows(w)
  BY <1>1, <1>3 DEF SameRows, Active, Inserted, IInv, TypeOK, AlertRow
<1> HIDE DEF y
<1>5. alerts' \in [Alert -> AlertRow] /\ Kept(w) /\ Blank' /\ OneActive'
  BY <1>3, <1>4, SameRowsKept
<1> QED
  BY <1>2, <1>3, <1>5, WriteStep

LEMMA UpdateKeeps ==
  ASSUME IInv, NEW w \in Worker, Update(w)
  PROVE  IInv'
<1> DEFINE y == [wk[w] EXCEPT !.pc = "work", !.item = None, !.alert = None]
<1>1. /\ wk[w].alert \in Alert /\ Inserted(wk[w].alert) /\ wk[w].item.severity \in Severity
  BY DEF Update, Inserted, IInv, TypeOK, Evaluator, WorkerInv, FoundInv, Item
<1>2. y \in Evaluator /\ y.pc = "work" /\ y.todo \subseteq wk[w].todo
  BY DoneType
<1>3. /\ wk' = [wk EXCEPT ![w] = y] /\ UNCHANGED <<age, temp, rules, steady, overlap>>
      /\ MidCycle(w)
      /\ alerts' = [alerts EXCEPT ![wk[w].alert].severity = wk[w].item.severity]
  BY DEF Update, Become, MidCycle, AtPc
<1> DEFINE row == alerts[wk[w].alert]
           x == [row EXCEPT !.severity = wk[w].item.severity]
<1>a. row \in AlertRow
  BY <1>1 DEF IInv, TypeOK
<1>b. /\ x \in AlertRow /\ x.device = row.device /\ x.check = row.check
      /\ x.muted = row.muted /\ x.status = row.status /\ x.pushes = row.pushes
  BY <1>1, <1>a DEF AlertRow
<1>c. alerts' = [alerts EXCEPT ![wk[w].alert] = x]
  BY <1>3
<1> HIDE DEF x
<1>4. SameRows(w) /\ alerts' = [b \in Alert |-> alerts'[b]]
  BY <1>1, <1>b, <1>c, OneRow
<1> HIDE DEF y
<1>5. alerts' \in [Alert -> AlertRow] /\ Kept(w) /\ Blank' /\ OneActive'
  BY <1>3, <1>4, SameRowsKept
<1> QED
  BY <1>2, <1>3, <1>5, WriteStep

LEMMA PushKeeps ==
  ASSUME IInv, NEW w \in Worker, Push(w)
  PROVE  IInv'
<1> DEFINE y == [wk[w] EXCEPT !.pc = "work", !.item = None, !.alert = None]
<1>1. AtPc(w, "push") /\ wk[w].alert \in Alert /\ Inserted(wk[w].alert)
  BY DEF Push, IInv, WorkerInv, PushInv
<1>2. y \in Evaluator /\ y.pc = "work" /\ y.todo \subseteq wk[w].todo
  BY DoneType
<1>3. /\ wk' = [wk EXCEPT ![w] = y] /\ UNCHANGED <<age, temp, rules, steady, overlap>>
      /\ MidCycle(w)
      /\ alerts' = [alerts EXCEPT ![wk[w].alert].pushes = @ + 1]
  BY DEF Push, Become, MidCycle, AtPc
<1> DEFINE row == alerts[wk[w].alert]
           x == [row EXCEPT !.pushes = @ + 1]
<1>a. row \in AlertRow
  BY <1>1 DEF IInv, TypeOK
<1>b. /\ x \in AlertRow /\ x.device = row.device /\ x.check = row.check
      /\ x.muted = row.muted /\ x.status = row.status
  BY <1>1, <1>a DEF AlertRow
<1>c. alerts' = [alerts EXCEPT ![wk[w].alert] = x]
  BY <1>3
<1> HIDE DEF x
<1>4. SameRows(w) /\ alerts' = [b \in Alert |-> alerts'[b]]
  BY <1>1, <1>b, <1>c, OneRow
<1> HIDE DEF y
<1>5. alerts' \in [Alert -> AlertRow] /\ Kept(w) /\ Blank' /\ OneActive'
  BY <1>3, <1>4, SameRowsKept
<1> QED
  BY <1>2, <1>3, <1>5, WriteStep

LEMMA InsertKeeps ==
  ASSUME IInv, NEW w \in Worker, NEW a \in Alert, Insert(w, a)
  PROVE  IInv'
<1> DEFINE i == wk[w].item
           x == [NoAlert EXCEPT !.device = i.device, !.check = i.check,
                                !.severity = i.severity, !.status = "active"]
           y == IF Notifies(i) THEN [wk[w] EXCEPT !.pc = "push", !.alert = a]
                ELSE [wk[w] EXCEPT !.pc = "work", !.item = None]
<1>1. /\ wk[w] \in Evaluator /\ AtPc(w, "write") /\ wk[w].alert = None /\ ~Inserted(a)
      /\ i \in Item /\ i.device \in Device /\ i.device # None
      /\ InTurn => Active(i.device, i.check) = {}
  BY DEF Insert, IInv, TypeOK, WorkerInv, FoundInv, Item
<1>2. /\ wk' = [wk EXCEPT ![w] = y] /\ UNCHANGED <<age, temp, rules, steady, overlap>>
      /\ MidCycle(w)
      /\ alerts' = [alerts EXCEPT ![a] = x]
  BY DEF Insert, Become, MidCycle, AtPc
<1>3. /\ x \in AlertRow /\ x.device = i.device /\ x.check = i.check /\ x.severity = i.severity
      /\ x.status = "active" /\ ~x.muted /\ x.pushes = 0
  BY <1>1 DEF NoAlert, AlertRow, Item
<1>4. /\ y \in Evaluator /\ y.todo = wk[w].todo /\ y.pc \in {"work", "push"}
      /\ y.pc = "push" => Notifies(i) /\ y.alert = a
  BY <1>1 DEF Evaluator, Pc
<1> HIDE DEF x, y, i
<1>5. \A b \in Alert : alerts'[b] = IF b = a THEN x ELSE alerts[b]
  BY <1>2 DEF IInv, TypeOK
<1>6. alerts' \in [Alert -> AlertRow]
  BY <1>2, <1>3 DEF IInv, TypeOK
<1>7. Kept(w)
  BY <1>1, <1>2, <1>3, <1>5 DEF Kept, Inserted
<1>8. Blank'
  BY <1>1, <1>3, <1>5 DEF IInv, Blank, Inserted
<1>9. OneActive'
  <2> SUFFICES ASSUME InTurn, NEW d \in Device, NEW c \in Check,
                      NEW p \in Active(d, c)', NEW q \in Active(d, c)'
               PROVE  p = q
    BY <1>2 DEF OneActive, InTurn
  <2>1. CASE d = i.device /\ c = i.check
    BY <1>1, <1>5, <2>1 DEF Active
  <2>2. CASE ~(d = i.device /\ c = i.check)
    BY <1>3, <1>5, <2>2 DEF Active, IInv, OneActive
  <2> QED
    BY <2>1, <2>2
<1>10. ASSUME y.pc = "push"
       PROVE  /\ PushInv(w)'
              /\ \A v \in Worker \ {w} : AtPc(v, "push") => wk[v].alert # y.alert
  <2>1. wk'[w] = y /\ y.alert = a /\ alerts'[a] = x
    BY <1>2, <1>4, <1>5, <1>10 DEF IInv, TypeOK
  <2>2. i.check \notin Rule /\ i.severity = "critical"
    BY <1>4, <1>10 DEF Notifies
  <2> QED
    BY <1>1, <1>3, <2>1, <2>2 DEF PushInv, Inserted, AtPc, IInv, WorkerInv
<1> QED
  BY <1>2, <1>4, <1>6, <1>7, <1>8, <1>9, <1>10, WriteStep

(***************************************************************************)
(* Everybody else                                                          *)
(***************************************************************************)

\* A device reports or falls silent, a rule is switched, an alert is muted or its mute
\* ends.
LEMMA EnvironmentKeeps ==
  ASSUME IInv, wk' = wk, overlap' = overlap,
         age' \in [Device -> Age], temp' \in [Device -> Temp], rules' \in [Rule -> RuleRow],
         \A w \in Worker : steady'[w] \subseteq steady[w],
         steady' \in [Worker -> SUBSET Device],
         alerts' \in [Alert -> AlertRow],
         \A a \in Alert : ~Inserted(a) => alerts'[a] = alerts[a],
         \A a \in Alert : alerts'[a] = [alerts[a] EXCEPT !.muted = alerts'[a].muted],
         \A w \in Worker : \A d \in steady'[w] : Muted(d)' => Muted(d)
  PROVE  IInv'
<1>1. \A a \in Alert : /\ alerts'[a].device = alerts[a].device
                       /\ alerts'[a].check = alerts[a].check
                       /\ alerts'[a].status = alerts[a].status
                       /\ alerts'[a].severity = alerts[a].severity
                       /\ alerts'[a].pushes = alerts[a].pushes
  BY DEF IInv, TypeOK, AlertRow
<1>2. TypeOK'
  BY DEF IInv, TypeOK
<1>3. \A d, c : Active(d, c)' = Active(d, c)
  BY <1>1 DEF Active
<1>4. Blank' /\ OneActive'
  BY <1>1, <1>3 DEF IInv, Blank, Inserted, OneActive, InTurn
<1>5. ASSUME NEW w \in Worker PROVE WorkerInv(w)'
  <2>1. WorkerInv(w) /\ wk[w] \in Evaluator
    BY DEF IInv, TypeOK
  <2>2. FoundInv(w)'
    BY <1>1, <1>3, <2>1 DEF WorkerInv, FoundInv, AtPc, InTurn, Evaluator
  <2>3. PushInv(w)'
    BY <1>1, <2>1 DEF WorkerInv, PushInv, AtPc, InTurn, Inserted
  <2>4. MuteInv(w)' /\ RestInv(w)'
    BY <2>1 DEF WorkerInv, MuteInv, RestInv, Pending, AtPc
  <2> QED
    BY <2>2, <2>3, <2>4 DEF WorkerInv
<1>6. PushesApart' /\ TurnInv'
  BY DEF IInv, PushesApart, TurnInv, InTurn, MidCycle, AtPc
<1> QED
  BY <1>2, <1>4, <1>5, <1>6 DEF IInv

LEMMA DisturbKeeps ==
  ASSUME IInv, NEW d, Disturb(d)
  PROVE  /\ steady' \in [Worker -> SUBSET Device]
         /\ \A w \in Worker : steady'[w] = steady[w] \ {d}
BY DEF IInv, TypeOK, Disturb

LEMMA StillAlerts ==
  ASSUME IInv, alerts' = alerts
  PROVE  /\ alerts' \in [Alert -> AlertRow]
         /\ \A a \in Alert : ~Inserted(a) => alerts'[a] = alerts[a]
         /\ \A a \in Alert : alerts'[a] = [alerts[a] EXCEPT !.muted = alerts'[a].muted]
         /\ \A d : Muted(d)' => Muted(d)
BY DEF IInv, TypeOK, AlertRow, Muted

LEMMA ReportKeeps ==
  ASSUME IInv, NEW d \in Device, Report(d) \/ FallSilent(d)
  PROVE  IInv'
<1>1. /\ age' \in [Device -> Age] /\ temp' \in [Device -> Temp] /\ Disturb(d)
      /\ UNCHANGED <<rules, alerts, wk, overlap>>
  BY DEF Report, FallSilent, IInv, TypeOK, Age, Temp
<1>2. rules' \in [Rule -> RuleRow]
  BY <1>1 DEF IInv, TypeOK
<1> QED
  BY <1>1, <1>2, DisturbKeeps, StillAlerts, EnvironmentKeeps

LEMMA SwitchRuleKeeps ==
  ASSUME IInv, NEW r \in Rule, SwitchRule(r)
  PROVE  IInv'
<1>1. /\ age' \in [Device -> Age] /\ temp' \in [Device -> Temp]
      /\ UNCHANGED <<steady, alerts, wk, overlap>> /\ steady' \in [Worker -> SUBSET Device]
  BY DEF SwitchRule, IInv, TypeOK
<1>2. rules' \in [Rule -> RuleRow]
  BY DEF SwitchRule, IInv, TypeOK, RuleRow
<1> QED
  BY <1>1, <1>2, StillAlerts, EnvironmentKeeps

LEMMA MuteKeeps ==
  ASSUME IInv, NEW a \in Alert, Mute(a)
  PROVE  IInv'
<1>1. /\ Inserted(a) /\ alerts' = [alerts EXCEPT ![a].muted = ~@]
      /\ Disturb(alerts[a].device) /\ UNCHANGED <<age, temp, rules, wk, overlap>>
  BY DEF Mute
<1> DEFINE x == [alerts[a] EXCEPT !.muted = ~@]
<1>2. /\ alerts' \in [Alert -> AlertRow]
      /\ \A b \in Alert : alerts'[b] = IF b = a THEN x ELSE alerts[b]
  <2>1. alerts[a] \in AlertRow /\ (~alerts[a].muted) \in BOOLEAN
    <3>1. alerts[a] \in AlertRow
      BY DEF IInv, TypeOK
    <3>2. (~alerts[a].muted) \in BOOLEAN
      OBVIOUS
    <3> QED
      BY <3>1, <3>2
  <2>2. x \in AlertRow
    BY <2>1 DEF AlertRow
  <2>3. alerts' = [alerts EXCEPT ![a] = x]
    BY <1>1
  <2> HIDE DEF x
  <2> QED
    BY <2>2, <2>3 DEF IInv, TypeOK
<1>3. /\ x.device = alerts[a].device /\ x.check = alerts[a].check
      /\ x = [alerts[a] EXCEPT !.muted = x.muted]
  BY DEF IInv, TypeOK, AlertRow
<1> HIDE DEF x
<1>4. /\ \A b \in Alert : ~Inserted(b) => alerts'[b] = alerts[b]
      /\ \A b \in Alert : alerts'[b] = [alerts[b] EXCEPT !.muted = alerts'[b].muted]
  <2>1. \A b \in Alert : alerts[b] = [alerts[b] EXCEPT !.muted = alerts[b].muted]
    BY DEF IInv, TypeOK, AlertRow
  <2> QED
    BY <1>1, <1>2, <1>3, <2>1
<1>5. \A d : d # alerts[a].device /\ Muted(d)' => Muted(d)
  BY <1>2, <1>3 DEF Muted
<1>6. \A w \in Worker : \A d \in steady'[w] : Muted(d)' => Muted(d)
  BY <1>1, <1>5, DisturbKeeps
<1>7. /\ age' \in [Device -> Age] /\ temp' \in [Device -> Temp]
      /\ rules' \in [Rule -> RuleRow]
  BY <1>1 DEF IInv, TypeOK
<1> QED
  BY <1>1, <1>2, <1>4, <1>6, <1>7, DisturbKeeps, EnvironmentKeeps

LEMMA StepIInv == IInv /\ [Next]_vars => IInv'
<1> SUFFICES ASSUME IInv, [Next]_vars PROVE IInv'
  OBVIOUS
<1>1. ASSUME NEW w \in Worker, Step(w) PROVE IInv'
  BY <1>1, StartCycleKeeps, ReadLastSeenKeeps, ReadOfflineKeeps, ReadOnlineKeeps,
     ReadTempsKeeps, EndCycleKeeps, ClearKeeps, FindActiveKeeps, UpdateKeeps, InsertKeeps,
     PushKeeps, FailTargetKeeps, FailCycleKeeps, CrashKeeps DEF Step
<1>2. CASE UNCHANGED vars
  BY <1>2 DEF vars, IInv, TypeOK, Blank, Inserted, OneActive, Active, InTurn, WorkerInv,
              FoundInv, PushInv, MuteInv, RestInv, Pending, Muted, AtPc, PushesApart,
              TurnInv, MidCycle, Overlaps
<1> QED
  BY <1>1, <1>2, ReportKeeps, SwitchRuleKeeps, MuteKeeps DEF Next

(***************************************************************************)
(* What a step makes of one row                                            *)
(***************************************************************************)
SameButMute(a) ==
  /\ alerts'[a].device = alerts[a].device /\ alerts'[a].check = alerts[a].check
  /\ alerts'[a].severity = alerts[a].severity /\ alerts'[a].status = alerts[a].status
  /\ alerts'[a].pushes = alerts[a].pushes
Cleared(a) ==
  /\ alerts'[a].device = alerts[a].device /\ alerts'[a].status = "cleared"
  /\ alerts'[a].severity = alerts[a].severity /\ alerts'[a].pushes = alerts[a].pushes
Updated(a) ==
  /\ alerts'[a].device = alerts[a].device
  /\ \E w \in Worker : AtPc(w, "write") /\ wk[w].alert = a
  /\ alerts'[a].status = alerts[a].status /\ alerts'[a].pushes = alerts[a].pushes
Pushed(a) ==
  /\ alerts'[a].device = alerts[a].device
  /\ \E w \in Worker : AtPc(w, "push") /\ wk[w].alert = a
  /\ alerts'[a].severity = alerts[a].severity /\ alerts'[a].status = alerts[a].status
  /\ alerts'[a].pushes = alerts[a].pushes + 1
Opened(a) ==
  /\ ~Inserted(a)
  /\ \E w \in Worker :
       /\ AtPc(w, "write") /\ \A v \in Worker \ {w} : wk'[v] = wk[v]
       /\ alerts'[a].device = wk[w].item.device /\ alerts'[a].check = wk[w].item.check
  /\ alerts'[a].pushes = 0

RowChange(a) == SameButMute(a) \/ Cleared(a) \/ Updated(a) \/ Pushed(a) \/ Opened(a)

\* A row is opened, updated, cleared, pushed, muted, or left as it is.
LEMMA RowsChange ==
  ASSUME IInv, [Next]_vars, NEW a \in Alert
  PROVE  RowChange(a)
<1>0. alerts[a] \in AlertRow /\ alerts \in [Alert -> AlertRow]
  BY DEF IInv, TypeOK
<1>1. ASSUME alerts' = alerts PROVE RowChange(a)
  BY <1>1 DEF RowChange, SameButMute
<1>2. ASSUME NEW b \in Alert, Mute(b) PROVE RowChange(a)
  <2>1. SameButMute(a)
    BY <1>0, <1>2 DEF Mute, SameButMute, AlertRow
  <2> QED
    BY <2>1 DEF RowChange
<1>3. ASSUME NEW w \in Worker, NEW i \in wk[w].todo, Clear(w, i) PROVE RowChange(a)
  <2>1. alerts'[a] \in {alerts[a], [alerts[a] EXCEPT !.status = "cleared"]}
    BY <1>3 DEF Clear
  <2>2. SameButMute(a) \/ Cleared(a)
    BY <1>0, <2>1 DEF SameButMute, Cleared, AlertRow
  <2> QED
    BY <2>2 DEF RowChange
<1>4. ASSUME NEW w \in Worker, Update(w) PROVE RowChange(a)
  <2>1. \/ alerts'[a] = alerts[a]
        \/ wk[w].alert = a /\ alerts'[a] = [alerts[a] EXCEPT !.severity = wk[w].item.severity]
    BY <1>0, <1>4 DEF Update
  <2>2. SameButMute(a) \/ Updated(a)
    BY <1>0, <1>4, <2>1 DEF Update, SameButMute, Updated, AlertRow
  <2> QED
    BY <2>2 DEF RowChange
<1>5. ASSUME NEW w \in Worker, NEW b \in Alert, Insert(w, b) PROVE RowChange(a)
  <2>1. CASE a # b
    <3>1. alerts'[a] = alerts[a]
      BY <1>0, <1>5, <2>1 DEF Insert
    <3> QED
      BY <3>1 DEF RowChange, SameButMute
  <2>2. CASE a = b
    <3>1. alerts'[a] = [NoAlert EXCEPT !.device = wk[w].item.device,
            !.check = wk[w].item.check, !.severity = wk[w].item.severity, !.status = "active"]
      BY <1>0, <1>5, <2>2 DEF Insert
    <3>2. \A v \in Worker \ {w} : wk'[v] = wk[v]
      BY <1>5 DEF Insert, Become, IInv, TypeOK
    <3>3. /\ alerts'[a].device = wk[w].item.device /\ alerts'[a].check = wk[w].item.check
          /\ alerts'[a].pushes = 0
      BY <3>1 DEF NoAlert
    <3>4. AtPc(w, "write") /\ ~Inserted(a)
      BY <1>5, <2>2 DEF Insert
    <3>5. Opened(a)
      BY <3>2, <3>3, <3>4 DEF Opened
    <3> QED
      BY <3>5 DEF RowChange
  <2> QED
    BY <2>1, <2>2
<1>6. ASSUME NEW w \in Worker, Push(w) PROVE RowChange(a)
  <2>1. \/ alerts'[a] = alerts[a]
        \/ wk[w].alert = a /\ alerts'[a] = [alerts[a] EXCEPT !.pushes = @ + 1]
    BY <1>0, <1>6 DEF Push
  <2>2. SameButMute(a) \/ Pushed(a)
    BY <1>0, <1>6, <2>1 DEF Push, SameButMute, Pushed, AlertRow
  <2> QED
    BY <2>2 DEF RowChange
<1>7. ASSUME NEW w \in Worker, NEW i,
             \/ StartCycle(w) \/ ReadLastSeen(w) \/ ReadOffline(w) \/ ReadOnline(w)
             \/ ReadTemps(w) \/ EndCycle(w) \/ FindActive(w, i) \/ FailTarget(w, i)
             \/ FailCycle(w) \/ Crash(w)
      PROVE  RowChange(a)
  BY <1>1, <1>7 DEF StartCycle, ReadLastSeen, ReadOffline, ReadOnline, ReadTemps, EndCycle,
                    FindActive, FailTarget, FailCycle, Crash
<1>8. ASSUME NEW w \in Worker, Step(w) PROVE RowChange(a)
  BY <1>3, <1>4, <1>5, <1>6, <1>7, <1>8 DEF Step
<1>9. CASE UNCHANGED vars
  BY <1>1, <1>9 DEF vars
<1> QED
  BY <1>1, <1>2, <1>8, <1>9 DEF Next, Report, FallSilent, SwitchRule

\* what PushesOnce, ClearedIsHistory and MuteOutlivesAlert demand of a step
PushStep ==
  \A a \in Alert : alerts'[a].pushes # alerts[a].pushes =>
    /\ alerts'[a].pushes = 1
    /\ alerts[a].check \notin Rule
    /\ InTurn => alerts[a].severity = "critical"
ClearedStep ==
  \A a \in Alert : Inserted(a) /\ alerts[a].status = "cleared" =>
    /\ alerts'[a].status = "cleared"
    /\ InTurn => alerts'[a].severity = alerts[a].severity
MuteStep ==
  \A w \in Worker : \A m, a \in Alert :
    /\ alerts[m].device \in steady[w] /\ alerts[m].check = "offline" /\ alerts[m].muted
    /\ AtPc(w, "write") /\ ~AtPc(w, "write")'
    /\ a \in Active(alerts[m].device, "offline")'
    => Inserted(a)

LEMMA StepPushes == IInv /\ [Next]_vars => PushStep
<1> SUFFICES ASSUME IInv, [Next]_vars, NEW a \in Alert, alerts'[a].pushes # alerts[a].pushes
             PROVE  /\ alerts'[a].pushes = 1
                    /\ alerts[a].check \notin Rule
                    /\ InTurn => alerts[a].severity = "critical"
  BY DEF PushStep
<1>1. RowChange(a)
  BY RowsChange
<1>2. ~Opened(a)
  BY DEF Opened, IInv, Blank, NoAlert
<1>3. PICK w \in Worker : AtPc(w, "push") /\ wk[w].alert = a
  BY <1>1, <1>2 DEF RowChange, SameButMute, Cleared, Updated, Pushed
<1>4. alerts'[a].pushes = alerts[a].pushes + 1
  BY <1>1, <1>2 DEF RowChange, SameButMute, Cleared, Updated, Pushed
<1> QED
  BY <1>3, <1>4 DEF IInv, WorkerInv, PushInv

LEMMA StepCleared == IInv /\ [Next]_vars => ClearedStep
<1> SUFFICES ASSUME IInv, [Next]_vars, NEW a \in Alert, Inserted(a),
                    alerts[a].status = "cleared"
             PROVE  /\ alerts'[a].status = "cleared"
                    /\ InTurn => alerts'[a].severity = alerts[a].severity
  BY DEF ClearedStep
<1>1. RowChange(a) /\ ~Opened(a)
  BY RowsChange DEF Opened
<1>2. alerts'[a].status = "cleared"
  BY <1>1 DEF RowChange, SameButMute, Cleared, Updated, Pushed
<1>3. Updated(a) => ~InTurn
  BY DEF Updated, IInv, WorkerInv, FoundInv
<1> QED
  BY <1>1, <1>2, <1>3 DEF RowChange, SameButMute, Cleared, Pushed

LEMMA StepMutes == IInv /\ [Next]_vars => MuteStep
<1> SUFFICES ASSUME IInv, [Next]_vars, NEW w \in Worker, NEW m \in Alert, NEW a \in Alert,
                    alerts[m].device \in steady[w], alerts[m].check = "offline",
                    alerts[m].muted,
                    AtPc(w, "write"), ~AtPc(w, "write")',
                    a \in Active(alerts[m].device, "offline")', ~Inserted(a)
             PROVE  FALSE
  BY DEF MuteStep
<1>1. alerts[m].device \in Device /\ alerts[m].device # None
  BY DEF IInv, TypeOK
<1>2. alerts'[a].device = alerts[m].device /\ alerts'[a].check = "offline"
  <2>1. Inserted(m)
    BY <1>1 DEF Inserted
  <2>2. alerts'[m].device = alerts[m].device
    BY <2>1, RowsChange DEF RowChange, SameButMute, Cleared, Updated, Pushed, Opened
  <2> QED
    BY <2>2 DEF Active
<1>3. Opened(a)
  BY <1>1, <1>2, RowsChange DEF RowChange, SameButMute, Cleared, Updated, Pushed, Inserted
<1>4. alerts[m].device = wk[w].item.device /\ wk[w].item.check = "offline"
  BY <1>2, <1>3 DEF Opened, AtPc
<1>5. wk[w].item \in Pending(w) /\ wk[w].item.verdict = "raise"
  BY DEF Pending, IInv, WorkerInv, FoundInv
<1>6. ~Muted(alerts[m].device)
  BY <1>4, <1>5 DEF IInv, WorkerInv, MuteInv
<1> QED
  BY <1>6 DEF Muted

(***************************************************************************)
(* The theorems                                                            *)
(***************************************************************************)

\* The induction behind the theorems below.
THEOREM Invariance == Spec => []IInv
BY InitIInv, StepIInv, PTL DEF Spec

\* Alerts, loops and readings keep their types whatever fails between two statements.
THEOREM TypeCorrect == Spec => []TypeOK
<1>1. IInv => TypeOK
  BY DEF IInv
<1> QED
  BY <1>1, Invariance, PTL

\* With any number of workers that take turns, of devices, rules and alerts,
\* upsertActiveAlert opens no second alert for a device and a check, although a worker may
\* crash between its find and its insert and another go on.
THEOREM ActiveAlertsAreUnique == Spec => []OneActive
<1>1. IInv => OneActive
  BY DEF IInv
<1> QED
  BY <1>1, Invariance, PTL

\* sendAlertNotification happens once in the life of an alert, and never for an alert of
\* a rule, whatever workers overlap.
THEOREM PushesAreSingle == Spec => PushesOnce
<1>1. IInv /\ [Next]_vars => [PushStep]_vars
  BY StepPushes
<1>2. [][PushStep]_vars => PushesOnce
  BY PTL DEF PushStep, PushesOnce
<1> QED
  BY <1>1, <1>2, Invariance, PTL DEF Spec

\* A row that clearAlertIfExists has cleared is not reopened; evaluators that take turns
\* do not rewrite it either, although updateAlert looks at the id alone.
THEOREM HistoryStays == Spec => ClearedIsHistory
<1>1. IInv /\ [Next]_vars => [ClearedStep]_vars
  BY StepCleared
<1>2. [][ClearedStep]_vars => ClearedIsHistory
  BY PTL DEF ClearedStep, ClearedIsHistory
<1> QED
  BY <1>1, <1>2, Invariance, PTL DEF Spec

\* No cycle that began after a mute opens an offline alert for the device while the mute
\* lasts, with any number of workers.
THEOREM MutesOutlive == Spec => MuteOutlivesAlert
<1>1. IInv /\ [Next]_vars => [MuteStep]_vars
  BY StepMutes
<1>2. [][MuteStep]_vars => MuteOutlivesAlert
  BY PTL DEF MuteStep, MuteOutlivesAlert
<1> QED
  BY <1>1, <1>2, Invariance, PTL DEF Spec
=============================================================================
