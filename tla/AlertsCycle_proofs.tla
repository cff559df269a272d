-------------------------- MODULE AlertsCycle_proofs --------------------------
(***************************************************************************)
(* Proof that a completed cycle of an evaluator leaves the alerts in       *)
(* agreement with the devices, and that the cycles of the workers that     *)
(* take over from it leave them so (CycleSettles).                         *)
(*                                                                         *)
(* The devices change while the loops run over what was read.  For a       *)
(* device nothing has happened to, an item still to be done says what is   *)
(* so, and an alert with no item left is as it should be: this is the      *)
(* invariant SInv, on top of the IInv of AlertsWorker_proofs.  What a      *)
(* worker is about to write must be so for every device that some worker   *)
(* has found steady, its own cycle or an earlier one of another.           *)
(***************************************************************************)
EXTENDS AlertsWorker_proofs

(***************************************************************************)
(* The invariant                                                           *)
(***************************************************************************)
Called(d) == IF age[d] = "lost" THEN "critical" ELSE "warning"

\* what CycleSettles demands of a device, one check at a time
RaisedOK(d) ==
  age[d] \in {"offline", "lost"} /\ ~Muted(d) =>
    \E a \in Active(d, "offline") : alerts[a].severity = Called(d)
OnlineOK(d) == age[d] = "online" => Active(d, "offline") = {}
TempOK(d) ==
  age[d] # "never" =>
    /\ temp[d] = "ok" => Active(d, "high_temp") = {}
    /\ temp[d] = "high" => \E a \in Active(d, "high_temp") : alerts[a].severity = "critical"
RuleOK(r, d) ==
  rules[r].kind = "offline_window" /\ d \in rules[r].scope /\ age[d] # "never" =>
    (Active(d, r) # {} <=> OverGrace(r, d))

\* what the item says of the device is so
TrueItem(i) ==
  /\ i.check = "offline" /\ i.verdict = "raise" =>
       age[i.device] \in {"offline", "lost"} /\ i.severity = Called(i.device)
  /\ i.check = "offline" /\ i.verdict = "clear" => age[i.device] = "online"
  /\ i.check = "high_temp" /\ i.verdict = "raise" =>
       temp[i.device] = "high" /\ i.severity = "critical"
  /\ i.check = "high_temp" /\ i.verdict = "clear" => temp[i.device] # "high"
  /\ i.check \in Rule => (rules[i.check].kind = "offline_window" =>
       (i.verdict = "raise" <=> OverGrace(i.check, i.device)))

Waits(w, d, k) == \E i \in Pending(w) : i.device = d /\ i.check = k
Busy(w)        == wk[w].pc \in {"work", "write", "push", "settled"}

RulesDone(w, d) == \A r \in wk[w].cache : Waits(w, d, r) \/ RuleOK(r, d)
RaisesDone(w, d) ==
  ~HasOfflineRule(w) /\ wk[w].phase \in {"offline", "online", "temp"} =>
    Waits(w, d, "offline") \/ RaisedOK(d)
ClearsDone(w, d) ==
  ~HasOfflineRule(w) /\ wk[w].phase \in {"online", "temp"} =>
    Waits(w, d, "offline") \/ OnlineOK(d)
TempsDone(w, d) == wk[w].phase = "temp" => Waits(w, d, "high_temp") \/ TempOK(d)

\* nothing has happened to the device since the cycle of some worker began
Quiet(d) == \E x \in Worker : d \in steady[x]

TrueInv(w) == \A i \in Pending(w) : Quiet(i.device) => TrueItem(i)
DoneInv(w) ==
  Busy(w) => \A d \in steady[w] :
    RulesDone(w, d) /\ RaisesDone(w, d) /\ ClearsDone(w, d) /\ TempsDone(w, d)
\* no phase is passed over but those a rule replaces
PhaseInv(w) ==
  /\ AtPc(w, "rules") => wk[w].phase = "rules"
  /\ AtPc(w, "settled") =>
       /\ ~HasOfflineRule(w) => wk[w].phase \in {"online", "temp"}
       /\ ~HasHighTempRule(w) => wk[w].phase = "temp"

SettleInv(w) == TrueInv(w) /\ DoneInv(w) /\ PhaseInv(w)
SInv == InTurn => \A w \in Worker : SettleInv(w)

USE IdsAssumption, FailAssumption

\* At the end of a cycle no item waits, so every check is as it should be.
LEMMA SettledAtEnd == IInv /\ SInv => CycleSettles
<1> SUFFICES ASSUME IInv, SInv, InTurn, NEW w \in Worker, NEW d \in steady[w],
                    AtPc(w, "settled")
             PROVE  /\ ~HasOfflineRule(w) => OnlineOK(d) /\ RaisedOK(d)
                    /\ ~HasHighTempRule(w) => TempOK(d)
                    /\ \A r \in wk[w].cache : RuleOK(r, d)
  BY DEF CycleSettles, OnlineOK, RaisedOK, TempOK, RuleOK, Called
<1>1. Pending(w) = {}
  BY DEF IInv, WorkerInv, RestInv, Pending, AtPc
<1>2. \A k : ~Waits(w, d, k)
  BY <1>1 DEF Waits
<1>3. RulesDone(w, d) /\ RaisesDone(w, d) /\ ClearsDone(w, d) /\ TempsDone(w, d)
  BY DEF SInv, SettleInv, DoneInv, Busy, AtPc
<1>4. PhaseInv(w)
  BY DEF SInv, SettleInv
<1> QED
  BY <1>2, <1>3, <1>4 DEF RulesDone, RaisesDone, ClearsDone, TempsDone, PhaseInv

\* The fixed part of the rules does not change.
RulesFixed ==
  \A r \in Rule : /\ rules'[r].kind = rules[r].kind /\ rules'[r].grace = rules[r].grace
                  /\ rules'[r].scope = rules[r].scope

\* The alerts of a check on a device stay as they are.
SameAlerts(d, c) ==
  /\ Active(d, c)' = Active(d, c)
  /\ \A a \in Active(d, c) : alerts'[a].severity = alerts[a].severity

LEMMA OKKept ==
  ASSUME RulesFixed, NEW d, age'[d] = age[d], temp'[d] = temp[d], Muted(d) => Muted(d)'
  PROVE  /\ SameAlerts(d, "offline") => (RaisedOK(d) => RaisedOK(d)')
                                        /\ (OnlineOK(d) => OnlineOK(d)')
         /\ SameAlerts(d, "high_temp") => (TempOK(d) => TempOK(d)')
         /\ \A r \in Rule : SameAlerts(d, r) /\ RuleOK(r, d) => RuleOK(r, d)'
<1>1. SameAlerts(d, "offline") => (RaisedOK(d) => RaisedOK(d)') /\ (OnlineOK(d) => OnlineOK(d)')
  BY DEF SameAlerts, RaisedOK, OnlineOK, Called
<1>2. SameAlerts(d, "high_temp") => (TempOK(d) => TempOK(d)')
  BY DEF SameAlerts, TempOK
<1>3. \A r \in Rule : SameAlerts(d, r) /\ RuleOK(r, d) => RuleOK(r, d)'
  BY DEF SameAlerts, RuleOK, RulesFixed, OverGrace
<1> QED
  BY <1>1, <1>2, <1>3

LEMMA TrueItemKept ==
  ASSUME RulesFixed, NEW i, TrueItem(i),
         age'[i.device] = age[i.device], temp'[i.device] = temp[i.device]
  PROVE  TrueItem(i)'
BY DEF TrueItem, RulesFixed, OverGrace, Called

\* A step that starts no cycle and no phase keeps the rules the worker runs by.
SameCycle(w) == wk'[w].cache = wk[w].cache /\ wk'[w].phase = wk[w].phase

LEMMA RulesByKept ==
  ASSUME IInv, NEW w \in Worker, wk'[w].cache = wk[w].cache, RulesFixed
  PROVE  /\ HasOfflineRule(w)' <=> HasOfflineRule(w)
         /\ HasHighTempRule(w)' <=> HasHighTempRule(w)
         /\ wk[w].cache \subseteq Rule
<1>1. wk[w].cache \subseteq Rule
  BY DEF IInv, TypeOK, Evaluator
<1> QED
  BY <1>1 DEF HasOfflineRule, HasHighTempRule, RulesFixed

(***************************************************************************)
(* Steps that leave the steady devices alone                               *)
(***************************************************************************)
LEMMA FrameSettles ==
  ASSUME IInv, NEW w \in Worker, SettleInv(w), SameCycle(w), RulesFixed,
         Busy(w)' => Busy(w),
         Pending(w)' \subseteq Pending(w),
         steady'[w] \subseteq steady[w],
         \A i \in Pending(w) : i.device \in steady'[w] => i \in Pending(w)',
         \A i \in Pending(w)' : Quiet(i.device)' => Quiet(i.device),
         \A d : Quiet(d)' => /\ age'[d] = age[d] /\ temp'[d] = temp[d]
                             /\ Muted(d) => Muted(d)'
                             /\ \A c : SameAlerts(d, c),
         PhaseInv(w)'
  PROVE  SettleInv(w)'
<1>1. TrueInv(w)'
  <2> SUFFICES ASSUME NEW i \in Pending(w)', Quiet(i.device)' PROVE TrueItem(i)'
    BY DEF TrueInv
  <2>1. TrueItem(i)
    BY DEF SettleInv, TrueInv
  <2> QED
    BY <2>1, TrueItemKept
<1>2. ASSUME Busy(w)', NEW d \in steady'[w]
      PROVE  /\ RulesDone(w, d)' /\ RaisesDone(w, d)'
             /\ ClearsDone(w, d)' /\ TempsDone(w, d)'
  <2>1. RulesDone(w, d) /\ RaisesDone(w, d) /\ ClearsDone(w, d) /\ TempsDone(w, d)
    BY <1>2 DEF SettleInv, DoneInv
  <2>2. \A k : Waits(w, d, k) => Waits(w, d, k)'
    BY <1>2 DEF Waits
  <2>3. /\ RaisedOK(d) => RaisedOK(d)'
        /\ OnlineOK(d) => OnlineOK(d)'
        /\ TempOK(d) => TempOK(d)'
        /\ \A r \in Rule : RuleOK(r, d) => RuleOK(r, d)'
    BY <1>2, OKKept DEF Quiet
  <2>4. /\ HasOfflineRule(w)' <=> HasOfflineRule(w)
        /\ wk[w].cache \subseteq Rule
    BY RulesByKept DEF SameCycle
  <2>5. RulesDone(w, d)'
    BY <2>1, <2>2, <2>3, <2>4 DEF RulesDone, SameCycle
  <2>6. RaisesDone(w, d)' /\ ClearsDone(w, d)' /\ TempsDone(w, d)'
    BY <2>1, <2>2, <2>3, <2>4 DEF RaisesDone, ClearsDone, TempsDone, SameCycle
  <2> QED
    BY <2>5, <2>6
<1>3. DoneInv(w)'
  BY <1>2 DEF DoneInv
<1> QED
  BY <1>1, <1>3 DEF SettleInv

(***************************************************************************)
(* The write of an item                                                    *)
(***************************************************************************)

\* An item that is true, once done, leaves its check as it should be.
LEMMA DoneItem ==
  ASSUME IInv, NEW i \in Item, TrueItem(i), UNCHANGED <<age, temp, rules>>,
         Muted(i.device) => Muted(i.device)',
         i.verdict = "raise" => \E a \in Active(i.device, i.check)' :
                                  alerts'[a].severity = i.severity,
         i.verdict = "clear" => Active(i.device, i.check)' = {}
  PROVE  /\ i.check = "offline" => RaisedOK(i.device)' /\ OnlineOK(i.device)'
         /\ i.check = "high_temp" => TempOK(i.device)'
         /\ i.check \in Rule => RuleOK(i.check, i.device)'
<1>0. i.verdict \in {"raise", "clear"}
  BY DEF Item
<1>1. i.check = "offline" => RaisedOK(i.device)' /\ OnlineOK(i.device)'
  BY <1>0 DEF TrueItem, RaisedOK, OnlineOK, Called
<1>2. i.check = "high_temp" => TempOK(i.device)'
  BY <1>0 DEF TrueItem, TempOK
<1>3. i.check \in Rule => RuleOK(i.check, i.device)'
  BY <1>0 DEF TrueItem, RuleOK, OverGrace
<1> QED
  BY <1>1, <1>2, <1>3

\* The statement of a worker on one item.
Writes(w, i) ==
  /\ i \in Item /\ i \in Pending(w)
  /\ Busy(w) /\ SameCycle(w) /\ wk'[w].pc \in {"work", "push"}
  /\ Pending(w)' \subseteq Pending(w) /\ Pending(w) \ {i} \subseteq Pending(w)'
  /\ UNCHANGED <<age, temp, rules, steady>>
  /\ \A d : Muted(d) => Muted(d)'
  /\ \A d, c : (d = i.device /\ c = i.check) \/ SameAlerts(d, c)
  /\ i.verdict = "raise" => \E a \in Active(i.device, i.check)' :
                              alerts'[a].severity = i.severity
  /\ i.verdict = "clear" => Active(i.device, i.check)' = {}

\* It settles its own check, and leaves the others of a quiet device as they should be.
LEMMA WriteKeepsOK ==
  ASSUME IInv, NEW v \in Worker, SettleInv(v), NEW i, Writes(v, i), NEW d, Quiet(d)
  PROVE  /\ d = i.device /\ i.check = "offline" => RaisedOK(d)' /\ OnlineOK(d)'
         /\ d = i.device /\ i.check = "high_temp" => TempOK(d)'
         /\ \A r \in Rule : d = i.device /\ r = i.check => RuleOK(r, d)'
         /\ (RaisedOK(d) => RaisedOK(d)') /\ (OnlineOK(d) => OnlineOK(d)')
         /\ TempOK(d) => TempOK(d)'
         /\ \A r \in Rule : RuleOK(r, d) => RuleOK(r, d)'
<1>1. RulesFixed
  BY DEF RulesFixed, Writes
<1>2. d = i.device => TrueItem(i)
  BY DEF SettleInv, TrueInv, Writes
<1>3. /\ d = i.device /\ i.check = "offline" => RaisedOK(d)' /\ OnlineOK(d)'
      /\ d = i.device /\ i.check = "high_temp" => TempOK(d)'
      /\ \A r \in Rule : d = i.device /\ r = i.check => RuleOK(r, d)'
  BY <1>2, DoneItem DEF Writes
<1>4. /\ ~(d = i.device /\ i.check = "offline") =>
           (RaisedOK(d) => RaisedOK(d)') /\ (OnlineOK(d) => OnlineOK(d)')
      /\ ~(d = i.device /\ i.check = "high_temp") => (TempOK(d) => TempOK(d)')
      /\ \A r \in Rule : ~(d = i.device /\ r = i.check) => (RuleOK(r, d) => RuleOK(r, d)')
  BY <1>1, OKKept DEF Writes
<1> QED
  BY <1>3, <1>4

LEMMA WriteSettles ==
  ASSUME IInv, NEW w \in Worker, SettleInv(w), NEW i, Writes(w, i)
  PROVE  SettleInv(w)'
<1>0. RulesFixed
  BY DEF RulesFixed, Writes
<1>1. TrueInv(w)'
  <2> SUFFICES ASSUME NEW j \in Pending(w)', Quiet(j.device)' PROVE TrueItem(j)'
    BY DEF TrueInv
  <2>1. TrueItem(j)
    BY DEF SettleInv, TrueInv, Quiet, Writes
  <2> QED
    BY <1>0, <2>1, TrueItemKept DEF Writes
<1>2. ASSUME NEW d \in steady'[w]
      PROVE  /\ RulesDone(w, d)' /\ RaisesDone(w, d)'
             /\ ClearsDone(w, d)' /\ TempsDone(w, d)'
  <2>1. /\ RulesDone(w, d) /\ RaisesDone(w, d) /\ ClearsDone(w, d) /\ TempsDone(w, d)
        /\ Quiet(d)
    BY <1>2 DEF SettleInv, DoneInv, Writes, Quiet
  <2>2. \A k : ~(d = i.device /\ k = i.check) /\ Waits(w, d, k) => Waits(w, d, k)'
    BY DEF Waits, Writes
  <2>3. /\ HasOfflineRule(w)' <=> HasOfflineRule(w)
        /\ wk[w].cache \subseteq Rule
        /\ wk'[w].cache = wk[w].cache /\ wk'[w].phase = wk[w].phase
    BY <1>0, RulesByKept DEF SameCycle, Writes
  <2>4. RulesDone(w, d)'
    <3> SUFFICES ASSUME NEW r \in wk'[w].cache PROVE Waits(w, d, r)' \/ RuleOK(r, d)'
      BY DEF RulesDone
    <3>1. r \in Rule /\ (Waits(w, d, r) \/ RuleOK(r, d))
      BY <2>1, <2>3 DEF RulesDone
    <3> QED
      BY <2>1, <2>2, <3>1, WriteKeepsOK
  <2>5. RaisesDone(w, d)'
    BY <2>1, <2>2, <2>3, WriteKeepsOK DEF RaisesDone
  <2>6. ClearsDone(w, d)'
    BY <2>1, <2>2, <2>3, WriteKeepsOK DEF ClearsDone
  <2>7. TempsDone(w, d)'
    BY <2>1, <2>2, <2>3, WriteKeepsOK DEF TempsDone
  <2> QED
    BY <2>4, <2>5, <2>6, <2>7
<1>3. DoneInv(w)'
  BY <1>2 DEF DoneInv
<1>4. PhaseInv(w)'
  BY DEF PhaseInv, AtPc, Writes
<1> QED
  BY <1>1, <1>3, <1>4 DEF SettleInv

\* A worker between its cycles has nothing to write.
LEMMA RestsEmpty ==
  ASSUME IInv, NEW w \in Worker, ~MidCycle(w)
  PROVE  Pending(w) = {} /\ (Busy(w) => AtPc(w, "settled"))
BY DEF IInv, WorkerInv, RestInv, Pending, MidCycle, AtPc, Busy

\* What a worker has settled stays so when another writes in its own turn.
LEMMA WriteSettlesOthers ==
  ASSUME IInv, NEW v \in Worker, SettleInv(v), NEW i, Writes(v, i),
         NEW w \in Worker, SettleInv(w), wk'[w] = wk[w], ~MidCycle(w)
  PROVE  SettleInv(w)'
<1>1. Pending(w) = {} /\ Pending(w)' = {} /\ SameCycle(w) /\ (Busy(w)' <=> Busy(w))
  BY RestsEmpty DEF Pending, SameCycle, Busy, AtPc
<1>2. RulesFixed
  BY DEF RulesFixed, Writes
<1>3. /\ HasOfflineRule(w)' <=> HasOfflineRule(w)
      /\ HasHighTempRule(w)' <=> HasHighTempRule(w)
      /\ wk[w].cache \subseteq Rule
      /\ wk'[w].cache = wk[w].cache /\ wk'[w].phase = wk[w].phase
  BY <1>2, RulesByKept
<1>4. ASSUME Busy(w), NEW d \in steady'[w]
      PROVE  /\ RulesDone(w, d)' /\ RaisesDone(w, d)'
             /\ ClearsDone(w, d)' /\ TempsDone(w, d)'
  <2>1. /\ RulesDone(w, d) /\ RaisesDone(w, d) /\ ClearsDone(w, d) /\ TempsDone(w, d)
        /\ Quiet(d)
    BY <1>4 DEF SettleInv, DoneInv, Writes, Quiet
  <2>2. \A k : ~Waits(w, d, k)
    BY <1>1 DEF Waits
  <2>3. RulesDone(w, d)'
    BY <1>3, <2>1, <2>2, WriteKeepsOK DEF RulesDone
  <2>4. RaisesDone(w, d)'
    BY <1>3, <2>1, <2>2, WriteKeepsOK DEF RaisesDone
  <2>5. ClearsDone(w, d)'
    BY <1>3, <2>1, <2>2, WriteKeepsOK DEF ClearsDone
  <2>6. TempsDone(w, d)'
    BY <1>3, <2>1, <2>2, WriteKeepsOK DEF TempsDone
  <2> QED
    BY <2>3, <2>4, <2>5, <2>6
<1>5. TrueInv(w)' /\ DoneInv(w)'
  BY <1>1, <1>4 DEF TrueInv, DoneInv
<1>6. PhaseInv(w)'
  BY <1>3 DEF SettleInv, PhaseInv, AtPc
<1> QED
  BY <1>5, <1>6 DEF SettleInv

LEMMA ClearWrites ==
  ASSUME IInv, NEW w \in Worker, NEW i \in wk[w].todo, Clear(w, i)
  PROVE  Writes(w, i)
<1>1. /\ wk[w] \in Evaluator /\ wk[w].pc = "work" /\ i \in Item /\ i.verdict = "clear"
      /\ \A a \in Alert : alerts[a] \in AlertRow
  BY DEF Clear, AtPc, IInv, TypeOK, Evaluator
<1>2. /\ wk'[w].todo = wk[w].todo \ {i} /\ wk'[w].pc = "work"
      /\ SameCycle(w) /\ UNCHANGED <<age, temp, rules, steady>>
  BY <1>1 DEF Clear, Become, IInv, TypeOK, Evaluator, SameCycle
<1>3. /\ i \in Pending(w) /\ Pending(w)' \subseteq Pending(w)
      /\ Pending(w) \ {i} \subseteq Pending(w)' /\ Busy(w)
  BY <1>1, <1>2 DEF Pending, AtPc, Busy
<1>4. \A a \in Alert : IF a \in Active(i.device, i.check)
                       THEN alerts'[a] = [alerts[a] EXCEPT !.status = "cleared"]
                       ELSE alerts'[a] = alerts[a]
  BY DEF Clear
<1>5. \A a \in Alert :
        /\ alerts'[a].device = alerts[a].device /\ alerts'[a].check = alerts[a].check
        /\ alerts'[a].severity = alerts[a].severity /\ alerts'[a].muted = alerts[a].muted
        /\ alerts'[a].status =
             IF a \in Active(i.device, i.check) THEN "cleared" ELSE alerts[a].status
  BY <1>1, <1>4 DEF AlertRow
<1>6. \A d : Muted(d) => Muted(d)'
  BY <1>5 DEF Muted
<1>7. Active(i.device, i.check)' = {}
  <2>1. \A a \in Active(i.device, i.check)' : FALSE
    BY <1>5 DEF Active
  <2> QED
    BY <2>1
<1>8. \A d, c : (d = i.device /\ c = i.check) \/ SameAlerts(d, c)
  BY <1>5 DEF Active, SameAlerts
<1> QED
  BY <1>1, <1>2, <1>3, <1>6, <1>7, <1>8 DEF Writes

LEMMA UpdateWrites ==
  ASSUME IInv, InTurn, NEW w \in Worker, NEW i, i = wk[w].item, Update(w)
  PROVE  Writes(w, i)
<1> DEFINE b == wk[w].alert
<1>1. /\ wk[w] \in Evaluator /\ wk[w].pc = "write" /\ i \in Item /\ i.verdict = "raise"
      /\ b \in Alert /\ b \in Active(i.device, i.check)
      /\ \A a \in Alert : alerts[a] \in AlertRow
  BY DEF Update, AtPc, IInv, TypeOK, Evaluator, WorkerInv, FoundInv, Active
<1>2. /\ wk'[w].todo = wk[w].todo /\ wk'[w].pc = "work"
      /\ SameCycle(w) /\ UNCHANGED <<age, temp, rules, steady>>
  BY <1>1 DEF Update, Become, IInv, TypeOK, Evaluator, SameCycle
<1>3. /\ i \in Pending(w) /\ Pending(w)' \subseteq Pending(w)
      /\ Pending(w) \ {i} \subseteq Pending(w)' /\ Busy(w)
  BY <1>1, <1>2 DEF Pending, AtPc, Busy
<1>4. \A a \in Alert : IF a = b THEN alerts'[a] = [alerts[a] EXCEPT !.severity = i.severity]
                       ELSE alerts'[a] = alerts[a]
  BY DEF Update, IInv, TypeOK
<1>5. \A a \in Alert :
        /\ alerts'[a].device = alerts[a].device /\ alerts'[a].check = alerts[a].check
        /\ alerts'[a].status = alerts[a].status /\ alerts'[a].muted = alerts[a].muted
        /\ alerts'[a].severity = IF a = b THEN i.severity ELSE alerts[a].severity
  BY <1>1, <1>4 DEF AlertRow
<1>6. \A d : Muted(d) => Muted(d)'
  BY <1>5 DEF Muted
<1>7. b \in {a \in Alert : /\ alerts'[a].device = i.device /\ alerts'[a].check = i.check
                           /\ alerts'[a].status = "active"}
      /\ alerts'[b].severity = i.severity
  BY <1>1, <1>5 DEF Active
<1>8. \A d, c : (d = i.device /\ c = i.check) \/ SameAlerts(d, c)
  BY <1>1, <1>5 DEF Active, SameAlerts
<1>9. \E a \in Active(i.device, i.check)' : alerts'[a].severity = i.severity
  BY <1>7 DEF Active
<1> QED
  BY <1>1, <1>2, <1>3, <1>6, <1>8, <1>9 DEF Writes

LEMMA InsertWrites ==
  ASSUME IInv, NEW w \in Worker, NEW i, i = wk[w].item, NEW b \in Alert, Insert(w, b)
  PROVE  Writes(w, i)
<1> DEFINE x == [NoAlert EXCEPT !.device = i.device, !.check = i.check,
                                !.severity = i.severity, !.status = "active"]
<1>1. /\ wk[w] \in Evaluator /\ wk[w].pc = "write" /\ i \in Item /\ i.verdict = "raise"
      /\ ~Inserted(b) /\ i.device # None
      /\ \A a \in Alert : alerts[a] \in AlertRow
  BY DEF Insert, AtPc, IInv, TypeOK, WorkerInv, FoundInv, Item
<1>2. /\ wk'[w].todo = wk[w].todo /\ wk'[w].pc \in {"work", "push"}
      /\ SameCycle(w) /\ UNCHANGED <<age, temp, rules, steady>>
  <2>1. wk'[w] \in {[wk[w] EXCEPT !.pc = "push", !.alert = b],
                    [wk[w] EXCEPT !.pc = "work", !.item = None]}
    BY DEF Insert, Become, IInv, TypeOK
  <2> QED
    BY <1>1, <2>1 DEF Insert, Evaluator, SameCycle
<1>3. /\ i \in Pending(w) /\ Pending(w)' \subseteq Pending(w)
      /\ Pending(w) \ {i} \subseteq Pending(w)' /\ Busy(w)
  BY <1>1, <1>2 DEF Pending, AtPc, Busy
<1>4. \A a \in Alert : alerts'[a] = IF a = b THEN x ELSE alerts[a]
  BY DEF Insert, IInv, TypeOK
<1>5. /\ x.device = i.device /\ x.check = i.check /\ x.severity = i.severity
      /\ x.status = "active" /\ ~x.muted
  BY DEF NoAlert
<1>6. alerts[b] = NoAlert
  BY <1>1 DEF IInv, Blank
<1> HIDE DEF x
<1>7. ~alerts[b].muted /\ alerts[b].status # "active"
  BY <1>6 DEF NoAlert
<1>8. \A d : Muted(d) => Muted(d)'
  BY <1>4, <1>7 DEF Muted
<1>9. b \in {a \in Alert : /\ alerts'[a].device = i.device /\ alerts'[a].check = i.check
                           /\ alerts'[a].status = "active"}
      /\ alerts'[b].severity = i.severity
  BY <1>4, <1>5
<1>10. \A d, c : (d = i.device /\ c = i.check) \/ SameAlerts(d, c)
  BY <1>4, <1>5, <1>7 DEF Active, SameAlerts
<1>11. \E a \in Active(i.device, i.check)' : alerts'[a].severity = i.severity
  BY <1>9 DEF Active
<1> QED
  BY <1>1, <1>2, <1>3, <1>8, <1>10, <1>11 DEF Writes

(***************************************************************************)
(* The other steps of the worker                                           *)
(***************************************************************************)

\* As FrameSettles, for a step in which nothing happens to the tables.
LEMMA WaitSettles ==
  ASSUME IInv, NEW w \in Worker, SettleInv(w), SameCycle(w),
         UNCHANGED <<age, temp, rules, alerts>>, Busy(w),
         Pending(w)' \subseteq Pending(w), \A x \in Worker : steady'[x] \subseteq steady[x],
         \A i \in Pending(w) : i.device \in steady'[w] => i \in Pending(w)',
         PhaseInv(w)'
  PROVE  SettleInv(w)'
<1>1. RulesFixed
  BY DEF RulesFixed
<1>2. \A d : Muted(d)' <=> Muted(d)
  BY DEF Muted
<1>3. \A d, c : SameAlerts(d, c)
  BY DEF SameAlerts, Active
<1>4. \A d : Quiet(d)' => Quiet(d)
  BY DEF Quiet
<1> QED
  BY <1>1, <1>2, <1>3, <1>4, FrameSettles

LEMMA PushSettles ==
  ASSUME IInv, NEW w \in Worker, SettleInv(w), Push(w)
  PROVE  SettleInv(w)'
<1>1. /\ wk[w] \in Evaluator /\ wk[w].pc = "push"
      /\ \A a \in Alert : alerts[a] \in AlertRow
  BY DEF Push, AtPc, IInv, TypeOK
<1>2. /\ wk'[w].todo = wk[w].todo /\ wk'[w].pc = "work"
      /\ SameCycle(w) /\ UNCHANGED <<age, temp, rules, steady>>
  BY <1>1 DEF Push, Become, IInv, TypeOK, Evaluator, SameCycle
<1>3. Pending(w)' = Pending(w) /\ Busy(w) /\ PhaseInv(w)'
  BY <1>1, <1>2 DEF Pending, AtPc, Busy, PhaseInv
<1>4. \A a \in Alert :
        /\ alerts'[a].device = alerts[a].device /\ alerts'[a].check = alerts[a].check
        /\ alerts'[a].status = alerts[a].status /\ alerts'[a].muted = alerts[a].muted
        /\ alerts'[a].severity = alerts[a].severity
  <2>1. \A a \in Alert : alerts'[a] \in {alerts[a], [alerts[a] EXCEPT !.pushes = @ + 1]}
    BY DEF Push, IInv, TypeOK
  <2> QED
    BY <1>1, <2>1 DEF AlertRow
<1>5. RulesFixed
  BY <1>2 DEF RulesFixed
<1>6. \A d : Muted(d) => Muted(d)'
  BY <1>4 DEF Muted
<1>7. (\A d, c : SameAlerts(d, c)) /\ \A d : Quiet(d)' => Quiet(d)
  BY <1>2, <1>4 DEF SameAlerts, Active, Quiet
<1> QED
  BY <1>2, <1>3, <1>5, <1>6, <1>7, FrameSettles

LEMMA FindActiveSettles ==
  ASSUME IInv, NEW w \in Worker, SettleInv(w), NEW i \in wk[w].todo, FindActive(w, i)
  PROVE  SettleInv(w)'
<1>1. wk[w] \in Evaluator /\ wk[w].pc = "work"
  BY DEF FindActive, AtPc, IInv, TypeOK
<1>2. PICK a : wk'[w] = [wk[w] EXCEPT !.pc = "write", !.todo = @ \ {i}, !.item = i, !.alert = a]
  BY DEF FindActive, Become, IInv, TypeOK
<1>3. /\ wk'[w].todo = wk[w].todo \ {i} /\ wk'[w].pc = "write" /\ wk'[w].item = i
      /\ SameCycle(w) /\ UNCHANGED <<age, temp, rules, alerts, steady>>
  BY <1>1, <1>2 DEF FindActive, Evaluator, SameCycle
<1>4. Pending(w)' = Pending(w) /\ Busy(w) /\ PhaseInv(w)'
  BY <1>1, <1>3 DEF Pending, AtPc, Busy, PhaseInv
<1> QED
  BY <1>3, <1>4, WaitSettles

LEMMA EndCycleSettles ==
  ASSUME IInv, NEW w \in Worker, SettleInv(w), EndCycle(w)
  PROVE  SettleInv(w)'
<1>1. wk[w] \in Evaluator /\ wk[w].pc = "work" /\ wk[w].todo = {}
  BY DEF EndCycle, OfflineDone, Through, AtPc, IInv, TypeOK
<1>2. /\ wk'[w].todo = {} /\ wk'[w].pc = "settled" /\ SameCycle(w)
      /\ UNCHANGED <<age, temp, rules, alerts, steady>>
  BY <1>1 DEF EndCycle, Become, IInv, TypeOK, Evaluator, SameCycle
<1>3. Pending(w)' = Pending(w) /\ Busy(w)
  BY <1>1, <1>2 DEF Pending, AtPc, Busy
<1>4. /\ HasOfflineRule(w)' <=> HasOfflineRule(w)
      /\ HasHighTempRule(w)' <=> HasHighTempRule(w)
  BY <1>2 DEF SameCycle, HasOfflineRule, HasHighTempRule
<1>5. PhaseInv(w)'
  BY <1>2, <1>4 DEF EndCycle, OfflineDone, Through, PhaseInv, SameCycle, AtPc
<1> QED
  BY <1>2, <1>3, <1>5, WaitSettles

LEMMA FailTargetSettles ==
  ASSUME IInv, NEW w \in Worker, SettleInv(w), NEW i \in wk[w].todo \cup {wk[w].item},
         FailTarget(w, i)
  PROVE  SettleInv(w)'
<1>1. wk[w] \in Evaluator /\ wk[w].pc \in {"work", "write"}
  BY DEF FailTarget, AtPc, IInv, TypeOK
<1>2. /\ wk'[w].todo = wk[w].todo \ {i} /\ wk'[w].pc = "work" /\ SameCycle(w)
      /\ UNCHANGED <<age, temp, rules, alerts>> /\ steady'[w] = steady[w] \ {i.device}
      /\ \A x \in Worker : steady'[x] \subseteq steady[x]
  BY <1>1 DEF FailTarget, Become, IInv, TypeOK, Evaluator, SameCycle
<1>3. Pending(w)' \subseteq Pending(w) /\ Pending(w) \ {i} \subseteq Pending(w)' /\ Busy(w)
      /\ PhaseInv(w)'
  BY <1>1, <1>2 DEF FailTarget, Pending, AtPc, Busy, PhaseInv
<1>4. \A j \in Pending(w) : j.device \in steady'[w] => j \in Pending(w)'
  BY <1>2, <1>3
<1> QED
  BY <1>2, <1>3, <1>4, WaitSettles

\* A worker that has nothing to do, or is about to read its rules.
LEMMA IdleSettles ==
  ASSUME NEW w \in Worker, wk'[w].todo = {},
         \/ wk'[w].pc = "idle"
         \/ /\ wk'[w].phase = "rules"
            /\ wk'[w].pc = "rules" \/ (wk'[w].pc = "work" /\ wk'[w].cache = {})
  PROVE  SettleInv(w)'
<1>1. TrueInv(w)'
  BY DEF TrueInv, Pending, AtPc
<1>2. DoneInv(w)'
  BY DEF DoneInv, Busy, RulesDone, RaisesDone, ClearsDone, TempsDone
<1>3. PhaseInv(w)'
  BY DEF PhaseInv, AtPc
<1> QED
  BY <1>1, <1>2, <1>3 DEF SettleInv

LEMMA StopSettles ==
  ASSUME IInv, NEW w \in Worker, FailCycle(w) \/ Crash(w) \/ StartCycle(w)
  PROVE  SettleInv(w)'
<1>1. wk[w] \in Evaluator
  BY DEF IInv, TypeOK
<1>2. CASE FailCycle(w)
  BY <1>1, <1>2, IdleSettles DEF FailCycle, Become, GivenUp, IInv, TypeOK, Evaluator
<1>3. CASE Crash(w)
  BY <1>3, IdleSettles DEF Crash, Become, Stopped, IInv, TypeOK
<1>4. CASE StartCycle(w)
  <2>1. wk[w].todo = {}
    BY <1>4 DEF StartCycle, MidCycle, IInv, WorkerInv, RestInv
  <2>2. PICK cache :
          wk'[w] = [wk[w] EXCEPT !.loaded = TRUE, !.cache = cache, !.phase = "rules",
                                 !.pc = IF cache = {} THEN "work" ELSE "rules"]
    BY <1>4 DEF StartCycle, Become, IInv, TypeOK
  <2>3. /\ wk'[w].todo = {} /\ wk'[w].cache = cache /\ wk'[w].phase = "rules"
        /\ wk'[w].pc = IF cache = {} THEN "work" ELSE "rules"
    BY <1>1, <2>1, <2>2 DEF Evaluator
  <2> QED
    BY <2>3, IdleSettles
<1> QED
  BY <1>2, <1>3, <1>4

(***************************************************************************)
(* The readings                                                            *)
(***************************************************************************)

\* What a reading leaves as it was, but for its own loop.
LEMMA ReadingFrame ==
  ASSUME IInv, NEW w \in Worker, UNCHANGED <<age, temp, rules, alerts, steady>>,
         wk'[w].cache = wk[w].cache
  PROVE  /\ \A d : /\ (RaisedOK(d)' <=> RaisedOK(d)) /\ (OnlineOK(d)' <=> OnlineOK(d))
                   /\ (TempOK(d)' <=> TempOK(d))
         /\ \A r, d : RuleOK(r, d)' <=> RuleOK(r, d)
         /\ \A i : TrueItem(i)' <=> TrueItem(i)
         /\ HasOfflineRule(w)' <=> HasOfflineRule(w)
<1>1. \A d : Muted(d)' <=> Muted(d)
  BY DEF Muted
<1>2. \A d, c : Active(d, c)' = Active(d, c)
  BY DEF Active
<1>3. \A d : (RaisedOK(d)' <=> RaisedOK(d)) /\ (OnlineOK(d)' <=> OnlineOK(d))
  BY <1>1, <1>2 DEF RaisedOK, OnlineOK, Called
<1>4. \A d : TempOK(d)' <=> TempOK(d)
  BY <1>2 DEF TempOK
<1>5. \A r, d : RuleOK(r, d)' <=> RuleOK(r, d)
  BY <1>2 DEF RuleOK, OverGrace
<1>6. \A i : TrueItem(i)' <=> TrueItem(i)
  BY DEF TrueItem, OverGrace, Called
<1> QED
  BY <1>3, <1>4, <1>5, <1>6 DEF HasOfflineRule

\* A reading whose items are true settles the worker for its phase if it misses nobody.
LEMMA ReadingSettles ==
  ASSUME IInv, NEW w \in Worker, UNCHANGED <<age, temp, rules, alerts, steady>>,
         wk'[w].cache = wk[w].cache, wk'[w].pc = "work",
         \A i \in wk'[w].todo : TrueItem(i),
         \A d \in steady[w] :
           RulesDone(w, d)' /\ RaisesDone(w, d)' /\ ClearsDone(w, d)' /\ TempsDone(w, d)'
  PROVE  SettleInv(w)'
<1>1. Pending(w)' = wk'[w].todo
  BY DEF Pending, AtPc
<1>2. TrueInv(w)'
  BY <1>1, ReadingFrame DEF TrueInv
<1>3. DoneInv(w)' /\ PhaseInv(w)'
  BY DEF DoneInv, PhaseInv, AtPc
<1> QED
  BY <1>2, <1>3 DEF SettleInv

LEMMA ReadLastSeenSettles ==
  ASSUME IInv, NEW w \in Worker, SettleInv(w), ReadLastSeen(w)
  PROVE  SettleInv(w)'
<1>1. /\ wk[w] \in Evaluator /\ wk[w].phase = "rules" /\ wk[w].cache \subseteq Rule
      /\ steady[w] \subseteq Device /\ UNCHANGED <<age, temp, rules, alerts, steady>>
  BY DEF ReadLastSeen, AtPc, IInv, TypeOK, Evaluator, SettleInv, PhaseInv
<1>2. PICK verdict \in [RuleTargets(w) -> {"raise", "clear", "skip"}],
           severity \in [RuleTargets(w) -> Severity] :
        /\ \A p \in RuleTargets(w) : verdict[p] \in Verdicts(p[1], p[2])
        /\ Become(w, [wk[w] EXCEPT !.pc = "work",
             !.todo = {[check |-> p[1], device |-> p[2], verdict |-> verdict[p],
                        severity |-> severity[p]] :
                         p \in {q \in RuleTargets(w) : verdict[q] # "skip"}}])
  BY DEF ReadLastSeen
<1> DEFINE targets == {q \in RuleTargets(w) : verdict[q] # "skip"}
           Asked(p) == [check |-> p[1], device |-> p[2], verdict |-> verdict[p],
                        severity |-> severity[p]]
           todo == {Asked(p) : p \in targets}
<1>3. /\ wk'[w].todo = todo /\ wk'[w].pc = "work" /\ wk'[w].phase = "rules"
      /\ wk'[w].cache = wk[w].cache
  BY <1>1, <1>2 DEF Become, IInv, TypeOK, Evaluator
<1>4. \A p \in targets : /\ p[1] \in Rule /\ verdict[p] \in Verdicts(p[1], p[2])
                         /\ verdict[p] \in {"raise", "clear"}
  BY <1>1, <1>2 DEF RuleTargets
<1>5. ASSUME NEW p \in targets PROVE TrueItem(Asked(p))
  <2>1. /\ Asked(p).check = p[1] /\ Asked(p).device = p[2] /\ Asked(p).verdict = verdict[p]
        /\ p[1] \in Rule /\ p[1] \notin {"offline", "high_temp"}
    BY <1>4
  <2>2. rules[p[1]].kind = "offline_window" =>
          (verdict[p] = "raise" <=> OverGrace(p[1], p[2]))
    BY <1>4 DEF Verdicts
  <2> HIDE DEF Asked
  <2> QED
    BY <2>1, <2>2 DEF TrueItem
<1>6. \A i \in wk'[w].todo : TrueItem(i)
  BY <1>3, <1>5
<1>7. ASSUME NEW d \in steady[w], NEW r \in wk[w].cache PROVE Waits(w, d, r)' \/ RuleOK(r, d)
  <2>1. SUFFICES ASSUME rules[r].kind = "offline_window", d \in rules[r].scope,
                        age[d] # "never"
                 PROVE  Waits(w, d, r)'
    BY DEF RuleOK
  <2>2. <<r, d>> \in RuleTargets(w)
    BY <1>1, <1>7, <2>1 DEF RuleTargets
  <2>3. verdict[<<r, d>>] \in {"raise", "clear"}
    BY <1>2, <2>1, <2>2 DEF Verdicts
  <2>4. Asked(<<r, d>>) \in todo
    BY <2>2, <2>3
  <2>5. Asked(<<r, d>>).device = d /\ Asked(<<r, d>>).check = r
    OBVIOUS
  <2> HIDE DEF Asked, todo
  <2> QED
    BY <1>3, <2>4, <2>5 DEF Waits, Pending
<1>8. ASSUME NEW d \in steady[w]
      PROVE  /\ RulesDone(w, d)' /\ RaisesDone(w, d)'
             /\ ClearsDone(w, d)' /\ TempsDone(w, d)'
  BY <1>1, <1>3, <1>7, <1>8, ReadingFrame DEF RulesDone, RaisesDone, ClearsDone, TempsDone
<1> HIDE DEF todo
<1> QED
  BY <1>1, <1>3, <1>6, <1>8, ReadingSettles

\* With a phase's loop done, what it was to do is done.
LEMMA ThroughDone ==
  ASSUME NEW w \in Worker, SettleInv(w), AtPc(w, "work"), wk[w].todo = {}
  PROVE  \A d \in steady[w] :
           /\ \A r \in wk[w].cache : RuleOK(r, d)
           /\ ~HasOfflineRule(w) /\ wk[w].phase \in {"offline", "online"} => RaisedOK(d)
           /\ ~HasOfflineRule(w) /\ wk[w].phase = "online" => OnlineOK(d)
<1>1. Pending(w) = {}
  BY DEF Pending, AtPc
<1>2. \A d, k : ~Waits(w, d, k)
  BY <1>1 DEF Waits
<1>3. Busy(w)
  BY DEF Busy, AtPc
<1> QED
  BY <1>2, <1>3 DEF SettleInv, DoneInv, RulesDone, RaisesDone, ClearsDone

LEMMA ReadOfflineSettles ==
  ASSUME IInv, NEW w \in Worker, SettleInv(w), ReadOffline(w)
  PROVE  SettleInv(w)'
<1> DEFINE todo == {[check |-> "offline", device |-> d, verdict |-> "raise",
                     severity |-> IF age[d] = "lost" THEN "critical" ELSE "warning"] :
                      d \in {e \in Device : age[e] \in {"offline", "lost"} /\ ~Muted(e)}}
<1>1. /\ wk[w] \in Evaluator /\ AtPc(w, "work") /\ wk[w].todo = {}
      /\ steady[w] \subseteq Device /\ UNCHANGED <<age, temp, rules, alerts, steady>>
  BY DEF ReadOffline, Through, IInv, TypeOK
<1>2. /\ wk'[w].todo = todo /\ wk'[w].pc = "work" /\ wk'[w].phase = "offline"
      /\ wk'[w].cache = wk[w].cache
  BY <1>1 DEF ReadOffline, Become, IInv, TypeOK, Evaluator, AtPc
<1>3. \A i \in todo : TrueItem(i)
  BY DEF TrueItem, Called
<1>4. ASSUME NEW d \in steady[w], ~RaisedOK(d) PROVE Waits(w, d, "offline")'
  <2>1. d \in Device /\ age[d] \in {"offline", "lost"} /\ ~Muted(d)
    BY <1>1, <1>4 DEF RaisedOK
  <2> DEFINE j == [check |-> "offline", device |-> d, verdict |-> "raise",
               severity |-> IF age[d] = "lost" THEN "critical" ELSE "warning"]
  <2>2. j \in todo
    BY <2>1
  <2>3. j.device = d /\ j.check = "offline"
    OBVIOUS
  <2> HIDE DEF todo, j
  <2> QED
    BY <1>2, <2>2, <2>3 DEF Waits, Pending
<1> HIDE DEF todo
<1>5. ASSUME NEW d \in steady[w]
      PROVE  /\ RulesDone(w, d)' /\ RaisesDone(w, d)'
             /\ ClearsDone(w, d)' /\ TempsDone(w, d)'
  BY <1>1, <1>2, <1>4, <1>5, ThroughDone, ReadingFrame
  DEF RulesDone, RaisesDone, ClearsDone, TempsDone
<1> QED
  BY <1>1, <1>2, <1>3, <1>5, ReadingSettles

LEMMA ReadOnlineSettles ==
  ASSUME IInv, NEW w \in Worker, SettleInv(w), ReadOnline(w)
  PROVE  SettleInv(w)'
<1> DEFINE todo == {[check |-> "offline", device |-> d, verdict |-> "clear",
                     severity |-> "warning"] : d \in {e \in Device : age[e] = "online"}}
<1>1. /\ wk[w] \in Evaluator /\ AtPc(w, "work") /\ wk[w].todo = {} /\ wk[w].phase = "offline"
      /\ steady[w] \subseteq Device /\ UNCHANGED <<age, temp, rules, alerts, steady>>
  BY DEF ReadOnline, Through, IInv, TypeOK
<1>2. /\ wk'[w].todo = todo /\ wk'[w].pc = "work" /\ wk'[w].phase = "online"
      /\ wk'[w].cache = wk[w].cache
  BY <1>1 DEF ReadOnline, Become, IInv, TypeOK, Evaluator, AtPc
<1>3. \A i \in todo : TrueItem(i)
  BY DEF TrueItem
<1>4. ASSUME NEW d \in steady[w], ~OnlineOK(d) PROVE Waits(w, d, "offline")'
  <2>1. d \in Device /\ age[d] = "online"
    BY <1>1, <1>4 DEF OnlineOK
  <2> DEFINE j == [check |-> "offline", device |-> d, verdict |-> "clear", severity |-> "warning"]
  <2>2. j \in todo
    BY <2>1
  <2>3. j.device = d /\ j.check = "offline"
    OBVIOUS
  <2> HIDE DEF todo, j
  <2> QED
    BY <1>2, <2>2, <2>3 DEF Waits, Pending
<1> HIDE DEF todo
<1>5. ASSUME NEW d \in steady[w]
      PROVE  /\ RulesDone(w, d)' /\ RaisesDone(w, d)'
             /\ ClearsDone(w, d)' /\ TempsDone(w, d)'
  BY <1>1, <1>2, <1>4, <1>5, ThroughDone, ReadingFrame
  DEF RulesDone, RaisesDone, ClearsDone, TempsDone
<1> QED
  BY <1>1, <1>2, <1>3, <1>5, ReadingSettles

LEMMA ReadTempsSettles ==
  ASSUME IInv, NEW w \in Worker, SettleInv(w), ReadTemps(w)
  PROVE  SettleInv(w)'
<1> DEFINE todo == {[check |-> "high_temp", device |-> d, severity |-> "critical",
                     verdict |-> IF temp[d] = "high" THEN "raise" ELSE "clear"] :
                      d \in {e \in Device : age[e] # "never" /\ temp[e] # "none"}}
<1>1. /\ wk[w] \in Evaluator /\ AtPc(w, "work") /\ wk[w].todo = {}
      /\ wk[w].phase = "online" \/ HasOfflineRule(w)
      /\ steady[w] \subseteq Device /\ UNCHANGED <<age, temp, rules, alerts, steady>>
  BY DEF ReadTemps, OfflineDone, Through, IInv, TypeOK
<1>2. /\ wk'[w].todo = todo /\ wk'[w].pc = "work" /\ wk'[w].phase = "temp"
      /\ wk'[w].cache = wk[w].cache
  BY <1>1 DEF ReadTemps, Become, IInv, TypeOK, Evaluator, AtPc
<1>3. \A i \in todo : TrueItem(i)
  BY DEF TrueItem
<1>4. ASSUME NEW d \in steady[w], ~TempOK(d) PROVE Waits(w, d, "high_temp")'
  <2>1. d \in Device /\ age[d] # "never" /\ temp[d] # "none"
    BY <1>1, <1>4 DEF TempOK
  <2> DEFINE j == [check |-> "high_temp", device |-> d, severity |-> "critical",
               verdict |-> IF temp[d] = "high" THEN "raise" ELSE "clear"]
  <2>2. j \in todo
    BY <2>1
  <2>3. j.device = d /\ j.check = "high_temp"
    OBVIOUS
  <2> HIDE DEF todo, j
  <2> QED
    BY <1>2, <2>2, <2>3 DEF Waits, Pending
<1> HIDE DEF todo
<1>5. ASSUME NEW d \in steady[w]
      PROVE  /\ RulesDone(w, d)' /\ RaisesDone(w, d)'
             /\ ClearsDone(w, d)' /\ TempsDone(w, d)'
  BY <1>1, <1>2, <1>4, <1>5, ThroughDone, ReadingFrame
  DEF RulesDone, RaisesDone, ClearsDone, TempsDone
<1> QED
  BY <1>1, <1>2, <1>3, <1>5, ReadingSettles

(***************************************************************************)
(* Everybody else, and the theorem                                         *)
(***************************************************************************)

\* Devices, rules and operators disturb only the device they act on.
LEMMA EnvironmentSettles ==
  ASSUME IInv, NEW w \in Worker, SettleInv(w), wk' = wk, RulesFixed,
         \A x \in Worker : steady'[x] \subseteq steady[x],
         \A a \in Alert : SameButMute(a),
         \A d : Quiet(d)' => /\ age'[d] = age[d] /\ temp'[d] = temp[d]
                             /\ Muted(d) => Muted(d)'
  PROVE  SettleInv(w)'
<1>1. \A d, c : SameAlerts(d, c)
  BY DEF SameAlerts, Active, SameButMute
<1>2. SameCycle(w) /\ Pending(w)' = Pending(w) /\ (Busy(w)' <=> Busy(w))
  BY DEF SameCycle, Pending, Busy, AtPc
<1>3. PhaseInv(w)'
  BY RulesByKept DEF SettleInv, PhaseInv, AtPc
<1>4. \A d : Quiet(d)' => Quiet(d)
  BY DEF Quiet
<1> QED
  BY <1>1, <1>2, <1>3, <1>4, FrameSettles

LEMMA ReportSettles ==
  ASSUME IInv, NEW w \in Worker, SettleInv(w), NEW e \in Device, Report(e) \/ FallSilent(e)
  PROVE  SettleInv(w)'
<1>1. /\ UNCHANGED <<rules, alerts, wk>> /\ Disturb(e)
      /\ \A d \in Device \ {e} : age'[d] = age[d] /\ temp'[d] = temp[d]
  BY DEF Report, FallSilent, IInv, TypeOK
<1>2. /\ \A x \in Worker : steady'[x] = steady[x] \ {e} /\ steady[x] \subseteq Device
      /\ \A d : Quiet(d)' => d \in Device \ {e}
  BY <1>1, DisturbKeeps DEF IInv, TypeOK, Quiet
<1>3. RulesFixed /\ (\A a \in Alert : SameButMute(a)) /\ (\A d : Muted(d) => Muted(d)')
  BY <1>1 DEF RulesFixed, SameButMute, Muted
<1> QED
  BY <1>1, <1>2, <1>3, EnvironmentSettles

LEMMA SwitchRuleSettles ==
  ASSUME IInv, NEW w \in Worker, SettleInv(w), NEW r \in Rule, SwitchRule(r)
  PROVE  SettleInv(w)'
<1>1. UNCHANGED <<age, temp, alerts, wk, steady>>
  BY DEF SwitchRule
<1>2. RulesFixed
  BY DEF SwitchRule, IInv, TypeOK, RuleRow, RulesFixed
<1>3. (\A a \in Alert : SameButMute(a)) /\ (\A d : Muted(d) => Muted(d)')
  BY <1>1 DEF SameButMute, Muted
<1> QED
  BY <1>1, <1>2, <1>3, EnvironmentSettles

LEMMA MuteSettles ==
  ASSUME IInv, NEW w \in Worker, SettleInv(w), NEW m \in Alert, Mute(m)
  PROVE  SettleInv(w)'
<1>1. UNCHANGED <<age, temp, rules, wk>> /\ Disturb(alerts[m].device)
  BY DEF Mute
<1>2. /\ \A x \in Worker : steady'[x] = steady[x] \ {alerts[m].device}
      /\ \A d : Quiet(d)' => d # alerts[m].device
  BY <1>1, DisturbKeeps DEF Quiet
<1>3. /\ \A a \in Alert : alerts[a] \in AlertRow
      /\ \A a \in Alert : alerts'[a] = IF a = m THEN [alerts[a] EXCEPT !.muted = ~@]
                                       ELSE alerts[a]
  BY DEF Mute, IInv, TypeOK
<1>4. \A a \in Alert : SameButMute(a)
  BY <1>3 DEF SameButMute, AlertRow
<1>5. \A d : d # alerts[m].device /\ Muted(d) => Muted(d)'
  BY <1>3 DEF Muted
<1>6. RulesFixed
  BY <1>1 DEF RulesFixed
<1> QED
  BY <1>1, <1>2, <1>4, <1>5, <1>6, EnvironmentSettles

LEMMA StillSettles ==
  ASSUME IInv, NEW w \in Worker, SettleInv(w), UNCHANGED vars
  PROVE  SettleInv(w)'
<1>1. RulesFixed /\ (\A a \in Alert : SameButMute(a)) /\ (\A d : Muted(d) => Muted(d)')
  BY DEF vars, RulesFixed, SameButMute, Muted
<1> QED
  BY <1>1, EnvironmentSettles DEF vars

LEMMA InitSInv == Init => SInv
BY IdleSettles DEF Init, Stopped, SInv, SettleInv, TrueInv, DoneInv, PhaseInv, Pending,
                   Busy, AtPc

(***************************************************************************)
(* The steps of the other workers                                          *)
(***************************************************************************)
LEMMA OverlapStays == [Next]_vars /\ overlap => overlap'
BY DEF Next, vars, Report, FallSilent, SwitchRule, Mute, Step, StartCycle, ReadLastSeen,
       ReadOffline, ReadOnline, ReadTemps, EndCycle, Clear, FindActive, Update, Insert, Push,
       FailTarget, FailCycle, Crash

LEMMA OthersStand ==
  ASSUME IInv, NEW v \in Worker, Step(v), NEW w \in Worker \ {v}
  PROVE  wk'[w] = wk[w]
<1>1. \E y : Become(v, y)
  BY DEF Step, StartCycle, ReadLastSeen, ReadOffline, ReadOnline, ReadTemps, EndCycle, Clear,
         FindActive, Update, Insert, Push, FailTarget, FailCycle, Crash
<1> QED
  BY <1>1 DEF Become, IInv, TypeOK

\* Another worker reads, waits, pushes, gives up, or begins a cycle in its turn.
LEMMA AsideSettles ==
  ASSUME IInv, NEW w \in Worker, SettleInv(w), wk'[w] = wk[w], steady'[w] = steady[w],
         UNCHANGED <<age, temp, rules>>, \A d, c : SameAlerts(d, c),
         \A d : Muted(d) => Muted(d)',
         \/ ~MidCycle(w)
         \/ \A x \in Worker : steady'[x] \subseteq steady[x]
  PROVE  SettleInv(w)'
<1>2. SameCycle(w) /\ Pending(w)' = Pending(w) /\ (Busy(w)' <=> Busy(w))
  BY DEF SameCycle, Pending, Busy, AtPc
<1>3. RulesFixed
  BY DEF RulesFixed
<1>4. PhaseInv(w)'
  BY <1>3, RulesByKept DEF SettleInv, PhaseInv, AtPc
<1>5. \A i \in Pending(w)' : Quiet(i.device)' => Quiet(i.device)
  BY <1>2, RestsEmpty DEF Quiet
<1> QED
  BY <1>2, <1>3, <1>4, <1>5, FrameSettles

LEMMA OthersSettle ==
  ASSUME IInv, SInv, [Next]_vars, InTurn', NEW v \in Worker, Step(v), NEW w \in Worker \ {v}
  PROVE  SettleInv(w)'
<1>1. InTurn /\ SettleInv(w) /\ SettleInv(v) /\ wk'[w] = wk[w]
  BY OverlapStays, OthersStand DEF SInv, InTurn
<1>2. MidCycle(v) => ~MidCycle(w)
  BY <1>1 DEF IInv, TurnInv
<1>3. ASSUME NEW i, Writes(v, i), MidCycle(v) PROVE SettleInv(w)'
  BY <1>1, <1>2, <1>3, WriteSettlesOthers
<1>4. CASE Update(v) \/ \E i \in wk[v].todo : Clear(v, i)
  BY <1>1, <1>3, <1>4, ClearWrites, UpdateWrites DEF Clear, Update, MidCycle, AtPc
<1>5. CASE \E b \in Alert : Insert(v, b)
  BY <1>3, <1>5, InsertWrites DEF Insert, MidCycle, AtPc
<1>6. ASSUME alerts' = alerts
      PROVE  (\A d, c : SameAlerts(d, c)) /\ \A d : Muted(d) => Muted(d)'
  BY <1>6 DEF SameAlerts, Active, Muted
<1>7. CASE StartCycle(v)
  <2>1. ~MidCycle(w)
    BY <1>7 DEF StartCycle, Overlaps, InTurn
  <2>2. steady'[w] = steady[w] /\ UNCHANGED <<age, temp, rules, alerts>>
    BY <1>7 DEF StartCycle, IInv, TypeOK
  <2> QED
    BY <1>1, <1>6, <2>1, <2>2, AsideSettles
<1>8. CASE \/ ReadLastSeen(v) \/ ReadOffline(v) \/ ReadOnline(v) \/ ReadTemps(v)
           \/ EndCycle(v) \/ FailCycle(v) \/ Crash(v)
           \/ \E i \in wk[v].todo : FindActive(v, i)
  <2>1. UNCHANGED <<age, temp, rules, alerts, steady>>
    BY <1>8 DEF ReadLastSeen, ReadOffline, ReadOnline, ReadTemps, EndCycle, FailCycle, Crash,
                FindActive
  <2> QED
    BY <1>1, <1>6, <2>1, AsideSettles
<1>9. CASE \E i \in wk[v].todo \cup {wk[v].item} : FailTarget(v, i)
  <2>1. /\ UNCHANGED <<age, temp, rules, alerts>> /\ steady'[w] = steady[w]
        /\ \A x \in Worker : steady'[x] \subseteq steady[x]
    BY <1>9 DEF FailTarget, IInv, TypeOK
  <2> QED
    BY <1>1, <1>6, <2>1, AsideSettles
<1>10. CASE Push(v)
  <2>1. \A a \in Alert : /\ alerts[a] \in AlertRow
                         /\ alerts'[a] \in {alerts[a], [alerts[a] EXCEPT !.pushes = @ + 1]}
    BY <1>10 DEF Push, IInv, TypeOK
  <2>2. \A a \in Alert : /\ alerts'[a].muted = alerts[a].muted
                         /\ alerts'[a].device = alerts[a].device
                         /\ alerts'[a].check = alerts[a].check
                         /\ alerts'[a].status = alerts[a].status
                         /\ alerts'[a].severity = alerts[a].severity
    BY <2>1 DEF AlertRow
  <2>3. UNCHANGED <<age, temp, rules, steady>>
    BY <1>10 DEF Push
  <2>4. (\A d, c : SameAlerts(d, c)) /\ \A d : Muted(d) => Muted(d)'
    BY <2>2 DEF SameAlerts, Active, Muted
  <2> QED
    BY <1>1, <2>3, <2>4, AsideSettles
<1> QED
  BY <1>4, <1>5, <1>7, <1>8, <1>9, <1>10 DEF Step

LEMMA StepSInv == IInv /\ SInv /\ [Next]_vars => SInv'
<1> SUFFICES ASSUME IInv, SInv, [Next]_vars, InTurn', NEW w \in Worker
             PROVE  SettleInv(w)'
  BY DEF SInv
<1>1. InTurn /\ SettleInv(w)
  BY OverlapStays DEF SInv, InTurn
<1>2. ASSUME NEW i, Writes(w, i) PROVE SettleInv(w)'
  BY <1>1, <1>2, WriteSettles
<1>3. CASE Update(w) \/ (\E i \in wk[w].todo : Clear(w, i)) \/ \E b \in Alert : Insert(w, b)
  BY <1>1, <1>2, <1>3, ClearWrites, UpdateWrites, InsertWrites
<1>4. CASE Step(w)
  BY <1>1, <1>3, <1>4, StopSettles, ReadLastSeenSettles, ReadOfflineSettles,
     ReadOnlineSettles, ReadTempsSettles, EndCycleSettles, FindActiveSettles, PushSettles,
     FailTargetSettles DEF Step
<1>5. ASSUME NEW v \in Worker, Step(v) PROVE SettleInv(w)'
  BY <1>4, <1>5, OthersSettle
<1> QED
  BY <1>1, <1>5, ReportSettles, SwitchRuleSettles, MuteSettles, StillSettles DEF Next

\* runOnce does what it is for: with any number of devices, rules and alerts, a cycle that
\* ends has opened and cleared what the devices nothing happened to call for, whatever
\* happened to the others and whichever targets failed; and it stays so through the cycles
\* of the workers that take over, finished or not.
THEOREM CyclesSettle == Spec => []CycleSettles
<1>1. SInv /\ []IInv /\ [][Next]_vars => []SInv
  BY StepSInv, PTL
<1>2. Spec => []SInv
  BY <1>1, InitSInv, Invariance, PTL DEF Spec
<1> QED
  BY <1>2, SettledAtEnd, Invariance, PTL
=============================================================================
