-------------------------- MODULE WorkerLock_proofs --------------------------
(***************************************************************************)
(* Proofs about WorkerLock for any number of processes, any ttl and any    *)
(* bounds on lateness.                                                     *)
(*                                                                         *)
(* RunnerOwnsLease is not inductive: that the lease outlives the next      *)
(* renewal depends on how far the timer is from firing and on the age of   *)
(* the call in flight.  Covered says by how much, at each place of a       *)
(* process in its renewal loop.                                            *)
(***************************************************************************)
EXTENDS WorkerLock, TLAPS

\* the lease of a process that is starting or running and was never late
Young(i)  == call[i].left >= TTL - MaxBehind - call[i].age
Fresh(i)  == lease.owner = i /\ lease.left >= TTL - MaxBehind - call[i].age
Covered(i) ==
  /\ proc[i] = "starting" =>
       /\ call[i].op = "acquire"
       /\ call[i].st = "sent" => Young(i)
       /\ call[i].st = "won" => Fresh(i)
  /\ proc[i] = "running" =>
       /\ lease.owner = i
       /\ call[i].op = "none" => lease.left >= due[i] + MaxLag + MaxLatency
       /\ call[i].op # "none" =>
            /\ call[i].op = "renew"
            /\ call[i].st = "sent" => Young(i) /\ lease.left >= MaxLatency - call[i].age
            /\ call[i].st = "won" => Fresh(i)
            /\ call[i].st \in {"sent", "won"}

IInv == TypeOK /\ (TimingOK => \A i \in Process \ late : Covered(i))

LEMMA RenewEveryType == RenewEvery \in Nat
BY TicksAssumption DEF RenewEvery

LEMMA CoveredOwns ==
  ASSUME TypeOK, TimingOK, NEW i \in Process, Covered(i), proc[i] = "running"
  PROVE  lease.owner = i /\ lease.left >= 0
<1>1. /\ due[i] \in -MaxLag .. RenewEvery /\ call[i].age \in 0 .. MaxLatency
      /\ lease.left \in -1 .. TTL
  BY DEF TypeOK
<1>2. CASE call[i].op = "none"
  BY <1>1, <1>2, TicksAssumption, RenewEveryType DEF Covered
<1>3. CASE call[i].op # "none"
  BY <1>1, <1>3, TicksAssumption, RenewEveryType DEF Covered, Fresh, TimingOK
<1> QED BY <1>2, <1>3 DEF Covered

\* A step that leaves a process and its lease alone keeps it covered.
LEMMA CoveredFrame ==
  ASSUME NEW i \in Process, Covered(i), proc'[i] = proc[i], due'[i] = due[i],
         call'[i] = call[i], lease'.owner = lease.owner, lease'.left = lease.left
  PROVE  Covered(i)'
BY DEF Covered, Young, Fresh

\* A process that is neither starting nor running is covered.
LEMMA CoveredIdle ==
  ASSUME NEW i \in Process, proc'[i] \notin {"starting", "running"}
  PROVE  Covered(i)'
BY DEF Covered

\* A statement of process i keeps the others covered if it changes the lease only
\* when i holds it or nobody does, or when it has expired.
LEMMA OthersCovered ==
  ASSUME TypeOK, TimingOK, NEW i \in Process, NEW j \in Process \ {i}, Covered(j),
         proc'[j] = proc[j], due'[j] = due[j], call'[j] = call[j],
         lease' = lease \/ lease.owner \in {None, i} \/ lease.left < 0,
         lease'.owner = j => lease' = lease
  PROVE  Covered(j)'
<1>1. CASE lease' = lease BY <1>1, CoveredFrame
<1>2. CASE lease' # lease
  <2>1. lease.owner # j \/ lease.left < 0 BY <1>2, ProcessAssumption
  <2>2. proc[j] # "running"
    <3>1. lease.left \in -1 .. TTL /\ j \in Process BY DEF TypeOK
    <3>2. proc[j] = "running" => lease.owner = j /\ lease.left >= 0
      BY <3>1, CoveredOwns
    <3> QED BY <2>1, <3>1, <3>2, TicksAssumption
  <2>3. proc[j] = "starting" /\ call[j].st = "won" => FALSE
    <3>1. /\ call[j].age \in 0 .. MaxLatency /\ lease.left \in -1 .. TTL BY DEF TypeOK
    <3>2. TTL - MaxBehind - call[j].age >= 0
      BY <3>1, TicksAssumption, RenewEveryType DEF TimingOK
    <3> QED BY <2>1, <3>1, <3>2, TicksAssumption DEF Covered, Fresh
  <2> QED BY <2>2, <2>3 DEF Covered, Young
<1> QED BY <1>1, <1>2

LEMMA InitIInv == Init => IInv
BY TicksAssumption, RenewEveryType
DEF Init, IInv, TypeOK, Covered, Worker, Life, NoCall, Free

\* one call record more, and the parts of it
LEMMA SentType ==
  ASSUME NEW i, NEW op \in {"acquire", "renew"}, NEW behind \in 0 .. MaxBehind
  PROVE  /\ Sent(i, op, behind) \in [op : {"none", "acquire", "renew"},
                                     st : {"none", "sent", "won", "lost"},
                                     left : -1 .. TTL, age : 0 .. MaxLatency]
         /\ Sent(i, op, behind).op = op /\ Sent(i, op, behind).st = "sent"
         /\ Sent(i, op, behind).age = 0
         /\ Sent(i, op, behind).left >= TTL - MaxBehind
BY TicksAssumption DEF Sent

LEMMA StartKeeps ==
  ASSUME IInv, NEW i \in Process, Start(i)
  PROVE  IInv'
<1>1. PICK behind \in 0 .. MaxBehind :
        call' = [call EXCEPT ![i] = Sent(i, "acquire", behind)]
  BY DEF Start
<1>2. TypeOK' BY <1>1, SentType DEF IInv, TypeOK, Start, Life
<1>3. /\ proc'[i] = "starting" /\ call'[i] = Sent(i, "acquire", behind)
      /\ late' = late /\ lease' = lease
      /\ \A j \in Process \ {i} : /\ proc'[j] = proc[j] /\ call'[j] = call[j]
                                  /\ due'[j] = due[j]
  BY <1>1 DEF IInv, TypeOK, Start
<1>4. Covered(i)' BY <1>3, SentType, TicksAssumption DEF Covered, Young
<1>5. ASSUME TimingOK, NEW j \in Process \ late PROVE Covered(j)'
  BY <1>3, <1>4, <1>5, CoveredFrame DEF IInv
<1> QED BY <1>2, <1>3, <1>5 DEF IInv, TimingOK

LEMMA AcquireKeeps ==
  ASSUME IInv, NEW i \in Process, Acquire(i)
  PROVE  IInv'
<1>0. call[i].left \in -1 .. TTL /\ call[i].op = "acquire" /\ call[i].st = "sent"
  BY DEF IInv, TypeOK, Acquire
<1>1. PICK wins \in BOOLEAN : wins <=> (lease.owner \in {None, i} \/ lease.left < 0)
  OBVIOUS
<1>2. /\ lease' = IF wins THEN [owner |-> i, left |-> call[i].left] ELSE lease
      /\ call' = [call EXCEPT ![i].st = IF wins THEN "won" ELSE "lost"]
      /\ UNCHANGED <<worker, proc, working, due, late>>
  BY <1>1 DEF Acquire
<1>3. TypeOK' BY <1>0, <1>2 DEF IInv, TypeOK
<1>4. /\ \A j \in Process \ {i} : call'[j] = call[j]
      /\ call'[i].op = "acquire" /\ call'[i].left = call[i].left
      /\ call'[i].age = call[i].age
      /\ call'[i].st = IF wins THEN "won" ELSE "lost"
  BY <1>0, <1>2 DEF IInv, TypeOK
<1>5. ASSUME TimingOK, NEW j \in Process \ late PROVE Covered(j)'
  <2>1. Covered(j) BY <1>5 DEF IInv
  <2>2. CASE j = i
    BY <1>0, <1>2, <1>4, <2>1, <2>2 DEF Covered, Young, Fresh
  <2>3. CASE j # i
    <3>1. lease' = lease \/ lease.owner \in {None, i} \/ lease.left < 0 BY <1>1, <1>2
    <3>2. lease'.owner = j => lease' = lease BY <1>2, <2>3
    <3> QED BY <1>2, <1>4, <1>5, <2>1, <2>3, <3>1, <3>2, OthersCovered DEF IInv
  <2> QED BY <2>2, <2>3
<1> QED BY <1>2, <1>3, <1>5 DEF IInv, TimingOK

LEMMA StartedKeeps ==
  ASSUME IInv, NEW i \in Process, Started(i)
  PROVE  IInv'
<1>1. /\ call' = [call EXCEPT ![i] = NoCall] /\ lease' = lease /\ late' = late
      /\ call[i].op = "acquire" /\ call[i].st = "won" /\ worker' = worker
  BY DEF Started
<1>2. /\ due' = [due EXCEPT ![i] = RenewEvery] \/ due' = [due EXCEPT ![i] = 0]
         \/ due' = due
      /\ working' = [working EXCEPT ![i] = TRUE] \/ working' = working
         \/ working' = [working EXCEPT ![i] = (worker = "mqtt")]
      /\ \E p \in Life : proc' = [proc EXCEPT ![i] = p] \/ proc' = proc
  BY DEF IInv, TypeOK, Started, BeginStop, Life
<1>3. TypeOK'
  <2>1. call' \in [Process -> [op : {"none", "acquire", "renew"},
                           st : {"none", "sent", "won", "lost"},
                           left : -1 .. TTL, age : 0 .. MaxLatency]]
    BY <1>1, TicksAssumption DEF IInv, TypeOK, NoCall
  <2>2. due' \in [Process -> -MaxLag .. RenewEvery]
    BY <1>2, TicksAssumption, RenewEveryType DEF IInv, TypeOK
  <2>3. working' \in [Process -> BOOLEAN]
    <3>1. (worker = "mqtt") \in BOOLEAN OBVIOUS
    <3>2. PICK b \in BOOLEAN : working' = [working EXCEPT ![i] = b] \/ working' = working
      BY <1>2, <3>1
    <3> QED BY <3>2 DEF IInv, TypeOK
  <2>4. proc' \in [Process -> Life]
    <3>1. PICK p \in Life : proc' = [proc EXCEPT ![i] = p] \/ proc' = proc BY <1>2
    <3> QED BY <3>1 DEF IInv, TypeOK
  <2> QED BY <1>1, <2>1, <2>2, <2>3, <2>4 DEF IInv, TypeOK
<1>4. \A j \in Process \ {i} : /\ proc'[j] = proc[j] /\ call'[j] = call[j]
                               /\ due'[j] = due[j]
  BY <1>1, <1>2 DEF IInv, TypeOK
<1>5. ASSUME TimingOK, NEW j \in Process \ late PROVE Covered(j)'
  <2>1. Covered(j) BY <1>5 DEF IInv
  <2>2. CASE j # i BY <1>1, <1>4, <2>1, <2>2, CoveredFrame
  <2>3. CASE j = i
    <3>1. CASE proc'[i] \notin {"starting", "running"}
      BY <2>3, <3>1, CoveredIdle
    <3>2. CASE proc'[i] \in {"starting", "running"}
      <4>1. proc[i] = "starting" /\ proc'[i] = "running" /\ due'[i] = RenewEvery
        BY <1>1, <2>1, <2>3, <3>2 DEF IInv, TypeOK, Started, BeginStop, Live, Covered
      <4>2. Fresh(i) /\ call[i].age \in 0 .. MaxLatency /\ lease.left \in -1 .. TTL
        BY <1>1, <2>1, <2>3, <4>1 DEF Covered, IInv, TypeOK
      <4>3. lease.left >= RenewEvery + MaxLag + MaxLatency
        BY <1>5, <4>2, TicksAssumption, RenewEveryType DEF Fresh, TimingOK
      <4>4. call'[i].op = "none" BY <1>1 DEF NoCall, IInv, TypeOK
      <4> QED BY <1>1, <2>3, <4>1, <4>2, <4>3, <4>4 DEF Covered, Fresh
    <3> QED BY <3>1, <3>2
  <2> QED BY <2>2, <2>3
<1> QED BY <1>1, <1>3, <1>5 DEF IInv, TimingOK

\* A step of one process that leaves the lease alone.
LEMMA LocalStep ==
  ASSUME IInv, NEW i \in Process, TypeOK', lease' = lease,
         late' = late \/ late' = late \ {i},
         TimingOK /\ i \notin late' => Covered(i)',
         \A j \in Process \ {i} : /\ proc'[j] = proc[j] /\ call'[j] = call[j]
                                  /\ due'[j] = due[j]
  PROVE  IInv'
<1>1. ASSUME TimingOK, NEW j \in Process \ late' PROVE Covered(j)'
  <2>1. CASE j = i BY <1>1, <2>1
  <2>2. CASE j # i
    <3>1. Covered(j) BY <1>1, <2>2 DEF IInv
    <3> QED BY <2>2, <3>1, CoveredFrame
  <2> QED BY <2>1, <2>2
<1> QED BY <1>1 DEF IInv, TimingOK

CallType == [op : {"none", "acquire", "renew"}, st : {"none", "sent", "won", "lost"},
             left : -1 .. TTL, age : 0 .. MaxLatency]

LEMMA NoCallType == NoCall \in CallType
BY TicksAssumption DEF NoCall, CallType

\* A call is over and its process stops, or was stopping already.
LEMMA StopKeeps ==
  ASSUME IInv, NEW i \in Process, BeginStop(i), call' = call \/ call' = [call EXCEPT ![i] = NoCall],
         UNCHANGED <<worker, lease, working, late>>
  PROVE  IInv'
<1>1. /\ proc' = [proc EXCEPT ![i] = IF @ \in {"starting", "running"} THEN "stopping" ELSE @]
      /\ due' = [due EXCEPT ![i] = 0]
  BY DEF BeginStop
<1>2. TypeOK'
  <2>1. call' \in [Process -> CallType] BY NoCallType DEF IInv, TypeOK, CallType
  <2>2. due' \in [Process -> -MaxLag .. RenewEvery]
    BY <1>1, TicksAssumption, RenewEveryType DEF IInv, TypeOK
  <2>3. proc' \in [Process -> Life] BY <1>1 DEF IInv, TypeOK, Life
  <2> QED BY <2>1, <2>2, <2>3 DEF IInv, TypeOK, CallType
<1>3. proc'[i] \notin {"starting", "running"} BY <1>1 DEF IInv, TypeOK
<1>4. Covered(i)' BY <1>3, CoveredIdle
<1>5. \A j \in Process \ {i} : /\ proc'[j] = proc[j] /\ call'[j] = call[j]
                               /\ due'[j] = due[j]
  BY <1>1 DEF IInv, TypeOK
<1> QED BY <1>2, <1>4, <1>5, LocalStep

LEMMA StandDownKeeps ==
  ASSUME IInv, NEW i \in Process, StandDown(i)
  PROVE  IInv'
<1>1. /\ proc' = [proc EXCEPT ![i] = IF proc[i] = "starting" THEN "down" ELSE @]
      /\ call' = [call EXCEPT ![i] = NoCall]
      /\ UNCHANGED <<worker, lease, working, due, late>>
      /\ call[i].op = "acquire"
  BY DEF StandDown
<1>2. TypeOK'
  <2>1. call' \in [Process -> CallType] BY <1>1, NoCallType DEF IInv, TypeOK, CallType
  <2>2. proc' \in [Process -> Life] BY <1>1 DEF IInv, TypeOK, Life
  <2> QED BY <1>1, <2>1, <2>2 DEF IInv, TypeOK, CallType
<1>3. TimingOK /\ i \notin late' => Covered(i)'
  <2>1. SUFFICES ASSUME TimingOK, i \notin late' PROVE Covered(i)' OBVIOUS
  <2>2. Covered(i) BY <1>1, <2>1 DEF IInv
  <2>3. proc[i] # "running" BY <1>1, <2>2 DEF Covered
  <2>4. proc'[i] \notin {"starting", "running"} BY <1>1, <2>3 DEF IInv, TypeOK
  <2> QED BY <2>4, CoveredIdle
<1>4. \A j \in Process \ {i} : /\ proc'[j] = proc[j] /\ call'[j] = call[j]
                               /\ due'[j] = due[j]
  BY <1>1 DEF IInv, TypeOK
<1> QED BY <1>1, <1>2, <1>3, <1>4, LocalStep

LEMMA FireKeeps ==
  ASSUME IInv, NEW i \in Process, Fire(i)
  PROVE  IInv'
<1>1. PICK behind \in 0 .. MaxBehind :
        call' = [call EXCEPT ![i] = Sent(i, "renew", behind)]
  BY DEF Fire
<1>2. /\ due' = [due EXCEPT ![i] = RenewEvery]
      /\ proc[i] = "running" /\ call[i].op = "none"
      /\ UNCHANGED <<worker, lease, proc, working, late>>
  BY DEF Fire
<1>3. TypeOK'
  <2>1. call' \in [Process -> CallType]
    BY <1>1, SentType DEF IInv, TypeOK, CallType
  <2>2. due' \in [Process -> -MaxLag .. RenewEvery]
    BY <1>2, TicksAssumption, RenewEveryType DEF IInv, TypeOK
  <2> QED BY <1>2, <2>1, <2>2 DEF IInv, TypeOK, CallType
<1>4. call'[i] = Sent(i, "renew", behind)
      /\ \A j \in Process \ {i} : /\ proc'[j] = proc[j] /\ call'[j] = call[j]
                                  /\ due'[j] = due[j]
  BY <1>1, <1>2 DEF IInv, TypeOK
<1>5. TimingOK /\ i \notin late' => Covered(i)'
  <2>1. SUFFICES ASSUME TimingOK, i \notin late' PROVE Covered(i)' OBVIOUS
  <2>2. Covered(i) BY <1>2, <2>1 DEF IInv
  <2>3. lease.left \in -1 .. TTL /\ due[i] \in -MaxLag .. RenewEvery
    BY DEF IInv, TypeOK
  <2>4. lease.owner = i /\ lease.left >= MaxLatency
    BY <1>2, <2>2, <2>3, TicksAssumption, RenewEveryType DEF Covered
  <2>5. call'[i].op = "renew" /\ call'[i].st = "sent" /\ call'[i].age = 0
        /\ call'[i].left >= TTL - MaxBehind
    BY <1>4, SentType
  <2> QED BY <1>2, <2>4, <2>5, TicksAssumption DEF Covered, Young
<1> QED BY <1>2, <1>3, <1>4, <1>5, LocalStep

LEMMA RenewKeeps ==
  ASSUME IInv, NEW i \in Process, Renew(i)
  PROVE  IInv'
<1>0. call[i].left \in -1 .. TTL /\ call[i].op = "renew" /\ call[i].st = "sent"
  BY DEF IInv, TypeOK, Renew
<1>1. PICK wins \in BOOLEAN : wins <=> lease.owner = i
  OBVIOUS
<1>2. /\ lease' = IF wins THEN [lease EXCEPT !.left = call[i].left] ELSE lease
      /\ call' = [call EXCEPT ![i].st = IF wins THEN "won" ELSE "lost"]
      /\ UNCHANGED <<worker, proc, working, due, late>>
  BY <1>1 DEF Renew
<1>3. TypeOK' BY <1>0, <1>2 DEF IInv, TypeOK
<1>4. /\ \A j \in Process \ {i} : call'[j] = call[j]
      /\ call'[i].op = "renew" /\ call'[i].left = call[i].left
      /\ call'[i].age = call[i].age
      /\ call'[i].st = IF wins THEN "won" ELSE "lost"
  BY <1>0, <1>2 DEF IInv, TypeOK
<1>5. lease'.owner = lease.owner /\ (wins => lease'.left = call[i].left)
  BY <1>2 DEF IInv, TypeOK
<1>6. ASSUME TimingOK, NEW j \in Process \ late PROVE Covered(j)'
  <2>1. Covered(j) BY <1>6 DEF IInv
  <2>2. CASE j = i
    <3>1. proc[i] # "starting" BY <1>0, <2>1, <2>2 DEF Covered
    <3>2. proc[i] = "running" => wins /\ Young(i) BY <1>0, <1>1, <2>1, <2>2 DEF Covered
    <3> QED BY <1>0, <1>1, <1>2, <1>4, <1>5, <2>2, <3>1, <3>2 DEF Covered, Young, Fresh
  <2>3. CASE j # i
    <3>1. lease' = lease \/ lease.owner \in {None, i} BY <1>1, <1>2
    <3>2. lease'.owner = j => lease' = lease BY <1>1, <1>2, <1>5, <2>3
    <3> QED BY <1>2, <1>4, <1>6, <2>1, <2>3, <3>1, <3>2, OthersCovered DEF IInv
  <2> QED BY <2>2, <2>3
<1> QED BY <1>2, <1>3, <1>6 DEF IInv, TimingOK

LEMMA RenewedKeeps ==
  ASSUME IInv, NEW i \in Process, Renewed(i)
  PROVE  IInv'
<1>1. /\ call' = [call EXCEPT ![i] = NoCall] /\ call[i].op = "renew"
      /\ UNCHANGED <<worker, lease, working, late>>
  BY DEF Renewed
<1>2. CASE call[i].st = "lost"
  BY <1>1, <1>2, StopKeeps DEF Renewed
<1>3. CASE call[i].st # "lost"
  <2>1. UNCHANGED <<proc, due>> /\ call[i].st = "won" BY <1>3 DEF Renewed
  <2>2. call' \in [Process -> CallType] BY <1>1, NoCallType DEF IInv, TypeOK, CallType
  <2>3. TypeOK' BY <1>1, <2>1, <2>2 DEF IInv, TypeOK, CallType
  <2>4. call'[i] = NoCall /\ \A j \in Process \ {i} : call'[j] = call[j]
    BY <1>1 DEF IInv, TypeOK
  <2>5. TimingOK /\ i \notin late' => Covered(i)'
    <3>1. SUFFICES ASSUME TimingOK, i \notin late' PROVE Covered(i)' OBVIOUS
    <3>2. Covered(i) BY <1>1, <3>1 DEF IInv
    <3>3. /\ lease.left \in -1 .. TTL /\ due[i] \in -MaxLag .. RenewEvery
          /\ call[i].age \in 0 .. MaxLatency
      BY DEF IInv, TypeOK
    <3>4. proc[i] # "starting" BY <1>1, <3>2 DEF Covered
    <3>5. proc[i] = "running" =>
            lease.owner = i /\ lease.left >= TTL - MaxBehind - call[i].age
      BY <1>1, <2>1, <3>2 DEF Covered, Fresh
    <3>6. proc[i] = "running" => lease.left >= due[i] + MaxLag + MaxLatency
      BY <3>1, <3>3, <3>5, TicksAssumption, RenewEveryType DEF TimingOK
    <3> QED BY <1>1, <2>1, <2>4, <3>4, <3>5, <3>6 DEF Covered, NoCall
  <2> QED BY <1>1, <2>1, <2>3, <2>4, <2>5, LocalStep
<1> QED BY <1>2, <1>3

LEMMA CallFailsKeeps ==
  ASSUME IInv, NEW i \in Process, CallFails(i)
  PROVE  IInv'
BY StopKeeps DEF CallFails

LEMMA SignalKeeps ==
  ASSUME IInv, NEW i \in Process, Signal(i)
  PROVE  IInv'
BY StopKeeps DEF Signal

LEMMA ReleaseKeeps ==
  ASSUME IInv, NEW i \in Process, Release(i)
  PROVE  IInv'
<1>1. /\ proc' = [proc EXCEPT ![i] = "released"]
      /\ UNCHANGED <<worker, working, due, call, late>>
      /\ \/ lease' = lease
         \/ lease.owner = i /\ lease' = Free
  BY DEF Release
<1>2. Free \in [owner : Process \cup {None}, left : -1 .. TTL]
  BY TicksAssumption DEF Free
<1>3. TypeOK' BY <1>1, <1>2 DEF IInv, TypeOK, Life
<1>4. ASSUME TimingOK, NEW j \in Process \ late PROVE Covered(j)'
  <2>1. CASE j = i
    <3>1. proc'[i] \notin {"starting", "running"} BY <1>1 DEF IInv, TypeOK
    <3> QED BY <2>1, <3>1, CoveredIdle
  <2>2. CASE j # i
    <3>1. Covered(j) /\ proc'[j] = proc[j] BY <1>1, <1>4, <2>2 DEF IInv, TypeOK
    <3>2. lease'.owner = j => lease' = lease BY <1>1, <2>2, ProcessAssumption DEF Free
    <3> QED BY <1>1, <1>4, <2>2, <3>1, <3>2, OthersCovered DEF IInv
  <2> QED BY <2>1, <2>2
<1> QED BY <1>1, <1>3, <1>4 DEF IInv, TimingOK

LEMMA GoneKeeps ==
  ASSUME IInv, NEW i \in Process, Gone(i)
  PROVE  IInv'
<1>1. /\ proc' = [proc EXCEPT ![i] = "down"] /\ due' = [due EXCEPT ![i] = 0]
      /\ working' = [working EXCEPT ![i] = FALSE]
      /\ call' = call \/ call' = [call EXCEPT ![i] = NoCall]
      /\ late' = late \ {i} /\ UNCHANGED <<worker, lease>>
  BY DEF Gone
<1>2. TypeOK'
  <2>1. call' \in [Process -> CallType] BY <1>1, NoCallType DEF IInv, TypeOK, CallType
  <2>2. due' \in [Process -> -MaxLag .. RenewEvery]
    BY <1>1, TicksAssumption, RenewEveryType DEF IInv, TypeOK
  <2>3. proc' \in [Process -> Life] /\ working' \in [Process -> BOOLEAN]
    BY <1>1 DEF IInv, TypeOK, Life
  <2> QED BY <1>1, <2>1, <2>2, <2>3 DEF IInv, TypeOK, CallType
<1>3. proc'[i] \notin {"starting", "running"} BY <1>1 DEF IInv, TypeOK
<1>4. Covered(i)' BY <1>3, CoveredIdle
<1>5. \A j \in Process \ {i} : /\ proc'[j] = proc[j] /\ call'[j] = call[j]
                               /\ due'[j] = due[j]
  BY <1>1 DEF IInv, TypeOK
<1> QED BY <1>1, <1>2, <1>4, <1>5, LocalStep

LEMMA CycleKeeps ==
  ASSUME IInv, NEW i \in Process, CycleEnds(i) \/ CycleStarts(i)
  PROVE  IInv'
<1>1. UNCHANGED <<worker, lease, proc, due, call, late>>
      /\ working' \in [Process -> BOOLEAN]
  BY DEF IInv, TypeOK, CycleEnds, CycleStarts
<1>2. TypeOK' BY <1>1 DEF IInv, TypeOK
<1>3. ASSUME TimingOK, NEW j \in Process \ late PROVE Covered(j)'
  BY <1>1, <1>3, CoveredFrame DEF IInv
<1> QED BY <1>1, <1>2, <1>3 DEF IInv, TimingOK

LEMMA TickKeeps ==
  ASSUME IInv, Tick
  PROVE  IInv'
<1>1. /\ lease \in [owner : Process \cup {None}, left : -1 .. TTL]
      /\ due \in [Process -> -MaxLag .. RenewEvery]
      /\ call \in [Process -> CallType]
  BY DEF IInv, TypeOK, CallType
<1>2. /\ lease' = [lease EXCEPT !.left = Older(lease.left)]
      /\ due' = [i \in Process |-> IF proc[i] = "running" /\ due[i] > -MaxLag
                                   THEN due[i] - 1 ELSE due[i]]
      /\ late' = late \cup {i \in Process : Overdue(i)}
      /\ UNCHANGED <<worker, proc, working>>
  BY DEF Tick
<1>3. /\ lease'.owner = lease.owner /\ lease'.left \in -1 .. TTL
      /\ lease'.left >= lease.left - 1
      /\ lease' \in [owner : Process \cup {None}, left : -1 .. TTL]
  BY <1>1, <1>2, TicksAssumption DEF Older
<1>4. call' = [i \in Process |->
                IF call[i].op = "none" THEN call[i]
                ELSE [call[i] EXCEPT !.left = Older(call[i].left),
                        !.age = IF call[i].age < MaxLatency THEN call[i].age + 1
                                ELSE call[i].age]]
  BY DEF Tick
<1>5. ASSUME NEW i \in Process
      PROVE  /\ call'[i] \in CallType
             /\ call'[i].op = call[i].op /\ call'[i].st = call[i].st
             /\ call'[i].left >= call[i].left - 1
             /\ call[i].op # "none" /\ call[i].age < MaxLatency =>
                  call'[i].age = call[i].age + 1
             /\ due'[i] \in -MaxLag .. RenewEvery
             /\ proc[i] = "running" /\ due[i] > -MaxLag => due'[i] = due[i] - 1
  <2>1. call[i] \in CallType /\ due[i] \in -MaxLag .. RenewEvery BY <1>1
  <2>2. due'[i] = IF proc[i] = "running" /\ due[i] > -MaxLag THEN due[i] - 1 ELSE due[i]
    BY <1>2
  <2>3. due'[i] \in -MaxLag .. RenewEvery
    BY <2>1, <2>2, TicksAssumption, RenewEveryType
  <2>4. CASE call[i].op = "none"
    <3>1. call'[i] = call[i] BY <1>4, <2>4
    <3> QED BY <2>1, <2>2, <2>3, <2>4, <3>1, TicksAssumption DEF CallType
  <2>5. CASE call[i].op # "none"
    <3>1. PICK l, a : /\ l = Older(call[i].left)
                      /\ a = IF call[i].age < MaxLatency THEN call[i].age + 1
                             ELSE call[i].age
      OBVIOUS
    <3>2. /\ l \in -1 .. TTL /\ l >= call[i].left - 1 /\ a \in 0 .. MaxLatency
          /\ call[i].age < MaxLatency => a = call[i].age + 1
      BY <2>1, <3>1, TicksAssumption DEF CallType, Older
    <3>3. call'[i] = [call[i] EXCEPT !.left = l, !.age = a] BY <1>4, <2>5, <3>1
    <3> QED BY <2>1, <2>2, <2>3, <2>5, <3>2, <3>3 DEF CallType
  <2> QED BY <2>4, <2>5
<1>6. call' \in [Process -> CallType] BY <1>4, <1>5
<1>7. due' \in [Process -> -MaxLag .. RenewEvery] BY <1>2, <1>5
<1>8. TypeOK' BY <1>2, <1>3, <1>6, <1>7 DEF IInv, TypeOK, CallType
<1>9. ASSUME TimingOK, NEW i \in Process, i \notin late' PROVE Covered(i)'
  <2>1. i \notin late /\ ~Overdue(i) BY <1>2, <1>9
  <2>2. Covered(i) BY <1>9, <2>1 DEF IInv
  <2>3. /\ call[i] \in CallType /\ due[i] \in -MaxLag .. RenewEvery
        /\ lease.left \in -1 .. TTL /\ call'[i] \in CallType
        /\ due'[i] \in -MaxLag .. RenewEvery
    BY <1>1, <1>5
  <2>4. /\ call[i].left \in Int /\ call[i].age \in 0 .. MaxLatency
        /\ call'[i].left \in Int /\ call'[i].age \in 0 .. MaxLatency
    BY <2>3, TicksAssumption DEF CallType
  <2>5. CASE proc[i] = "starting"
    <3>1. call[i].op = "acquire" BY <2>2, <2>5 DEF Covered
    <3>2. call[i].age < MaxLatency
      BY <2>1, <2>4, <2>5, <3>1, TicksAssumption DEF Overdue, Live
    <3>3. call'[i].age = call[i].age + 1 BY <1>5, <3>1, <3>2
    <3>4. proc'[i] = "starting" /\ call'[i].op = "acquire" /\ call'[i].st = call[i].st
          /\ call'[i].left >= call[i].left - 1
      BY <1>2, <1>5, <2>5, <3>1
    <3>5. call[i].st = "sent" => Young(i)'
      BY <2>2, <2>4, <2>5, <3>3, <3>4, TicksAssumption DEF Covered, Young
    <3>6. call[i].st = "won" => Fresh(i)'
      BY <1>3, <2>2, <2>3, <2>4, <2>5, <3>3, TicksAssumption DEF Covered, Fresh
    <3> QED BY <3>4, <3>5, <3>6 DEF Covered
  <2>6. CASE proc[i] = "running" /\ call[i].op = "none"
    <3>1. due[i] > -MaxLag BY <2>1, <2>3, <2>6, TicksAssumption DEF Overdue
    <3>2. due'[i] = due[i] - 1 /\ proc'[i] = "running" /\ call'[i].op = "none"
      BY <1>2, <1>5, <2>6, <3>1
    <3>3. lease.owner = i /\ lease.left >= due[i] + MaxLag + MaxLatency
      BY <2>2, <2>6 DEF Covered
    <3>4. lease'.left >= due'[i] + MaxLag + MaxLatency
      BY <1>3, <2>3, <3>2, <3>3, TicksAssumption, RenewEveryType
    <3> QED BY <1>3, <3>2, <3>3, <3>4 DEF Covered
  <2>7. CASE proc[i] = "running" /\ call[i].op # "none"
    <3>1. call[i].age < MaxLatency
      BY <2>1, <2>4, <2>7, TicksAssumption DEF Overdue, Live
    <3>2. call'[i].age = call[i].age + 1 BY <1>5, <2>7, <3>1
    <3>3. /\ proc'[i] = "running" /\ call'[i].op = call[i].op
          /\ call'[i].st = call[i].st /\ call'[i].left >= call[i].left - 1
      BY <1>2, <1>5, <2>7
    <3>4. /\ lease.owner = i /\ call[i].op = "renew" /\ call[i].st \in {"sent", "won"}
      BY <2>2, <2>7 DEF Covered
    <3>5. call[i].st = "sent" => Young(i)'
      BY <2>2, <2>4, <2>7, <3>2, <3>3, TicksAssumption DEF Covered, Young
    <3>6. call[i].st = "sent" => lease'.left >= MaxLatency - call'[i].age
      BY <1>3, <2>2, <2>3, <2>4, <2>7, <3>2, TicksAssumption DEF Covered
    <3>7. call[i].st = "won" => Fresh(i)'
      BY <1>3, <2>2, <2>3, <2>4, <2>7, <3>2, TicksAssumption DEF Covered, Fresh
    <3> QED BY <1>3, <2>7, <3>3, <3>4, <3>5, <3>6, <3>7 DEF Covered
  <2>8. CASE proc[i] \notin {"starting", "running"}
    BY <1>2, <2>8, CoveredIdle
  <2> QED BY <2>5, <2>6, <2>7, <2>8
<1> QED BY <1>8, <1>9 DEF IInv, TimingOK

LEMMA StepIInv == IInv /\ [Next]_vars => IInv'
<1> SUFFICES ASSUME IInv, [Next]_vars PROVE IInv' OBVIOUS
<1>1. ASSUME NEW i \in Process, Run(i) PROVE IInv'
  BY <1>1, AcquireKeeps, StartedKeeps, StandDownKeeps, FireKeeps, RenewKeeps,
     RenewedKeeps, ReleaseKeeps, GoneKeeps DEF Run, Exit
<1>2. ASSUME NEW i \in Process,
             Start(i) \/ CallFails(i) \/ Signal(i) \/ Crash(i) \/ CycleEnds(i)
             \/ CycleStarts(i)
      PROVE  IInv'
  BY <1>2, StartKeeps, CallFailsKeeps, SignalKeeps, GoneKeeps, CycleKeeps DEF Crash
<1>3. CASE Tick BY <1>3, TickKeeps
<1>4. CASE UNCHANGED vars
  <2>1. TypeOK' BY <1>4 DEF IInv, TypeOK, vars
  <2>2. ASSUME TimingOK, NEW i \in Process \ late PROVE Covered(i)'
    BY <1>4, <2>2, CoveredFrame DEF IInv, vars
  <2> QED BY <1>4, <2>1, <2>2 DEF IInv, TimingOK, vars
<1> QED BY <1>1, <1>2, <1>3, <1>4 DEF Next

-----------------------------------------------------------------------------
\* what NoTheft demands of a step
GivenUp ==
  lease.owner # None /\ lease'.owner # lease.owner =>
    \/ lease.left < 0
    \/ lease'.owner = None /\ proc[lease.owner] = "stopping"

LEMMA StepGivenUp ==
  ASSUME IInv, [Next]_vars
  PROVE  GivenUp
<1>1. ASSUME lease' = lease PROVE GivenUp BY <1>1 DEF GivenUp
<1>2. ASSUME NEW i \in Process, Acquire(i) PROVE GivenUp
  BY <1>2 DEF Acquire, GivenUp
<1>3. ASSUME NEW i \in Process, Renew(i) PROVE GivenUp
  BY <1>3 DEF IInv, TypeOK, Renew, GivenUp
<1>4. ASSUME NEW i \in Process, Release(i) PROVE GivenUp
  BY <1>4 DEF Release, Free, GivenUp
<1>5. CASE Tick
  <2>1. lease'.owner = lease.owner BY <1>5 DEF IInv, TypeOK, Tick
  <2> QED BY <2>1 DEF GivenUp
<1>6. ASSUME NEW i \in Process,
             \/ Start(i) \/ Started(i) \/ StandDown(i) \/ Fire(i) \/ Renewed(i)
             \/ CallFails(i) \/ Signal(i) \/ Gone(i) \/ CycleEnds(i) \/ CycleStarts(i)
      PROVE  GivenUp
  BY <1>1, <1>6
  DEF Start, Started, StandDown, Fire, Renewed, CallFails, Signal, Gone, CycleEnds,
      CycleStarts
<1> QED BY <1>1, <1>2, <1>3, <1>4, <1>5, <1>6 DEF Next, Run, Exit, Crash, vars

\* The induction behind the theorems below.
THEOREM Invariance == Spec => []IInv
BY InitIInv, StepIInv, PTL DEF Spec

\* Leases, timers and calls stay within their bounds whatever the processes do.
THEOREM TypeCorrect == Spec => []TypeOK
<1>1. IInv => TypeOK BY DEF IInv
<1> QED BY <1>1, Invariance, PTL

\* renewWorkerLock comes in time: with any number of processes, and any ttl that
\* satisfies TimingOK, a worker that is not late and not stopping holds the lock.
THEOREM RunnersOwnLease == Spec => []RunnerOwnsLease
<1>1. IInv => RunnerOwnsLease BY CoveredOwns DEF IInv, RunnerOwnsLease
<1> QED BY <1>1, Invariance, PTL

\* acquireWorkerLock never takes a lease that has not expired, and only its owner's
\* releaseWorkerLock ends it early, whatever the timing.
THEOREM LeasesAreNotStolen == Spec => NoTheft
<1>1. IInv /\ [Next]_vars => [GivenUp]_vars BY StepGivenUp
<1>2. [][GivenUp]_vars => NoTheft BY PTL DEF GivenUp, NoTheft
<1> QED BY <1>1, <1>2, Invariance, PTL DEF Spec

\* what works is up: only a process that was started works, and until it exits
WorkingInv ==
  \A i \in Process : working[i] => proc[i] \in {"running", "stopping", "released"}

LEMMA WorkingKept == TypeOK /\ WorkingInv /\ [Next]_vars => WorkingInv'
<1> SUFFICES ASSUME TypeOK, WorkingInv, [Next]_vars PROVE WorkingInv'
  OBVIOUS
<1> USE DEF TypeOK, WorkingInv
<1>1. ASSUME NEW i \in Process, Started(i) PROVE WorkingInv'
  BY <1>1 DEF Started, Live, BeginStop
<1>2. ASSUME NEW i \in Process, Gone(i) PROVE WorkingInv'
  BY <1>2 DEF Gone
<1>3. ASSUME NEW i \in Process, CycleEnds(i) \/ CycleStarts(i) PROVE WorkingInv'
  BY <1>3 DEF CycleEnds, CycleStarts
<1>4. ASSUME NEW i \in Process, Start(i) \/ StandDown(i) \/ Release(i) PROVE WorkingInv'
  BY <1>4 DEF Start, StandDown, Release
<1>5. ASSUME NEW i \in Process, CallFails(i) \/ Signal(i) \/ Renewed(i) PROVE WorkingInv'
  BY <1>5 DEF CallFails, Signal, Renewed, BeginStop
<1>6. ASSUME NEW i \in Process, Acquire(i) \/ Fire(i) \/ Renew(i) PROVE WorkingInv'
  BY <1>6 DEF Acquire, Fire, Renew
<1>7. CASE Tick \/ UNCHANGED vars
  BY <1>7 DEF Tick, vars
<1> QED
  BY <1>1, <1>2, <1>3, <1>4, <1>5, <1>6, <1>7 DEF Next, Run, Exit, Crash

\* What build-status-report.md says of workers that never double-run is so for any number
\* of processes that are on time and let their cycle end before they stop.
THEOREM OverlapsHaveCause == Spec => []OverlapHasCause
<1>1. Init => WorkingInv
  BY DEF Init, WorkingInv
<1>2. TypeOK /\ RunnerOwnsLease /\ WorkingInv => OverlapHasCause
  BY DEF RunnerOwnsLease, WorkingInv, OverlapHasCause
<1> QED
  BY <1>1, <1>2, WorkingKept, TypeCorrect, RunnersOwnLease, PTL DEF Spec
=============================================================================
