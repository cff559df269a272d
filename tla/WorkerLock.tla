----------------------------- MODULE WorkerLock -----------------------------
(***************************************************************************)
(* The lease that keeps a worker single: the worker_locks row of one       *)
(* worker name, and the processes that take it, renew it on a timer and    *)
(* give it up (backend/src/repositories/workerLocksRepository.ts,          *)
(* backend/src/workers/alertsWorker.ts and mqttIngest.ts).                 *)
(*                                                                         *)
(* A process computes the expiry it asks for from its own clock before it  *)
(* sends the statement; the database compares expiries with its own.  Time *)
(* is counted in ticks and kept relative: a lease has ticks left, a timer  *)
(* is due in some ticks, a call has an age.                                *)
(*                                                                         *)
(* ownerId is a fresh uuid of each process, so a process that is started   *)
(* again is another member of Process.                                     *)
(***************************************************************************)
EXTENDS Integers

CONSTANTS
  Process,      \* the processes that are ever started for the worker
  None,         \* no row in worker_locks
  TTL,          \* lockTtlMs
  MinRenew,     \* the least renewal interval, 5 s in the code
  MaxLag,       \* a timer that fires later than this makes its process late
  MaxLatency,   \* so does a call that takes longer than this
  MaxBehind     \* bound: how far a process's clock is behind the database's

RenewEvery == IF TTL \div 2 < MinRenew THEN MinRenew ELSE TTL \div 2

ASSUME ProcessAssumption == None \notin Process
ASSUME TicksAssumption ==
  /\ TTL \in Nat /\ MinRenew \in Nat /\ MaxLag \in Nat /\ MaxLatency \in Nat
  /\ MaxBehind \in 0 .. TTL

\* the acquiring call, the renewal interval, the timer's lag and the renewing call fit
\* in the lease together; no WORKER_LOCK_TTL_SEC of 5 or less satisfies it
TimingOK == RenewEvery + MaxLag + 2 * MaxLatency + MaxBehind <= TTL

VARIABLES
  worker,    \* which of the two workers the lock is for
  lease,     \* the row: its owner, and how many ticks its expires_at is ahead
  proc,      \* where each process is in its life
  working,   \* is a cycle running, or the broker's client open
  due,       \* in how many ticks the renewal timer fires
  call,      \* the acquire or renew statement a process waits for
  late       \* history: live processes that have been later than the bounds above

vars == <<worker, lease, proc, working, due, call, late>>

Worker == {"alerts", "mqtt"}
Life   == {"new", "starting", "running", "stopping", "released", "down"}
NoCall == [op |-> "none", st |-> "none", left |-> -1, age |-> 0]
Free   == [owner |-> None, left |-> -1]

TypeOK ==
  /\ worker \in Worker
  /\ lease \in [owner : Process \cup {None}, left : -1 .. TTL]
  /\ proc \in [Process -> Life]
  /\ working \in [Process -> BOOLEAN]
  /\ due \in [Process -> -MaxLag .. RenewEvery]
  /\ call \in [Process -> [op : {"none", "acquire", "renew"},
                           st : {"none", "sent", "won", "lost"},
                           left : -1 .. TTL, age : 0 .. MaxLatency]]
  /\ late \in SUBSET Process

Init ==
  /\ worker \in Worker
  /\ lease = Free
  /\ proc = [i \in Process |-> "new"]
  /\ working = [i \in Process |-> FALSE]
  /\ due = [i \in Process |-> 0]
  /\ call = [i \in Process |-> NoCall]
  /\ late = {}

Live(i) == proc[i] \in {"starting", "running", "stopping", "released"}

\* mutant: the ttl in milliseconds is multiplied by a thousand again
SentSeconds(i, op, behind) ==
  [op |-> op, st |-> "sent", left |-> 1000 * TTL - behind, age |-> 0]

\* resolveExpiry and the statement that takes the expiry to the database
Sent(i, op, behind) == [op |-> op, st |-> "sent", left |-> TTL - behind, age |-> 0]

Start(i) ==
  /\ proc[i] = "new"
  /\ \E behind \in 0 .. MaxBehind :
       call' = [call EXCEPT ![i] = Sent(i, "acquire", behind)]
  /\ proc' = [proc EXCEPT ![i] = "starting"]
  /\ UNCHANGED <<worker, lease, working, due, late>>

\* mutant: on conflict do update, whatever the row's expiry
AcquireAlways(i) ==
  /\ call[i].op = "acquire" /\ call[i].st = "sent"
  /\ lease' = [owner |-> i, left |-> call[i].left]
  /\ call' = [call EXCEPT ![i].st = "won"]
  /\ UNCHANGED <<worker, proc, working, due, late>>

\* insert ... on conflict do update where expires_at < now() or owner_id = $2.
\* A statement the database has received is carried out even if its process has gone
Acquire(i) ==
  /\ call[i].op = "acquire" /\ call[i].st = "sent"
  /\ LET wins == lease.owner \in {None, i} \/ lease.left < 0 IN
     /\ lease' = IF wins THEN [owner |-> i, left |-> call[i].left] ELSE lease
     /\ call' = [call EXCEPT ![i].st = IF wins THEN "won" ELSE "lost"]
  /\ UNCHANGED <<worker, proc, working, due, late>>

\* the synchronous part of stop and shutdown: stopped is set, the timers are cleared
BeginStop(i) ==
  /\ proc' = [proc EXCEPT ![i] = IF @ \in {"starting", "running"} THEN "stopping" ELSE @]
  /\ due' = [due EXCEPT ![i] = 0]

\* the answer: startRenewLoop, then the first cycle (skipped once stopped is set) or
\* the broker's client (opened even while the process shuts down; the timer set then is
\* left out, it is gone at the exit that follows)
Started(i) ==
  /\ Live(i)
  /\ call[i].op = "acquire" /\ call[i].st = "won"
  /\ call' = [call EXCEPT ![i] = NoCall]
  /\ \/ /\ proc[i] = "starting"
        /\ proc' = [proc EXCEPT ![i] = "running"]
        /\ due' = [due EXCEPT ![i] = RenewEvery]
        /\ working' = [working EXCEPT ![i] = TRUE]
     \/ /\ proc[i] # "starting"
        /\ working' = [working EXCEPT ![i] = (worker = "mqtt")]
        /\ UNCHANGED <<proc, due>>
     \/ /\ worker = "mqtt"          \* initMqtt returned null: shutdown
        /\ BeginStop(i)
        /\ UNCHANGED working
  /\ UNCHANGED <<worker, lease, late>>

\* the lock is held by another: start returns and nothing keeps the process alive
StandDown(i) ==
  /\ Live(i)
  /\ call[i].op = "acquire" /\ call[i].st = "lost"
  /\ call' = [call EXCEPT ![i] = NoCall]
  /\ proc' = [proc EXCEPT ![i] = IF proc[i] = "starting" THEN "down" ELSE @]
  /\ UNCHANGED <<worker, lease, working, due, late>>

\* the renewal timer fires.  Bound: one call of a process at a time, a timer that
\* would fire while the last renewal is still open waits for its answer
Fire(i) ==
  /\ proc[i] = "running" /\ due[i] <= 0 /\ call[i].op = "none"
  /\ \E behind \in 0 .. MaxBehind :
       call' = [call EXCEPT ![i] = Sent(i, "renew", behind)]
  /\ due' = [due EXCEPT ![i] = RenewEvery]
  /\ UNCHANGED <<worker, lease, proc, working, late>>

\* update ... where owner_id = $2: the expiry is not looked at
Renew(i) ==
  /\ call[i].op = "renew" /\ call[i].st = "sent"
  /\ LET wins == lease.owner = i IN
     /\ lease' = IF wins THEN [lease EXCEPT !.left = call[i].left] ELSE lease
     /\ call' = [call EXCEPT ![i].st = IF wins THEN "won" ELSE "lost"]
  /\ UNCHANGED <<worker, proc, working, due, late>>

\* mutant: the count of renewed rows is ignored
RenewedAnyway(i) ==
  /\ Live(i)
  /\ call[i].op = "renew" /\ call[i].st \in {"won", "lost"}
  /\ call' = [call EXCEPT ![i] = NoCall]
  /\ UNCHANGED <<worker, lease, proc, working, due, late>>

\* the answer to a renewal: a lost lock stops the worker
Renewed(i) ==
  /\ Live(i)
  /\ call[i].op = "renew" /\ call[i].st \in {"won", "lost"}
  /\ call' = [call EXCEPT ![i] = NoCall]
  /\ IF call[i].st = "lost" THEN BeginStop(i) ELSE UNCHANGED <<proc, due>>
  /\ UNCHANGED <<worker, lease, working, late>>

\* a call throws, before the statement took effect or after: the worker stops
CallFails(i) ==
  /\ Live(i)
  /\ call[i].op # "none"
  /\ call' = [call EXCEPT ![i] = NoCall]
  /\ BeginStop(i)
  /\ UNCHANGED <<worker, lease, working, late>>

\* SIGINT or SIGTERM
Signal(i) ==
  /\ proc[i] \in {"starting", "running"}
  /\ BeginStop(i)
  /\ UNCHANGED <<worker, lease, working, call, late>>

\* releaseWorkerLock of stop and shutdown; a failure is logged and ignored
Release(i) ==
  /\ proc[i] = "stopping"
  /\ \/ lease' = IF lease.owner = i THEN Free ELSE lease
     \/ lease' = lease
  /\ proc' = [proc EXCEPT ![i] = "released"]
  /\ UNCHANGED <<worker, working, due, call, late>>

\* process.exit, or a crash: what the process was doing ends, except a statement the
\* database already has
Gone(i) ==
  /\ proc' = [proc EXCEPT ![i] = "down"]
  /\ working' = [working EXCEPT ![i] = FALSE]
  /\ \/ UNCHANGED call
     \/ call' = [call EXCEPT ![i] = NoCall]
  /\ due' = [due EXCEPT ![i] = 0]
  /\ late' = late \ {i}
  /\ UNCHANGED <<worker, lease>>
Exit(i)  == proc[i] = "released" /\ Gone(i)
Crash(i) == proc[i] \in {"starting", "running", "stopping"} /\ Gone(i)

\* a cycle of the alerts worker ends, and the next begins unless it was stopped
CycleEnds(i) ==
  /\ worker = "alerts" /\ Live(i) /\ working[i]
  /\ working' = [working EXCEPT ![i] = FALSE]
  /\ UNCHANGED <<worker, lease, proc, due, call, late>>
CycleStarts(i) ==
  /\ worker = "alerts" /\ proc[i] = "running" /\ ~working[i]
  /\ working' = [working EXCEPT ![i] = TRUE]
  /\ UNCHANGED <<worker, lease, proc, due, call, late>>

\* time passes for the leases and timers; a process that lets it pass beyond the
\* bounds, because it is paused or the database is slow, is late
Older(left) == IF left > -1 THEN left - 1 ELSE left
Overdue(i) ==
  \/ proc[i] = "running" /\ call[i].op = "none" /\ due[i] = -MaxLag
  \/ Live(i) /\ call[i].op # "none" /\ call[i].age = MaxLatency
Tick ==
  /\ lease' = [lease EXCEPT !.left = Older(@)]
  /\ due' = [i \in Process |-> IF proc[i] = "running" /\ due[i] > -MaxLag
                               THEN due[i] - 1 ELSE due[i]]
  /\ call' = [i \in Process |->
                IF call[i].op = "none" THEN call[i]
                ELSE [call[i] EXCEPT !.left = Older(@),
                                     !.age = IF @ < MaxLatency THEN @ + 1 ELSE @]]
  /\ late' = late \cup {i \in Process : Overdue(i)}
  /\ UNCHANGED <<worker, proc, working>>

\* what a live process, and the database for it, get done by themselves
Run(i) ==
  \/ Acquire(i) \/ Started(i) \/ StandDown(i)
  \/ Fire(i) \/ Renew(i) \/ Renewed(i)
  \/ Release(i) \/ Exit(i)

Next ==
  \/ \E i \in Process :
       \/ Start(i) \/ Run(i) \/ CallFails(i) \/ Signal(i) \/ Crash(i)
       \/ CycleEnds(i) \/ CycleStarts(i)
  \/ Tick

Fairness == WF_vars(Tick) /\ \A i \in Process : WF_vars(Run(i))
Spec == Init /\ [][Next]_vars /\ Fairness

(***************************************************************************)
(* Properties                                                              *)
(***************************************************************************)

\* If the timing is right, a process that was never late and has not begun to stop
\* holds the row, unexpired: two such processes never run side by side.
RunnerOwnsLease ==
  TimingOK => \A i \in Process : proc[i] = "running" /\ i \notin late =>
    lease.owner = i /\ lease.left >= 0

\* However late anyone is, a lease changes hands only after it has expired, or when
\* its owner gave it up while stopping.
NoTheft ==
  [][lease.owner # None /\ lease'.owner # lease.owner =>
       \/ lease.left < 0
       \/ lease'.owner = None /\ proc[lease.owner] = "stopping"]_vars

\* If the timing is right, two processes evaluate (or ingest) at once only when one of
\* them was late or is stopping: stop and shutdown give the lock away without waiting
\* for the cycle that is still under way.
OverlapHasCause ==
  TimingOK => \A i, j \in Process : i # j /\ working[i] /\ working[j] =>
    \E k \in {i, j} : k \in late \/ proc[k] \in {"stopping", "released"}

\* A worker that lost the lock while it was paused finds out and goes down: it does
\* not run on beside the new owner for ever.
OustedStops ==
  \A i \in Process : proc[i] = "running" /\ lease.owner # i ~> proc[i] = "down"

(***************************************************************************)
(* What the documents say and the code does not do                         *)
(***************************************************************************)

\* build-status-report.md, "non-owners log and exit/idle rather than double-run": no
\* two processes evaluate alerts, or ingest messages, at once.
NoDoubleRun ==
  \A i, j \in Process : working[i] /\ working[j] => i = j
=============================================================================
