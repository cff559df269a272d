----------------------------- MODULE WorkOrders -----------------------------
(***************************************************************************)
(* One work order and its task list under requests that run at the same    *)
(* time (backend/src/services/workOrdersService.ts and repositories/       *)
(* workOrdersRepository.ts).  Every statement, begin and commit included,  *)
(* takes a connection of its own from the pool (config/db.ts): a request   *)
(* keeps its connection between two statements only while no query waits   *)
(* for one, so the transaction of setTasks is whole or not depending on    *)
(* who else is at work.                                                    *)
(*   The request's input, the organisation and site it looks up and the    *)
(* SLA dates only decide whether it is refused.                            *)
(***************************************************************************)
EXTENDS Naturals, Sequences

CONSTANTS
    Requests,       \* requests for this work order, each made once
    Conns,          \* the connections of the pool
    MaxTasks,       \* bound: tasks of a list
    None            \* no row, no connection, no new status

Statuses == {"open", "in_progress", "done", "cancelled"}
Row == [status : Statuses, dated : BOOLEAN]     \* dated: resolved_at is set

ASSUME WorkOrdersAssumption ==
    /\ MaxTasks \in Nat \ {0}
    /\ None \notin Requests \cup Conns
    /\ None \notin Statuses
    /\ None \notin Row

VARIABLES
    order,          \* the committed row of work_orders, or None
    tasks,          \* the committed rows of work_order_tasks: <<request, position>>
    tx,             \* connection -> the transaction open on it
    queue,          \* requests waiting for a connection, in order
    reqs,           \* request -> its progress
    stale,          \* history: an edit wrote over a row it had not read
    raced           \* history: see Contended

orderVars == <<order, tasks, tx, queue, reqs, stale, raced>>

Tasks == (Requests \cup {None}) \X (1..MaxTasks)

\* What a transaction has done so far, and whether a statement of it has failed.
Transaction == [open : BOOLEAN, sound : BOOLEAN, row : Row \cup {None},
                gone : SUBSET Tasks, new : SUBSET Tasks]
NoTx == [open |-> FALSE, sound |-> TRUE, row |-> None, gone |-> {}, new |-> {}]

\* A request's next or current statement, and what it has read.
Replacing == {"begin", "delete", "deleting", "add", "commit", "rollback"}
Request == [op : {"create", "edit", "tasks"}, want : Statuses \cup {None}, n : 0..MaxTasks,
            pc : {"new", "check", "insert", "update", "done"} \cup Replacing,
            conn : Conns \cup {None}, read : Row \cup {None},
            seen : SUBSET Tasks, added : 0..MaxTasks]
NewRequest == [op |-> "edit", want |-> None, n |-> 0, pc |-> "new", conn |-> None,
               read |-> None, seen |-> {}, added |-> 0]

ListOf(r) == {r} \X (1..reqs[r].n)

WorkOrdersTypeOK ==
    /\ order \in Row \cup {None}
    /\ tasks \in SUBSET Tasks
    /\ tx \in [Conns -> Transaction]
    /\ queue \in Seq(Requests)
    /\ reqs \in [Requests -> Request]
    /\ stale \in BOOLEAN
    /\ raced \in BOOLEAN

WorkOrdersInit ==
    /\ \/ order = None /\ tasks = {}
       \/ /\ order \in [status : {"open", "in_progress"}, dated : {FALSE}]
          /\ tasks = {<<None, 1>>}
    /\ tx = [c \in Conns |-> NoTx]
    /\ queue = <<>>
    /\ reqs = [r \in Requests |-> NewRequest]
    /\ stale = FALSE
    /\ raced = FALSE

-----------------------------------------------------------------------------
(* The pool *)

Busy == {reqs[r].conn : r \in Requests} \ {None}
At(r, pc) == reqs[r].pc = pc /\ reqs[r].conn # None

\* A new query takes a free connection, or waits for its turn.
Ask(r, req) ==
    \/ \E c \in Conns \ Busy :
          /\ reqs' = [reqs EXCEPT ![r] = [req EXCEPT !.conn = c]]
          /\ UNCHANGED queue
    \/ /\ Conns \subseteq Busy
       /\ reqs' = [reqs EXCEPT ![r] = req]
       /\ queue' = Append(queue, r)

\* r's statement is answered and its next one follows in the same turn of the
\* event loop: on the same connection, unless another query waits for it.
Continue(r, req) ==
    \/ /\ queue = <<>>
       /\ reqs' = [reqs EXCEPT ![r] = req]
       /\ UNCHANGED queue
    \/ /\ queue # <<>>
       /\ reqs' = [reqs EXCEPT ![r] = [req EXCEPT !.conn = None],
                               ![Head(queue)].conn = reqs[r].conn]
       /\ queue' = Append(Tail(queue), r)

\* r needs no more of the database, and its connection goes to the first that waits.
Finish(r) ==
    LET over == [NewRequest EXCEPT !.op = reqs[r].op, !.n = reqs[r].n, !.pc = "done"] IN
    \/ /\ queue = <<>>
       /\ reqs' = [reqs EXCEPT ![r] = over]
       /\ UNCHANGED queue
    \/ /\ queue # <<>>
       /\ reqs' = [reqs EXCEPT ![r] = over, ![Head(queue)].conn = reqs[r].conn]
       /\ queue' = Tail(queue)

GoOn(r, pc) == Continue(r, [reqs[r] EXCEPT !.pc = pc])

\* The pool closes a connection that has been idle for long; what is open on it
\* is rolled back.
CloseIdle(c) ==
    /\ c \notin Busy
    /\ tx[c] # NoTx
    /\ tx' = [tx EXCEPT ![c] = NoTx]
    /\ UNCHANGED <<order, tasks, queue, reqs, stale>>

-----------------------------------------------------------------------------
(* The database: read committed *)

RowOn(c) == IF tx[c].row # None THEN tx[c].row ELSE order
TasksOn(c) == (tasks \ tx[c].gone) \cup tx[c].new

\* A write joins the transaction open on its connection, or commits by itself.
Write(c, row, gone, new) ==
    \/ /\ tx[c].open /\ tx[c].sound
       /\ tx' = [tx EXCEPT ![c].row = IF row # None THEN row ELSE @,
                           ![c].gone = @ \cup (gone \cap tasks),
                           ![c].new = (@ \ gone) \cup new]
       /\ UNCHANGED <<order, tasks>>
    \/ /\ ~tx[c].open
       /\ order' = IF row # None THEN row ELSE order
       /\ tasks' = (tasks \ gone) \cup new
       /\ UNCHANGED tx

\* A row changed by another open transaction is waited for.
RowFree(c) == \A d \in Conns \ {c} : tx[d].row = None
TasksFree(c, ts) == \A d \in Conns \ {c} : tx[d].gone \cap ts = {}

\* commit of a failed transaction rolls it back; without one it does nothing.
Committed(c) ==
    IF tx[c].open /\ tx[c].sound
    THEN /\ order' = RowOn(c)
         /\ tasks' = TasksOn(c)
    ELSE UNCHANGED <<order, tasks>>

-----------------------------------------------------------------------------
(* The handlers *)

\* POST /work-orders, POST /alerts/:id/work-orders with its default tasks,
\* PATCH /work-orders/:id and PUT /work-orders/:id/tasks.
StartRequest(r) ==
    /\ reqs[r].pc = "new"
    /\ \/ /\ order = None
          /\ \A q \in Requests : reqs[q].op # "create"
          /\ \E n \in {0, MaxTasks} :
                Ask(r, [NewRequest EXCEPT !.op = "create", !.n = n, !.pc = "check"])
       \/ \E w \in Statuses \cup {None} :
             Ask(r, [NewRequest EXCEPT !.want = w, !.pc = "check"])
       \/ \E n \in 0..MaxTasks :
             Ask(r, [NewRequest EXCEPT !.op = "tasks", !.n = n, !.pc = "check"])
    /\ UNCHANGED <<order, tasks, tx, stale>>

MayBecome(from, to) ==
    \/ from = to
    \/ from = "open" /\ to \in {"in_progress", "cancelled"}
    \/ from = "in_progress" /\ to \in {"done", "cancelled"}

\* The reads of a handler find what it needs, and its checks pass.
Check(r) ==
    LET row == RowOn(reqs[r].conn) IN
    /\ At(r, "check")
    /\ \/ reqs[r].op = "create" /\ GoOn(r, "insert")
       \/ reqs[r].op = "tasks" /\ row # None /\ GoOn(r, "begin")
       \/ /\ reqs[r].op = "edit"
          /\ row # None
          /\ reqs[r].want # None => MayBecome(row.status, reqs[r].want)
          /\ Continue(r, [reqs[r] EXCEPT !.pc = "update", !.read = row])
    /\ UNCHANGED <<order, tasks, tx, stale>>

\* Something is missing or not allowed: 400 or 404.
Refuse(r) ==
    LET row == RowOn(reqs[r].conn) IN
    /\ At(r, "check")
    /\ reqs[r].op = "tasks" => row = None
    /\ Finish(r)
    /\ UNCHANGED <<order, tasks, tx, stale>>

InsertOrder(r) ==
    /\ At(r, "insert")
    /\ Write(reqs[r].conn, [status |-> "open", dated |-> FALSE], {}, {})
    /\ IF reqs[r].n > 0 THEN GoOn(r, "begin") ELSE Finish(r)
    /\ UNCHANGED stale

\* mutant: the status that was read decides, not the one the row gets.
DatesByOldStatus(r) == reqs[r].read.status = "done" /\ ~reqs[r].read.dated

\* updateWorkOrderDetails dates the row that becomes done from what it has read.
Dates(r) ==
    LET next == IF reqs[r].want # None THEN reqs[r].want ELSE reqs[r].read.status IN
    next = "done" /\ ~reqs[r].read.dated

UpdateOrder(r) ==
    LET c == reqs[r].conn
        row == RowOn(c)
        status == IF reqs[r].want # None THEN reqs[r].want ELSE row.status IN
    /\ At(r, "update")
    /\ RowFree(c)
    /\ IF row = None
       THEN UNCHANGED <<order, tasks, tx>>
       ELSE Write(c, [status |-> status, dated |-> row.dated \/ Dates(r)], {}, {})
    /\ Finish(r)
    /\ stale' = (stale \/ row # reqs[r].read)

\* mutant: the list is replaced without a transaction.
BeginNothing(r) ==
    /\ At(r, "begin")
    /\ GoOn(r, "delete")
    /\ UNCHANGED <<order, tasks, tx, stale>>

\* Inside a transaction that is open, begin is a warning.
Begin(r) ==
    LET c == reqs[r].conn IN
    /\ At(r, "begin")
    /\ tx[c].sound
    /\ tx' = [tx EXCEPT ![c].open = TRUE]
    /\ GoOn(r, "delete")
    /\ UNCHANGED <<order, tasks, stale>>

\* The delete starts: it removes the rows that it sees now.
StartDelete(r) ==
    /\ At(r, "delete")
    /\ reqs' = [reqs EXCEPT ![r].pc = "deleting", ![r].seen = TasksOn(reqs[r].conn)]
    /\ UNCHANGED <<order, tasks, tx, queue, stale>>

DeleteTasks(r) ==
    LET c == reqs[r].conn IN
    /\ At(r, "deleting")
    /\ TasksFree(c, reqs[r].seen)
    /\ Write(c, None, reqs[r].seen, {})
    /\ Continue(r, [reqs[r] EXCEPT !.pc = IF reqs[r].n = 0 THEN "commit" ELSE "add",
                                   !.seen = {}])
    /\ UNCHANGED stale

\* mutant: one task too many.
AddTaskPastEnd(r) ==
    LET i == reqs[r].added + 1 IN
    /\ At(r, "add")
    /\ Write(reqs[r].conn, None, {}, {<<r, i>>})
    /\ Continue(r, [reqs[r] EXCEPT !.pc = IF i > reqs[r].n THEN "commit" ELSE "add",
                                   !.added = i])
    /\ UNCHANGED stale

AddTask(r) ==
    LET i == reqs[r].added + 1 IN
    /\ At(r, "add")
    /\ Write(reqs[r].conn, None, {}, {<<r, i>>})
    /\ Continue(r, [reqs[r] EXCEPT !.pc = IF i = reqs[r].n THEN "commit" ELSE "add",
                                   !.added = i])
    /\ UNCHANGED stale

Commit(r) ==
    LET c == reqs[r].conn IN
    /\ At(r, "commit")
    /\ Committed(c)
    /\ tx' = [tx EXCEPT ![c] = NoTx]
    /\ Finish(r)
    /\ UNCHANGED stale

Rollback(r) ==
    /\ At(r, "rollback")
    /\ tx' = [tx EXCEPT ![reqs[r].conn] = NoTx]
    /\ Finish(r)
    /\ UNCHANGED <<order, tasks, stale>>

-----------------------------------------------------------------------------
(* Failures *)

\* A statement inside setTasks' try is followed by rollback, any other ends its handler.
GiveUp(r) ==
    IF reqs[r].pc \in {"delete", "deleting", "add", "commit"}
    THEN Continue(r, [reqs[r] EXCEPT !.pc = "rollback", !.seen = {}])
    ELSE Finish(r)

\* The database refuses a statement: the transaction around it is lost, and so is
\* every later statement of it.
StatementFails(r) ==
    LET c == reqs[r].conn IN
    /\ c # None /\ reqs[r].pc \notin {"commit", "rollback"}
    /\ tx' = [tx EXCEPT ![c].sound = ~tx[c].open]
    /\ GiveUp(r)
    /\ UNCHANGED <<order, tasks, stale>>

\* The connection breaks, before or after a commit was carried out, and the pool
\* puts a new one in its place.
ConnectionBreaks(r) ==
    LET c == reqs[r].conn IN
    /\ c # None
    /\ \/ UNCHANGED <<order, tasks>>
       \/ reqs[r].pc = "commit" /\ Committed(c)
    /\ tx' = [tx EXCEPT ![c] = NoTx]
    /\ GiveUp(r)
    /\ UNCHANGED stale

-----------------------------------------------------------------------------
\* Two requests replace the list at once, or a query has to wait for a connection
\* while one does: then a transaction may be torn, or carry another's writes.
Contended ==
    \E r \in Requests : /\ reqs[r].pc \in Replacing
                        /\ \/ queue # <<>>
                           \/ \E q \in Requests \ {r} : reqs[q].pc \in Replacing

WorkOrdersNext ==
    /\ \/ \E r \in Requests :
             \/ StartRequest(r)
             \/ Check(r) \/ Refuse(r)
             \/ InsertOrder(r) \/ UpdateOrder(r)
             \/ Begin(r) \/ StartDelete(r) \/ DeleteTasks(r) \/ AddTask(r)
             \/ Commit(r) \/ Rollback(r)
             \/ StatementFails(r) \/ ConnectionBreaks(r)
       \/ \E c \in Conns : CloseIdle(c)
    /\ raced' = (raced \/ Contended')

WorkOrdersSpec == WorkOrdersInit /\ [][WorkOrdersNext]_orderVars

-----------------------------------------------------------------------------
\* A task list is replaced at once or not at all: whatever fails half way, and
\* whatever edits run beside it, the tasks change only when one request commits,
\* and to that request's whole list.  Unless setTasks had to share its connections: a
\* query waited while a transaction was under way, or two replacements ran at once.
ReplacedAtOnce ==
    [][tasks' # tasks /\ ~raced' =>
         \E r \in Requests : reqs[r].pc = "commit" /\ tasks' = ListOf(r)]_orderVars

\* An order that is done has resolved_at, however many edits overwrite each other;
\* and one that has it is done, unless an edit wrote over a row it had not read.  Both
\* only until setTasks has had to share its connections: an edit that joins its
\* transaction is rolled back with it.
DoneIsDated ==
    order # None /\ ~raced =>
        /\ order.status = "done" => order.dated
        /\ order.dated => order.status = "done" \/ stale
=============================================================================
