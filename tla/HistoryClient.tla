--------------------------- MODULE HistoryClient ---------------------------
(***************************************************************************)
(* Heat pump history: requests are split into pages                        *)
(* (backend/src/services/heatPumpHistoryService.ts), each fetched from the *)
(* vendor behind a circuit breaker                                         *)
(* (backend/src/integrations/heatPumpHistoryClient.ts).  Requests          *)
(* interleave at every await; the breaker's counters are shared.           *)
(***************************************************************************)
EXTENDS SystemStatus, Sequences, FiniteSets

CONSTANTS
    Requests,       \* bound: requests under way at a time
    MaxFailures,
    OpenWindow,     \* OPEN_WINDOW_MS, in ticks
    PageRange,      \* maxPageHours
    MaxInstant,     \* bound: instants of the history are 0..MaxInstant
    Ranges          \* bound: the ranges asked for, none above the maximum

ASSUME HistoryAssumption ==
    /\ MaxFailures \in Nat \ {0}
    /\ OpenWindow \in Nat \ {0}
    /\ PageRange \in Nat \ {0}
    /\ MaxInstant \in Nat
    /\ Ranges \subseteq {f \in (0..MaxInstant) \X (0..MaxInstant) : f[1] <= f[2]}

VARIABLES
    consecutiveFailures,
    circuitOpenedAt,    \* or Never
    requests,           \* request -> its progress
    sentAt              \* history: when the call under way was sent, or Never

historyVars == <<consecutiveFailures, circuitOpenedAt, requests, sentAt>>

Instants == 0..MaxInstant
\* A finished request keeps its answer; the id then serves another request.
Steps == {"idle", "lookup", "fetch", "sent", "markSuccess", "markError",
          "markCaught", "markRefused", "answered", "failed"}
\* Statuses in which the open call to the vendor may still count for the breaker.
Counting == {"sent", "markSuccess", "markError"}

\* `blank`: the pages answered without a series
Progress == [pc : Steps, from : Instants, to : Instants, page : Nat, blank : SUBSET Nat,
             points : Seq(Instants), at : Stamp]

HistoryTypeOK ==
    /\ consecutiveFailures \in Nat
    /\ circuitOpenedAt \in Stamp
    /\ requests \in [Requests -> Progress]
    /\ sentAt \in [Requests -> Stamp]

Fresh == [pc |-> "idle", from |-> 0, to |-> 0, page |-> 1, blank |-> {},
          points |-> <<>>, at |-> Never]

HistoryInit ==
    /\ consecutiveFailures = 0
    /\ circuitOpenedAt = Never
    /\ requests = [r \in Requests |-> Fresh]
    /\ sentAt = [r \in Requests |-> Never]

-----------------------------------------------------------------------------
\* Pages.
Smaller(a, b) == IF a < b THEN a ELSE b

\* How many pages of PageRange the range takes; a short one is a single call.
PageCount(from, to) ==
    IF to - from <= PageRange THEN 1 ELSE (to - from + PageRange - 1) \div PageRange

\* mutant: pages do not share their ends.
SegmentApart(from, to, i) ==
    <<from + (i - 1) * (PageRange + 1), Smaller(from + i * PageRange, to)>>

\* chunkRange: the i-th segment, whose ends are shared with its neighbours.
Segment(from, to, i) ==
    <<from + (i - 1) * PageRange, Smaller(from + i * PageRange, to)>>

\* What the vendor holds of a range, both ends included, in order.
VendorSeries(from, to) == [i \in 1..(to - from + 1) |-> from + i - 1]

\* normalizeSeriesMap: in order of time, one point per timestamp.
Normalized(series) ==
    LET times == {series[i] : i \in DOMAIN series}
    IN  [i \in 1..Cardinality(times) |->
            CHOOSE t \in times : Cardinality({s \in times : s <= t}) = i]

-----------------------------------------------------------------------------
\* The breaker.
IsCircuitOpen ==
    circuitOpenedAt # Never /\ now - circuitOpenedAt < OpenWindow

RecordSuccess ==
    /\ consecutiveFailures' = 0
    /\ circuitOpenedAt' = Never

\* mutant: it takes one failure too many.
RecordFailureLate ==
    /\ consecutiveFailures' = consecutiveFailures + 1
    /\ circuitOpenedAt' =
         IF consecutiveFailures' > MaxFailures /\ circuitOpenedAt = Never
         THEN now ELSE circuitOpenedAt

RecordFailure ==
    /\ consecutiveFailures' = consecutiveFailures + 1
    /\ circuitOpenedAt' =
         IF consecutiveFailures' >= MaxFailures /\ circuitOpenedAt = Never
         THEN now ELSE circuitOpenedAt

SetPc(r, pc) == requests' = [requests EXCEPT ![r].pc = pc]
SetMark(r, pc) == requests' = [requests EXCEPT ![r].pc = pc, ![r].at = now]

-----------------------------------------------------------------------------
\* getHistoryForRequest: the range is checked, then the device is looked up.
Start(r, from, to) ==
    /\ requests[r].pc \in {"idle", "answered", "failed"}
    /\ <<from, to>> \in Ranges
    /\ requests' = [requests EXCEPT ![r] = [Fresh EXCEPT !.pc = "lookup",
                                                         !.from = from, !.to = to]]
    /\ UNCHANGED <<consecutiveFailures, circuitOpenedAt, sentAt, statusVars>>

Lookup(r) ==
    /\ requests[r].pc = "lookup"
    /\ SetPc(r, "fetch") \/ SetPc(r, "failed")
    /\ UNCHANGED <<consecutiveFailures, circuitOpenedAt, sentAt, statusVars>>

\* fetchHeatPumpHistory: refused while the circuit is open ...
Refuse(r) ==
    /\ requests[r].pc = "fetch"
    /\ IsCircuitOpen
    /\ SetMark(r, "markRefused")
    /\ UNCHANGED <<consecutiveFailures, circuitOpenedAt, sentAt, statusVars>>

\* ... and otherwise sent; the first call after the window resets the breaker.
Send(r) ==
    /\ requests[r].pc = "fetch"
    /\ ~IsCircuitOpen
    /\ IF circuitOpenedAt = Never
       THEN UNCHANGED <<consecutiveFailures, circuitOpenedAt>>
       ELSE consecutiveFailures' = 0 /\ circuitOpenedAt' = Never
    /\ sentAt' = [sentAt EXCEPT ![r] = now]
    /\ SetPc(r, "sent")
    /\ UNCHANGED statusVars

\* The vendor answers: the counters at once, the status row later.  A body that is
\* lost or aborted on the way, or cannot be parsed, counts as a page without points.
AnswerOk(r) ==
    /\ requests[r].pc = "sent"
    /\ RecordSuccess
    /\ \E lost \in {{}, {requests[r].page}} :
         requests' = [requests EXCEPT ![r].pc = "markSuccess", ![r].at = now,
                                      ![r].blank = @ \cup lost]
    /\ sentAt' = [sentAt EXCEPT ![r] = Never]
    /\ UNCHANGED statusVars

AnswerError(r) ==
    /\ requests[r].pc = "sent"
    /\ RecordFailure
    /\ SetMark(r, "markError")
    /\ sentAt' = [sentAt EXCEPT ![r] = Never]
    /\ UNCHANGED statusVars

\* A timeout or a network failure before the headers have come; also a status write
\* that throws inside the try, which the same catch counts as a failure of the vendor.
Catch(r) ==
    /\ requests[r].pc \in Counting
    /\ RecordFailure
    /\ SetMark(r, "markCaught")
    /\ sentAt' = [sentAt EXCEPT ![r] = Never]
    /\ UNCHANGED statusVars

\* The page counts; after the last one the pages are merged.
MarkSuccess(r) ==
    LET q == requests[r]
        segment == IF PageCount(q.from, q.to) = 1 THEN <<q.from, q.to>>
                                                  ELSE Segment(q.from, q.to, q.page)
        series == IF q.page \in q.blank THEN <<>> ELSE VendorSeries(segment[1], segment[2])
        fetched == q.points \o series
    IN  /\ q.pc = "markSuccess"
        /\ MarkHeatPumpHistorySuccess(q.at)
        /\ requests' = [requests EXCEPT ![r] =
             IF q.page < PageCount(q.from, q.to)
             THEN [q EXCEPT !.pc = "fetch", !.page = @ + 1, !.points = fetched, !.at = Never]
             ELSE [q EXCEPT !.pc = "answered", !.points = Normalized(fetched), !.at = Never]]
        /\ UNCHANGED <<now, consecutiveFailures, circuitOpenedAt, sentAt>>

\* One failing page fails the request.
MarkError(r) ==
    /\ requests[r].pc \in {"markError", "markCaught", "markRefused"}
    /\ MarkHeatPumpHistoryError(requests[r].at)
    /\ requests' = [requests EXCEPT ![r] = [Fresh EXCEPT !.pc = "failed"]]
    /\ UNCHANGED <<now, consecutiveFailures, circuitOpenedAt, sentAt>>

\* A status write outside the try throws: the request ends in an exception.
MarkThrows(r) ==
    /\ requests[r].pc \in {"markCaught", "markRefused"}
    /\ requests' = [requests EXCEPT ![r] = [Fresh EXCEPT !.pc = "failed"]]
    /\ UNCHANGED <<consecutiveFailures, circuitOpenedAt, sentAt, statusVars>>

HistoryNext ==
    \/ \E r \in Requests :
         \/ \E from, to \in Instants : Start(r, from, to)
         \/ Lookup(r) \/ Refuse(r) \/ Send(r)
         \/ AnswerOk(r) \/ AnswerError(r) \/ Catch(r)
         \/ MarkSuccess(r) \/ MarkError(r) \/ MarkThrows(r)
    \/ Tick /\ UNCHANGED historyVars

HistorySpec ==
    StatusInit /\ HistoryInit /\ [][HistoryNext]_<<statusVars, historyVars>>

-----------------------------------------------------------------------------
\* The code notices the end of the window only at the next call; the abstract
\* breaker rests as soon as it has passed, and counts only while it is closed.
BreakerState ==
    IF circuitOpenedAt = Never THEN "closed" ELSE IF IsCircuitOpen THEN "open" ELSE "rested"

Breaker == INSTANCE CircuitBreaker WITH
    Calls <- Requests,
    state <- BreakerState,
    fails <- IF circuitOpenedAt = Never THEN consecutiveFailures ELSE MaxFailures,
    trippedAt <- circuitOpenedAt,
    pending <- {r \in Requests : requests[r].pc \in Counting}

\* fetchHeatPumpHistory implements the breaker, failed status writes and all.
BreakerSpec == Breaker!Spec

\* The circuit closes before its window has passed only when the vendor answers
\* a call that had been sent before it opened: nothing is sent while it is open,
\* and no failure, refusal or status write closes it.
EarlyCloseIsAnOldAnswer ==
    [][(IsCircuitOpen /\ circuitOpenedAt' = Never) =>
         \E r \in Requests : /\ requests[r].pc = "sent"
                             /\ requests'[r].pc = "markSuccess"
                             /\ sentAt[r] <= circuitOpenedAt]_<<statusVars, historyVars>>

InPage(q, i, t) == q.from + (i - 1) * PageRange <= t /\ t <= q.from + i * PageRange

\* An answer has every point of the range, in order and once, except those of pages
\* whose body was lost, which the code takes for empty ones: no gap at a page's end,
\* no point twice, never the first pages alone, and a lost page costs no more than
\* the points no other page shares.
PagesMakeTheWhole ==
    \A r \in Requests : requests[r].pc = "answered" =>
        LET q == requests[r] IN
        /\ \A i, j \in DOMAIN q.points : i < j => q.points[i] < q.points[j]
        /\ {q.points[i] : i \in DOMAIN q.points} =
             {t \in q.from..q.to :
                \E i \in (1..PageCount(q.from, q.to)) \ q.blank : InPage(q, i, t)}
=============================================================================
