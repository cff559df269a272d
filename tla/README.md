# Greenbro heat-pump platform: TLA+ models

Formal models of the Greenbro heat-pump platform: `src/backend`, the Node/Express and Postgres
service with its two workers, and what the mobile app (`src/mobile`) and the web app (`src/web`)
keep of a session, of the phone's push registration and of the user's wish for alerts. The
modules are translated from the TypeScript; where a document and the code disagree the module
follows the code, and a run of its own shows the disagreement.

Two facts shape the modules. In the backend, `query` in `src/backend/src/config/db.ts` runs each
statement on a pooled connection with autocommit. There are no transactions around handlers (the
one exception is the subject of `WorkOrders`), so whatever a handler does in several statements
interleaves with every other handler, and can stop after any of them. In the apps, every `await`
of a request or of a storage lets other calls and effects run. So an action of a module is one
statement, request or storage access together with the synchronous code up to the next `await`.

## The system

| component | state it keeps | operations | what is hard |
|---|---|---|---|
| sessions and password reset (`services/authService.ts`, `modules/auth`) | `auth_sessions`, `refresh_tokens` (legacy), `password_reset_tokens`, `users.password_hash` | login, refresh with rotation, logout, logout-all, request and use a reset | concurrent refreshes of one token, sweeps against in-flight rotations, a crash between insert and revoke |
| worker lease (`repositories/workerLocksRepository.ts`, both files of `workers`) | a row of `worker_locks` per worker, timers of each process | acquire, renew, release, stop on signal | pauses beyond the TTL, late answers, a stop while a cycle runs |
| alert evaluation (`workers/alertsWorker.ts`, `services/alertService.ts`) | `alerts`, a cache of `alert_rules` | rules, offline and high-temperature checks, clear, push; acknowledge and mute by operators | readings that are old when used, find-then-insert without a unique index, lost pushes |
| device control (`services/deviceControlService.ts`) | `control_commands`, last error and attempt in memory | setpoint, mode | check-then-insert throttle, a channel that keeps and repeats commands, an answer that is lost |
| telemetry ingest (`services/telemetryIngestService.ts`, `integrations/mqttClient.ts`) | `telemetry_points`, `device_snapshots`, the MQTT client and its reconnect timer | handle a message, connect, reconnect with backoff | messages late or handled at once, a crash between points and snapshot, handlers of a replaced client |
| heat pump history (`integrations/heatPumpHistoryClient.ts`, `services/heatPumpHistoryService.ts`) | circuit breaker counters shared by all requests | split a range, fetch the pages, merge them | answers of calls sent before the circuit opened, a status write that fails and is taken for the vendor's failure |
| status and health (`services/statusService.ts`, `services/healthService.ts`) | a row of `system_status` | mark success or error, judge in `/health-plus` | marks written out of order |
| work orders (`services/workOrdersService.ts`, `repositories/workOrdersRepository.ts`) | `work_orders`, `work_order_tasks`, the connection pool | create, edit, replace the tasks | edits that overwrite each other, a transaction spread over pooled connections |
| files (attachments, documents; `controllers`, `services/virusScanner.ts`) | rows that list files, a temporary folder, the disk | upload, scan, move, list, delete | disk and tables that are kept in step by hand, names that collide |
| second factor (`modules/auth/twoFactorService.ts`) | three columns of `users` | set up, confirm, remove, log in with a code | a confirmation that activates what it did not check |
| mobile session (`app/store/authStore.ts`, `app/api/client.ts`, `App.tsx`) | tokens in memory and in the secure store | start, request with refresh on 401, login, sign-out | two stores of two keys each, calls of an old session, a kill between two writes |
| web session (`lib/authStore.ts`, `lib/api/httpClient.ts`, `app/(app)/layout.tsx`) | tokens per tab, one localStorage | bootstrap, request with a shared refresh, login, sign-out, timeout | a refresh in flight at a sign-out, tabs that overwrite each other |
| push registration (`hooks/usePushRegistration.ts`, `pushTokensRepository.ts`) | the server's row per push token, flags on the phone | register, sign out | late registrations, flags that outlive a sign-out |
| notification preferences (`api/preferences`, `userPreferencesService.ts`) | `user_preferences`; on the phone the query's data, the store and AsyncStorage | read at start, ask, switch, fall back | a change that fails after the copies were changed, answers for a user who has left |
| login rate limit, share links, schedules, fleet, search, exports, screens | one table or map each | single upserts and reads | little that interleaves; see "Not modelled" |

The components meet in the database and in a few calls: both workers take a lease; the
alerts worker reads what ingest writes and calls the push service; the apps drive the session
endpoints, and register the phone that the push service sends to; ingest and the history client
report to `system_status`, from which `/health-plus` judges them.

What makes each correct: no chain of rotations crosses a sweep, and a token handed out has retired the
one before (sessions); a lease is not taken from a live owner and an ousted owner stops (lease); alerts
are unique, agree with the devices and are pushed once (alerts); a row that says success is of a command
that left and was acknowledged, and the throttle holds (control); a snapshot has its points and goes
back only through disorder, and a worker that lost its broker comes back (ingest); an open circuit stays
open for its time, and an answer has all that its pages brought (history); a list of tasks is replaced
at once or not at all (work orders); a listed file is there, and clean (files); only a factor whose code
was shown is in force (second factor); a sign-out sticks, and nothing but a sign-out or a refusal signs
out (apps); the phone is registered for whom it believes (push); the switch shows what the server has
(preferences).

## Modules

Each component has a module. Components that share no state but a clock, or who is signed in, are put
together by a module that lets one of them move beside the others at rest: `part`, chosen at the start,
says which. That is sound because none reads what another writes, and it keeps the number of runs small
without multiplying their states. A module or composition has an `MC...` module that only extends it for
TLC (with the symmetry where the constants are interchangeable), configurations, and a `..._proofs`
module. Definitions that start with the comment "mutant" are wrong versions of the definition that
follows them. They are no part of `Next`; a run in which the definition is replaced by one of them
violates the property it is meant for, which shows that the property can fail.

### AuthSessions

`sessions`, `legacy`, `resets` and `password` are the tables; tokens are identified with the
rows they name, since a JWT is verified by signature and then looked up by its id. `issued` is
what clients have received, `expired` the tokens whose lifetime is over. A request is a record
of `reqs` whose `pc` is the next statement: a refresh goes `find`, `mark`, `insert`, `rotate`,
`reply`; a logout `find`, `mark`, `revoke`; logout-all `sweep`, `sweepLegacy`; a password
reset `burn`, `update`, then the same sweeps. `Fail` ends a request before any statement, which
stands for a statement that throws and for the death of the server. `epoch` and `origin` are
history: how often a user was swept, and which token a session was rotated from, when.

`RefreshTokens` is what the clients are promised, with the tables and the statements left out. A
request is admitted, on a password or on a token that is good at that moment, and answers with
a new token for the same user, once the token it was admitted on works no more. Tokens stop
working and expire; none works again. `AuthSessions` implements it (`PromiseSpec`): a token is
handed out there when its answer has left, it works while its row is not revoked, and a request
counts as admitted from the end of `verifyRefreshToken` or of the password check until it answers
or fails. Two things the promise leaves open are what the code does: two requests may be admitted on
one token, and an answer may carry a token that a logout-all has ended meanwhile.

### WorkerLock

One worker name (`worker` is `alerts` or `mqtt`, chosen at the start, since the two files differ
in what starts and stops with the lease), its row, and the processes that are ever started for
it. A process counts the expiry it asks for from its own clock before it sends the statement,
and is up to `MaxBehind` behind the database's. Time is in ticks; nothing forces a process to
be on time, but one that lets its timer or a call run beyond `MaxLag` or `MaxLatency` is
recorded in `late`. A statement the database has received is carried out even if its process
dies. `RenewEvery` is the code's half TTL with the floor of 5 seconds (`MinRenew`).

### AlertsWorker

Devices have the age of their snapshot, in the classes the code distinguishes, and a supply
temperature against the limit. A cycle is a sequence of readings (rules, offline devices,
online devices, temperatures) each followed by a loop; `todo` is the rest of the loop, and an
item takes one statement to clear, or a find, a write and possibly a push to raise. Devices
report, fall silent and are muted between any two. A failing target of a rule is skipped, any
other failure ends the cycle, as the `try` blocks have it. `steady` is history: the devices to
which nothing has happened, and for which no target was given up, since the cycle began.
`overlap` is history too: a cycle has begun while another worker was in the middle of one. There
may be any number of workers, and `InTurn` (no overlap so far) is what the lease is there to
ensure; it holds as well when one worker crashes in the middle of a cycle and another takes over.
What needs it says so, and what holds beside other evaluators too does not. `WorkerLock` says when
overlaps can happen: `OverlapHasCause`, and the run `worker_double_run`.

### DeviceControl

`setDeviceSetpoint` and `setDeviceMode` are the same steps and share `Step`: validation,
throttle, insert, send, record. A row's `age` is counted up to the window; `MaxAhead` is how far
the server's clock is ahead of the database's `requested_at`. `channel` is what the way to the pump
still holds. `publishCommand` publishes with qos 1 on a client that reconnects by itself, so a command
may wait for the broker, leave more than once (`Transmit`, up to `MaxCopies` times, the bound of a
run) and leave after its request has ended; an HTTP call leaves once at most, and the model allows it
the same. `Acknowledge` is the broker's PUBACK or an HTTP 2xx, which is all that `success` means: what
the broker or the vendor does with the command is outside the code. `SendFails` reports an error
whether or not a copy has left. `sent`, `saw` and `recent` are history.

### Integrations: SystemStatus, TelemetryIngest, MqttConnection, HistoryClient

`SystemStatus` has the clock of the backend, the four columns of the `system_status` row and the two
verdicts of `/health-plus`; the other three extend it. In `TelemetryIngest` a handler goes `find`,
`insert`, `upsert`, `ok` or `error`, and any message may arrive at any time, late or twice. `newest`,
`disordered` and `stored` are history. `MqttConnection` has one state per client of the mqtt library,
which is external: it connects once, may report errors, and closes; ids are used again, since a client
that has closed never acts again. The handlers of a replaced client act on the module's current `client`
and its one timer, as they do in the code. Two mishaps leave the worker deaf with no retry due, and
`Stuck` names the states they leave it in: the subscribe of the current, good connection failed
(`unheard`), or the connect of a replaced client, still open, has cancelled the retry of the current
one, which is closed. The properties except those states, not what comes after: when the connection that
causes it closes, the worker must find its way back. `HistoryClient` splits a range into pages and sends
each behind the breaker's shared counters; a request that throws inside the `try` is counted as a
failure of the vendor, whatever threw. A page whose body is lost, or does not parse, is an empty one,
and a success, as in the code; `blank` are those pages. `CircuitBreaker` is the abstract specification:
it knows calls that are let through, their successes and failures, and time. `Integrations` shows that
`HistoryClient` implements it (`BreakerSpec`): `state` is computed from `circuitOpenedAt` and the clock,
`pending` from the requests whose call may still count.

### Records: WorkOrders, StoredFiles, SecondFactor

`WorkOrders` is one order and its task list. `setTasks` sends `begin`, its statements and `commit`
through `pool.query`, and pg-pool gives a connection just released to the next query of the same
request unless another query waits: `queue` and `tx` model that, so a transaction is whole while
the pool has room and spread over connections when it has none. `raced` records the second, and
`stale` an edit that wrote over a row it had not read. `StoredFiles` has the bytes in the temporary
folder and on disk, the rows, and the handlers between them; both names are made of the millisecond,
so two uploads can meet. `mishaps` names what may set disk and rows apart (a name used twice, an
insert reported as failed that took place, a kill, a file that could not be unlinked).
`SecondFactor` is one user's three columns under setups, confirmations, removals and logins; a code
stands for the secret it was made from.

### Clients: SessionServer, MobileSession, WebSession, PushRegistration, NotificationPreferences

`SessionServer` is what the apps see of the sessions: a pair of tokens is issued, its access token
expires, a refresh checks that the pair is live and replaces it, everything may be revoked. It
abstracts `AuthSessions` (a refresh is its check, then its rotation, in two steps, so that two
refreshes of one token may both pass). `MobileSession` has the tokens in memory, the two keys of the
secure store, and calls that go through the interceptor: sent, refused, refreshing, storing key by
key, wiping key by key. A kill loses the memory and the calls. `crossed`, `calm` and `torn` are
history: an earlier session's call under way at a login; a refresh lost, refused, or beside another or
a sign-out; deletions of one call beside the saves of another, or cut short by a kill.
`WebSession` has tabs with their own memory, one localStorage, the refresh a tab's requests share,
and pages that bootstrap and unload; the layout asks for the profile when it is loaded, after a login
and at every navigation (`Navigate`), and any failure of that request signs out. `steady` is history:
no second tab was used, no answer was lost and no session was revoked.
`PushRegistration` is the effect of `usePushRegistration` step by step, against sign-ins, sign-outs
that remove the flags or fail to, new push tokens and late requests (`untidy`).
`NotificationPreferences` has four copies of one setting: the server's, the query's, the store's and
the one in AsyncStorage. Effects of React run in the step that causes them; reads of AsyncStorage
take their value when asked and are acted on later, whoever is signed in by then. `told` is the
users whose setting the phone was told; `quiet` turns when the copies may have been set at odds.

The history variables that name a mishap (`crossed`, `calm`, `torn`, `steady`, `untidy`, `quiet`,
`stale`, `raced`, `overtaken`, `disordered`, `blank`) are how the properties say under which
circumstances the code keeps its promise. A race that a property excepts is not shown to be harmless:
it is a behaviour of the code, in the model as well, that breaks the promise, and the list under "What
the models found" says for each what goes wrong.

## Runs

| run | bounds | shows |
|---|---|---|
| `auth_sessions` | 1 user, 3 sessions, 2 requests, 1 sweep, failures | `SweepEndsEveryChain`, `ReplacementSound`, `PromiseSpec` |
| `auth_reset` | 2 users, 1 session, 1 legacy token, 1 reset, 2 passwords, 2 requests, failures | `LogoutIsEffective`, `BurnBeforeChange` |
| `auth_legacy` | 1 request | `LegacyRefreshServed` fails |
| `worker_lock` | 2 processes, TTL of 6 ticks, renewal every 3 | `RunnerOwnsLease`, `OustedStops` |
| `worker_double_run` | 2 processes | `NoDoubleRun` fails |
| `alerts` | 2 evaluators, 1 device, 1 rule of any kind, 2 alerts, failures; a second evaluator only where no rule applies | `OneActive`, `CycleSettles`, `PushesOnce`, `ClearedIsHistory`, `MuteOutlivesAlert` |
| `alerts_escalation` | 1 device, 1 alert, no failures | `CriticalIsPushed` fails |
| `device_control` | 1 device, 3 commands of 2 copies, 2 requests, window of 2 ticks, failures | `AuditIsTrue`, `OnlyOverlapEscapes` |
| `throttle_race` | 1 device, 2 commands, 2 requests | `Throttled` fails |
| `integrations` | 1 device, 2 handlers, timestamps 1..2; 3 MQTT clients, backoff up to 2; 2 requests, 3 failures, window of 2 ticks, pages of 2 hours, ranges of one page and of three; a clock of 3 ticks | `SnapshotHasPoints`, `OnlyDisorderSetsBack`, `IngestHealthIsEarned`, `NeverStranded`, `PagesMakeTheWhole`, `Recovers`, `BreakerSpec` |
| `clients` | 2 users; 3 pairs of tokens; 2 calls; 2 tabs of 2 requests; 2 registrations, 2 push tokens; 2 changes of the setting | `SignOutSticks`, `ShownUserOwnsTokens`, `OnlyMishapsSignOut`, `WebSignOutSticks`, `OneTabKeepsSession`, `FlagsTellTheTruth`, `SwitchTellsTheTruth`, `DisabledStaysSilent` |
| `records` | 3 requests, 2 connections, lists of 2 tasks; 2 uploads in 3 ms; 5 requests for a second factor, 2 secrets | `DoneIsDated`, `ReplacedAtOnce`, `DiskMatchesRows`, `FactorIsProved` |

Why the bounds are enough. A race on a session needs two requests and, for a chain, a parent, a
child and a grandchild: three ids. Cross-user confusion needs two users, and is checked in the
run that has the logouts. Of the lease, two processes show every contest; a third could only
wait. With one device, two alert ids allow a second row for one check and an alert beside one
that was cleared; the checks of different devices share no rows. A second evaluator beside a rule
takes more states than a run has time for, so `alerts` lets one in, beside the first or after its
crash, only while the rule is off and the device has no temperature (`Explored`): the offline check
alone finds, inserts, updates, clears and pushes. The theorems cover any number of workers with any
rules. Three commands give one that was seen by the throttle, one that was not, and one that is
refused; the throttle looks at one device, and rows of different devices share nothing. Two copies of
a command are one too many. Two handlers of one device are all that can disorder a snapshot; three clients of the broker give one
replaced, one current and one to come; two requests of three pages can open the circuit under each
other, and a window of two ticks passes within the clock. Three requests on two connections are the
least that make a query wait, which is what splits a transaction. Two calls of the mobile app, two
requests of a tab and two tabs race in every pair; three pairs of tokens are a login and two
refreshes, or two logins and a refresh. Two users make one who left and one who came.

The `clients` run does not go on from a state in which `untidy` or `quiet` has told of a mishap or
`steady` is lost (`StillPromised`): these never turn back, and nothing is promised of that app any
more. Of the mobile app it goes on until both `crossed` and `torn` have turned, since
`ShownUserOwnsTokens` holds without `calm` and `torn`, and `SignOutSticks` without `calm` and
`crossed`.

Ids run out in these bounds: a request or a cycle that needs another one waits for ever, so the runs with ids do not
check deadlock. `worker_lock` and `worker_double_run` do check it: time always passes.

Fairness is assumed in two modules. `WorkerLock`: `WF(Tick)`, time passes, and `WF(Run(i))` for
each process, which covers what the event loop and the database do by themselves (a statement that
was sent is carried out, an answer is handled, a due timer fires, a stopping process releases
and exits). Crashes, signals, failures of a call and the start of a process are not fair.
`MqttConnection`: `WF` of `InitConnection`, since a timer that is set fires, and for each client
`WF(OnConnect \/ OnClose)`, since an attempt to connect ends one way or the other and the mqtt
library reports it. `Recovers` needs one assumption of the world, that from some time on nothing
fails (`calm`, a step of the environment that need not happen), and promises that the worker then
listens, or is stuck in one of the two ways. The other modules are about safety
alone: nothing makes a client send a request.

### Disagreements

* `auth_legacy`: a refresh with a token of the old table ends in an error for good.
  `issueTokens` writes the id of the new `auth_sessions` row into `refresh_tokens.replaced_by`, a
  foreign key to `refresh_tokens` itself. `authService.ts:247` says the fallback is there "to
  avoid breaking existing sessions".
* `worker_double_run`: `docs/build-status-report.md:9` says non-owners exit "rather than
  double-run". A stopping worker releases the lease before its cycle, or its MQTT client, has
  ended, and the next owner works beside it.
* `alerts_escalation`: `backend/README.md:12` says of offline alerts "only critical sends
  push". Only an alert that opens as critical is pushed; one that opens at 10 minutes and
  becomes critical at 60, the ordinary case, never is.
* `throttle_race`: `backend/README.md:13` says the throttle "bounds repeat commands to the same
  device". Requests that overlap between the check and the insert all pass.

### What the models found

Behaviours outside the promises above, met while the modules were written. Where no document says
otherwise they are exceptions in a property.

* Preferences: five minutes after the profile screen was closed its query data is dropped. When it
  is opened again, or opened before the storage has answered, the default "on" is taken for fresh
  data: it is shown, stored and acted on, though the user has switched alerts off, and is not
  corrected before the data is older than 30 s and the screen is opened once more
  (`hooks.ts:61`). Tests run with both times at zero. `docs/repo-overview.md:52` says the
  registration "skips registration when backend prefs disable alerts": after a sign-in the storage is
  empty and the backend is asked by the profile screen only, so the phone registers; and
  `sendAlertNotification` sends to every registered token whatever `alerts_enabled` is. A failed change
  puts back what it found, over an answer or another change that came between, and an answer for a user
  who has left may be stored for the one who came.
* Mobile: two calls that are refused together each refresh; the second to rotate is refused by the
  server, and its failure clears the tokens that the first has stored, so that an expired access token
  signs the user out (`client.ts:47`). A sign-out does not stop a refresh in flight: when its answer
  comes the memory has tokens again and the store has keys of them, without a user; if the deletions
  and the saves mix, store and memory disagree, and the next start may sign in (`authStore.ts:68`,
  `:103`). A refresh that is lost, or an answer without tokens, signs out.
* Mobile: a login that is killed between its two writes may leave another session's refresh token, and
  a sign-out that is killed between its two deletions the refresh token of the user who left; an
  answer of `/auth/me` after a sign-out shows a user without tokens; calls of an earlier session may
  store, or clear, over a login; a wrong password at a login reports an expired session; a sign-out
  neither calls `/auth/logout` nor unregisters the phone.
* Push: a sign-out whose removal of the flags fails, or that overtakes a registration on its way,
  leaves flags that name a row of another user, and the phone skips a registration it needs.
* Web: a refresh in flight at a sign-out stores a session again; tabs overwrite each other's tokens; a
  wrong password in one tab clears the storage of all; an unreachable or failing API signs out at the
  start and at any navigation of an app that was ready, for the layout then asks for the profile again
  and takes any error for the end of the session (`layout.tsx:145`).
* Control: a command published with qos 1 may arrive twice, and one whose row says failed may still
  leave, when the broker is back; `success` says that the broker, or the vendor's server, has taken the
  command, not that the pump has (`deviceControlService.ts:185`).
* Alerts: an alert can be raised, or pushed, from a reading that is old by then, also after a mute that
  was set in the middle of the cycle; overlapping cycles open two.
* Telemetry: a late message, or two at once, set `last_seen_at` and the snapshot back to an older
  reading. Marks of `system_status` are written in the order the handlers end, an old one over a newer.
* Sessions: a refresh that was checked before a logout-all inserts its session after it, and that session
  lives on. A worker lease with a TTL of 5 s or less expires before its first renewal.
* MQTT: a subscribe that fails is only logged (`mqttClient.ts:160`) and not tried again, so the worker
  stays connected and deaf until that connection closes. The `close` of a replaced client starts an
  attempt beside a live client; its `connect` cancels the timer and subscribes on the current client, so
  that a closed current client is not retried while the replaced one stays open.
* History: a body that is lost or cut short after good headers, or does not parse, counts as a success
  without points (`heatPumpHistoryClient.ts:340`): the answer has a gap, nothing says so, and the
  breaker's failures are forgotten. The answer to a call sent before the circuit opened closes it.
* History: a failed write of `system_status` after a good answer counts as a failure of the vendor.
* Work orders: with the pool saturated other requests' statements join the transaction of `setTasks`
  and are rolled back with it; two replacements at once merge their lists; an edit that read an old
  row takes an order out of "done" and leaves its date.
* Files: a failed move may unlink another upload's file; an early answer leaves the temporary file; an
  insert reported as failed that took place leaves a row without a file; a kill between two steps, or
  a file that cannot be unlinked, leaves a file that no row lists.
* Second factor: two confirmations at once enable a null secret, after which no login succeeds; a
  setup or a removal that comes between the check of a code and its activation has a secret enabled
  that nobody has shown.

## Proofs

TLAPS checks the proofs modules for every value of the constants under the named `ASSUME`s,
which only say that the sets of ids are disjoint and that the bounds are numbers.

* `AuthSessions_proofs`. `IInv` is `TypeOK`, `RowsInv`, `IssuedInv` and `ReqsInv`: what a stored row may
  look like (a revoked row has a reason, a named successor has this row as its parent), what has been
  handed out, and, for each request, what its `pc` lets it rely on, such as a row read as present, or a
  fresh id that no other request has. The last part is not inductive by itself, because other requests
  change the rows between two statements. `Grows` states what every statement leaves true for the others
  (rows are never removed, revocation and `replaced_by` are never undone, tokens never become valid
  again), and is proved once per action. Every property of both passing runs is a theorem, and so are
  `RevocationIsPermanent` and `RotationRetiresParent`, which no run checks (an answer without its
  rotation violates `PromiseSpec` too).
* `KeepsPromise`, in the same module, is the refinement, `Spec => PromiseSpec`. An answer is a step of
  the promise only if its token was given to nobody before, belongs to the user the request was let
  through for, and the old token is dead by then. `HandInv` adds these to `IInv`: between insert and
  answer the fresh id is the request's alone, is not handed out and is a row of its user (`FreshIsOwn`),
  and a refresh at its answer has retired the row it carries (`Handing`). `OwnersStay` says that no
  statement moves a row to another user, so what was handed out stays whose it was. Then each action is
  a step of `RefreshTokens` or leaves all it shows unchanged.
* `WorkerLock_proofs`. `IInv` adds to the types that, if `TimingOK` holds, each process that is not late
  is `Covered`: while it runs, the row is its own and has at least as many ticks left as its next
  renewal may take; while a call is open, the expiry it carries is counted against the age of the call.
  `RunnerOwnsLease` alone says nothing of the ticks left and is lost at the next tick. `TypeOK`,
  `RunnerOwnsLease` and `NoTheft` (a step of one process never takes a lease another still holds; no run
  checks it) are theorems; `OustedStops` needs fairness and is only model-checked. `OverlapHasCause` is
  the true part of what `NoDoubleRun` claims: two processes work at once only when one was late, or is
  stopping and has given its lease away before its cycle was over. It follows from `RunnerOwnsLease` and
  `WorkingInv` (who works has been started and has not exited); no run checks it, the two processes of
  `worker_lock` were checked for it.
* `DeviceControl_proofs`. `IInv` adds to the two properties what a request knows of the row it carries,
  which no other request shares (still pending; at a success, that a copy has left), that only accepted
  commands are ever in the channel (`ChannelInv`), whatever has become of their requests, and that the
  rows its throttle saw were old enough and have aged since. `CarriedStep` and `RowStep` reduce each
  statement to what it makes of one row. All three properties are theorems; `Window` and `MaxAhead` are
  any numbers with `MaxAhead` at most `Window`.
* `AlertsWorker_proofs`. `OneActive` is lost at the next insert unless one knows that what
  `findActiveAlert` found is still so. `IInv` says what a worker may rely on at its write: with others
  beside it, only that the row it found is about the same device and check; while workers take turns,
  that it is still active, or that there still is none. The second rests on `TurnInv`: without an
  overlap at most one worker is in the middle of a cycle, and a crash ends its own. `IInv` also says
  that an alert at a push is its opener's alone and not pushed yet, and that a device about to get an
  offline alert was not muted when it was read. `RowsChange` lists what a step can make of one row, and
  the three action properties follow from it.
* `AlertsCycle_proofs`. `CycleSettles` speaks of the end of a cycle; its invariant `SInv`, on top of
  `IInv`, speaks of the middle: for a device nothing has happened to, each item still in `todo` says
  what is so (`TrueInv`), and each check without an item is as it should be, phase by phase (`DoneInv`).
  `Writes` is what a clear, an update and an insert have in common: they settle the check of their item
  and leave the other checks alone. `WriteSettles` turns the first part of `SInv` into the second for
  the worker that writes, and `OthersSettle` keeps what a worker that has ended its cycle left behind:
  what the next worker is about to write is so for every device that either has found steady, so its
  writes confirm it.
* `Integrations_proofs`. `IngestInv` says what a handler relies on between two statements (`HandlerInv`:
  the points of a message are stored before its snapshot, the message before its mark), that messages of
  an orderly device are handled one at a time (`OneAtATime`), and that what is stored has arrived and
  what is marked was stored (`StoredArrived`, `MarksAreStored`). `NeverStranded` is inductive with the
  types; a step that leads into `Stuck` is a failed subscribe or a replaced client's connect.
  `HistoryInv` has `PagesOf` (a request under way has gathered the hours of the pages before its own,
  but for those in `blank`; `Ranked` and `RanksSort` say that merging them sorts them) and `BreakerInv`
  (below the limit while closed; once open, every call under way was sent before that). `Implements` is
  the refinement, `Spec => BreakerSpec`: each step of `HistoryClient` is a step of `CircuitBreaker` or a
  stutter. `EarlyCloses` (a circuit that closes before its window does so on the answer to a call sent
  before it opened) is a theorem that no run checks.
* `Records_proofs`. `OrdersInv`: how many connections and requests are at what (`Counts`, `OneConn`)
  and, while nothing `raced`, that a transaction is open only on the connection of the `setTasks` that
  began it (`Owned`) and holds the whole of what that request has done (`WholeTx`), what an edit has
  read (`ReadRow`) and who creates (`OneCreate`). `FilesInv`: when a handler knows its destination
  (`DestKnown`), whose a temporary file is (`TempIsOwn`), that handlers with names apart find their own
  bytes (`OwnFiles`), and that nothing may still take away the bytes of a listed file (`ListedAreSafe`).
  `FactorInv`: unless `overtaken`, the pending secret is the one a confirmation has checked.
* `Clients_proofs`. One invariant per part, the others being as they began. `Tidy`: what a registration
  under way and the flags know of the row. `OneSession`: with one tab at a time, what is stored is what
  the tab holds and the server would take it. For the mobile app `Whole`, `Known`, `OneSessionKept` and
  `Calm` say what a call may rely on at each `await`: whose tokens it carries and, with nothing gone
  wrong, that memory, store and call agree. `StoreIsWhole`, which `SignOutSticks` rests on, does without
  those: as long as nothing is `torn`, saves and deletions never run beside each other, each key is as
  the call that writes it has left it, and a memory without tokens means a store without them unless a
  call is saving. For the preferences `Agreed` says which of the four copies agree in the middle of a
  change, a question or a read, and `Vacant` what holds whatever has met.

Every safety property that a passing run checks is a theorem, the type invariants included. With TLC
alone stay `OustedStops` and `Recovers`, which are liveness under fairness: the prover cannot reason
about `ENABLED`. No module uses a recursive operator.

## Not modelled

* Login rate limit: a map in memory. The check is made before the password is verified and the failure
  counted after it, so logins that overlap all pass the check, the race that `DeviceControl` shows of
  its throttle; here it only lets a few more attempts through before the lock.
* Share links, device and site schedules: one table each, changed by single statements that no later
  step relies on.
* Fleet, sites, search, health score, exports and signed URLs: they read and compute, and change
  nothing.
* Registration of users (a login of a new user, with no old state). `deleteDocument`: nothing calls it.
* The contents of messages, e-mails and uploads; the telemetry behind threshold and rate rules, whose
  verdict may be any; the bounds of a setpoint; the formats of the vendor's answers.
* The columns of `system_status` that other probes write, and the probes of `/health-plus` that ask
  other services: nothing is decided from them.
* Failures of the phone's storages other than those named, the banner of an expired session, the cookie
  mode of the web app and its embedding in a frame.
* Screens, of which there are about 200 files: beyond the sessions, the registration and the
  preferences they hold forms and lists of a query. Scripts and seeds are run by hand. `archive/` is an
  old copy of the app, `backend/coverage` is generated.

## Plan

Done, in this order: sessions, lease, alerts and control; ingest, history, work orders, files, second
factor and the apps; the refinements of the breaker and of the sessions; the proofs, those about
alerts for any number of workers. What would add most next:

1. `WorkerLock` with `AlertsWorker`: one specification in which a cycle begins and ends under the
   lease, to derive `InTurn` from `OverlapHasCause` (today the two meet in the reader's mind: the
   first says when cycles may overlap, the second what is lost if they do).
2. `TelemetryIngest` in place of `Report` in `AlertsWorker`, so that disordered snapshots reach the
   rules.
3. `SessionServer`, the server as the apps see it, between `RefreshTokens` and `AuthSessions`: it keeps
   one pair of tokens and `AuthSessions` many rows, and the relation is by argument only.
4. The login rate limit beside the logins of `SecondFactor`: how many failures a window can hold when
   checks and counts interleave, and what a success from the same address clears.
