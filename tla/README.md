# Verification of the HR, Payroll and Dashboard integration

TLA+ models of the parts of this repository that are hard to test: employee
data changes in MongoDB, is carried to the Payroll database (MySQL) by an
outbox, and is read back by a dashboard and by the pages of a browser. Paths
below are relative to the repository root.

- [1 The system](#1-the-system)
- [2 Hazards](#2-hazards)
- [3 Modules and how they correspond to the code](#3-modules-and-how-they-correspond-to-the-code)
- [4 Runs, bounds and fairness](#4-runs-bounds-and-fairness)
- [5 Proofs](#5-proofs)
- [6 Disagreements, and what the models showed](#6-disagreements-and-what-the-models-showed)
- [7 What is not modelled, and the plan](#7-what-is-not-modelled-and-the-plan)

## 1 The system

Three Express services share this source tree.

| Service | Store | Runs |
|---|---|---|
| SA/HR | MongoDB | sign-in, employee mutations, the outbox worker, operator commands, repair routes |
| Payroll | MySQL (`pay_rates`, `sync_log`) | internal `POST /sync`, pay-rate queries |
| Dashboard | both | summaries, alerts, the aggregation worker |

The path of one employee change:

```
employee.controller ──save──> MongoDB Employee
        │ enqueue (second await)
        v
IntegrationEvent (PENDING) <── operator: retry / retry dead / replay / recover stuck
        │ claimed by a worker iteration
        v
syncEmployeeToAll ─> PayrollAdapter (HTTP, 5 s) ─> applyPayrollMutation (MySQL transaction)
        │ answer                                    sync_log row, pay_rates rows
        v
IntegrationEvent SUCCESS | FAILED (backoff) | DEAD
```

### Inventory

| Component | State | Operations | Interacts with | Hard behaviour | What makes it correct |
|---|---|---|---|---|---|
| Payroll mutation service (`src/services/payrollMutationService.js`) | `pay_rates` rows, one `sync_log` row per mutation | `applyPayrollMutation` with a handler each for CREATE, UPDATE, DELETE | called over HTTP by the adapter, one transaction per call | overlapping deliveries of one mutation; snapshots older than the rows updated; commits that fail with unknown outcome; a failure record outside the transaction | an acknowledged mutation is in the history, the history is append-only, one active rate, every call returns |
| Outbox (`integrationEventService.js`, `integrationOperatorService.js`, `integrationEventWorker.js`) | integration events, their audit entries | enqueue; recover stale; select batch; claim; deliver; write result; four operator commands | delivers through the sync service; operators race workers | batches read once and used later; updates by id alone; stale PROCESSING events; crashes between claim and result | attempts fit the status, no early DEAD, one holder, SUCCESS was delivered, every event settles |
| Employee mutations (`employee.controller.js`, `employeeContracts.js`, `models/Employee.js`) | employees, correlation ids | create, update, delete, each followed by enqueue or a direct sync | outbox, employee id counter, adapters | crash between save and enqueue; two updates enqueued in the other order; a reused `x-request-id`; a check against a document that is replaced meanwhile | what is quiet is aligned; dates in order, whoever sent which |
| Payroll adapter, sync service, registry | failed `sync_log` rows of a manual retry | `sync` with a five second timeout; `retryFailedSyncs` | outbox, Payroll service | the request given up goes on at the other side; a retry marks every failed row of its employee | nothing that is not applied counts as applied for good |
| Reconciliation, repair, sync evidence (`integrationReconciliationService.js`, `employeeSyncEvidenceService.js`) | cached snapshot, batch of repairs | compare both databases, repair extra coverage, classify an employee | MongoDB and MySQL, no common snapshot | rows that change between the two reads; contradictory rows | healthy evidence is right; a repair closes what is deleted only |
| Employee ids (`employeeIdService.js`) | a counter document | next id, preview | employee creation | counter created by two requests at once | ids are unique |
| Cache, rate limiter (`utils/cache.js`, `middlewares/rateLimit.js`) | bounded maps with deadlines | get, set, sweep; hit, clean up | dashboard routes | eviction against promotion, boundary of the window | LRU within the bound, nobody refused unjustly |
| Alerts (`alerts.controller.js`, `models/Alert.js`, `alertAggregationService.js`) | configurations, aggregates, owner notes | create, update, delete, acknowledge, rebuild | the batch rebuilds the same tables | query then insert; rebuilds that cross; a note on a summary that is being replaced | one active alert per type; what shows as owned was seen |
| Sessions (`auth.controller.js`, `authJwt.js`, `authSessionTokens.js`, `dashboard/src/services/api.js`, `AuthContext.jsx`) | the token list of a user document; a cookie and an access token per tab | sign in, refresh, log out, verify, probe | every route | read-modify-write of the whole list, by the guard too; lost answers; cap on sessions | a session signed out stays out, a good cookie works, no tab waits for ever |
| Accounts (`initialSetup.js`, `user.controller.js`, `AdminUsersModal.jsx`) | roles, users | seed, sign up, create, promote, demote | start of the SA service | two seeds at once; seeds that fail half way | one role of each name, a root with its roles |
| Dashboard reporting (`aggregate-dashboard.js`, `dashboardAggregationWorker.js`, `dashboard.controller.js`) | summary tables, cache, child process | batch; tick, warm-up, refresh, stop; summaries, drilldown, export, brief | both databases, signal handlers | tables emptied and refilled in two statements; runs that outlive their service; reads cached after a rebuild | readers catch up, one own run, figures agree, shutdown ends |
| Schema migrations (`mysqlDatabase.js`) | tables, columns, indexes, the migration record | sync and the incremental migrations, at every start | Payroll, Dashboard and scripts start together | processes run the steps at once, fail, die in between | what is recorded is in place, data survives, the next start succeeds |
| Front ends (`dashboard/src`, `public/payroll-console`) | what is chosen, shown and under way | choose, load, save, time out | the APIs | answers out of order, drafts under a reload, shared cookies | a page at rest shows what is chosen, a save reaches whom it was typed for |
| Request plumbing | none | validation, formatting, logging | every route | | |

## 2 Hazards

`PROJECT.json` lists the hazards with the line where each bites and the
properties that would catch it going wrong. In short, the code has no lock of
its own anywhere: it relies on one transaction per payroll mutation and per
rebuild of the alerts, on single-document updates of MongoDB, some of which compare the
status they expect, and on delays (5 s request timeout, backoff of at least
5 s, 15 min processing timeout) being longer than the work they wait for. The
properties are about what is left when those fail to line up:

- statements of two transactions interleaved, the snapshot of one taken before
  the commit of the other (PayrollService, SchemaMigrations, DashboardAlerts);
- documents and lists read before an await and written back after it (Outbox,
  Sessions, EmployeeForm, Accounts, EmployeeIds);
- updates whose outcome is unknown (a failing COMMIT, an update that throws, an
  answer that is lost, a call that goes on after its caller gave up);
- crashes at every await, and recovery from them by timeouts, retries and the
  next start;
- operators acting on events that a worker is delivering, repairs on employees
  that come and go;
- derived data (tables, cache, browser state) overtaken by what it came from,
  and answers that arrive after newer ones.

## 3 Modules and how they correspond to the code

| Module | Role |
|---|---|
| `PayrollRules` | pay types, the three handlers and their writes as operators on an employee's rows |
| `PayrollService` | `applyPayrollMutation`, one action per statement, on InnoDB snapshots and locks |
| `PayrollLedger` | the abstract service: a mutation is one atomic step |
| `Outbox` | events, worker iterations, operator commands |
| `EventQueue` | the abstract queue: what an enqueued event is promised |
| `EmployeeSync` | employee changes on their way; composes `EventQueue` and `PayrollLedger` |
| `SyncEvidence` | evidence and reconciliation, on the state of `EmployeeSync` |
| `EmployeeIds`, `EmployeeForm` | ids of employees; their fields from a form to the document and back |
| `Sessions`, `Accounts` | sign-in, tokens and tabs; roles, users and seeds |
| `SchemaMigrations` | the schema of MySQL through overlapping starts |
| `DashboardCache`, `CacheUse`, `RateLimiter` | the cache as operators, the cache under any use, the limiter |
| `DashboardSummaries` | batch, worker, readers, refresh, start and stop; uses `DashboardCache` |
| `Drilldown`, `DashboardBrief`, `DashboardAlerts` | figures of list, export and totals; verdicts; alerts |
| `OperatorPanel`, `DrilldownView`, `AnalyticsView`, `EmployeeEditor`, `AlertsPage`, `AlertSettings`, `PayrollConsole` | pages of the browser |
| `PayrollRulesProofs` | lemmas on the rules, which the proofs about the service and about employees share |
| `OnePart` | parts put beside each other, of which a behaviour runs one |
| `ServiceParts` | beside each other: alerts, drilldown, ids, brief, schema, accounts, limiter |
| `PageParts` | beside each other: the pages of the browser, without the queue's and the users' |
| `PayrollServiceProofs`, `OutboxProofs`, `SyncEvidenceProofs`, `SessionsProofs`, `DashboardProofs` | theorems |
| `ServicePartsProofs` | theorems on the ids, the alerts, the brief, the accounts with their page, the drilldown, the limiter, the schema |
| `PagePartsProofs` | theorems on the pages, what is typed in them, and the employee's fields |
| `MCPayroll`, `MCOutbox`, `MCEmployeeSync`, `MCIdentity`, `MCDashboard`, `MCParts` | instances for TLC |

How they compose: `PayrollService` implements `PayrollLedger` (when calls do not
overlap) and `Outbox` implements `EventQueue`; `EmployeeSync` is built on the two
abstractions and not on their implementations. Where calls overlap, the ledger
promises less than `EmployeeSync` assumes; that gap is the first disagreement
of section 6. The modules of the dashboard and of the browser share no state in
the code: a page asks a service and takes any answer at any time, so each is
checked with its answers chosen freely. `MCDashboard`, `ServiceParts` and
`PageParts` hold several such modules; one behaviour runs one of them. `MCParts` is
`ServiceParts` beside `PageParts`: a behaviour of it is one of `ServiceSpec` with
the pages at rest, or one of `PageSpec` with the service at rest. The theorems are
about those two specifications, whose constants are open.

Variables named as *history* in their declaration are ghosts. They record that
one of the races a property names as its exception has happened; each is set
by the actions of exactly that race, and the property says what it costs.

### PayrollService

`history[e]` is the committed `pay_rates` rows of employee e in id order,
`syncLog[k]` the committed status of the one `sync_log` row of mutation k (the
unique index on entity, action and correlation id, created at start, makes it
one). A *call* is one execution of `applyPayrollMutation`; `req[c]` is what it
delivers, `seen[c]` the rows of its snapshot, `txLog[c]` and `txRows[c]` its
uncommitted writes.

| Code | Action |
|---|---|
| `sequelize.transaction()` | `Begin`, `BeginFails` |
| `findOrCreate`: its SELECT | `Claim` (no row or FAILED), `Deduplicate` (SUCCESS or PENDING) |
| `findOrCreate`: its INSERT | `InsertLog`, or `InsertLogDuplicate` when another call got there first |
| the update of a FAILED row back to PENDING | `ReclaimLog` |
| `handler(...)` | `RunHandler`, with `PayrollRules!Handle` |
| the update to SUCCESS | `MarkSuccess` |
| `transaction.commit()` | `Commit`, `CommitFails` |
| an exception inside the `try` | `Abort` |
| `SyncLog.upsert` of the `catch` | `RecordFailure`, `RecordFailureFails` |
| the process or MySQL dies | `Crash` |

Isolation. `mysqlDatabase.js` leaves MySQL at its default, REPEATABLE READ: a
plain SELECT reads the snapshot fixed by the transaction's first SELECT,
UPDATE and INSERT work on the committed rows and wait for row locks. From this
follow three things that the model keeps: the loser of an insert race throws
(its second SELECT does not see the winner's row) and records FAILED; a
reclaim that has waited for the row's lock goes on although the row may be
SUCCESS by then; the handler decides on the snapshot while its UPDATE closes
the rows that are committed now. The failure record is written outside the
transaction, whatever the row says, and may so replace a committed SUCCESS.

Rates are numbers of any decimals, `pay_rate` is a DECIMAL(10,2): what a row holds of
the number r is `Stored[r]`, any rounding that keeps what it made itself
(`StorageAssumption`). UPDATE looks for a row of the number as it was sent, so a rate
with further decimals never equals the current one and always makes a new row.

Abstractions. Pay rates are a few numbers, one of which the column rounds; a number
it cannot hold is an error of the statement and left out. `effective_date` is today's
date and never decreases, so the order of ids is the order of the queries. The row
locks of an employee's rates are one lock (a gap-lock deadlock is an `Abort`).
Requests that fail validation never open a transaction and are left out. Each
call is a slot that is used once, its payload chosen in `Init`; `by` is a
ghost field of a row that names its mutation.

### PayrollLedger

`Apply(k, payload)` applies mutation k to the current rows unless it is marked
SUCCESS; `Fail(k)` marks it FAILED. `PayrollService!ImplementsLedger` is the
refinement (same `history` and `syncLog`). It holds when calls for one
employee do not overlap (`Overlap = FALSE`) and not otherwise: nothing in the
code keeps them apart. They do overlap, because the adapter gives a request up
after five seconds while it goes on at the Payroll service, several workers
may run, and operators and the direct fallback deliver too.

### Outbox

`status`, `attempts`, `due` (`next_run_at` has passed) and `stale`
(`updatedAt` is a processing timeout ago) are the fields of an event that the
code decides on. `batch[p]` holds the snapshots that worker or operator p has
read and not yet come to, `current[p]` the one it works on, `pc[p]` the next
statement.

| Code | Action |
|---|---|
| `enqueueIntegrationEvent` | `Enqueue` |
| `recoverStuckProcessingIntegrationEvents` | `StartRecovery`, `Recover`, `RecoverNothing`, `AuditRecovery`, `EndRecovery` |
| `processPendingIntegrationEvents`: the query | `SelectBatch` |
| its claim | `Claim`, `ClaimLost` |
| `syncEmployeeToAll` | `Sync`: success, failure or an exception |
| the update after it | `MarkSuccess`, `MarkFailure` |
| that update throws | `MarkSuccessThrows`, `MarkFailureThrows` (then the `catch` block writes FAILED or DEAD) |
| the process dies, an exception outside `try` | `Abandon` |
| retry, retry-dead, replay | `GiveCommand`, `ResetEvents`, `AuditCommand` |
| time | `BackoffElapses`, `ProcessingTimesOut` |

What the model keeps because it matters: a claim compares the status with the
snapshot's and nothing else, so an event that failed again in between is
claimed with the older attempts and before its backoff; a recovery's update
asks for PROCESSING and not for staleness; the result is written by id alone,
with attempts counted from the snapshot.

Abstractions. An event is its number, in `createdAt` order. `updateMany` is
one step. The events of a recovery are taken in any order. The audit
collection is a set of (event, status it came from); messages,
`last_error` and the `last_operator_*` fields are left out. `delivered` and
`tries` are ghosts: which events were accepted at least once, and how often an
event was claimed since it was enqueued or requeued, saturating at
`MaxAttempts`. An operator is a request and gives one command.
A worker slot stands for a process; it also covers a second iteration in one
process, which `stopIntegrationEventWorker` followed by a start permits.

`Orderly` is an assumption some properties need and nothing in the code
enforces: a worker gets through its batch within the processing timeout, a
recovery from its query to its last update takes less than a backoff, and an
update to FAILED that throws has had no effect. TLC
refutes `OneHolder` without each of the three: a slow worker's event is taken
back while it is being delivered; a slow recovery takes back an event that was
claimed again since its query; a worker whose snapshot says FAILED claims the
event that another one has just marked FAILED and is about to mark once more.

### EventQueue

An enqueued event is never forgotten; it may be delivered any number of times
and in any order; it becomes SUCCESS only after a delivery was accepted; it may
be opened again. `Outbox!ImplementsEventQueue` maps PENDING, PROCESSING and
FAILED to OPEN, and `delivered` to `accepted`. Every step of the outbox that
changes several events (`updateMany`) is one `Reopen`.

### EmployeeSync and SyncEvidence

| Code | Action |
|---|---|
| `createEmployee`, `updateEmployee`, `deleteEmployee` up to the save | `CreateEmployee`, `UpdateEmployee`, `DeleteEmployee` |
| `enqueueIntegrationEvent` | `Enqueue`, `EnqueueThrows` (the insert may have happened) |
| `syncEmployeeToAll` when the outbox is off or threw | `DirectSync` |
| the process dies between save and answer | `HandlerDies` |
| the worker | `DeliverEvent`, `SettleEvent`, `ReopenEvent` (steps of `EventQueue`) |
| the adapter gives a call up, Payroll runs it later | `CallFails`, then `LateCall` |
| `retryFailedSyncs` | `StartRetry`, `RetryNext`, `RetryCall`, `RetryMark`, `EndRetry` |
| `repairExtraPayrollCoverage` | `ReadSource`, `ReadPayroll`, `CommitRepair`, `RollBackRepair` |

`doc[r]` is the document r saved, not what the employee is now: an event carries
its own copy. `PayrollRuns` is `Ledger!Apply`, `PayrollFails` is `Ledger!Fail`.
`overlapped` names the employees of which a change was made before the last one
was through. `RetryMark` marks *every* FAILED row of the employee, as the code
does; that is why `QuietAgreement` asks for correlation ids of their own and no
overlap, and why `HealthyMeansAligned`, which asks for neither, is about the
rates in force rather than the statuses.

`SyncEvidence` translates the stages and the verdict of
`employeeSyncEvidenceService.js` and the issue count of the reconciliation. The two
compare differently: the evidence takes both rates as they are, the reconciliation
after `toFixed(2)` (`NormalizePayRate`, any rounding that keeps what has two decimals:
`FixedAssumption`). What a document's rate becomes on its way is the column's
rounding, so `QuietAgreement` says that Payroll holds what the column makes of it
(`Delivered`), `HealthyMeansAligned` that it holds the rate itself (`Aligned`), and
`ReconciledToTheCent` how far the two judgments go together: without an issue, every
employee has one active row of its rate to the cent, and the evidence says DRIFT
exactly where the rate has further decimals. Both judgments read rows of one moment
here, the two reads of a *repair* are two steps; a repair that finds nothing extra ends
there. `OneSnapshot = TRUE` assumes that no employee comes or goes between
the reads; the code has nothing to that effect, and `employee_evidence` shows
what follows.

### Sessions

Every handler is a read, a computation and a write of the whole token list, in
the actions `Read`, `Prune`, `WriteSignin`, `WriteRefresh`, `WriteLogout`; the guard
of any request (`Guard`) may leave a write to happen later (`GuardPrunes`), since
`authJwt.js` does not await it. The tab's side is `api.js` and `AuthContext.jsx`:
the probe of a load, the single retry after a refresh (`Receive...`). Access and
refresh token of one issue share a number that is also their time of signing,
so expiry is a watermark per kind. `raced` is set when a list is written that
was not worked out from the stored one.

### DashboardSummaries

| Code | Action |
|---|---|
| one statement of a batch step | `RunReads`, `RunDestroys`, `RunCreates`, `RunCollides` (two runs refill one table) |
| the batch fails, ends, is killed | `RunFails`, `RunEnds`, `RunDies` |
| the interval, the warm-up, the POST | `Tick`, `WarmUp`, `RefreshArrives`, `RefreshRuns` |
| start, SIGTERM, SIGKILL after the deadline, exit, crash | `Boot`, `Stop`, `Escalate`, `Exit`, `Crash` |
| a GET: cache, query, store | `Get`, `ReadTable`, `Fill` |
| time to live, sweep | `EntryAges`, `Sweep` |

A table holds the *version* of the payroll data it was computed from. A child
process outlives a service that crashes (`orphan`) and races the runs of the
next one.

### The other services

- `SchemaMigrations`: a process runs the instructions of `Bootstrap`, the steps of
  `runBootstrapMigration` in order, or those of `syncDatabase` alone: ask for the
  record, look at the schema and make a step's statements from it (`todo`), execute
  the next of them in the `Order` of the code, record. Statements are applied to
  whatever the schema is by then, and fail as MySQL fails them. That the next start
  succeeds is said of the start itself: one that nobody is beside (`alone`, history)
  meets no error at any statement, from wherever the database was left.
- `Accounts`: one action per query of the seed and of the user endpoints, with
  the page that shows and toggles the admin role.
- `EmployeeIds`: find counter, find highest, create or set, increment, save; an
  employee created or deleted at any time.
- `Drilldown`: three copies of a year's earnings and the batch that writes them;
  the list, the export and the totals are operators over any state in between.
  The batch counts an employee without a value in a column under a default group
  (`GroupOf`: "Unknown", "Unassigned"), the list compares the column as it is, and
  a department that no one is in by name ends the request with an empty answer
  (`NoSuchDepartment`). `Unlisted` names whom a total counts and the list leaves out
  for that reason. A department is asked for by its name, as the pages do, not by id.
- `DashboardBrief`: every rule by which the service, and the browser while it
  has no answer, judge freshness, alerts and queue; feeds arrive or fail in any
  order.
- `DashboardAlerts`: requests with the hooks of the model, the rebuild as
  one transaction whose DELETEs lock what they find, the batch's rebuild, which
  is none, the note.
- `RateLimiter`: fixed windows per key, as one step per request (the handler
  has no await), with the clean-up.

### The browser

Each page is a machine of choices, loads and answers. A click is an action; an
effect of React is part of the step that changes what it depends on; an answer
is applied with the closure of the render that asked for it, which is where
stale state comes from. What a page shows is known by the request it came from.

| Module | Page | Of note |
|---|---|---|
| `OperatorPanel` | `IntegrationEventsPanel.jsx` | nothing is aborted; a timer repeats the load, so late answers are repaired |
| `DrilldownView` | `DrilldownModal.jsx` | newer requests abort older ones; totals come behind the rows; without the retry button and the chip that clears the search |
| `AnalyticsView` | `useDashboardData.js`, `AnalyticsPage.jsx` | effects abort, buttons do not |
| `EmployeeEditor` | `AdminEmployeesModal.jsx` | the list's answer decides what the open editor edits |
| `EmployeeForm` | the same, with `employeeContracts.js`, `employee.controller.js`, `models/Employee.js` | draft, compaction, contract, merge, defaults, draft again |
| `AlertsPage` | `AlertsPage.jsx`, `AlertsPanel.jsx`, `alerts.controller.js` | the panel unmounts during a load; the service's cache is cleared by a note |
| `AlertSettings` | `AlertSettingsModal.jsx`, `dashboardContracts.js` | a draft per type, of one of its rules |
| `Accounts` | `AdminUsersModal.jsx` | toggles from the list that is shown |
| `PayrollConsole` | `public/payroll-console` | several flows at once on one cookie; without the sign-in of the local demo |

## 4 Runs, bounds and fairness

| Run | Instance | Shows |
|---|---|---|
| `payroll_overlap` | 3 overlapping calls, mutations CREATE, UPDATE, DELETE of one employee, 2 payloads (a rate without a type, and both), one with a rate that the column rounds | no PENDING row left, an acknowledged mutation is recorded, history grows only, a replacement closes the rest, every call returns |
| `payroll_serial` | 4 calls that do not overlap, same mutations | refinement of the ledger, one active rate |
| `payroll_duplicate_history` | 3 overlapping calls | a violation, see section 6 |
| `outbox_any` | 1 event, 2 workers, 1 operator with every command, 3 attempts, not `Orderly` | attempts fit the status, SUCCESS was delivered, the abstract queue is implemented |
| `outbox_orderly` | 2 events, 2 workers, batches of 2, 1 operator that recovers, 3 attempts, 2 faults, `Orderly` | one holder, settled stays settled |
| `outbox_settles` | 2 events, 2 workers, batches of 1, 3 attempts, 1 fault, not `Orderly` | no early DEAD, every event settles |
| `outbox_retry_lost` | 1 event, 1 worker, 1 operator that retries | a violation, see section 6 |
| `employee_sync` | 1 employee, 3 requests under 2 correlation ids, documents at 1.00 or 1.011 (stored as 1.01), 1 fault, 1 repair that finds something and any number that do not, the outbox on | `HealthyMeansAligned`, `ReconciledToTheCent`, `QuietAgreement`, `RepairClosesOnlyDeleted` |
| `employee_evidence` | 1 employee, 1 request, 1 repair that reads at two moments | a violation, see section 6 |
| `identity` | 2 tabs in one browser or two, 1 session kept, 2 token pairs, 1 lost answer | a revoked session stays revoked, a cookie stays good, every call ends |
| `dashboard` | summaries: 2 years, 1 dataset, 1 reader, 2 process slots, 1 change, 1 mishap, a cache of 1; cache: 3 keys, 2 entries; panel: 2 statuses, 2 events, 3 loads, 3 clicks | `OneOwnRun`, `LruKeepsRecent`, `RefreshSeesItsRun`, `ReadersCatchUp`, `ShutdownEnds`, `PanelCatchesUp` |
| `parts` | fourteen modules, one per behaviour, bounds in `parts.cfg` | below |

The properties of `parts` gather those of its modules:

| In `parts` | Of the modules |
|---|---|
| `OneActivePerType` | `DashboardAlerts` |
| `AlertsAreFollowed` | `DashboardAlerts`: `SummariesFollowAlerts`, `OwnedIsCurrent` |
| `DatesAreInOrder` | `EmployeeForm` |
| `FiguresAgree` | `Drilldown`: `ExportMatchesList`, `SummaryOfDimensions` |
| `FreshIds` | `EmployeeIds` |
| `ReadyIsReady` | `DashboardBrief` |
| `SchemaIsSound` | `SchemaMigrations`: `RecordedIsInPlace`, `DataSurvives`, `NextStartSucceeds` |
| `AccountsAgree` | `Accounts`: `SeedsAgree`, `UsersShownAreStored` |
| `LimitIsFair` | `RateLimiter` |
| `PagesFollowChoice` | `DrilldownView`, `AnalyticsView`, `EmployeeEditor`, `AlertsPage`, `PayrollConsole`, `AlertSettings`: at rest, what is shown is what is chosen and stored |
| `WordsReachTheirTarget` | `EmployeeEditor`, `AlertsPage`, `EmployeeForm`, `AlertSettings`: what was typed reaches whom it was typed for, as it was typed |

Why the bounds are enough. Interference is between deliveries for *one*
employee, so one employee is checked; two calls race and a third finds what
they left, a fourth call in the serial run follows a whole create, update,
delete. For the outbox, two events and batches of one show the preference
for older events, batches of two a snapshot that waits behind another
delivery; three attempts are the least with a first, a middle and a last
failure. `MaxFaults` bounds failing updates and crashes of the workers and
operators; payroll calls need no such bound, each call fails once at most.
In `employee_sync` two rates are one that is stored as it is and one that is rounded
to another cent, so that a mismatch, a drift without one, and neither all occur
(numbers that the two roundings take apart are left to the theorem), three requests are a create, an update and a delete, or an update that
overtakes another; two correlation ids for three requests make one
of them shared. In `identity` one session kept and two issues are the least at
which one sign-in displaces another. In `dashboard` two process slots are an
orphan and a run of its own, and a cache of one entry evicts at every second
key. In `parts` two of a thing race (two processes, two requests, two seeds, two
loads) and what they leave is found by a third step: a later start, a later
load, a later call. The three employees of the drilldown are one with a value in every
column, one with a value missing, and one whose value is the name of the default group.

Deadlock is checked in the payroll runs (`Quiet` is the state in which every
call has been answered), in the outbox runs, where an idle worker may
always start a run, and in `identity`. The others stop when their bounded
requests are used up, and say so with `CHECK_DEADLOCK FALSE`.

Fairness. `PayrollService!FairSpec`: weak fairness of the steps of every call
that has begun: the event loop runs every continuation, and MySQL grants a
released lock. No fairness of `Begin` or of any fault. `Outbox!FairSpec`: weak
fairness of the worker's steps, as `setInterval` starts an iteration again and
again, and of time. Workers are never assumed to survive: `Abandon` may take
any of their runs, within `MaxFaults`. Operators get no fairness.
`Sessions!FairSpec`: a handler that runs is continued and its answer, if not
lost, is received. `DashboardSummaries!Fairness`: the interval goes off while the
service is up, a batch process executes its statements, timers fire, a process
that got SIGKILL ends (one that got SIGTERM may ignore it), a query is answered,
time to live passes and the sweep runs. Nothing is assumed of clients,
of faults or of a restart. `OperatorPanel!Fairness`: the page is visible, so its
timer goes off, and loads are answered. `SummariesCatchUp` has the premise
`Settles` (the service is up and refreshes are over), because a client that asks
for refreshes of another year without end does keep every tick from running.

Symmetry is used in safety runs only: over calls, workers, requests, and the
alerts, their types and their requests of `parts`.

Every property has a mutant (in `PROJECT.json`): a plausible slip in the code,
written beside the definition it replaces and marked "Mutant", under which the
property fails.

## 5 Proofs

Checked by TLAPS for every value of the constants, from the assumptions
`PayloadAssumption`, `ServiceAssumption`, `OutboxAssumption`,
`EmployeeSyncAssumption` and `SessionsAssumption`, which say what kind of values
the constants are (and, for employees, that there are finitely many, because the
reconciliation counts them), and from `StorageAssumption` and `FixedAssumption`, which
say of the two roundings that each keeps what the column holds, and nothing more. A few theorems have a condition of their own, which
their statement names. For the ids it is `IdsAssumption` (the ids in use
before there is a counter are within the bound), for the alerts
`AlertsAssumption` (what a rebuild counts is a number), for the brief
`BriefAssumption` (ages and the threshold are numbers, and no dataset is called as
another feed is). The ids of batch processes are not `None` (`SlotsAssumption`),
a department is not called as everybody is (`AnalyticsAssumption`), and pages are
numbered from 1 (`ViewAssumption`). Amounts are natural numbers
(`DrillAssumption`); the window, the limit and the second of the limiter are
positive ones (`LimiterAssumption`, as in `rateLimit.js`, whose callers pass such);
the cache has room for an entry (`CacheAssumption`, what `parsePositiveInteger` makes
of any setting); the issues of tokens are counted (`ConsoleAssumption`); no employee is called as
nobody is (`EditorAssumption`), a field left empty is no number, and a client of
the API is no form (`FormAssumption`). The database of the first start is one of those
in `Databases` (`SchemaAssumption`). `Orderly` and the absence of requeue commands are explained
under Outbox in section 3, `OneSnapshot` under EmployeeSync. The runs of the
same properties make the same choices, and `employee_evidence` shows what happens
without `OneSnapshot`.

| Theorem | States | Argument |
|---|---|---|
| `PayrollServiceProofs!TypeCorrect` | `[]TypeOK` | inductive with the lemmas on `Handle` and `Write` |
| `PayrollServiceProofs!PendingNeverCommitted` | `[]NothingLeftPending` | a call about to commit has written SUCCESS |
| `PayrollServiceProofs!PayHistoryIsAuditTrail` | `HistoryOnlyGrows` | only `Publish` writes; `Write` closes or appends |
| `PayrollServiceProofs!AcknowledgedForGood` | `[]AcknowledgedIsRecorded` | by `AckInv` |
| `PayrollServiceProofs!ReplacementIsAlone` | `ReplacementClosesTheRest` | by `SnapshotInv`: what is published is what the handler chose, written to the rows of now |
| `PayrollServiceProofs!SingleActiveRate` | without overlap, `[]AtMostOneActive` | by `SerialInv` |
| `PayrollServiceProofs!ServiceImplementsLedger` | without overlap, `ImplementsLedger` | by `SerialInv`: `Commit` is `Apply`, `RecordFailure` is `Fail`, the rest stutters |
| `OutboxProofs!TypeCorrect` | `[]TypeOK` | by `Inv` |
| `OutboxProofs!AttemptsAlwaysFit` | `[]AttemptsFitStatus` | by `Inv` |
| `OutboxProofs!SuccessMeansDelivered` | `[]SuccessWasDelivered` | by `DeliveredInv` |
| `OutboxProofs!GivenUpLate` | without commands, `[]NeverDeadEarly` | by `TriedInv` |
| `OutboxProofs!HeldByOne` | `Orderly`, without commands, `[]OneHolder` | by `HolderInv` |
| `OutboxProofs!SettledForGood` | `Orderly`, without commands, `SettledStaysSettled` | by `HolderInv` |
| `OutboxProofs!QueueIsImplemented` | `ImplementsEventQueue` | by `KnownInv`, `GivenInv`, `DeliveredInv`: an update is `Reopen` or `Settle`, `Sync` is `Deliver`, the rest stutters |
| `ServicePartsProofs!IdsAreFresh` | `FreshIds` | by `IdInv` |
| `ServicePartsProofs!OneAlertPerType` | `[]OneActivePerType` | by `OneActiveInv` |
| `ServicePartsProofs!AlertsAreShown` | `[]AlertsAreFollowed` | by `FollowInv`, `OwnedInv` |
| `PagePartsProofs!DatesStayInOrder` | `[]DatesAreInOrder` | by `DatesInv` |
| `ServicePartsProofs!ReadyMeansReady` | `[]ReadyIsReady` | by `FeedInv`, then by cases of the two verdicts |
| `ServicePartsProofs!SeedsLeaveTheRoot` | of `AccountsAgree`, `Roles!SeedsAgree` | by `AccountInv` |
| `ServicePartsProofs!UsersFollowTheStore` | of `AccountsAgree`, `Roles!UsersShownAreStored` | by `AccountInv`, `UsersShown` |
| `ServicePartsProofs!AccountsAreKept` | `[]AccountsAgree` | both |
| `ServicePartsProofs!FiguresOfDrilldownAgree` | `[]FiguresAgree` | by `DrillInv` and lemmas on sums |
| `ServicePartsProofs!LimitsAreFair` | `[]LimitIsFair` | by `LimiterInv` |
| `ServicePartsProofs!SchemaStaysSound` | `[]SchemaIsSound` | by `SchemaInv` |
| `PagePartsProofs!AnalyticsFollowsChoice` | of `PagesFollowChoice`, `Analytics!SummariesAreChosen` | by `AnalyticsInv` |
| `PagePartsProofs!RowsFollowChoice` | of `PagesFollowChoice`, `View!RowsAreChosen` | by `ViewInv` |
| `PagePartsProofs!ConsoleDoesAsAsked` | of `PagesFollowChoice`, `Console!SettlesAsAsked` | by `ConsoleInv` |
| `PagePartsProofs!AlertsPageFollows` | of `PagesFollowChoice`, `Detail!NotesShownAreStored` and `Detail!EmployeesAreOfAlert` | by `DetailInv` |
| `PagePartsProofs!SettingsFollowTheRules` | of `PagesFollowChoice`, `Settings!SettingsShownAreStored` | by `SettingsInv` |
| `PagePartsProofs!EditorFollowsItsView` | of `PagesFollowChoice`, `Editor!RowsAreOfView` and `Editor!EvidenceIsOfEditor` | by `EditorInv` |
| `PagePartsProofs!PagesShowTheChoice` | `[]PagesFollowChoice` | the six pages together |
| `PagePartsProofs!FormsKeepTheirWord` | of `WordsReachTheirTarget`, `Form!FormIsFaithful` | by `FormInv` |
| `PagePartsProofs!WordsAreNotLost` | `WordsReachTheirTarget` | by `EditorInv`, `DetailInv`, `SettingsInv`, `FormInv` |
| `DashboardProofs!ServiceKnowsItsRun` | `[]OneOwnRun` | by `OwnInv` |
| `DashboardProofs!RefreshIsFresh` | `RefreshSeesItsRun` | by `LoneInv` |
| `DashboardProofs!CacheKeepsRecent` | `[]LruKeepsRecent` | by `CacheInv` |
| `SyncEvidenceProofs!EmployeeSyncSafety` | `[]SafeInv` | inductive |
| `SyncEvidenceProofs!HealthyEvidenceIsRight` | with `OneSnapshot`, `[]HealthyMeansAligned` | follows from `SafeInv` |
| `SyncEvidenceProofs!ReconciliationIsRight` | with `OneSnapshot`, `[]ReconciledToTheCent` | follows from `SafeInv`; each count is zero, so each set is empty, and one active row is left (`RightToTheCent`) |
| `SyncEvidenceProofs!RepairIsRight` | with `OneSnapshot`, `RepairClosesOnlyDeleted` | by `RepairInv`, a part of `SafeInv` |
| `SyncEvidenceProofs!QuietEmployeesAgree` | with `OneSnapshot`, `[]QuietAgreement` | by `QuietInv` |
| `SessionsProofs!TypeCorrect` | `[]TypeOK` | by `Inv` |
| `SessionsProofs!SignedOutForGood` | `[]RevokedStaysRevoked` | by `OwnerInv`, `RevokedInv` |
| `SessionsProofs!CookieIsGood` | `[]CookieStaysGood` | by `StoredInv` |

`SerialInv` is why a service that decides on a snapshot looks atomic when
calls come one at a time: the call in its transaction is the only open one for
its employee, its snapshot is the current state, the rows it is about to
insert are those the handler would choose now, and what it commits is SUCCESS.

`AckInv` holds however calls overlap, when a snapshot may be old. It says less of
it than `SerialInv`: the rows a call has read are still in the history, perhaps
closed (`Keeps`), and what it is about to insert is what the handler chose on
them. A handler that inserts nothing has found a row that shows what was asked
for (`FoundAlready`); that row is still there at the commit, and one that it
inserts shows it (`InsertedShows`). As rows are never removed or rewritten, what
is once recorded stays so.

`OutboxProofs!Inv` adds to the types that every snapshot that may still be
written back has an attempt left (`SnapshotInv`). `AttemptsFitStatus` alone is
not inductive: attempts are set from snapshots taken arbitrarily long ago.
`DeliveredInv` adds that a worker about to write SUCCESS holds a delivered
event. `TriedInv` compares the tries with everything that can still be
written, the event's own attempts and those of every snapshot, because an
event's attempts may go down again when an old snapshot is written back.

`HolderInv` is what makes a claim that compares the status alone safe. It says of
every event three things at once, none of which is inductive alone: a worker that
holds it is the only one, and the event is PROCESSING (or SUCCESS, written by an
update that threw); an event that is stale, and PROCESSING, is in nobody's hands
and in no batch still to be claimed; an event that a recovery is about to take
back is still stale, or FAILED before its backoff, or DEAD. `Orderly` enters where
time passes, and nowhere else.

`QueueIsImplemented` needs two facts besides `DeliveredInv`, as an update names
an event by its id alone: no snapshot is of an event that was never enqueued
(`KnownInv`), and an operator that is about to update has given a command, whose
query matches only events of the collection (`GivenInv`).

`ServicePartsProofs` and `PagePartsProofs` prove what the parts promise. A behaviour
runs one part from beginning to end (`OnePartRuns`), so each invariant is shown of
the behaviours of its part, with the others standing still.

`IdInv` is in two parts. Once there is a counter, it is at least
every id in use, given, or about to be saved. Before, nothing was given, and
the highest id that a request has found is at least every one in use, because
employees can be deleted meanwhile but not created. That the scan's maximum
exists is proved from the well-foundedness of the natural numbers.

For the alerts, `AlertShapes` are the types. `OneActiveInv` adds to `OneActivePerType`
what a request that has looked for another alert may rely on: until one has
raced it, what it saw is still so when it writes. `FollowInv` is about who can be
beside whom. `SummariesFollowAlerts` speaks of rest only; what leads there is
that a rebuild that no other disturbed (`alone`) is the only holder of the lock,
with the batch idle, and has computed rows that follow the alerts unless a change
came since, whose request has its own rebuild to come (`LoneRebuild`); and the
same of the batch, at each of its four steps (`LoneBatch`). Where two met, both
end as `upset`. `OwnedInv` says of every note, also one that is being taken, that
it is what a row of now says or is older than every row (`NotesSeen`), and at rest the
latter wherever its alert has another type by now (`NotesOfType`); the order of
times comes from `RowTimes`, a part of `FollowInv`.

`DatesInv` follows a request from its contract to its write. One about to be saved
will be stored in order on the defaults: what `GivenInOrder` shows of the contract
survives trimming and dropping, because no date is a text. One about to update
found its document in order with what it brings; so what it writes is in order
where the document is still that one, and otherwise `raced` is set.

`FeedInv` is small: a feed that arrived could be answered, and only the metrics are
not asked for, by readers who may not see the queue. The rest is about operators.
`BrowserIsNotMilder` compares the tones that the browser and the service make their
labels of: a dataset that is stale or missing to the service either failed to
load or is older than the browser's own threshold (`FreshToBoth`, which is where a
threshold configured below the browser's would break it).

`AccountInv` says, while no two seeds run at once, what the one that runs
knows (`RolesInOrder`): the roles before the one it is at are there once, the one
it is about to save is not, and whether the root was there when it looked is
still so, because no call saves the root (`RootNotSaved`). From that follow that the
look for the root's two roles finds two, that the root's write is never
refused, and that a seed fails of an error only.

`AnalyticsInv` and `ViewInv` follow what is under way. While no button's load was
under way at a choice, every load of the analytics page is of what is chosen, and
what it shows is of the choice, an error, or about to be replaced by such a load
(`Follows`). The list request of the drilldown is always of the choice
(`OfChoice`), and so are the rows when none is under way; its totals are those of
the rows unless they were overtaken.

`UsersShown` adds to `AccountInv` what the page of the users shows and has under
way. Unless a load was crossed (`userCrossed`), what the page shows, and the list
that it has read, is what is stored, or differs from it by the one call of the
page's own that has been done and not yet been answered.

`DrillInv` is the types alone; the figures of the drilldown are operators of one
state, and what is proved of them is arithmetic. An export is the list without its
pages, so the two differ only in the source of an amount; that a count of snapshots
equal to the count of rows means the same employees rests on one set being a part
of the other. `SummaryOfDimensions` compares a sum over a group with one over the
rows of a filter; where one dimension is filtered these are the same employees.

`LimiterInv` finds the moment `b` at which the last window of a key began
(`WindowFollows`). What passed since `b` is at most the limit, and so is what passed
in the window before `b`, since any older window had ended by then. A span of one
window that ends after `b` begins within these two, so it holds at most twice the
limit. The hint of a refusal is never before the end of its window
(`RetryIsLate`, on the rounding to whole seconds), so one who heeds it is let through,
whether or not the clean-up has removed the window by then. Sums over a span are folds:
that a sum can be taken apart (`TickSum`, one moment or two disjoint spans) is proved
from the recursion of the fold, whose existence is proved from the
well-foundedness of the proper part of a finite set.

`SchemaInv` says of every process what the instructions behind it have left (`Passed`):
what a step is for is there, or still in the process's own `todo`. It is inductive
because no statement of another takes anything away that a step is for
(`Did`, by kinds of statements): columns are only added, but for the legacy ones, and
these are dropped after their values were taken over (`OrderKeeps`); the index of the
summaries is dropped only by a process that makes it anew, and one that dies before is the exception
`severed` (`Scoped`). What is recorded is what a process has passed (`RecordedDone`). A
start that nobody is beside finds the schema as it last saw it, so each statement left
is possible when its turn comes (`Doable`, `Lone`); that tables come first is
`TablesFirst`. Of the rows to be deleted, the best one is never among them unless the log
was written since (`BestStays`).

`EditorInv` is about the page with one list, one editor and two kinds of commands.
A load that a command asked for is the one it waits for (`CommandsAwait`); every
list under way, and every command, is of the view that is chosen, and a list already
read is of what is stored (`RowsAgree`), until a view is left with something under
way. The draft is that of the employee edited or of none (`DraftOfSelected`), which
is what makes a save reach it, and `EvidenceFollows` says the same of the
evidence. `DetailInv` follows the alerts: the load asked for last is of what is chosen
(`Awaits`), the service's cache holds what is stored until it is old
(`ListsAreCurrent`), and with one note or load under way at a time it is known
what the list will show when it ends (`NotesFollow`). `SettingsInv` follows the rules: a
load that runs alone brings the rules in force (`LoadsInOrder`), so drafts that
nobody edited are of them, and one without an id belongs to a type that has no
rule (`MakesMissing`). `ConsoleInv` says of the only flow under way how far it has
come and what it has been answered (`OnItsWay`), and what the console shows when it
has ended (`Settled`).

`FormInv` adds to `DatesInv` that the payload of a form's request is the form's draft,
trimmed and without its empty fields (`FormSent`). `FormIsFaithful` then compares what the
document shows when the form is opened anew with the draft, field by field, through
what the contract normalises and the merge and the defaults fill in.

`OwnInv`, for the batch and its worker, says which processes are the service's own:
those that live and were not orphaned by a crash are the active one and no other.
It holds because a start looks at `active` in the step that sets it, a stop keeps
it, and a crash orphans what there was. `LoneInv` rests on it. A refresh that finds
no process starts its own; while it waits nothing else can start, so that its run is
the only process, and the statements in their order (`StatementsInOrder`) take
what is read after the request into the table of its year. The orphan of a crash is
the reason for the condition `alone`.

`CacheInv` relates the Map of the cache, in its order, with the history of the keys by
their last use (`Follows`): fresh entries stand in the order of the history, and
whatever stands in the history behind the key of a fresh entry is the key of a
fresh entry too. So the fresh ones are the history's last, which is `LruKeepsRecent`
(`LastAreFresh`). Every call takes entries out, lets one grow old or cuts the front
off (`Thins`, `Cut`), or appends the key just used (`Joined`). What a removal leaves is
described by the places it keeps (`DashboardCache!Picked`) and not by the library's
`SelectSeq`, whose recursion the provers cannot expand; that places keep their order is
`Picking`, from their ranks.

`SafeInv`, for the employees, follows what is on its way: whatever is called late,
logged or retried is a mutation that some request saved, of an employee whose id
was issued, and an employee whose deletion was saved is gone for good (`SentInv`,
`IssuedInv`); a retry marks only what Payroll took (`MarkInv`); a repair about to
write holds only employees that are gone (`RepairInv`); therefore a row says
TERMINATED only if its employee is gone, and is never active (`RowsInv`). That is
enough for the evidence and the reconciliation, which are operators of the rows
of one moment.

`QuietInv` names, for an employee whose changes did not overtake one another, the
change that was last: every earlier one is through, the document is what the last
one saved, and whatever is still on its way for the employee, in a late
call or in a retry, is that change at that rate (`LastChange`). Until it is
through, a CREATE finds no active row; once it is through, Payroll holds what the column
makes of the document's rate (`Delivered`).

For the sessions, `RevokedStaysRevoked` is far from inductive, as it says nothing
of what the tabs carry. `CallInv` says what a call may carry at each of its
steps; `ListInv` that the stored tokens belong to the sessions they name; `JarInv` and
`OwnerInv` that tabs with a browser of their own never hold tokens of one
session, or of a revoked one; `RevokedInv` that the tokens stored of a session are
of one issue, which its tab knows, so that a sign-out that presents it removes all of
them. `StoredInv` rests on a lemma on `mergePersistedSessionTokens`
(`MergeKeeps`): the merge drops a token only when it belongs to the session being
written, has expired, or as many newer sessions as are kept stand beside it.

Only model-checked:

- liveness (`EveryCallReturns`, `EveryEventSettles`, `EveryCallEnds` and those of
  the dashboard and the queue's page), which is out of the prover's reach.

Every safety invariant the passing runs check is stated by a theorem.

The theorems on the summaries are about the instance of `MCDashboard`, which follows
the earnings of two years; what is left open is the number of processes,
readers, changes and mishaps.

## 6 Disagreements, and what the models showed

Three runs find what the repository's documents exclude:

- `payroll_duplicate_history`. `docs/case_study_3_data_consistency.md:49` says
  that duplicate delivery of an event does not append duplicate payroll
  history. After a failed attempt, two overlapping retries both find the row
  FAILED. The second waits for the first one's lock, claims the row without
  looking at its status again and, deciding on its old snapshot, inserts the
  pay rate a second time.
- `outbox_retry_lost`. The dialog of the events panel
  (`dashboard/src/components/IntegrationEventsPanel.jsx:942`) promises another
  processing attempt. If a worker is delivering the event for the last time,
  its failure is written over the reset and the event is DEAD with no attempt
  since.
- `employee_evidence`. The evidence of an employee says "Source, queue, and
  payroll evidence are aligned." (`src/services/employeeSyncEvidenceService.js:239`);
  the plan describes it as showing whether payroll is aligned with the source
  (`docs/case1_4_operational_uplift_plan.md:170`). The repair reads the employees
  and the pay rates in two queries (`integrationReconciliationService.js:261`): an
  employee created in between, and delivered before the second, is terminated
  in Payroll and shown as aligned.

The properties name their exceptions. These are the races that the models
found and that the code leaves open; each is described where the property is:

- Sessions: a token list is written over a newer one (`raced`), so a session
  signed out may come back or a good one be lost; two tabs of a browser share a
  cookie, and one may refresh what the other signs out.
- Alerts: two creations find no active alert of their type; a rebuild that
  began earlier writes later; an alert changes its type under a note.
- Accounts: `Role.name` has no unique index. Two seeds at once store a role twice
  (`together`); every later start then fails with "Root admin roles are missing"
  and creating users is refused. A root that is given the admin role alone is
  reset by the next seed.
- Schema: a process that leaves between dropping the index of the summaries and making
  it anew, while another passes that step and records it, leaves the index missing
  for good. The exception (`severed`) is a little wider: any process that leaves with
  the index yet to make while the step is recorded or another process is starting. A log written during the choice of its duplicates may lose its
  SUCCESS row (`rewritten`). A database of an older version whose summary tables
  lack the scope columns and that has no record cannot be started at all: the
  model indexes are made before the columns.
- Summaries: a refresh answers "Summaries rebuilt" whatever the run's exit code,
  and, when it joined a run of another year, before its own year is rebuilt. A
  warm-up that is being inspected at the moment of a stop may start a child.
- Employee form: an update is checked against the document as it was
  (`raced`), so two updates may store dates out of order. An empty input is
  dropped, so nothing stored can be cleared, and clearing one date may make the
  service refuse the other. A save sends every field and writes over a
  concurrent administrator's.
- Employee editor: when the list loses the employee under the open editor
  (`astray`), the draft becomes a new employee's, and saving creates a duplicate. A
  deletion that moves the view back while a save is under way, or any choice of a view
  with a load under way, may leave rows of the view left on the page (`crowded`).
- Alert settings: a save reloads and drops unsaved edits of other types; after a
  load that failed every rule is taken for missing and a save makes a second.
- Alerts page: a list read before a note and kept after it stays in the
  service's cache for its time to live; rows overtaken by older ones stay.
- Payroll console: a lookup answered after the session was cleared shows its
  record, or restores the session. The payroll service keeps no sessions, so a
  revoked access token is good there until it expires.

Two more disagreements are inside the models, and the properties say how far they go:

- Rates. A document may hold any finite number; Payroll keeps two decimals. At
  10.001 Payroll holds 10.00: the reconciliation finds no issue, the evidence says
  DRIFT for good, and no retry can mend it (`ReconciledToTheCent`,
  `QuietAgreement`). At 1.005 the column makes 1.01 and `toFixed` 1.00: the
  reconciliation reports a mismatch for good too. An UPDATE at such a rate never finds
  itself unchanged and adds a row each time.
- Drilldown. The group "Unknown" that the batch makes of employees without a value
  (`scripts/aggregate-dashboard.js:108`) is offered as a filter, and the list compares the
  column: the total above is looked up for the whole group, the list below holds
  only those whose column says "Unknown" (`Unlisted`). For "Unassigned" departments the
  list and the total are empty, and the export is refused.

Read in the code, outside what a property covers:

- The totals above a drilldown ignore the search and, with a single dimension,
  the plan, where a comment speaks of the entire filtered set
  (`src/controllers/dashboard.controller.js:910`); the list has no sort of its own.
- The analytics page sends a department that the summaries validate and do not
  use; rows aggregated per department by option are read by nobody who looks at
  their scope.
- The brief's cache key is the year and the access to integration data, not the
  role (`dashboardExecutiveService.js:362`). The browser's own brief uses a fixed
  freshness of 120 minutes and takes no notice of a failed alert feed.
- Two initialisations of the service registry may register an adapter twice
  (`serviceRegistry.js:28`); a reconciliation computed during a repair may be
  cached after the repair cleared the cache
  (`integrationReconciliationService.js:335`); an operator's audit is written from
  an earlier query than the update (`integrationOperatorService.js:97`).

## 7 What is not modelled, and the plan

Not modelled:

- request plumbing: parsing, formatting, logging, error bodies, and the
  validation of requests other than an employee's and an alert's;
- passwords, and the signing of tokens beyond its order in time;
- charts, tables, layout and styling of the browser, and the forms of sign-in and
  sign-up;
- seed, demo and repair scripts, the OpenAPI description, Postman collections,
  generated data;
- the start and stop of the outbox worker as functions, and the counter that
  numbers its events: a loop stopped and started again is two workers;
- the option that drops all tables before they are made, and read-only checks of
  readiness and queue metrics, which have no state.

Abstractions that matter: a delivery of several adapters is one call; queries
behind an alert's count are one number; benefits and vacation go through the
same steps as earnings and are followed as those; fields of an employee that
are treated alike are one field.

What a next step would be: the theorems on the summaries for any number of years, which
needs the batch's statements as a function of the years, and the request plumbing.
