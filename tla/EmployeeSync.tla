---------------------------- MODULE EmployeeSync ----------------------------
(***************************************************************************)
(* An employee record on its way to Payroll: the create, update and delete *)
(* handlers of src/controllers/employee.controller.js, the queue they put  *)
(* events into and the direct call they fall back to (syncService.js,      *)
(* serviceRegistry.js, payroll.adapter.js), the operator's retry of failed *)
(* deliveries and the repair of extra payroll coverage.                    *)
(*                                                                         *)
(* The queue is the abstract one of EventQueue.tla, which Outbox.tla       *)
(* implements, and Payroll is the ledger of PayrollLedger.tla, which       *)
(* PayrollService.tla implements when calls do not overlap.  A step is the *)
(* code between two awaits; a call to Payroll is one step that may come    *)
(* late, after its caller has given up on it.                              *)
(***************************************************************************)
EXTENDS PayrollRules, FiniteSets

CONSTANTS
  Employees,      \* employee ids, each reserved at most once
  DocRates,       \* the rates that documents are given
  Fixed,          \* Fixed[r]: the number r after toFixed(2)
  Requests,       \* client requests, each of them one handler call
  Correlations,   \* the x-request-id values that clients send
  OutboxEnabled,  \* OUTBOX_ENABLED
  RetryLimit,     \* SYNC_RETRY_BATCH_LIMIT
  MaxFaults,      \* bound: calls, updates and processes that fail
  MaxRepairs,     \* bound: repairs that find something to close
  OneSnapshot,    \* are the employees the same at both reads of a repair?
  NoRecord,
  NoKey

Actions == {"CREATE", "UPDATE", "DELETE"}
SyncKeys == [emp : Employees, act : Actions, corr : Correlations]

\* The mark of the rows that a repair inserts, one per employee.
RepairKey(e) == [emp |-> e, act |-> "REPAIR"]

\* The payroll fields of a full document: a rate, and no pay type.
Payload(rate) == [rate |-> rate, type |-> Absent]

ASSUME EmployeeSyncAssumption ==
  /\ Keys = SyncKeys \cup {RepairKey(e) : e \in Employees}
  /\ Payloads = {Payload(rate) : rate \in Rates}
  /\ DocRates \subseteq Rates
  /\ OutboxEnabled \in BOOLEAN /\ OneSnapshot \in BOOLEAN
  /\ RetryLimit \in Nat \ {0} /\ MaxFaults \in Nat /\ MaxRepairs \in Nat
  /\ NoRecord \notin Rates \cup Requests /\ NoKey \notin Keys
  /\ IsFiniteSet(Employees)

(***************************************************************************)
(* What has two decimals keeps them.  The two roundings need not agree on  *)
(* the rest: the column rounds the number as it is written, toFixed the    *)
(* binary one it stands for (1.005 is stored as 1.01 and fixed to 1.00).   *)
(***************************************************************************)
ASSUME FixedAssumption ==
  /\ Fixed \in [Rates -> Rates]
  /\ \A r \in StoredRates : Fixed[r] = r

NormalizePayRate(rate) == Fixed[rate]

VARIABLES
  source,      \* source[e]: the pay rate of the employee document, or NoRecord
  issued,      \* the employee ids that were reserved
  pc,          \* pc[r]: what the handler of request r does next
  key,         \* key[r]: the mutation of r, NoKey before it is saved
  doc,         \* doc[r]: the pay rate of the document that r saved
  reply,       \* reply[r]: the sync status r answered
  adapters,    \* the integrations that the registry could load
  queue,       \* queue[r]: the state of the event of r
  accepted,    \* the events that were delivered
  newest,      \* newest[e]: the request that enqueued the latest event of e
  history,     \* pay_rates, per employee
  syncLog,     \* sync_log statuses
  logged,      \* the sync_log rows in createdAt order
  late,        \* calls that their caller gave up and Payroll has yet to run
  retry,       \* retryFailedSyncs
  repair,      \* repairExtraPayrollCoverage
  faults, repairs,
  overlapped   \* employees that were changed before their last change, or a
               \* retry, was through

Events == INSTANCE EventQueue WITH Events <- Requests, state <- queue
Ledger == INSTANCE PayrollLedger WITH
            Emp <- [k \in Keys |-> k.emp], Act <- [k \in Keys |-> k.act]

sources == <<source, issued, pc, key, doc, reply>>
events == <<queue, accepted, newest>>
payroll == <<history, syncLog, logged>>
bounds == <<faults, repairs>>
vars == <<sources, adapters, events, payroll, late, retry, repair, bounds,
          overlapped>>

Calls == [key : SyncKeys, rate : Rates]

NoRetry == [pc |-> "idle", targets |-> {}, key |-> NoKey, rate |-> 0]
NoRepair == [pc |-> "idle", gone |-> {}, rows |-> {}]

TypeOK ==
  /\ source \in [Employees -> Rates \cup {NoRecord}]
  /\ issued \subseteq Employees
  /\ pc \in [Requests -> {"idle", "saved", "fallback", "replied", "lost"}]
  /\ key \in [Requests -> SyncKeys \cup {NoKey}]
  /\ doc \in [Requests -> Rates]
  /\ reply \in [Requests -> {"none", "QUEUED", "SUCCESS", "FAILED"}]
  /\ adapters \subseteq {"payroll"}
  /\ Events!TypeOK
  /\ newest \in [Employees -> Requests \cup {NoRecord}]
  /\ history \in [Employees -> Seq(PayRate)]
  /\ syncLog \in [Keys -> {"NONE", "SUCCESS", "FAILED"}]
  /\ logged \in Seq(SyncKeys)
  /\ late \subseteq Calls
  /\ retry \in [pc : {"idle", "next", "call", "mark"}, targets : SUBSET SyncKeys,
                key : SyncKeys \cup {NoKey}, rate : Rates]
  /\ repair \in [pc : {"idle", "reading", "write"}, gone : SUBSET Employees,
                 rows : SUBSET [emp : Employees, rate : StoredRates]]
  /\ faults \in 0 .. MaxFaults /\ repairs \in 0 .. MaxRepairs
  /\ overlapped \subseteq Employees

Init ==
  /\ source = [e \in Employees |-> NoRecord]
  /\ issued = {}
  /\ pc = [r \in Requests |-> "idle"]
  /\ key = [r \in Requests |-> NoKey]
  /\ doc = [r \in Requests |-> 0]
  /\ reply = [r \in Requests |-> "none"]
  /\ adapters \in SUBSET {"payroll"}
  /\ Events!Init
  /\ newest = [e \in Employees |-> NoRecord]
  /\ Ledger!Init
  /\ logged = <<>>
  /\ late = {}
  /\ retry = NoRetry
  /\ repair = NoRepair
  /\ faults = 0 /\ repairs = 0
  /\ overlapped = {}

-----------------------------------------------------------------------------
(***************************************************************************)
(* What the properties say of an employee.                                 *)
(***************************************************************************)
Of(e) == {r \in Requests : key[r] # NoKey /\ key[r].emp = e}

\* Something is on its way to Payroll for e, or was lost on the way.
Unsettled(e) ==
  \/ \E r \in Of(e) : \/ pc[r] \in {"saved", "fallback"}
                      \/ queue[r] = "OPEN"
                      \/ syncLog[key[r]] # "SUCCESS"
  \/ \E c \in late : c.key.emp = e
  \/ \E k \in retry.targets \cup ({retry.key} \ {NoKey}) : k.emp = e

\* The current row has the rate of the document, or both are gone.
Aligned(e) ==
  IF source[e] = NoRecord THEN Active(history[e]) = {}
  ELSE \E row \in CurrentRate(history[e]) : row.rate = source[e]

\* The current row has what the column makes of that rate.
Delivered(e) ==
  IF source[e] = NoRecord THEN Active(history[e]) = {}
  ELSE \E row \in CurrentRate(history[e]) : row.rate = Stored[source[e]]

-----------------------------------------------------------------------------
(***************************************************************************)
(* The handlers, up to the save.  The payload is the document as the save  *)
(* returns it, so a rate is always present; a DELETE carries the id alone. *)
(***************************************************************************)
Saves(r, k, rate) ==
  /\ pc[r] = "idle"
  /\ pc' = [pc EXCEPT ![r] = "saved"]
  /\ key' = [key EXCEPT ![r] = k]
  /\ doc' = [doc EXCEPT ![r] = rate]
  /\ overlapped' = IF Unsettled(k.emp) THEN overlapped \cup {k.emp} ELSE overlapped
  /\ UNCHANGED <<reply, adapters, events, payroll, late, retry, repair, bounds>>

CreateEmployee(r) ==
  \E e \in Employees \ issued, corr \in Correlations, rate \in DocRates :
    /\ issued' = issued \cup {e}
    /\ source' = [source EXCEPT ![e] = rate]
    /\ Saves(r, [emp |-> e, act |-> "CREATE", corr |-> corr], rate)

UpdateEmployee(r) ==
  \E e \in Employees, corr \in Correlations, rate \in DocRates :
    /\ source[e] # NoRecord
    /\ source' = [source EXCEPT ![e] = rate]
    /\ Saves(r, [emp |-> e, act |-> "UPDATE", corr |-> corr], rate)
    /\ UNCHANGED issued

DeleteEmployee(r) ==
  \E e \in Employees, corr \in Correlations :
    /\ source[e] # NoRecord
    /\ source' = [source EXCEPT ![e] = NoRecord]
    /\ Saves(r, [emp |-> e, act |-> "DELETE", corr |-> corr], 0)
    /\ UNCHANGED issued

-----------------------------------------------------------------------------
(***************************************************************************)
(* dispatchEmployeeMutation.                                               *)
(***************************************************************************)
Replies(r, status) ==
  /\ pc' = [pc EXCEPT ![r] = "replied"]
  /\ reply' = [reply EXCEPT ![r] = status]
  /\ UNCHANGED <<source, issued, key, doc>>

Fault == faults < MaxFaults /\ faults' = faults + 1 /\ UNCHANGED repairs

EnqueuesEvent(r) ==
  /\ Events!Enqueue(r)
  /\ newest' = [newest EXCEPT ![key[r].emp] = r]

Enqueue(r) ==
  /\ OutboxEnabled /\ pc[r] = "saved"
  /\ EnqueuesEvent(r)
  /\ Replies(r, "QUEUED")
  /\ UNCHANGED <<adapters, payroll, late, retry, repair, bounds, overlapped>>

\* The insert throws, and the event may be in the collection all the same.
EnqueueThrows(r) ==
  /\ OutboxEnabled /\ pc[r] = "saved" /\ Fault
  /\ pc' = [pc EXCEPT ![r] = "fallback"]
  /\ EnqueuesEvent(r) \/ UNCHANGED events
  /\ UNCHANGED <<source, issued, key, doc, reply, adapters, payroll, late, retry,
                 repair, overlapped>>

\* The process dies between the save and the answer.
HandlerDies(r) ==
  /\ pc[r] \in {"saved", "fallback"} /\ Fault
  /\ pc' = [pc EXCEPT ![r] = "lost"]
  /\ UNCHANGED <<source, issued, key, doc, reply, adapters, events, payroll,
                 late, retry, repair, overlapped>>

-----------------------------------------------------------------------------
(***************************************************************************)
(* syncEmployeeToPayroll: a call of the adapter, which answers success,    *)
(* answers failure, or gives up after 5 seconds.                           *)
(***************************************************************************)
Logs(k) ==
  logged' = IF \E i \in DOMAIN logged : logged[i] = k THEN logged ELSE Append(logged, k)

\* Mutant: a repeated call is applied again.
PayrollRunsAgain(k, rate) ==
  /\ history' = [history EXCEPT ![k.emp] =
                   Write(k.act, @, Handle(k.act, k, Payload(rate), @))]
  /\ syncLog' = [syncLog EXCEPT ![k] = "SUCCESS"]
  /\ Logs(k)

\* Payroll runs the call: a mutation that is marked SUCCESS is not repeated.
PayrollRuns(k, rate) ==
  /\ IF syncLog[k] = "SUCCESS" THEN UNCHANGED <<history, syncLog>>
     ELSE Ledger!Apply(k, Payload(rate))
  /\ Logs(k)

\* The handler fails, Payroll rolls it back and records the failure.
PayrollFails(k) ==
  /\ syncLog[k] # "SUCCESS"
  /\ Ledger!Fail(k)
  /\ Logs(k)

CallSucceeds(k, rate) ==
  /\ IF adapters = {} THEN UNCHANGED payroll ELSE PayrollRuns(k, rate)
  /\ UNCHANGED <<late, bounds>>

CallFails(k, rate) ==
  /\ adapters # {} /\ Fault
  /\ \/ PayrollFails(k) /\ UNCHANGED late
     \/ UNCHANGED payroll /\ late' \in {late, late \cup {[key |-> k, rate |-> rate]}}

\* A call whose caller is gone reaches Payroll.
LateCall ==
  \E c \in late :
    /\ late' = late \ {c}
    /\ PayrollRuns(c.key, c.rate)
    /\ UNCHANGED <<sources, adapters, events, retry, repair, bounds, overlapped>>

DirectSync(r) ==
  /\ pc[r] = "fallback" \/ (pc[r] = "saved" /\ ~OutboxEnabled)
  /\ \/ CallSucceeds(key[r], doc[r]) /\ Replies(r, "SUCCESS")
     \/ CallFails(key[r], doc[r]) /\ Replies(r, "FAILED")
  /\ UNCHANGED <<adapters, events, retry, repair, overlapped>>

(***************************************************************************)
(* The worker and the operator of the queue: what Outbox.tla does to one   *)
(* event.  Deliveries that go on failing end in DEAD, which counts as one  *)
(* fault, and a settled event may be opened again.                         *)
(***************************************************************************)
DeliverEvent(r) ==
  /\ queue[r] = "OPEN"
  /\ \/ CallSucceeds(key[r], doc[r]) /\ Events!Deliver(r)
     \/ CallFails(key[r], doc[r]) /\ UNCHANGED <<queue, accepted>>
  /\ UNCHANGED <<sources, adapters, newest, retry, repair, overlapped>>

SettleEvent(r) ==
  /\ queue[r] = "OPEN"
  /\ Events!Settle(r)
  /\ IF queue'[r] = "DEAD" THEN Fault ELSE UNCHANGED bounds
  /\ UNCHANGED <<sources, adapters, newest, payroll, late, retry, repair, overlapped>>

ReopenEvent(r) ==
  /\ queue[r] \in {"SUCCESS", "DEAD"}
  /\ Events!Reopen({r})
  /\ UNCHANGED <<sources, adapters, newest, payroll, late, retry, repair, bounds,
                 overlapped>>

-----------------------------------------------------------------------------
(***************************************************************************)
(* retryFailedSyncs: the oldest failed rows up to the limit, and of those  *)
(* the latest of each employee.  The payload of a retry is the document as *)
(* it is now, under the action and correlation id of the failed row.       *)
(***************************************************************************)
FailedRows == {i \in DOMAIN logged : syncLog[logged[i]] = "FAILED"}
FailedBatch ==
  {i \in FailedRows : Cardinality({j \in FailedRows : j < i}) < RetryLimit}

RetryTargets ==
  {logged[i] : i \in {j \in FailedBatch :
     \A l \in FailedBatch : logged[l].emp = logged[j].emp => l <= j}}

StartRetry ==
  /\ retry.pc = "idle" /\ RetryTargets # {}
  /\ retry' = [retry EXCEPT !.pc = "next", !.targets = RetryTargets]
  /\ UNCHANGED <<sources, adapters, events, payroll, late, repair, bounds,
                 overlapped>>

\* Mutant: the employee is not missed when it is gone.
RetryNextUnchecked(k) ==
  /\ retry.pc = "next" /\ k \in retry.targets
  /\ retry' = [retry EXCEPT !.pc = "call", !.key = k, !.targets = @ \ {k},
                            !.rate = IF k.act = "DELETE" THEN 0 ELSE source[k.emp]]
  /\ UNCHANGED <<sources, adapters, events, payroll, late, repair, bounds,
                 overlapped>>

RetryNext(k) ==
  /\ retry.pc = "next" /\ k \in retry.targets
  /\ retry' = IF k.act = "DELETE"
              THEN [retry EXCEPT !.pc = "call", !.key = k, !.rate = 0, !.targets = @ \ {k}]
              ELSE IF source[k.emp] # NoRecord
              THEN [retry EXCEPT !.pc = "call", !.key = k, !.rate = source[k.emp],
                                 !.targets = @ \ {k}]
              ELSE [retry EXCEPT !.targets = @ \ {k}]
  /\ UNCHANGED <<sources, adapters, events, payroll, late, repair, bounds,
                 overlapped>>

RetryCall ==
  /\ retry.pc = "call"
  /\ \/ CallSucceeds(retry.key, retry.rate) /\ retry' = [retry EXCEPT !.pc = "mark"]
     \/ /\ CallFails(retry.key, retry.rate)
        /\ retry' = [retry EXCEPT !.pc = "next", !.key = NoKey, !.rate = 0]
  /\ UNCHANGED <<sources, adapters, events, repair, overlapped>>

\* Every failed row of the employee is marked, whatever its mutation was.
RetryMark ==
  /\ retry.pc = "mark"
  /\ syncLog' = [k \in Keys |->
                   IF k.emp = retry.key.emp /\ syncLog[k] = "FAILED" THEN "SUCCESS"
                   ELSE syncLog[k]]
  /\ retry' = [retry EXCEPT !.pc = "next", !.key = NoKey, !.rate = 0]
  /\ UNCHANGED <<sources, adapters, events, history, logged, late, repair, bounds,
                 overlapped>>

EndRetry ==
  /\ retry.pc = "next" /\ retry.targets = {}
  /\ retry' = NoRetry
  /\ UNCHANGED <<sources, adapters, events, payroll, late, repair, bounds,
                 overlapped>>

-----------------------------------------------------------------------------
(***************************************************************************)
(* repairExtraPayrollCoverage: two queries to two databases, then one      *)
(* transaction that closes the rows of every employee the first query did  *)
(* not see and the second did.                                             *)
(***************************************************************************)
Covered == {e \in Employees :
              \E i \in Active(history[e]) : history[e][i].type # "TERMINATED"}

Coverage == {[emp |-> e, rate |-> RateOr0(CurrentRate(history[e]))] : e \in Covered}

Gone == {e \in Employees : source[e] = NoRecord}

ReadSource ==
  /\ repair.pc = "idle" /\ repairs < MaxRepairs
  /\ repair' = [pc |-> "reading", gone |-> Gone, rows |-> {}]
  /\ UNCHANGED <<sources, adapters, events, payroll, late, retry, bounds,
                 overlapped>>

\* Mutant: whatever Payroll covers is extra, in the source or not.
ExtraOfAll == Coverage

\* What the source did not have when it was read.
Extra == {c \in Coverage : c.emp \in repair.gone}

\* A repair that finds nothing extra ends here.
ReadPayroll ==
  /\ repair.pc = "reading" /\ repairs < MaxRepairs
  /\ OneSnapshot => repair.gone = Gone
  /\ \/ Extra = {} /\ repair' = NoRepair /\ UNCHANGED repairs
     \/ /\ Extra # {}
        /\ repair' = [repair EXCEPT !.pc = "write", !.rows = Extra]
        /\ repairs' = repairs + 1
  /\ UNCHANGED <<sources, adapters, events, payroll, late, retry, faults,
                 overlapped>>

\* The coverage of e is deactivated, and a row at the rate that was read closes it.
Terminate(e, rows, rate) ==
  Deactivate(rows) \o <<[rate |-> NormalizePayRate(rate), type |-> "TERMINATED",
                         active |-> FALSE, by |-> RepairKey(e)]>>

CommitRepair ==
  /\ repair.pc = "write"
  /\ history' = [e \in Employees |->
                   LET seen == {c \in repair.rows : c.emp = e}
                   IN IF seen # {} THEN Terminate(e, history[e], TheRow(seen).rate)
                      ELSE history[e]]
  /\ repair' = NoRepair
  /\ UNCHANGED <<sources, adapters, events, syncLog, logged, late, retry, bounds,
                 overlapped>>

RollBackRepair ==
  /\ repair.pc = "write" /\ Fault
  /\ repair' = NoRepair
  /\ UNCHANGED <<sources, adapters, events, payroll, late, retry, overlapped>>

-----------------------------------------------------------------------------
Handler(r) ==
  \/ CreateEmployee(r) \/ UpdateEmployee(r) \/ DeleteEmployee(r)
  \/ Enqueue(r) \/ EnqueueThrows(r) \/ DirectSync(r) \/ HandlerDies(r)

Worker(r) == DeliverEvent(r) \/ SettleEvent(r) \/ ReopenEvent(r)

Retry ==
  \/ StartRetry \/ RetryCall \/ RetryMark \/ EndRetry
  \/ \E k \in SyncKeys : RetryNext(k)

Repair == ReadSource \/ ReadPayroll \/ CommitRepair \/ RollBackRepair

Next ==
  \/ \E r \in Requests : Handler(r) \/ Worker(r)
  \/ LateCall \/ Retry \/ Repair

Spec == Init /\ [][Next]_vars
=============================================================================
