--------------------------- MODULE PayrollService ---------------------------
(***************************************************************************)
(* applyPayrollMutation of src/services/payrollMutationService.js as it    *)
(* runs on MySQL: every delivery of a mutation is a call that opens a      *)
(* transaction, claims the mutation's sync_log row, runs the handler and   *)
(* commits, or rolls back and records the failure in a statement of its    *)
(* own.  Calls interleave at every await.                                  *)
(*                                                                         *)
(* Isolation is InnoDB's REPEATABLE READ, which mysqlDatabase.js does not  *)
(* change: a plain SELECT reads the snapshot of the transaction's first    *)
(* SELECT, an UPDATE or INSERT works on the committed rows and waits for   *)
(* the row locks of other open transactions, which last until they end.    *)
(***************************************************************************)
EXTENDS PayrollRules

CONSTANTS
  Calls,      \* deliveries: calls of applyPayrollMutation, one attempt each
  Employees,
  Emp,        \* Emp[k]: the employee of mutation k
  Act,        \* Act[k]: its action
  Overlap     \* may calls for one employee be open at the same time?

ASSUME ServiceAssumption ==
  /\ Emp \in [Keys -> Employees]
  /\ Act \in [Keys -> {"CREATE", "UPDATE", "DELETE"}]
  /\ Overlap \in BOOLEAN

VARIABLES
  history,  \* history[e]: the committed pay_rates rows of employee e
  syncLog,  \* syncLog[k]: the committed status of k's sync_log row
  req,      \* req[c]: the mutation and the payload that call c delivers
  pc,       \* pc[c]: the statement of the service that call c runs next
  seen,     \* seen[c]: the rows of its employee in call c's snapshot
  txLog,    \* txLog[c]: the status c has written to its row, not committed
  txRows,   \* txRows[c]: the rows that c has inserted, not committed
  reply     \* reply[c]: what the service answered

vars == <<history, syncLog, req, pc, seen, txLog, txRows, reply>>
committed == <<history, syncLog>>

LogStatus == {"NONE", "PENDING", "SUCCESS", "FAILED"}
Locations == {"new", "claim", "insert", "reclaim", "handle", "mark",
              "commit", "record", "done"}
Replies == {"none", "applied", "deduplicated", "failed"}

Key(c) == req[c].key
EmpOf(c) == Emp[Key(c)]
ActOf(c) == Act[Key(c)]

TypeOK ==
  /\ history \in [Employees -> Seq(PayRate)]
  /\ syncLog \in [Keys -> LogStatus]
  /\ req \in [Calls -> [key : Keys, payload : Payloads]]
  /\ pc \in [Calls -> Locations]
  /\ seen \in [Calls -> Seq(PayRate)]
  /\ txLog \in [Calls -> LogStatus]
  /\ txRows \in [Calls -> {<<>>} \cup {<<row>> : row \in PayRate}]
  /\ reply \in [Calls -> Replies]

Open(c) == pc[c] \notin {"new", "done"}

\* Mutant: the failure is recorded before the rollback releases the lock.
HoldsLogWhileRecording(c, k) ==
  Key(c) = k /\ pc[c] \in {"handle", "mark", "commit", "record"}

\* Locks on the sync_log row of k and on the pay_rates rows of e.
HoldsLog(c, k) == Key(c) = k /\ pc[c] \in {"handle", "mark", "commit"}
HoldsRows(c, e) == EmpOf(c) = e /\ txRows[c] # <<>>
LogFree(k) == \A c \in Calls : ~HoldsLog(c, k)
RowsFree(e) == \A c \in Calls : ~HoldsRows(c, e)

Init ==
  /\ history = [e \in Employees |-> <<>>]
  /\ syncLog = [k \in Keys |-> "NONE"]
  /\ req \in [Calls -> [key : Keys, payload : Payloads]]
  /\ pc = [c \in Calls |-> "new"]
  /\ seen = [c \in Calls |-> <<>>]
  /\ txLog = [c \in Calls |-> "NONE"]
  /\ txRows = [c \in Calls |-> <<>>]
  /\ reply = [c \in Calls |-> "none"]

GoTo(c, loc) == pc' = [pc EXCEPT ![c] = loc]

\* The call returns: its transaction is over and its locks are released.
Return(c, answer) ==
  /\ GoTo(c, "done")
  /\ reply' = [reply EXCEPT ![c] = answer]
  /\ txLog' = [txLog EXCEPT ![c] = "NONE"]
  /\ txRows' = [txRows EXCEPT ![c] = <<>>]

-----------------------------------------------------------------------------
(***************************************************************************)
(* The request arrives and sequelize.transaction() opens the transaction.  *)
(***************************************************************************)
Begin(c) ==
  /\ pc[c] = "new"
  /\ Overlap \/ \A d \in Calls : Open(d) => EmpOf(d) # EmpOf(c)
  /\ GoTo(c, "claim")
  /\ UNCHANGED <<committed, req, seen, txLog, txRows, reply>>

\* No connection: the exception leaves the service before its try block.
BeginFails(c) ==
  /\ pc[c] = "new"
  /\ Return(c, "failed")
  /\ UNCHANGED <<committed, req, seen>>

(***************************************************************************)
(* findOrCreate begins with the SELECT that fixes the snapshot.  A row     *)
(* that says SUCCESS, or PENDING, ends the call with a rollback and a      *)
(* success answer.                                                         *)
(***************************************************************************)
Claim(c) ==
  /\ pc[c] = "claim"
  /\ syncLog[Key(c)] \in {"NONE", "FAILED"}
  /\ seen' = [seen EXCEPT ![c] = history[EmpOf(c)]]
  /\ GoTo(c, IF syncLog[Key(c)] = "NONE" THEN "insert" ELSE "reclaim")
  /\ UNCHANGED <<committed, req, txLog, txRows, reply>>

\* Mutant: any existing row counts as a duplicate, a FAILED one too.
DeduplicateAnyRow(c) ==
  /\ pc[c] = "claim"
  /\ syncLog[Key(c)] # "NONE"
  /\ Return(c, "deduplicated")
  /\ UNCHANGED <<committed, req, seen>>

Deduplicate(c) ==
  /\ pc[c] = "claim"
  /\ syncLog[Key(c)] \in {"SUCCESS", "PENDING"}
  /\ Return(c, "deduplicated")
  /\ UNCHANGED <<committed, req, seen>>

(***************************************************************************)
(* The INSERT of findOrCreate, once no other transaction holds the row.    *)
(* If the row exists by then the INSERT breaks the unique index, the       *)
(* second SELECT of findOrCreate does not see the row (it is not in the    *)
(* snapshot) and the duplicate-key error is thrown.                        *)
(***************************************************************************)
InsertLog(c) ==
  /\ pc[c] = "insert"
  /\ LogFree(Key(c))
  /\ syncLog[Key(c)] = "NONE"
  /\ txLog' = [txLog EXCEPT ![c] = "PENDING"]
  /\ GoTo(c, "handle")
  /\ UNCHANGED <<committed, req, seen, txRows, reply>>

InsertLogDuplicate(c) ==
  /\ pc[c] = "insert"
  /\ LogFree(Key(c))
  /\ syncLog[Key(c)] # "NONE"
  /\ GoTo(c, "record")
  /\ UNCHANGED <<committed, req, seen, txLog, txRows, reply>>

\* A FAILED row is set to PENDING again, whatever became of it meanwhile.
ReclaimLog(c) ==
  /\ pc[c] = "reclaim"
  /\ LogFree(Key(c))
  /\ txLog' = [txLog EXCEPT ![c] = "PENDING"]
  /\ GoTo(c, "handle")
  /\ UNCHANGED <<committed, req, seen, txRows, reply>>

(***************************************************************************)
(* The handler decides on the rows of the snapshot.  If it writes, it      *)
(* waits for the employee's rows.                                          *)
(***************************************************************************)
RunHandler(c) ==
  LET inserted == Handle(ActOf(c), Key(c), req[c].payload, seen[c])
  IN /\ pc[c] = "handle"
     /\ inserted = <<>> \/ RowsFree(EmpOf(c))
     /\ txRows' = [txRows EXCEPT ![c] = inserted]
     /\ GoTo(c, "mark")
     /\ UNCHANGED <<committed, req, seen, txLog, reply>>

\* Mutant: the final update of the sync_log row is missing.
MarkSuccessForgotten(c) ==
  /\ pc[c] = "mark"
  /\ GoTo(c, "commit")
  /\ UNCHANGED <<committed, req, seen, txLog, txRows, reply>>

MarkSuccess(c) ==
  /\ pc[c] = "mark"
  /\ txLog' = [txLog EXCEPT ![c] = "SUCCESS"]
  /\ GoTo(c, "commit")
  /\ UNCHANGED <<committed, req, seen, txRows, reply>>

\* Mutant: the rows are written back as they were read.
PublishSnapshot(c) ==
  /\ syncLog' = [syncLog EXCEPT ![Key(c)] = txLog[c]]
  /\ history' = [history EXCEPT ![EmpOf(c)] =
                   Write(ActOf(c), seen[c], txRows[c])]

\* Mutant: is_active is cleared row by row, on the rows that were read.
PublishClosingSeen(c) ==
  LET closed(rows) ==
        [i \in DOMAIN rows |->
           IF i \in DOMAIN seen[c] THEN Closed(rows[i])
           ELSE rows[i]]
  IN /\ syncLog' = [syncLog EXCEPT ![Key(c)] = txLog[c]]
     /\ history' = [history EXCEPT ![EmpOf(c)] =
                      IF txRows[c] # <<>> /\ ActOf(c) # "CREATE"
                      THEN closed(@) \o txRows[c]
                      ELSE @ \o txRows[c]]

\* The transaction's writes become visible.
Publish(c) ==
  /\ syncLog' = [syncLog EXCEPT ![Key(c)] = txLog[c]]
  /\ history' = [history EXCEPT ![EmpOf(c)] = Write(ActOf(c), @, txRows[c])]

Commit(c) ==
  /\ pc[c] = "commit"
  /\ Publish(c)
  /\ Return(c, "applied")
  /\ UNCHANGED <<req, seen>>

(***************************************************************************)
(* COMMIT itself fails: MySQL has committed or not, and the rollback of    *)
(* the catch block throws because Sequelize holds the transaction for      *)
(* finished, so that no failure is recorded.                               *)
(***************************************************************************)
CommitFails(c) ==
  /\ pc[c] = "commit"
  /\ Publish(c) \/ UNCHANGED committed
  /\ Return(c, "failed")
  /\ UNCHANGED <<req, seen>>

\* Mutant: the catch block forgets to roll back the handler's writes.
AbortWithoutRollback(c) ==
  /\ pc[c] \in {"claim", "insert", "reclaim", "handle", "mark"}
  /\ GoTo(c, "record")
  /\ txLog' = [txLog EXCEPT ![c] = "NONE"]
  /\ txRows' = [txRows EXCEPT ![c] = <<>>]
  /\ history' = [history EXCEPT ![EmpOf(c)] = Write(ActOf(c), @, txRows[c])]
  /\ UNCHANGED <<syncLog, req, seen, reply>>

(***************************************************************************)
(* Any statement inside the transaction throws (a lost connection, a lock  *)
(* wait timeout, a deadlock victim): the catch block rolls back.           *)
(***************************************************************************)
Abort(c) ==
  /\ pc[c] \in {"claim", "insert", "reclaim", "handle", "mark"}
  /\ GoTo(c, "record")
  /\ txLog' = [txLog EXCEPT ![c] = "NONE"]
  /\ txRows' = [txRows EXCEPT ![c] = <<>>]
  /\ UNCHANGED <<committed, req, seen, reply>>

(***************************************************************************)
(* SyncLog.upsert, outside any transaction: FAILED whatever the row says.  *)
(* It may fail too, and then leaves no trace.                              *)
(***************************************************************************)
RecordFailure(c) ==
  /\ pc[c] = "record"
  /\ LogFree(Key(c))
  /\ syncLog' = [syncLog EXCEPT ![Key(c)] = "FAILED"]
  /\ Return(c, "failed")
  /\ UNCHANGED <<history, req, seen>>

RecordFailureFails(c) ==
  /\ pc[c] = "record"
  /\ Return(c, "failed")
  /\ UNCHANGED <<committed, req, seen>>

(***************************************************************************)
(* The payroll process, or MySQL, dies: open transactions are rolled back  *)
(* and their callers see a broken connection.                              *)
(***************************************************************************)
Crash ==
  /\ \E c \in Calls : Open(c)
  /\ pc' = [c \in Calls |-> IF Open(c) THEN "done" ELSE pc[c]]
  /\ reply' = [c \in Calls |-> IF Open(c) THEN "failed" ELSE reply[c]]
  /\ txLog' = [c \in Calls |-> "NONE"]
  /\ txRows' = [c \in Calls |-> <<>>]
  /\ UNCHANGED <<committed, req, seen>>

-----------------------------------------------------------------------------
\* The steps a call takes when nothing goes wrong around it.
Step(c) ==
  \/ Claim(c) \/ Deduplicate(c)
  \/ InsertLog(c) \/ InsertLogDuplicate(c) \/ ReclaimLog(c)
  \/ RunHandler(c) \/ MarkSuccess(c) \/ Commit(c)
  \/ RecordFailure(c)

Fault(c) == BeginFails(c) \/ Abort(c) \/ CommitFails(c) \/ RecordFailureFails(c)

\* Every delivery has been answered: the service waits for the next one.
Quiet == (\A c \in Calls : pc[c] = "done") /\ UNCHANGED vars

Next ==
  \/ \E c \in Calls : Begin(c) \/ Step(c) \/ Fault(c)
  \/ Crash
  \/ Quiet

Spec == Init /\ [][Next]_vars

(***************************************************************************)
(* Once begun, a call goes on to its end: the event loop runs every        *)
(* continuation and MySQL grants every lock that is released.              *)
(***************************************************************************)
FairSpec == Spec /\ \A c \in Calls : WF_vars(Step(c))

-----------------------------------------------------------------------------
(***************************************************************************)
(* Properties that hold however deliveries overlap.                        *)
(***************************************************************************)

(***************************************************************************)
(* A committed sync_log row is never PENDING.  The service answers success *)
(* to a delivery that finds PENDING, so a PENDING row left behind by a     *)
(* transaction that ended would swallow every retry of its mutation.       *)
(***************************************************************************)
NothingLeftPending == \A k \in Keys : syncLog[k] # "PENDING"

\* The pay-rate history shows what call c asked for, as the column holds it.
Recorded(c) ==
  \E i \in DOMAIN history[EmpOf(c)] :
    LET row == history[EmpOf(c)][i]
    IN /\ ActOf(c) = "DELETE" => row.type = "TERMINATED"
       /\ ActOf(c) = "UPDATE" =>
            /\ req[c].payload.rate # Absent => row.rate = Stored[req[c].payload.rate]
            /\ req[c].payload.type \in {Absent, row.type}

\* An UPDATE that carries neither field asks for nothing.
AsksNothing(c) ==
  ActOf(c) = "UPDATE" /\ req[c].payload = [rate |-> Absent, type |-> Absent]

Settled(k) == \E c \in Calls : Key(c) = k /\ (Recorded(c) \/ AsksNothing(c))

(***************************************************************************)
(* An acknowledged mutation is in the history, for good: the rows show it  *)
(* if its call was answered "applied", some delivery of it if the call was *)
(* deduplicated or the log says SUCCESS.  No crash, failed commit or       *)
(* concurrent delivery takes it back.                                      *)
(***************************************************************************)
AcknowledgedIsRecorded ==
  /\ \A c \in Calls :
       /\ reply[c] = "applied" => Recorded(c) \/ AsksNothing(c)
       /\ reply[c] = "deduplicated" => Settled(Key(c))
  /\ \A k \in Keys : syncLog[k] = "SUCCESS" => Settled(k)

\* Row "after" is row "before", or the same row deactivated.
SameOrClosed(before, after) ==
  after = before \/ after = Closed(before)

(***************************************************************************)
(* The pay history is an audit trail: no step removes or rewrites a row or *)
(* brings an inactive one back, and none adds two rows.                    *)
(***************************************************************************)
HistoryOnlyGrows ==
  [][\A e \in Employees :
       /\ Len(history'[e]) \in {Len(history[e]), Len(history[e]) + 1}
       /\ \A i \in DOMAIN history[e] :
            SameOrClosed(history[e][i], history'[e][i])]_vars

(***************************************************************************)
(* A step that adds the row of an UPDATE leaves that row alone active, one *)
(* that adds the row of a DELETE leaves none, even if the rows have        *)
(* changed since the call's snapshot.                                      *)
(***************************************************************************)
ReplacementClosesTheRest ==
  [][\A e \in Employees :
       LET added == Len(history'[e])
       IN /\ added > Len(history[e])
          /\ Act[history'[e][added].by] # "CREATE"
          => Active(history'[e]) =
               IF Act[history'[e][added].by] = "UPDATE" THEN {added} ELSE {}]_vars

(***************************************************************************)
(* Every call that has begun returns: no combination of sync_log and       *)
(* pay_rates locks leaves calls waiting for each other.                    *)
(***************************************************************************)
EveryCallReturns == \A c \in Calls : Open(c) ~> pc[c] = "done"

-----------------------------------------------------------------------------
(***************************************************************************)
(* Properties that need the calls for one employee to come one at a time.  *)
(***************************************************************************)

\* An employee never has two active pay rates: CREATE checks, the others close.
AtMostOneActive ==
  \A e \in Employees : \A i, j \in Active(history[e]) : i = j

Ledger == INSTANCE PayrollLedger

(***************************************************************************)
(* Calls look atomic: whatever faults and crashes hit them, each applies   *)
(* its mutation to the current rows in one step unless it is marked        *)
(* SUCCESS, or changes no row.                                             *)
(***************************************************************************)
ImplementsLedger == Ledger!Spec

(***************************************************************************)
(* Why calls look atomic when they come one at a time: the call in its     *)
(* transaction is the only one open for its employee, so its snapshot is   *)
(* still the current state and its decision is the one it would take now.  *)
(***************************************************************************)
InTransaction(c) ==
  pc[c] \in {"insert", "reclaim", "handle", "mark", "commit"}

SerialInv ==
  /\ \A c, d \in Calls :
       Open(c) /\ Open(d) /\ EmpOf(c) = EmpOf(d) => c = d
  /\ \A c \in Calls : InTransaction(c) =>
       /\ seen[c] = history[EmpOf(c)]
       /\ syncLog[Key(c)] # "SUCCESS"
  /\ \A c \in Calls : pc[c] \in {"mark", "commit"} =>
       txRows[c] = Handle(ActOf(c), Key(c), req[c].payload, seen[c])
  /\ \A c \in Calls : pc[c] = "commit" => txLog[c] = "SUCCESS"

-----------------------------------------------------------------------------
(***************************************************************************)
(* What the documentation says and the code does not do.                   *)
(***************************************************************************)

(***************************************************************************)
(* docs/case_study_3_data_consistency.md:49: "duplicate delivery of the    *)
(* same event does not append duplicate payroll history".                  *)
(***************************************************************************)
NoDuplicateHistory ==
  \A e \in Employees : \A i, j \in DOMAIN history[e] :
    history[e][i].by = history[e][j].by => i = j
=============================================================================
