------------------------ MODULE PayrollServiceProofs ------------------------
(***************************************************************************)
(* Theorems about PayrollService, for every set of mutations, employees,   *)
(* payloads and concurrent calls.                                          *)
(***************************************************************************)
EXTENDS PayrollService, PayrollRulesProofs

LEMMA WriteGrows ==
  ASSUME NEW action, NEW rows \in Seq(PayRate), NEW inserted \in Insertion
  PROVE  /\ Len(Write(action, rows, inserted)) \in {Len(rows), Len(rows) + 1}
         /\ \A i \in DOMAIN rows :
              /\ i \in DOMAIN Write(action, rows, inserted)
              /\ SameOrClosed(rows[i], Write(action, rows, inserted)[i])
<1>. DEFINE after == Write(action, rows, inserted)
<1>1. /\ after \in Seq(PayRate)
      /\ Len(after) = Len(rows) + Len(inserted)
      /\ \A i \in 1 .. Len(rows) :
           after[i] = IF inserted = <<>> \/ action = "CREATE" THEN rows[i]
                      ELSE Closed(rows[i])
  BY WriteRows
<1>. HIDE DEF after
<1>2. \A i \in 1 .. Len(rows) : SameOrClosed(rows[i], after[i])
  BY <1>1 DEF SameOrClosed
<1>3. Len(inserted) \in {0, 1}
  BY DEF Insertion
<1>. DEFINE before == Len(rows)
            more == Len(inserted)
            total == Len(after)
<1>4. Len(rows) \in Nat /\ DOMAIN rows = 1 .. Len(rows)
  BY LenProperties
<1>5. Len(after) \in Nat /\ DOMAIN after = 1 .. Len(after)
  BY <1>1, LenProperties
<1>6. total = before + more /\ more \in {0, 1} /\ before \in Nat
  BY <1>1, <1>3, <1>4
<1>. HIDE DEF before, more, total
<1>7. total \in {before, before + 1} /\ 1 .. before \subseteq 1 .. total
  BY <1>6
<1>8. \A i \in DOMAIN rows : i \in DOMAIN after /\ SameOrClosed(rows[i], after[i])
  BY <1>2, <1>4, <1>5, <1>7, Zenon DEF before, total
<1>. QED
  BY <1>7, <1>8 DEF after, before, total

-----------------------------------------------------------------------------
(***************************************************************************)
(* Type correctness.                                                       *)
(***************************************************************************)
LEMMA InitType == Init => TypeOK
BY EmptySeq DEF Init, TypeOK, LogStatus, Locations, Replies

LEMMA PublishType ==
  ASSUME TypeOK, NEW c \in Calls, Publish(c)
  PROVE  /\ history' \in [Employees -> Seq(PayRate)]
         /\ syncLog' \in [Keys -> LogStatus]
<1>1. /\ Key(c) \in Keys
      /\ EmpOf(c) \in Employees
      /\ history[EmpOf(c)] \in Seq(PayRate)
      /\ txRows[c] \in Insertion
      /\ txLog[c] \in LogStatus
  BY ServiceAssumption DEF TypeOK, Key, EmpOf, Insertion
<1>2. Write(ActOf(c), history[EmpOf(c)], txRows[c]) \in Seq(PayRate)
  BY <1>1, WriteRows
<1>. QED
  BY <1>1, <1>2 DEF Publish, TypeOK

\* Returning leaves the local state well-typed.
LEMMA ReturnType ==
  ASSUME TypeOK, NEW c \in Calls, NEW answer \in Replies, Return(c, answer)
  PROVE  /\ pc' \in [Calls -> Locations]
         /\ reply' \in [Calls -> Replies]
         /\ txLog' \in [Calls -> LogStatus]
         /\ txRows' \in [Calls -> Insertion]
BY DEF TypeOK, Return, GoTo, Locations, LogStatus, Insertion

LEMMA NextType == TypeOK /\ [Next]_vars => TypeOK'
<1>. SUFFICES ASSUME TypeOK, [Next]_vars
              PROVE  TypeOK'
  OBVIOUS
<1>. USE DEF committed
<1>1. ASSUME NEW c \in Calls, Begin(c)
      PROVE  TypeOK'
  BY <1>1 DEF Begin, GoTo, TypeOK, Locations
<1>2. ASSUME NEW c \in Calls, BeginFails(c)
      PROVE  TypeOK'
  BY <1>2, ReturnType DEF BeginFails, TypeOK, Replies, Insertion
<1>3. ASSUME NEW c \in Calls, Claim(c)
      PROVE  TypeOK'
  <2>1. history[EmpOf(c)] \in Seq(PayRate)
    BY ServiceAssumption DEF TypeOK, EmpOf, Key
  <2>. QED
    BY <1>3, <2>1 DEF Claim, GoTo, TypeOK, Locations
<1>4. ASSUME NEW c \in Calls, Deduplicate(c)
      PROVE  TypeOK'
  BY <1>4, ReturnType DEF Deduplicate, TypeOK, Replies, Insertion
<1>5. ASSUME NEW c \in Calls, InsertLog(c) \/ ReclaimLog(c)
      PROVE  TypeOK'
  BY <1>5 DEF InsertLog, ReclaimLog, GoTo, TypeOK, Locations, LogStatus
<1>6. ASSUME NEW c \in Calls, InsertLogDuplicate(c)
      PROVE  TypeOK'
  BY <1>6 DEF InsertLogDuplicate, GoTo, TypeOK, Locations
<1>7. ASSUME NEW c \in Calls, RunHandler(c)
      PROVE  TypeOK'
  <2>. DEFINE inserted == Handle(ActOf(c), Key(c), req[c].payload, seen[c])
  <2>1. inserted \in Insertion
    BY HandleType, ServiceAssumption DEF TypeOK, ActOf, Key
  <2>. QED
    BY <1>7, <2>1 DEF RunHandler, GoTo, TypeOK, Locations, Insertion
<1>8. ASSUME NEW c \in Calls, MarkSuccess(c)
      PROVE  TypeOK'
  BY <1>8 DEF MarkSuccess, GoTo, TypeOK, Locations, LogStatus
<1>9. ASSUME NEW c \in Calls, Commit(c)
      PROVE  TypeOK'
  BY <1>9, ReturnType, PublishType DEF Commit, TypeOK, Replies, Insertion
<1>10. ASSUME NEW c \in Calls, CommitFails(c)
       PROVE  TypeOK'
  BY <1>10, ReturnType, PublishType DEF CommitFails, TypeOK, Replies, Insertion
<1>11. ASSUME NEW c \in Calls, Abort(c)
       PROVE  TypeOK'
  BY <1>11 DEF Abort, GoTo, TypeOK, Locations, LogStatus
<1>12. ASSUME NEW c \in Calls, RecordFailure(c)
       PROVE  TypeOK'
  <2>1. syncLog' \in [Keys -> LogStatus]
    BY <1>12 DEF RecordFailure, TypeOK, LogStatus
  <2>. QED
    BY <1>12, <2>1, ReturnType DEF RecordFailure, TypeOK, Replies, Insertion
<1>13. ASSUME NEW c \in Calls, RecordFailureFails(c)
       PROVE  TypeOK'
  BY <1>13, ReturnType DEF RecordFailureFails, TypeOK, Replies, Insertion
<1>14. CASE Crash
  BY <1>14 DEF Crash, TypeOK, Locations, Replies, LogStatus
<1>15. CASE UNCHANGED vars
  BY <1>15 DEF vars, TypeOK
<1>. QED
  BY <1>1, <1>2, <1>3, <1>4, <1>5, <1>6, <1>7, <1>8, <1>9, <1>10, <1>11,
     <1>12, <1>13, <1>14, <1>15
  DEF Next, Step, Fault, Quiet

(***************************************************************************)
(* Every variable keeps its type: in particular a handler never inserts a  *)
(* malformed row, whichever fields the payload lacks.                      *)
(***************************************************************************)
THEOREM TypeCorrect == Spec => []TypeOK
BY InitType, NextType, PTL DEF Spec

-----------------------------------------------------------------------------
(***************************************************************************)
(* No committed PENDING row: a transaction only publishes a status once it *)
(* has set it to SUCCESS.                                                  *)
(***************************************************************************)
LogInv ==
  /\ NothingLeftPending
  /\ \A c \in Calls : pc[c] = "commit" => txLog[c] = "SUCCESS"

LEMMA LogStep == TypeOK /\ LogInv /\ [Next]_vars => LogInv'
<1>. SUFFICES ASSUME TypeOK, LogInv, [Next]_vars
              PROVE  LogInv'
  OBVIOUS
<1>. USE DEF committed, LogInv, NothingLeftPending, TypeOK
<1>1. ASSUME NEW c \in Calls,
             \/ Begin(c) \/ Claim(c) \/ InsertLog(c) \/ InsertLogDuplicate(c)
             \/ ReclaimLog(c) \/ RunHandler(c) \/ MarkSuccess(c) \/ Abort(c)
      PROVE  LogInv'
  BY <1>1 DEF Begin, Claim, InsertLog, InsertLogDuplicate, ReclaimLog,
              RunHandler, MarkSuccess, Abort, GoTo
<1>2. ASSUME NEW c \in Calls,
             \/ BeginFails(c) \/ Deduplicate(c) \/ Commit(c) \/ CommitFails(c)
             \/ RecordFailure(c) \/ RecordFailureFails(c)
      PROVE  LogInv'
  <2>1. \A k \in Keys : syncLog'[k] \in {syncLog[k], "SUCCESS", "FAILED"}
    BY <1>2 DEF BeginFails, Deduplicate, Commit, CommitFails, RecordFailure,
                RecordFailureFails, Publish
  <2>2. \A d \in Calls : pc'[d] = "commit" =>
          pc[d] = "commit" /\ txLog'[d] = txLog[d]
    BY <1>2 DEF BeginFails, Deduplicate, Commit, CommitFails, RecordFailure,
                RecordFailureFails, Return, GoTo
  <2>. QED
    BY <2>1, <2>2
<1>3. CASE Crash
  BY <1>3 DEF Crash, Open
<1>4. CASE UNCHANGED vars
  BY <1>4 DEF vars
<1>. QED
  BY <1>1, <1>2, <1>3, <1>4 DEF Next, Step, Fault, Quiet

(***************************************************************************)
(* No transaction leaves a PENDING row behind, which later deliveries of   *)
(* its mutation would take for one in progress.                            *)
(***************************************************************************)
THEOREM PendingNeverCommitted == Spec => []NothingLeftPending
<1>1. Init => LogInv
  BY DEF Init, LogInv, NothingLeftPending
<1>2. LogInv => NothingLeftPending
  BY DEF LogInv
<1>. QED
  BY <1>1, <1>2, LogStep, TypeCorrect, PTL DEF Spec

-----------------------------------------------------------------------------
(***************************************************************************)
(* How a step changes the history: not at all, or by publishing the rows   *)
(* of one call.                                                            *)
(***************************************************************************)
LEMMA HistoryStep ==
  ASSUME [Next]_vars
  PROVE  \/ UNCHANGED history
         \/ \E c \in Calls : /\ pc[c] = "commit"
                             /\ Publish(c)
                             /\ req' = req
<1>. USE DEF committed
<1>1. ASSUME NEW c \in Calls, Commit(c) \/ CommitFails(c)
      PROVE  \/ UNCHANGED history
             \/ pc[c] = "commit" /\ Publish(c) /\ req' = req
  BY <1>1 DEF Commit, CommitFails
<1>2. ASSUME NEW c \in Calls,
             \/ Begin(c) \/ Claim(c) \/ InsertLog(c) \/ InsertLogDuplicate(c)
             \/ ReclaimLog(c) \/ RunHandler(c) \/ MarkSuccess(c) \/ Abort(c)
             \/ BeginFails(c) \/ Deduplicate(c)
             \/ RecordFailure(c) \/ RecordFailureFails(c)
      PROVE  UNCHANGED history
  BY <1>2 DEF Begin, Claim, InsertLog, InsertLogDuplicate, ReclaimLog,
              RunHandler, MarkSuccess, Abort, BeginFails, Deduplicate,
              RecordFailure, RecordFailureFails
<1>3. CASE Crash \/ UNCHANGED vars
  BY <1>3 DEF Crash, vars
<1>. QED
  BY <1>1, <1>2, <1>3 DEF Next, Step, Fault, Quiet

LEMMA HistoryGrows ==
  ASSUME TypeOK, [Next]_vars, NEW e \in Employees
  PROVE  /\ Len(history'[e]) \in {Len(history[e]), Len(history[e]) + 1}
         /\ \A i \in DOMAIN history[e] :
              /\ i \in DOMAIN history'[e]
              /\ SameOrClosed(history[e][i], history'[e][i])
<1>0. history[e] \in Seq(PayRate)
  BY DEF TypeOK
<1>1. CASE UNCHANGED history
  BY <1>1 DEF SameOrClosed
<1>2. ASSUME NEW c \in Calls, Publish(c)
      PROVE  /\ Len(history'[e]) \in {Len(history[e]), Len(history[e]) + 1}
             /\ \A i \in DOMAIN history[e] :
                  /\ i \in DOMAIN history'[e]
                  /\ SameOrClosed(history[e][i], history'[e][i])
  <2>1. CASE e # EmpOf(c)
    BY <1>2, <2>1 DEF Publish, TypeOK, SameOrClosed
  <2>2. CASE e = EmpOf(c)
    <3>1. history'[e] = Write(ActOf(c), history[e], txRows[c])
      BY <1>2, <2>2 DEF Publish, TypeOK
    <3>2. txRows[c] \in Insertion
      BY DEF TypeOK, Insertion
    <3>. QED
      BY <1>0, <3>1, <3>2, WriteGrows, Zenon
  <2>. QED
    BY <2>1, <2>2
<1>. QED
  BY <1>1, <1>2, HistoryStep

(***************************************************************************)
(* The pay history is append-only, whatever calls run, fail or crash: rows *)
(* are added one at a time and afterwards at most deactivated.             *)
(***************************************************************************)
THEOREM PayHistoryIsAuditTrail == Spec => HistoryOnlyGrows
<1>1. TypeOK /\ [Next]_vars =>
        [\A e \in Employees :
           /\ Len(history'[e]) \in {Len(history[e]), Len(history[e]) + 1}
           /\ \A i \in DOMAIN history[e] :
                SameOrClosed(history[e][i], history'[e][i])]_vars
  BY HistoryGrows
<1>. QED
  BY <1>1, TypeCorrect, PTL DEF Spec, HistoryOnlyGrows

-----------------------------------------------------------------------------
(***************************************************************************)
(* What the service has acknowledged is in the history, however calls      *)
(* overlap.                                                                *)
(***************************************************************************)

(***************************************************************************)
(* The rows "after" hold the rows "before", which may have been closed.    *)
(***************************************************************************)
Keeps(before, after) ==
  \A i \in DOMAIN before : /\ i \in DOMAIN after
                           /\ after[i].rate = before[i].rate
                           /\ after[i].type = before[i].type

\* The rows show what an action with this payload asks for.
Shows(action, payload, rows) ==
  \E i \in DOMAIN rows :
    /\ action = "DELETE" => rows[i].type = "TERMINATED"
    /\ action = "UPDATE" => /\ payload.rate # Absent => rows[i].rate = Stored[payload.rate]
                            /\ payload.type \in {Absent, rows[i].type}

Empty(payload) == payload = [rate |-> Absent, type |-> Absent]

Answered(action, payload, rows) ==
  \/ Shows(action, payload, rows)
  \/ action = "UPDATE" /\ Empty(payload)

LEMMA ClosedKeeps ==
  ASSUME NEW before \in PayRate, NEW after, SameOrClosed(before, after)
  PROVE  after.rate = before.rate /\ after.type = before.type
BY DEF SameOrClosed, Closed, PayRate

(***************************************************************************)
(* A handler that inserts nothing has found a row that shows what was      *)
(* asked for.                                                              *)
(***************************************************************************)
LEMMA FoundAlready ==
  ASSUME NEW action \in {"CREATE", "UPDATE", "DELETE"}, NEW k \in Keys,
         NEW payload \in Payloads, NEW rows \in Seq(PayRate),
         Handle(action, k, payload, rows) = <<>>
  PROVE  Answered(action, payload, rows)
<1>1. CASE action = "CREATE"
  <2>1. HandleCreate(k, payload, rows) = <<>>
    BY <1>1 DEF Handle
  <2>2. Active(rows) # {}
    BY <2>1 DEF HandleCreate
  <2>. QED
    BY <1>1, <2>2 DEF Active, Answered, Shows
<1>2. CASE action = "UPDATE"
  <2>. DEFINE current == CurrentRate(rows)
              rate == IF payload.rate = Absent THEN RateOr0(current) ELSE payload.rate
              type == IF payload.type = Absent THEN TypeOrHourly(current) ELSE payload.type
              nothing == payload.rate = Absent /\ payload.type = Absent
              unchanged == \E row \in current : row.rate = rate /\ row.type = type
  <2>1. HandleUpdate(k, payload, rows) = <<>>
    BY <1>2 DEF Handle
  <2>2. HandleUpdate(k, payload, rows) =
          IF nothing \/ unchanged THEN <<>>
          ELSE <<[rate |-> Stored[rate], type |-> type, active |-> TRUE, by |-> k]>>
    BY DEF HandleUpdate
  <2>3. nothing \/ unchanged
    <3>. HIDE DEF nothing, unchanged, rate, type
    <3>. QED
      BY <2>1, <2>2
  <2>4. CASE nothing
    <3>1. payload \in [rate : Rates \cup {Absent}, type : PayTypes \cup {Absent}]
      BY PayloadAssumption
    <3>2. Empty(payload)
      BY <2>4, <3>1 DEF Empty
    <3>. QED
      BY <1>2, <3>2 DEF Answered
  <2>5. CASE unchanged
    <3>1. PICK i \in DOMAIN rows : rows[i].rate = rate /\ rows[i].type = type
      BY <2>5 DEF CurrentRate, Active
    <3>2. rows[i] \in PayRate
      BY ElementOfSeq
    <3>3. Stored[rows[i].rate] = rows[i].rate
      BY <3>2, StoredFacts DEF PayRate
    <3>4. /\ payload.rate # Absent => rows[i].rate = Stored[payload.rate]
          /\ payload.type \in {Absent, rows[i].type}
      BY <3>1, <3>3
    <3>. QED
      BY <1>2, <3>4 DEF Answered, Shows
  <2>. QED
    BY <2>3, <2>4, <2>5
<1>3. CASE action = "DELETE"
  <2>. DEFINE current == CurrentRate(rows)
              latest == IF current # {} THEN current ELSE LatestRate(rows)
  <2>1. HandleDelete(k, rows) = <<>>
    BY <1>3 DEF Handle
  <2>2. current = {} /\ TypeOrHourly(latest) = "TERMINATED"
    BY <2>1 DEF HandleDelete
  <2>3. TypeOrHourly(LatestRate(rows)) = "TERMINATED"
    BY <2>2
  <2>4. rows # <<>> /\ rows[Len(rows)].type = "TERMINATED"
    BY <2>3 DEF TypeOrHourly, LatestRate, TheRow
  <2>5. Len(rows) \in DOMAIN rows
    BY <2>4, EmptySeq, LenProperties
  <2>. QED
    BY <1>3, <2>4, <2>5 DEF Answered, Shows
<1>. QED
  BY <1>1, <1>2, <1>3

\* A row that a handler inserts shows what was asked for.
LEMMA InsertedShows ==
  ASSUME NEW action \in {"CREATE", "UPDATE", "DELETE"}, NEW k \in Keys,
         NEW payload \in Payloads, NEW rows \in Seq(PayRate),
         Handle(action, k, payload, rows) # <<>>
  PROVE  LET row == Handle(action, k, payload, rows)[1]
         IN /\ action = "DELETE" => row.type = "TERMINATED"
            /\ action = "UPDATE" => /\ payload.rate # Absent => row.rate = Stored[payload.rate]
                                    /\ payload.type \in {Absent, row.type}
<1>1. CASE action = "CREATE"
  BY <1>1
<1>2. CASE action = "UPDATE"
  <2>. DEFINE current == CurrentRate(rows)
              rate == IF payload.rate = Absent THEN RateOr0(current) ELSE payload.rate
              type == IF payload.type = Absent THEN TypeOrHourly(current) ELSE payload.type
              row == [rate |-> Stored[rate], type |-> type, active |-> TRUE, by |-> k]
  <2>1. HandleUpdate(k, payload, rows) \in {<<>>, <<row>>}
    BY DEF HandleUpdate
  <2>2. Handle(action, k, payload, rows) = HandleUpdate(k, payload, rows)
    BY <1>2 DEF Handle
  <2>3. row.rate = Stored[rate] /\ row.type = type
    OBVIOUS
  <2>4. (payload.rate # Absent => rate = payload.rate) /\ payload.type \in {Absent, type}
    OBVIOUS
  <2>. HIDE DEF row, rate, type
  <2>. QED
    BY <1>2, <2>1, <2>2, <2>3, <2>4
<1>3. CASE action = "DELETE"
  <2>. DEFINE current == CurrentRate(rows)
              latest == IF current # {} THEN current ELSE LatestRate(rows)
              row == [rate |-> RateOr0(latest), type |-> "TERMINATED",
                      active |-> FALSE, by |-> k]
  <2>1. HandleDelete(k, rows) \in {<<>>, <<row>>}
    BY DEF HandleDelete
  <2>2. Handle(action, k, payload, rows) = HandleDelete(k, rows)
    BY <1>3 DEF Handle
  <2>3. row.type = "TERMINATED"
    OBVIOUS
  <2>. HIDE DEF row
  <2>. QED
    BY <1>3, <2>1, <2>2, <2>3
<1>. QED
  BY <1>1, <1>2, <1>3

(***************************************************************************)
(* What a handler decided on old rows still shows when it is written to    *)
(* rows that keep the old ones.                                            *)
(***************************************************************************)
LEMMA WrittenShows ==
  ASSUME NEW action \in {"CREATE", "UPDATE", "DELETE"}, NEW k \in Keys,
         NEW payload \in Payloads, NEW rows \in Seq(PayRate),
         NEW now \in Seq(PayRate), Keeps(rows, now)
  PROVE  Answered(action, payload, Write(action, now, Handle(action, k, payload, rows)))
<1>. DEFINE inserted == Handle(action, k, payload, rows)
            after == Write(action, now, inserted)
<1>1. inserted \in Insertion
  BY HandleType
<1>2. CASE inserted = <<>>
  <2>1. after = now /\ Answered(action, payload, rows)
    BY <1>2, FoundAlready DEF Write
  <2>. QED
    BY <2>1 DEF Answered, Shows, Keeps
<1>3. CASE inserted # <<>>
  <2>1. /\ after \in Seq(PayRate) /\ Len(after) = Len(now) + Len(inserted)
        /\ after[Len(now) + 1] = inserted[1]
    BY <1>1, <1>3, WriteRows
  <2>2. Len(inserted) = 1
    BY <1>1, <1>3 DEF Insertion
  <2>3. Len(now) \in Nat
    BY LenProperties
  <2>4. DOMAIN after = 1 .. Len(after)
    BY <2>1, LenProperties
  <2>5. /\ action = "DELETE" => inserted[1].type = "TERMINATED"
        /\ action = "UPDATE" => /\ payload.rate # Absent =>
                                     inserted[1].rate = Stored[payload.rate]
                                /\ payload.type \in {Absent, inserted[1].type}
    BY <1>3, InsertedShows
  <2>. HIDE DEF after, inserted
  <2>6. Len(now) + 1 \in DOMAIN after
    <3>1. \A n \in Nat : n + 1 \in 1 .. n + 1
      OBVIOUS
    <3>2. Len(now) + 1 \in 1 .. Len(now) + 1
      BY <2>3, <3>1
    <3>3. DOMAIN after = 1 .. Len(now) + 1
      BY <2>1, <2>2, <2>4, Zenon
    <3>. QED
      BY <3>2, <3>3, Zenon
  <2>7. Shows(action, payload, after)
    BY <2>1, <2>5, <2>6 DEF Shows
  <2>. QED
    BY <2>7 DEF Answered, after, inserted
<1>. QED
  BY <1>2, <1>3

-----------------------------------------------------------------------------
(***************************************************************************)
(* The rows a call has read are still there when it commits, and what it   *)
(* is about to insert is what the handler chose on them.                   *)
(***************************************************************************)
SnapshotInv ==
  /\ \A c \in Calls : InTransaction(c) => Keeps(seen[c], history[EmpOf(c)])
  /\ \A c \in Calls : pc[c] \in {"mark", "commit"} =>
       txRows[c] = Handle(ActOf(c), Key(c), req[c].payload, seen[c])

\* The request of a call, and with it its employee and action, never changes.
LEMMA SameRequests ==
  ASSUME [Next]_vars
  PROVE  req' = req
<1>1. ASSUME NEW c \in Calls, Begin(c) \/ Step(c) \/ Fault(c) PROVE req' = req
  BY <1>1 DEF Begin, Step, Fault, Claim, Deduplicate, InsertLog, InsertLogDuplicate,
              ReclaimLog, RunHandler, MarkSuccess, Commit, RecordFailure, BeginFails,
              Abort, CommitFails, RecordFailureFails
<1>2. CASE Crash \/ UNCHANGED vars
  BY <1>2 DEF Crash, vars
<1>. QED
  BY <1>1, <1>2 DEF Next, Quiet

LEMMA CallTypes ==
  ASSUME TypeOK, NEW c \in Calls
  PROVE  /\ Key(c) \in Keys /\ EmpOf(c) \in Employees
         /\ ActOf(c) \in {"CREATE", "UPDATE", "DELETE"}
         /\ req[c].payload \in Payloads
         /\ history[EmpOf(c)] \in Seq(PayRate) /\ seen[c] \in Seq(PayRate)
BY ServiceAssumption DEF TypeOK, Key, EmpOf, ActOf

LEMMA HistoryKeeps ==
  ASSUME TypeOK, [Next]_vars, NEW e \in Employees
  PROVE  Keeps(history[e], history'[e])
<1>1. ASSUME NEW i \in DOMAIN history[e]
      PROVE  /\ i \in DOMAIN history'[e]
             /\ history'[e][i].rate = history[e][i].rate
             /\ history'[e][i].type = history[e][i].type
  <2>1. history[e][i] \in PayRate
    BY ElementOfSeq DEF TypeOK
  <2>2. i \in DOMAIN history'[e] /\ SameOrClosed(history[e][i], history'[e][i])
    BY HistoryGrows
  <2>. QED
    BY <2>1, <2>2, ClosedKeeps
<1>. QED
  BY <1>1 DEF Keeps

\* A call either stands where it stood, or makes one of its own steps.
LEMMA SnapshotStep ==
  ASSUME TypeOK, SnapshotInv, [Next]_vars, NEW c \in Calls
  PROVE  /\ InTransaction(c)' => \/ InTransaction(c) /\ seen'[c] = seen[c]
                                 \/ seen'[c] = history[EmpOf(c)]
         /\ pc'[c] \in {"mark", "commit"} =>
              /\ seen'[c] = seen[c]
              /\ txRows'[c] = Handle(ActOf(c), Key(c), req[c].payload, seen[c])
<1>. USE DEF TypeOK, SnapshotInv, InTransaction, GoTo
<1>1. ASSUME NEW d \in Calls,
             \/ Begin(d) \/ Claim(d) \/ InsertLog(d) \/ InsertLogDuplicate(d)
             \/ ReclaimLog(d) \/ MarkSuccess(d) \/ Abort(d)
      PROVE  /\ InTransaction(c)' => \/ InTransaction(c) /\ seen'[c] = seen[c]
                                     \/ seen'[c] = history[EmpOf(c)]
             /\ pc'[c] \in {"mark", "commit"} =>
                  /\ pc[c] \in {"mark", "commit"}
                  /\ seen'[c] = seen[c] /\ txRows'[c] = txRows[c]
  BY <1>1 DEF Begin, Claim, InsertLog, InsertLogDuplicate, ReclaimLog, MarkSuccess, Abort
<1>2. ASSUME NEW d \in Calls,
             \/ BeginFails(d) \/ Deduplicate(d) \/ Commit(d) \/ CommitFails(d)
             \/ RecordFailure(d) \/ RecordFailureFails(d)
      PROVE  /\ seen'[c] = seen[c]
             /\ (pc'[c] = "done" \/ (pc'[c] = pc[c] /\ txRows'[c] = txRows[c]))
  BY <1>2 DEF BeginFails, Deduplicate, Commit, CommitFails, RecordFailure,
              RecordFailureFails, Return
<1>3. ASSUME NEW d \in Calls, RunHandler(d)
      PROVE  /\ seen'[c] = seen[c]
             /\ \/ pc'[c] = pc[c] /\ txRows'[c] = txRows[c]
                \/ /\ pc[c] = "handle"
                   /\ txRows'[c] = Handle(ActOf(c), Key(c), req[c].payload, seen[c])
  BY <1>3 DEF RunHandler
<1>4. CASE Crash
  BY <1>4 DEF Crash, Open
<1>5. CASE UNCHANGED vars
  BY <1>5 DEF vars
<1>. QED
  BY <1>1, <1>2, <1>3, <1>4, <1>5 DEF Next, Step, Fault, Quiet

LEMMA NextSnapshot ==
  ASSUME TypeOK, SnapshotInv, [Next]_vars
  PROVE  SnapshotInv'
<1>1. req' = req
  BY SameRequests
<1>2. ASSUME NEW c \in Calls
      PROVE  EmpOf(c)' = EmpOf(c) /\ ActOf(c)' = ActOf(c) /\ Key(c)' = Key(c)
  BY <1>1 DEF EmpOf, ActOf, Key
<1>3. ASSUME NEW c \in Calls, InTransaction(c)'
      PROVE  Keeps(seen'[c], history'[EmpOf(c)])
  <2>1. Keeps(history[EmpOf(c)], history'[EmpOf(c)])
    BY CallTypes, HistoryKeeps
  <2>2. CASE InTransaction(c) /\ seen'[c] = seen[c]
    BY <2>1, <2>2 DEF Keeps, SnapshotInv
  <2>3. CASE seen'[c] = history[EmpOf(c)]
    BY <2>1, <2>3
  <2>. QED
    BY <1>3, <2>2, <2>3, SnapshotStep
<1>4. ASSUME NEW c \in Calls, pc'[c] \in {"mark", "commit"}
      PROVE  txRows'[c] = Handle(ActOf(c), Key(c), req[c].payload, seen'[c])
  BY <1>4, SnapshotStep
<1>. QED
  BY <1>1, <1>2, <1>3, <1>4 DEF SnapshotInv

-----------------------------------------------------------------------------
LEMMA RecordedShows ==
  ASSUME NEW c \in Calls
  PROVE  Recorded(c) \/ AsksNothing(c)
           <=> Answered(ActOf(c), req[c].payload, history[EmpOf(c)])
BY DEF Recorded, AsksNothing, Answered, Shows, Empty

\* What the history shows it shows for good.
LEMMA SettledStays ==
  ASSUME TypeOK, [Next]_vars, NEW c \in Calls, Recorded(c) \/ AsksNothing(c)
  PROVE  (Recorded(c) \/ AsksNothing(c))'
<1>1. req' = req
  BY SameRequests
<1>2. AsksNothing(c) => AsksNothing(c)'
  BY <1>1 DEF AsksNothing, ActOf, Key
<1>3. Keeps(history[EmpOf(c)], history'[EmpOf(c)])
  BY CallTypes, HistoryKeeps
<1>4. Recorded(c) => Recorded(c)'
  BY <1>1, <1>3 DEF Recorded, Keeps, EmpOf, ActOf, Key
<1>. QED
  BY <1>2, <1>4

LEMMA PublishSettles ==
  ASSUME TypeOK, SnapshotInv, [Next]_vars, NEW c \in Calls, pc[c] = "commit", Publish(c)
  PROVE  (Recorded(c) \/ AsksNothing(c))'
<1>1. req' = req
  BY SameRequests
<1>2. history'[EmpOf(c)] = Write(ActOf(c), history[EmpOf(c)],
                             Handle(ActOf(c), Key(c), req[c].payload, seen[c]))
  BY CallTypes DEF Publish, SnapshotInv, TypeOK
<1>3. Keeps(seen[c], history[EmpOf(c)])
  BY DEF SnapshotInv, InTransaction
<1>4. Answered(ActOf(c), req[c].payload, history'[EmpOf(c)])
  BY <1>2, <1>3, CallTypes, WrittenShows
<1>. QED
  BY <1>1, <1>4 DEF Recorded, AsksNothing, Answered, Shows, Empty, EmpOf, ActOf, Key

AckInv == LogInv /\ SnapshotInv /\ AcknowledgedIsRecorded

LEMMA NextAcknowledged ==
  ASSUME TypeOK, AckInv, [Next]_vars
  PROVE  AcknowledgedIsRecorded'
<1>. USE DEF AckInv, TypeOK
<1>. DEFINE Shown(c) == Recorded(c) \/ AsksNothing(c)
<1>k. \A c \in Calls : Key(c)' = Key(c)
  BY SameRequests DEF Key
<1>1. \A c \in Calls : Shown(c) => Shown(c)'
  BY SettledStays
<1>2. \A k \in Keys : Settled(k) => Settled(k)'
  BY <1>1, <1>k DEF Settled
<1>. HIDE DEF Shown
<1>3. ASSUME \A c \in Calls : \/ reply'[c] \in {reply[c], "failed"}
                              \/ reply'[c] = "applied" /\ Shown(c)'
                              \/ reply'[c] = "deduplicated" /\ Settled(Key(c)),
             \A k \in Keys : syncLog'[k] = "SUCCESS" =>
                               syncLog[k] = "SUCCESS" \/ Settled(k)'
      PROVE  AcknowledgedIsRecorded'
  BY <1>1, <1>2, <1>3, <1>k, CallTypes DEF AcknowledgedIsRecorded, Shown
<1>4. ASSUME NEW c \in Calls,
             \/ Begin(c) \/ Claim(c) \/ InsertLog(c) \/ InsertLogDuplicate(c)
             \/ ReclaimLog(c) \/ RunHandler(c) \/ MarkSuccess(c) \/ Abort(c)
      PROVE  reply' = reply /\ syncLog' = syncLog
  BY <1>4 DEF Begin, Claim, InsertLog, InsertLogDuplicate, ReclaimLog, RunHandler,
              MarkSuccess, Abort, committed
<1>5. ASSUME NEW c \in Calls, BeginFails(c) \/ RecordFailure(c) \/ RecordFailureFails(c)
      PROVE  /\ \A d \in Calls : reply'[d] \in {reply[d], "failed"}
             /\ \A k \in Keys : syncLog'[k] \in {syncLog[k], "FAILED"}
  BY <1>5 DEF BeginFails, RecordFailure, RecordFailureFails, Return, committed
<1>6. ASSUME NEW c \in Calls, Deduplicate(c)
      PROVE  AcknowledgedIsRecorded'
  <2>1. syncLog[Key(c)] = "SUCCESS"
    BY <1>6, CallTypes DEF Deduplicate, LogInv, NothingLeftPending
  <2>2. Settled(Key(c))
    BY <2>1, CallTypes DEF AcknowledgedIsRecorded
  <2>3. syncLog' = syncLog /\ reply' = [reply EXCEPT ![c] = "deduplicated"]
    BY <1>6 DEF Deduplicate, Return, committed
  <2>. QED
    BY <1>3, <2>2, <2>3
<1>7. ASSUME NEW c \in Calls, Commit(c) \/ CommitFails(c)
      PROVE  AcknowledgedIsRecorded'
  <2>1. /\ pc[c] = "commit"
        /\ \/ Publish(c)
           \/ UNCHANGED committed /\ reply' = [reply EXCEPT ![c] = "failed"]
        /\ \/ reply' = [reply EXCEPT ![c] = "failed"]
           \/ reply' = [reply EXCEPT ![c] = "applied"]
    BY <1>7 DEF Commit, CommitFails, Return
  <2>2. CASE Publish(c)
    <3>1. Shown(c)'
      BY <2>1, <2>2, PublishSettles DEF Shown
    <3>2. Settled(Key(c))'
      BY <3>1, <1>k DEF Settled, Shown
    <3>3. \A k \in Keys : k # Key(c) => syncLog'[k] = syncLog[k]
      BY <2>2 DEF Publish
    <3>4. \A k \in Keys : syncLog'[k] = "SUCCESS" => syncLog[k] = "SUCCESS" \/ Settled(k)'
      BY <3>2, <3>3, <1>k DEF Settled
    <3>. QED
      BY <1>3, <2>1, <3>1, <3>4
  <2>3. CASE UNCHANGED committed /\ reply' = [reply EXCEPT ![c] = "failed"]
    BY <1>3, <2>3 DEF committed
  <2>. QED
    BY <2>1, <2>2, <2>3
<1>8. CASE Crash
  <2>1. /\ syncLog' = syncLog
        /\ \A d \in Calls : reply'[d] \in {reply[d], "failed"}
    BY <1>8 DEF Crash, committed
  <2>. QED
    BY <1>3, <2>1
<1>9. CASE UNCHANGED vars
  BY <1>3, <1>9 DEF vars
<1>. QED
  BY <1>3, <1>4, <1>5, <1>6, <1>7, <1>8, <1>9 DEF Next, Step, Fault, Quiet

(***************************************************************************)
(* What the service has acknowledged is in the pay history and stays       *)
(* there: a call answered "applied" or "deduplicated" and a log row that   *)
(* says SUCCESS have their rows, though handlers decide on old snapshots,  *)
(* commits fail half-way and the process dies.                             *)
(***************************************************************************)
THEOREM AcknowledgedForGood == Spec => []AcknowledgedIsRecorded
<1>1. Init => AckInv
  BY DEF Init, AckInv, LogInv, NothingLeftPending, SnapshotInv, InTransaction,
         AcknowledgedIsRecorded
<1>2. TypeOK /\ AckInv /\ [Next]_vars => AckInv'
  BY LogStep, NextSnapshot, NextAcknowledged DEF AckInv
<1>3. AckInv => AcknowledgedIsRecorded
  BY DEF AckInv
<1>. QED
  BY <1>1, <1>2, <1>3, TypeCorrect, PTL DEF Spec
-----------------------------------------------------------------------------
(***************************************************************************)
(* What the row of an UPDATE or a DELETE does to the rows before it.       *)
(***************************************************************************)

\* An inserted row is its mutation's, and active unless it is a DELETE's.
LEMMA InsertedRow ==
  ASSUME NEW action \in {"CREATE", "UPDATE", "DELETE"}, NEW k \in Keys,
         NEW payload \in Payloads, NEW rows \in Seq(PayRate),
         Handle(action, k, payload, rows) # <<>>
  PROVE  \E row \in PayRate :
           /\ Handle(action, k, payload, rows) = <<row>>
           /\ row.by = k
           /\ row.active <=> action # "DELETE"
<1>. DEFINE inserted == Handle(action, k, payload, rows)
<1>1. PICK row \in PayRate : inserted = <<row>>
  BY HandleType DEF Insertion
<1>2. inserted[1] = row
  BY <1>1
<1>3. inserted[1].by = k /\ (inserted[1].active <=> action # "DELETE")
  <2>1. CASE action = "CREATE"
    <3>1. inserted = HandleCreate(k, payload, rows)
      BY <2>1 DEF Handle
    <3>. QED
      BY <2>1, <3>1 DEF HandleCreate
  <2>2. CASE action = "UPDATE"
    <3>. DEFINE current == CurrentRate(rows)
                rate == IF payload.rate = Absent THEN RateOr0(current) ELSE payload.rate
                type == IF payload.type = Absent THEN TypeOrHourly(current)
                        ELSE payload.type
    <3>1. inserted = HandleUpdate(k, payload, rows)
      BY <2>2 DEF Handle
    <3>2. HandleUpdate(k, payload, rows) \in
            {<<>>, <<[rate |-> Stored[rate], type |-> type, active |-> TRUE, by |-> k]>>}
      BY DEF HandleUpdate
    <3>. HIDE DEF rate, type
    <3>. QED
      BY <2>2, <3>1, <3>2
  <2>3. CASE action = "DELETE"
    <3>. DEFINE current == CurrentRate(rows)
                latest == IF current # {} THEN current ELSE LatestRate(rows)
                rate == RateOr0(latest)
    <3>1. inserted = HandleDelete(k, rows)
      BY <2>3 DEF Handle
    <3>2. HandleDelete(k, rows) \in
            {<<>>, <<[rate |-> rate, type |-> "TERMINATED", active |-> FALSE, by |-> k]>>}
      BY DEF HandleDelete
    <3>. HIDE DEF rate
    <3>. QED
      BY <2>3, <3>1, <3>2
  <2>. QED
    BY <2>1, <2>2, <2>3
<1>. QED
  BY <1>1, <1>2, <1>3

LEMMA ReplacedRows ==
  ASSUME NEW action, NEW before \in Seq(PayRate), NEW row \in PayRate,
         NEW after, after = Write(action, before, <<row>>)
  PROVE  Len(after) = Len(before) + 1 /\ after[Len(before) + 1] = row
BY WriteRow

\* Written over closed rows, an active row is the only active one.
LEMMA ActiveStandsAlone ==
  ASSUME NEW action, action # "CREATE", NEW rows \in Seq(PayRate),
         NEW row \in PayRate, row.active
  PROVE  Active(Write(action, rows, <<row>>)) = {Len(rows) + 1}
<1>. DEFINE after == Write(action, rows, <<row>>)
            n == Len(rows)
<1>1. /\ after \in Seq(PayRate) /\ Len(after) = n + 1 /\ after[n + 1] = row
      /\ \A i \in 1 .. n : after[i] = Closed(rows[i])
  BY WriteRow
<1>2. n \in Nat /\ DOMAIN after = 1 .. n + 1
  BY <1>1, LenProperties
<1>3. \A i \in 1 .. n : rows[i] \in PayRate
  BY ElementOfSeq
<1>. HIDE DEF after, n
<1>4. \A i \in 1 .. n : ~after[i].active
  BY <1>1, <1>3 DEF PayRate, Closed
<1>5. \A i \in 1 .. n + 1 : i = n + 1 \/ i \in 1 .. n
  BY <1>2
<1>6. n + 1 \in 1 .. n + 1
  BY <1>2
<1>7. Active(after) = {n + 1}
  BY <1>1, <1>2, <1>4, <1>5, <1>6 DEF Active
<1>. QED
  BY <1>7 DEF after, n

LEMMA ReplacementStep ==
  ASSUME TypeOK, SnapshotInv, [Next]_vars, NEW e \in Employees,
         Len(history'[e]) > Len(history[e]),
         Act[history'[e][Len(history'[e])].by] # "CREATE"
  PROVE  Active(history'[e]) =
           IF Act[history'[e][Len(history'[e])].by] = "UPDATE"
           THEN {Len(history'[e])} ELSE {}
<1>. DEFINE before == history[e]
            after == history'[e]
<1>1. before \in Seq(PayRate) /\ Len(before) \in Nat
  BY LenProperties DEF TypeOK
<1>2. after # before
  BY <1>1
<1>3. PICK c \in Calls : pc[c] = "commit" /\ Publish(c)
  BY <1>2, HistoryStep
<1>4. e = EmpOf(c)
  BY <1>2, <1>3 DEF Publish, TypeOK
<1>. DEFINE inserted == Handle(ActOf(c), Key(c), req[c].payload, seen[c])
<1>5. after = Write(ActOf(c), before, inserted)
  BY <1>3, <1>4, CallTypes DEF Publish, SnapshotInv, TypeOK
<1>6. inserted # <<>>
  BY <1>2, <1>5 DEF Write
<1>7. PICK row \in PayRate : /\ inserted = <<row>>
                             /\ row.by = Key(c)
                             /\ row.active <=> ActOf(c) # "DELETE"
  BY <1>6, CallTypes, InsertedRow
<1>. HIDE DEF before, after, inserted
<1>8. after = Write(ActOf(c), before, <<row>>)
  BY <1>5, <1>7
<1>9. Len(after) = Len(before) + 1 /\ after[Len(before) + 1] = row
  BY <1>1, <1>7, <1>8, ReplacedRows
<1>10. Act[after[Len(after)].by] = ActOf(c)
  BY <1>7, <1>9 DEF ActOf
<1>11. ActOf(c) \in {"UPDATE", "DELETE"}
  BY <1>10, CallTypes DEF after
<1>12. CASE ActOf(c) = "UPDATE"
  <2>1. Active(after) = {Len(before) + 1}
    BY <1>1, <1>7, <1>8, <1>12, ActiveStandsAlone
  <2>. QED
    BY <1>9, <1>10, <1>12, <2>1 DEF after
<1>13. CASE ActOf(c) = "DELETE"
  <2>1. Active(after) = {}
    BY <1>1, <1>7, <1>8, <1>13, InactiveLeavesNone
  <2>. QED
    BY <1>10, <1>13, <2>1 DEF after
<1>. QED
  BY <1>11, <1>12, <1>13

(***************************************************************************)
(* However calls overlap, the row of an UPDATE is the only active one when *)
(* it appears, and the row of a DELETE leaves none: what is closed is the  *)
(* history at the commit, not the snapshot the handler decided on.         *)
(***************************************************************************)
THEOREM ReplacementIsAlone == Spec => ReplacementClosesTheRest
<1>1. Init => SnapshotInv
  BY DEF Init, SnapshotInv, InTransaction
<1>2. TypeOK /\ SnapshotInv /\ [Next]_vars => SnapshotInv'
  BY NextSnapshot
<1>3. TypeOK /\ SnapshotInv /\ [Next]_vars =>
        [\A e \in Employees :
           LET added == Len(history'[e])
           IN /\ added > Len(history[e])
              /\ Act[history'[e][added].by] # "CREATE"
              => Active(history'[e]) =
                   IF Act[history'[e][added].by] = "UPDATE" THEN {added} ELSE {}]_vars
  BY ReplacementStep
<1>. QED
  BY <1>1, <1>2, <1>3, TypeCorrect, PTL DEF Spec, ReplacementClosesTheRest

-----------------------------------------------------------------------------

(***************************************************************************)
(* When the calls for one employee come one at a time, the service         *)
(* implements PayrollLedger and no employee has two active pay rates.      *)
(***************************************************************************)

(***************************************************************************)
(* The steps of a call, by what they do to the committed state.            *)
(***************************************************************************)
Private(c) ==
  \/ Begin(c) \/ BeginFails(c) \/ Claim(c) \/ Deduplicate(c)
  \/ InsertLog(c) \/ InsertLogDuplicate(c) \/ ReclaimLog(c)
  \/ RunHandler(c) \/ MarkSuccess(c) \/ Abort(c) \/ RecordFailureFails(c)

LEMMA PrivateStep ==
  ASSUME NEW c \in Calls, Private(c)
  PROVE  UNCHANGED <<history, syncLog, req>>
BY DEF Private, committed, Begin, BeginFails, Claim, Deduplicate, InsertLog,
       InsertLogDuplicate, ReclaimLog, RunHandler, MarkSuccess, Abort,
       RecordFailureFails

LEMMA CommitStep ==
  ASSUME NEW c \in Calls, Commit(c) \/ CommitFails(c)
  PROVE  /\ pc[c] = "commit"
         /\ Publish(c) \/ UNCHANGED <<history, syncLog>>
         /\ UNCHANGED <<req, seen>>
         /\ \E answer \in Replies : Return(c, answer)
BY DEF Commit, CommitFails, committed, Replies

LEMMA NextCases ==
  ASSUME [Next]_vars
  PROVE  \/ \E c \in Calls : \/ Private(c) \/ Commit(c) \/ CommitFails(c)
                             \/ RecordFailure(c)
         \/ Crash
         \/ UNCHANGED vars
BY DEF Next, Step, Fault, Quiet, Private

-----------------------------------------------------------------------------
(***************************************************************************)
(* SerialInv is inductive.                                                 *)
(***************************************************************************)

\* Only Begin opens a call, and no step reopens one.
LEMMA OpenStep ==
  ASSUME TypeOK, NEW c \in Calls,
         Private(c) \/ Commit(c) \/ CommitFails(c) \/ RecordFailure(c)
  PROVE  /\ \A d \in Calls \ {c} : /\ pc'[d] = pc[d]
                                   /\ seen'[d] = seen[d]
                                   /\ txLog'[d] = txLog[d]
                                   /\ txRows'[d] = txRows[d]
         /\ Open(c) \/ Begin(c) \/ BeginFails(c)
         /\ req' = req
BY DEF Private, committed, Begin, BeginFails, Claim, Deduplicate, InsertLog,
       InsertLogDuplicate, ReclaimLog, RunHandler, MarkSuccess, Abort,
       RecordFailureFails, Commit, CommitFails, RecordFailure, Return, GoTo,
       TypeOK, Open

LEMMA SerialStep ==
  ASSUME ~Overlap, TypeOK, SerialInv, [Next]_vars
  PROVE  SerialInv'
<1>. DEFINE Alone == \A c, d \in Calls :
                       Open(c) /\ Open(d) /\ EmpOf(c) = EmpOf(d) => c = d
            Fresh(c) == InTransaction(c) =>
                          /\ seen[c] = history[EmpOf(c)]
                          /\ syncLog[Key(c)] # "SUCCESS"
            Decided(c) == pc[c] \in {"mark", "commit"} =>
              txRows[c] = Handle(ActOf(c), Key(c), req[c].payload, seen[c])
            Marked(c) == pc[c] = "commit" => txLog[c] = "SUCCESS"
<1>1. Alone /\ \A c \in Calls : Fresh(c) /\ Decided(c) /\ Marked(c)
  BY DEF SerialInv
<1>2. ASSUME NEW c \in Calls,
             Private(c) \/ Commit(c) \/ CommitFails(c) \/ RecordFailure(c)
      PROVE  SerialInv'
  <2>1. /\ \A d \in Calls \ {c} : /\ pc'[d] = pc[d]
                                  /\ seen'[d] = seen[d]
                                  /\ txLog'[d] = txLog[d]
                                  /\ txRows'[d] = txRows[d]
        /\ Open(c) \/ Begin(c) \/ BeginFails(c)
        /\ req' = req
    BY <1>2, OpenStep
  <2>2. \A d \in Calls : Key(d)' = Key(d) /\ EmpOf(d)' = EmpOf(d)
                         /\ ActOf(d)' = ActOf(d)
    BY <2>1 DEF Key, EmpOf, ActOf
  <2>3. Alone'
    <3>1. CASE Begin(c)
      BY <1>1, <2>1, <2>2, <3>1 DEF Begin, Open
    <3>2. CASE ~Begin(c)
      <4>1. Open(c)' => Open(c)
        BY <2>1, <3>2 DEF BeginFails, Return, GoTo, Open, TypeOK
      <4>. QED
        BY <1>1, <2>1, <2>2, <4>1 DEF Open
    <3>. QED
      BY <3>1, <3>2
  <2>4. ASSUME NEW d \in Calls \ {c}
        PROVE  (Fresh(d) /\ Decided(d) /\ Marked(d))'
    <3>1. Decided(d)' /\ Marked(d)'
      BY <1>1, <2>1, <2>2
    <3>2. CASE ~InTransaction(d)
      BY <2>1, <3>1, <3>2 DEF InTransaction
    <3>3. CASE InTransaction(d) /\ Private(c)
      BY <1>1, <2>1, <2>2, <3>1, <3>3, PrivateStep DEF InTransaction
    <3>4. CASE InTransaction(d) /\ ~Private(c)
      <4>1. Open(c) /\ Open(d)
        BY <2>1, <3>4 DEF Private, InTransaction, Open
      <4>2. EmpOf(d) # EmpOf(c) /\ Key(d) # Key(c)
        BY <1>1, <4>1 DEF EmpOf
      <4>3. /\ history'[EmpOf(d)] = history[EmpOf(d)]
            /\ syncLog'[Key(d)] = syncLog[Key(d)]
        <5>1. EmpOf(d) \in Employees /\ Key(d) \in Keys
          BY ServiceAssumption DEF TypeOK, EmpOf, Key
        <5>2. CASE RecordFailure(c)
          BY <4>2, <5>1, <5>2 DEF RecordFailure, TypeOK
        <5>3. CASE Commit(c) \/ CommitFails(c)
          BY <4>2, <5>1, <5>3, CommitStep DEF Publish, TypeOK
        <5>. QED
          BY <1>2, <3>4, <5>2, <5>3
      <4>. QED
        BY <1>1, <2>1, <2>2, <3>1, <3>4, <4>3 DEF InTransaction
    <3>. QED
      BY <3>2, <3>3, <3>4
  <2>5. (Fresh(c) /\ Decided(c) /\ Marked(c))'
    <3>1. CASE \/ Begin(c) \/ BeginFails(c) \/ Deduplicate(c)
               \/ InsertLogDuplicate(c) \/ Abort(c) \/ RecordFailureFails(c)
               \/ Commit(c) \/ CommitFails(c) \/ RecordFailure(c)
      <4>1. pc'[c] \in {"claim", "done", "record"}
        BY <3>1 DEF Begin, BeginFails, Deduplicate, InsertLogDuplicate, Abort,
                    RecordFailureFails, Commit, CommitFails, RecordFailure,
                    Return, GoTo, TypeOK
      <4>. QED
        BY <4>1 DEF InTransaction
    <3>2. CASE Claim(c)
      BY <2>1, <2>2, <3>2 DEF Claim, GoTo, TypeOK, InTransaction, committed
    <3>3. CASE InsertLog(c) \/ ReclaimLog(c)
      BY <1>1, <2>1, <2>2, <3>3
      DEF InsertLog, ReclaimLog, GoTo, TypeOK, InTransaction, committed
    <3>4. CASE RunHandler(c)
      BY <1>1, <2>1, <2>2, <3>4
      DEF RunHandler, GoTo, TypeOK, InTransaction, committed
    <3>5. CASE MarkSuccess(c)
      BY <1>1, <2>1, <2>2, <3>5
      DEF MarkSuccess, GoTo, TypeOK, InTransaction, committed
    <3>. QED
      BY <1>2, <3>1, <3>2, <3>3, <3>4, <3>5 DEF Private
  <2>. QED
    BY <2>3, <2>4, <2>5 DEF SerialInv
<1>3. CASE Crash
  <2>1. \A c \in Calls : pc'[c] \in {"new", "done"}
    BY <1>3 DEF Crash, Open
  <2>. QED
    BY <2>1 DEF SerialInv, Open, InTransaction
<1>4. CASE UNCHANGED vars
  BY <1>4 DEF vars, SerialInv, Open, InTransaction, Key, EmpOf, ActOf
<1>. QED
  BY <1>2, <1>3, <1>4, NextCases

LEMMA SerialInvariant == ~Overlap /\ Spec => [](TypeOK /\ SerialInv)
<1>1. Init => SerialInv
  BY DEF Init, SerialInv, Open, InTransaction
<1>2. ~Overlap /\ TypeOK /\ SerialInv /\ [Next]_vars => SerialInv'
  BY SerialStep
<1>3. CASE Overlap
  BY <1>3
<1>4. CASE ~Overlap
  <2>1. TypeOK /\ SerialInv /\ [Next]_vars => SerialInv'
    BY <1>2, <1>4
  <2>. QED
    BY <1>1, <2>1, TypeCorrect, PTL DEF Spec
<1>. QED
  BY <1>3, <1>4

-----------------------------------------------------------------------------
(***************************************************************************)
(* At most one active row.                                                 *)
(***************************************************************************)
SingleActive(rows) == \A i, j \in Active(rows) : i = j

\* A handler that reads the rows it writes keeps at most one of them active.
LEMMA HandleKeepsSingleActive ==
  ASSUME NEW action \in {"CREATE", "UPDATE", "DELETE"},
         NEW k \in Keys, NEW payload \in Payloads,
         NEW rows \in Seq(PayRate), SingleActive(rows)
  PROVE  SingleActive(Write(action, rows, Handle(action, k, payload, rows)))
<1>. DEFINE inserted == Handle(action, k, payload, rows)
            after == Write(action, rows, inserted)
<1>1. inserted \in Insertion
  BY HandleType
<1>2. action = "CREATE" /\ inserted # <<>> => Active(rows) = {}
  BY DEF Handle, HandleCreate
<1>. HIDE DEF inserted
<1>3. /\ after \in Seq(PayRate)
      /\ Len(after) = Len(rows) + Len(inserted)
      /\ \A i \in 1 .. Len(rows) :
           after[i] = IF inserted = <<>> \/ action = "CREATE" THEN rows[i]
                      ELSE Closed(rows[i])
  BY <1>1, WriteRows
<1>4. CASE inserted = <<>>
  <2>1. after = rows
    BY <1>4 DEF Write
  <2>. HIDE DEF after
  <2>. QED
    BY <2>1 DEF after, inserted
<1>5. CASE inserted # <<>>
  <2>1. Len(after) = Len(rows) + 1
    <3>1. Len(inserted) = 1
      <4>1. PICK row \in PayRate : inserted = <<row>>
        BY <1>1, <1>5 DEF Insertion
      <4>. QED
        BY <4>1
    <3>. HIDE DEF after
    <3>. QED
      BY <1>3, <3>1
  <2>2. /\ Len(rows) \in Nat
        /\ DOMAIN rows = 1 .. Len(rows)
        /\ DOMAIN after = 1 .. Len(after)
    BY <1>3, LenProperties
  <2>3. \A i \in 1 .. Len(rows) : ~after[i].active
    <3>1. CASE action = "CREATE"
      <4>1. \A i \in 1 .. Len(rows) : after[i] = rows[i] /\ i \notin Active(rows)
        BY <1>2, <1>3, <1>5, <3>1
      <4>. QED
        BY <2>2, <4>1 DEF Active
    <3>2. CASE action # "CREATE"
      <4>1. \A i \in 1 .. Len(rows) : after[i] = Closed(rows[i])
        BY <1>3, <1>5, <3>2
      <4>2. \A i \in 1 .. Len(rows) : rows[i] \in PayRate
        BY <2>2, ElementOfSeq
      <4>3. \A row \in PayRate : ~Closed(row).active
        BY DEF Closed, PayRate
      <4>. QED
        BY <4>1, <4>2, <4>3
    <3>. QED
      BY <3>1, <3>2
  <2>. HIDE DEF after
  <2>4. \A i \in Active(after) : i = Len(rows) + 1
    BY <2>1, <2>2, <2>3 DEF Active
  <2>5. SingleActive(after)
    BY <2>4 DEF SingleActive
  <2>. QED
    BY <2>5 DEF after, inserted
<1>. QED
  BY <1>4, <1>5

\* What a call publishes is its decision on the current rows.
LEMMA PublishIsDecision ==
  ASSUME TypeOK, SerialInv, NEW c \in Calls, pc[c] = "commit", Publish(c)
  PROVE  LET rows == history[EmpOf(c)]
         IN /\ syncLog[Key(c)] # "SUCCESS"
            /\ syncLog' = [syncLog EXCEPT ![Key(c)] = "SUCCESS"]
            /\ history' = [history EXCEPT ![EmpOf(c)] =
                 Write(ActOf(c), rows,
                       Handle(ActOf(c), Key(c), req[c].payload, rows))]
BY DEF SerialInv, InTransaction, Publish

LEMMA SingleActiveStep ==
  ASSUME TypeOK, SerialInv, AtMostOneActive, [Next]_vars
  PROVE  AtMostOneActive'
<1>1. CASE UNCHANGED history
  BY <1>1 DEF AtMostOneActive
<1>2. ASSUME NEW c \in Calls, pc[c] = "commit", Publish(c)
      PROVE  AtMostOneActive'
  <2>. DEFINE rows == history[EmpOf(c)]
              after == Write(ActOf(c), rows,
                             Handle(ActOf(c), Key(c), req[c].payload, rows))
  <2>1. /\ ActOf(c) \in {"CREATE", "UPDATE", "DELETE"}
        /\ Key(c) \in Keys
        /\ EmpOf(c) \in Employees
        /\ req[c].payload \in Payloads
        /\ rows \in Seq(PayRate)
    BY ServiceAssumption DEF TypeOK, ActOf, Key, EmpOf
  <2>2. SingleActive(after)
    BY <2>1, HandleKeepsSingleActive DEF AtMostOneActive, SingleActive
  <2>3. history' = [history EXCEPT ![EmpOf(c)] = after]
    BY <1>2, PublishIsDecision
  <2>. HIDE DEF after
  <2>4. \A e \in Employees : history'[e] \in {history[e], after}
    BY <2>3 DEF TypeOK
  <2>5. \A e \in Employees : SingleActive(history'[e])
    BY <2>2, <2>4 DEF AtMostOneActive, SingleActive
  <2>. QED
    BY <2>5 DEF AtMostOneActive, SingleActive, Active
<1>. QED
  BY <1>1, <1>2, HistoryStep

(***************************************************************************)
(* While the calls for one employee do not overlap, no employee ever has   *)
(* two active pay rates, whichever calls abort, crash or are repeated.     *)
(***************************************************************************)
THEOREM SingleActiveRate == ~Overlap /\ Spec => []AtMostOneActive
<1>1. Init => AtMostOneActive
  BY DEF Init, AtMostOneActive, Active
<1>2. TypeOK /\ SerialInv /\ AtMostOneActive /\ [Next]_vars => AtMostOneActive'
  BY SingleActiveStep
<1>. QED
  BY <1>1, <1>2, SerialInvariant, PTL DEF Spec

-----------------------------------------------------------------------------
(***************************************************************************)
(* Refinement.                                                             *)
(***************************************************************************)
\* The ledger's rules are the service's.
LEMMA SameRules ==
  ASSUME NEW action, NEW k, NEW payload, NEW rows
  PROVE  Ledger!Write(action, rows, Ledger!Handle(action, k, payload, rows))
         = Write(action, rows, Handle(action, k, payload, rows))
<1>1. Ledger!Handle(action, k, payload, rows)
      = Handle(action, k, payload, rows)
  BY DEF Ledger!Handle, Handle, Ledger!HandleCreate, HandleCreate,
         Ledger!HandleUpdate, HandleUpdate, Ledger!HandleDelete, HandleDelete,
         Ledger!Active, Active, Ledger!CurrentRate, CurrentRate,
         Ledger!LatestRate, LatestRate, Ledger!TheRow, TheRow,
         Ledger!RateOr0, RateOr0, Ledger!TypeOrHourly, TypeOrHourly,
         Ledger!NormalizePayType, NormalizePayType
<1>2. ASSUME NEW inserted
      PROVE  Ledger!Write(action, rows, inserted)
             = Write(action, rows, inserted)
  BY DEF Ledger!Write, Write, Ledger!Deactivate, Deactivate,
         Ledger!Closed, Closed
<1>. QED
  BY <1>1, <1>2

LEMMA LedgerStep ==
  ASSUME TypeOK, SerialInv, [Next]_vars
  PROVE  [Ledger!Next]_<<history, syncLog>>
<1>1. ASSUME NEW c \in Calls, Private(c)
      PROVE  UNCHANGED <<history, syncLog>>
  BY <1>1, PrivateStep
<1>2. ASSUME NEW c \in Calls, Commit(c) \/ CommitFails(c)
      PROVE  [Ledger!Next]_<<history, syncLog>>
  <2>1. CASE UNCHANGED <<history, syncLog>>
    BY <2>1
  <2>2. CASE Publish(c)
    <3>1. Key(c) \in Keys /\ req[c].payload \in Payloads
      BY DEF TypeOK, Key
    <3>2. Ledger!Apply(Key(c), req[c].payload)
      BY <1>2, <2>2, CommitStep, PublishIsDecision, SameRules
      DEF Ledger!Apply, EmpOf, ActOf
    <3>. QED
      BY <3>1, <3>2 DEF Ledger!Next
  <2>. QED
    BY <1>2, <2>1, <2>2, CommitStep
<1>3. ASSUME NEW c \in Calls, RecordFailure(c)
      PROVE  Ledger!Next
  <2>1. Key(c) \in Keys /\ Ledger!Fail(Key(c))
    BY <1>3 DEF RecordFailure, Ledger!Fail, TypeOK, Key
  <2>. QED
    BY <2>1 DEF Ledger!Next
<1>4. CASE Crash \/ UNCHANGED vars
  BY <1>4 DEF Crash, vars, committed
<1>. QED
  BY <1>1, <1>2, <1>3, <1>4, NextCases

(***************************************************************************)
(* While the calls for one employee do not overlap, the service implements *)
(* the ledger: every commit is one Apply on the current rows, every        *)
(* recorded failure one Fail, every other step changes nothing.            *)
(***************************************************************************)
THEOREM ServiceImplementsLedger == ~Overlap /\ Spec => ImplementsLedger
<1>1. Init => Ledger!Init
  BY DEF Init, Ledger!Init
<1>2. TypeOK /\ SerialInv /\ [Next]_vars => [Ledger!Next]_<<history, syncLog>>
  BY LedgerStep
<1>. QED
  BY <1>1, <1>2, SerialInvariant, PTL DEF Spec, ImplementsLedger, Ledger!Spec
=============================================================================
