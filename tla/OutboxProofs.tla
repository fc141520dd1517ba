---------------------------- MODULE OutboxProofs ----------------------------
(***************************************************************************)
(* Theorems about Outbox: its types, the attempts that fit the status, and *)
(* what SUCCESS and DEAD mean, whatever takes how long; and, when delays   *)
(* outlast steps, that an event has one holder and stays settled; and that *)
(* it implements EventQueue.                                               *)
(***************************************************************************)
EXTENDS Outbox, TLAPS

(***************************************************************************)
(* Attempts are written from snapshots, so the invariant is about these:   *)
(* every snapshot that a recovery, a claim or a delivery still acts on has *)
(* an attempt left, and a claim compares with PENDING or FAILED only.      *)
(***************************************************************************)
HasAttempt(s) == s.attempts < MaxAttempts

Recovering(p) == pc[p] \in {"recover", "auditOne"}
Claiming(p) == pc[p] \in {"claim", "sync", "succeed", "fail", "catch"}
InHand(p) == pc[p] \in {"sync", "succeed", "fail", "catch"}

SnapshotInv ==
  \A p \in Procs :
    /\ InHand(p) => current[p] \in Snapshot /\ HasAttempt(current[p])
    /\ pc[p] = "auditOne" => current[p] \in Snapshot
    /\ Recovering(p) \/ Claiming(p) => \A s \in batch[p] : HasAttempt(s)
    /\ Claiming(p) => \A s \in batch[p] : s.status \in {"PENDING", "FAILED"}

QueueInv ==
  /\ AttemptsFitStatus
  /\ \A e \in Events : status[e] = "NONE" => attempts[e] = 0

QueueType ==
  /\ status \in [Events -> Status \cup {"NONE"}]
  /\ attempts \in [Events -> 0 .. MaxAttempts]
  /\ due \in [Events -> BOOLEAN]
  /\ stale \in [Events -> BOOLEAN]

-----------------------------------------------------------------------------
LEMMA InitInv == Init => TypeOK /\ SnapshotInv /\ QueueInv
<1>. SUFFICES ASSUME Init PROVE TypeOK /\ SnapshotInv /\ QueueInv
  OBVIOUS
<1>. USE OutboxAssumption
<1>1. TypeOK
  BY DEF Init, TypeOK, Locations
<1>2. SnapshotInv
  BY DEF Init, SnapshotInv, Recovering, Claiming, InHand
<1>3. QueueInv
  BY DEF Init, QueueInv, AttemptsFitStatus
<1>. QED
  BY <1>1, <1>2, <1>3

\* A failed attempt counted from a snapshot with an attempt left.
LEMMA WriteFailedInv ==
  ASSUME TypeOK, QueueInv, NEW s \in Snapshot, HasAttempt(s), WriteFailed(s)
  PROVE  QueueType' /\ QueueInv'
<1>. USE OutboxAssumption
<1>1. s.event \in Events /\ s.attempts \in Nat /\ s.attempts + 1 \in 1 .. MaxAttempts
  BY DEF Snapshot, HasAttempt
<1>2. QueueType'
  BY <1>1 DEF WriteFailed, TypeOK, QueueType, Status
<1>3. QueueInv'
  BY <1>1 DEF WriteFailed, TypeOK, QueueInv, AttemptsFitStatus
<1>. QED
  BY <1>2, <1>3

LEMMA CountTryType ==
  ASSUME TypeOK, NEW e \in Events, CountTry(e)
  PROVE  tries' \in [Events -> 0 .. MaxAttempts]
<1>. USE OutboxAssumption
<1>1. tries \in [Events -> 0 .. MaxAttempts] /\ tries[e] \in 0 .. MaxAttempts
  BY DEF TypeOK
<1>2. (IF tries[e] < MaxAttempts THEN tries[e] + 1 ELSE tries[e])
        \in 0 .. MaxAttempts
  BY <1>1
<1>. QED
  BY <1>1, <1>2 DEF CountTry

LEMMA SnapshotType ==
  ASSUME TypeOK, NEW e \in Events, status[e] # "NONE"
  PROVE  SnapshotOf(e) \in Snapshot
BY DEF SnapshotOf, Snapshot, TypeOK

(***************************************************************************)
(* The invariant, one group of actions at a time.                          *)
(***************************************************************************)
Inv == TypeOK /\ SnapshotInv /\ QueueInv

LEMMA TimeInv ==
  ASSUME Inv, NEW e \in Events, Enqueue(e) \/ Tick(e)
  PROVE  Inv'
<1>. USE OutboxAssumption
<1>1. SnapshotInv'
  BY DEF Inv, SnapshotInv, Enqueue, Tick, BackoffElapses, ProcessingTimesOut,
         locals, Recovering, Claiming, InHand
<1>2. TypeOK'
  BY DEF Inv, TypeOK, Enqueue, Tick, BackoffElapses, ProcessingTimesOut,
         locals, Status
<1>3. QueueInv'
  BY DEF Inv, TypeOK, QueueInv, AttemptsFitStatus, Enqueue, Tick,
         BackoffElapses, ProcessingTimesOut
<1>. QED
  BY <1>1, <1>2, <1>3 DEF Inv

LEMMA RecoveryInv ==
  ASSUME Inv, NEW p \in Procs, StartRecovery(p) \/ RecoveryStep(p)
  PROVE  Inv'
<1>. USE OutboxAssumption DEF Inv
<1>1. CASE StartRecovery(p)
  <2>1. \A s \in batch'[p] : s \in Snapshot /\ HasAttempt(s)
    BY <1>1, SnapshotType
    DEF StartRecovery, TypeOK, StaleEvents, SnapshotOf, HasAttempt, QueueInv,
        AttemptsFitStatus
  <2>2. TypeOK'
    BY <1>1, <2>1 DEF StartRecovery, TypeOK, queue, GoTo, Locations
  <2>3. SnapshotInv'
    BY <1>1, <2>1
    DEF StartRecovery, TypeOK, SnapshotInv, GoTo, Recovering, Claiming, InHand
  <2>4. QueueInv'
    BY <1>1 DEF StartRecovery, queue, QueueInv, AttemptsFitStatus
  <2>. QED
    BY <2>2, <2>3, <2>4
<1>2. CASE Recover(p)
  <2>1. PICK s \in batch[p] :
          /\ batch' = [batch EXCEPT ![p] = @ \ {s}]
          /\ WriteFailed(s)
          /\ IF p \in Operators
             THEN GoTo(p, "auditOne") /\ current' = [current EXCEPT ![p] = s]
             ELSE UNCHANGED <<pc, current>>
    BY <1>2 DEF Recover
  <2>2. s \in Snapshot /\ HasAttempt(s) /\ pc[p] = "recover"
    BY <1>2 DEF Recover, TypeOK, SnapshotInv, Recovering
  <2>3. QueueType' /\ QueueInv'
    BY <2>1, <2>2, WriteFailedInv
  <2>4. TypeOK'
    BY <1>2, <2>1, <2>2, <2>3 DEF Recover, QueueType, TypeOK, GoTo, Locations
  <2>5. SnapshotInv'
    BY <1>2, <2>1, <2>2
    DEF TypeOK, SnapshotInv, GoTo, Recovering, Claiming, InHand
  <2>. QED
    BY <2>3, <2>4, <2>5
<1>3. CASE RecoverNothing(p)
  <2>1. TypeOK'
    BY <1>3 DEF RecoverNothing, TypeOK, queue
  <2>2. SnapshotInv'
    BY <1>3
    DEF RecoverNothing, TypeOK, SnapshotInv, Recovering, Claiming, InHand
  <2>3. QueueInv'
    BY <1>3 DEF RecoverNothing, queue, QueueInv, AttemptsFitStatus
  <2>. QED
    BY <2>1, <2>2, <2>3
<1>4. CASE EndRecovery(p)
  <2>1. TypeOK'
    BY <1>4 DEF EndRecovery, TypeOK, queue, GoTo, Locations
  <2>2. SnapshotInv'
    BY <1>4
    DEF EndRecovery, TypeOK, SnapshotInv, GoTo, Recovering, Claiming, InHand
  <2>3. QueueInv'
    BY <1>4 DEF EndRecovery, queue, QueueInv, AttemptsFitStatus
  <2>. QED
    BY <2>1, <2>2, <2>3
<1>. QED
  BY <1>1, <1>2, <1>3, <1>4 DEF RecoveryStep

LEMMA ClaimInv ==
  ASSUME Inv, NEW w \in Workers, SelectBatch(w) \/ Claim(w) \/ ClaimLost(w)
  PROVE  Inv'
<1>. USE OutboxAssumption DEF Inv
<1>. w \in Procs
  BY DEF Procs
<1>1. CASE SelectBatch(w)
  <2>1. PICK S \in SUBSET DueEvents :
          /\ batch' = [batch EXCEPT ![w] = {SnapshotOf(e) : e \in S}]
          /\ GoTo(w, IF S = {} THEN "idle" ELSE "claim")
    BY <1>1 DEF SelectBatch
  <2>2. \A s \in batch'[w] : /\ s \in Snapshot
                             /\ HasAttempt(s)
                             /\ s.status \in {"PENDING", "FAILED"}
    <3>1. \A e \in S : /\ SnapshotOf(e) \in Snapshot
                       /\ HasAttempt(SnapshotOf(e))
                       /\ SnapshotOf(e).status \in {"PENDING", "FAILED"}
      BY SnapshotType
      DEF TypeOK, DueEvents, SnapshotOf, HasAttempt, QueueInv, AttemptsFitStatus
    <3>. QED
      BY <2>1, <3>1 DEF TypeOK
  <2>3. TypeOK'
    BY <1>1, <2>1, <2>2 DEF SelectBatch, TypeOK, queue, GoTo, Locations
  <2>4. SnapshotInv'
    BY <1>1, <2>1, <2>2
    DEF SelectBatch, TypeOK, SnapshotInv, GoTo, Recovering, Claiming, InHand
  <2>5. QueueInv'
    BY <1>1 DEF SelectBatch, queue, QueueInv, AttemptsFitStatus
  <2>. QED
    BY <2>3, <2>4, <2>5
<1>2. CASE Claim(w)
  <2>1. PICK s \in batch[w] :
          /\ batch' = [batch EXCEPT ![w] = @ \ {s}]
          /\ status[s.event] = s.status
          /\ status' = [status EXCEPT ![s.event] = "PROCESSING"]
          /\ stale' = [stale EXCEPT ![s.event] = FALSE]
          /\ CountTry(s.event)
          /\ current' = [current EXCEPT ![w] = s]
    BY <1>2 DEF Claim, Takes
  <2>2. /\ s \in Snapshot /\ HasAttempt(s)
        /\ s.status \in {"PENDING", "FAILED"}
        /\ pc[w] = "claim"
    BY <1>2 DEF Claim, TypeOK, SnapshotInv, Claiming
  <2>3. s.event \in Events
    BY <2>2 DEF Snapshot
  <2>4. tries' \in [Events -> 0 .. MaxAttempts]
    BY <2>1, <2>3, CountTryType
  <2>5. TypeOK'
    BY <1>2, <2>1, <2>2, <2>3, <2>4 DEF Claim, TypeOK, GoTo, Locations, Status
  <2>6. SnapshotInv'
    BY <1>2, <2>1, <2>2
    DEF Claim, TypeOK, SnapshotInv, GoTo, Recovering, Claiming, InHand
  <2>7. QueueInv'
    BY <1>2, <2>1, <2>2, <2>3 DEF Claim, TypeOK, QueueInv, AttemptsFitStatus
  <2>. QED
    BY <2>5, <2>6, <2>7
<1>3. CASE ClaimLost(w)
  <2>1. PICK s \in batch[w] :
          /\ batch' = [batch EXCEPT ![w] = @ \ {s}]
          /\ GoTo(w, IF batch[w] = {s} THEN "idle" ELSE "claim")
    BY <1>3 DEF ClaimLost, Takes
  <2>2. TypeOK'
    BY <1>3, <2>1 DEF ClaimLost, TypeOK, queue, GoTo, Locations
  <2>3. SnapshotInv'
    BY <1>3, <2>1
    DEF ClaimLost, TypeOK, SnapshotInv, GoTo, Recovering, Claiming, InHand
  <2>4. QueueInv'
    BY <1>3 DEF ClaimLost, queue, QueueInv, AttemptsFitStatus
  <2>. QED
    BY <2>2, <2>3, <2>4
<1>. QED
  BY <1>1, <1>2, <1>3

Result(w) == \/ Sync(w) \/ MarkSuccess(w) \/ MarkFailure(w)
             \/ MarkSuccessThrows(w) \/ MarkFailureThrows(w)

LEMMA DeliveryInv ==
  ASSUME Inv, NEW w \in Workers, Result(w)
  PROVE  Inv'
<1>. USE OutboxAssumption DEF Inv
<1>. DEFINE s == current[w]
<1>1. w \in Procs /\ InHand(w) /\ s \in Snapshot /\ HasAttempt(s)
  BY DEF Procs, InHand, SnapshotInv, Result, Sync, MarkSuccess, MarkFailure,
         MarkSuccessThrows, MarkFailureThrows
<1>2. s.event \in Events
  BY <1>1 DEF Snapshot
<1>3. CASE Sync(w)
  <2>1. TypeOK'
    BY <1>1, <1>2, <1>3 DEF Sync, TypeOK, queue, GoTo, Locations
  <2>2. SnapshotInv'
    BY <1>1, <1>3
    DEF Sync, TypeOK, SnapshotInv, GoTo, Recovering, Claiming, InHand
  <2>3. QueueInv'
    BY <1>3 DEF Sync, queue, QueueInv, AttemptsFitStatus
  <2>. QED
    BY <2>1, <2>2, <2>3
<1>4. CASE MarkSuccess(w)
  <2>1. TypeOK'
    BY <1>1, <1>2, <1>4 DEF MarkSuccess, Advance, TypeOK, GoTo, Locations, Status
  <2>2. SnapshotInv'
    BY <1>1, <1>4
    DEF MarkSuccess, Advance, TypeOK, SnapshotInv, GoTo, Recovering, Claiming,
        InHand
  <2>3. QueueInv'
    BY <1>2, <1>4 DEF MarkSuccess, TypeOK, QueueInv, AttemptsFitStatus
  <2>. QED
    BY <2>1, <2>2, <2>3
<1>5. CASE MarkFailure(w)
  <2>1. QueueType' /\ QueueInv'
    BY <1>1, <1>5, WriteFailedInv DEF MarkFailure
  <2>2. TypeOK'
    BY <1>1, <1>5, <2>1 DEF MarkFailure, Advance, QueueType, TypeOK, GoTo, Locations
  <2>3. SnapshotInv'
    BY <1>1, <1>5
    DEF MarkFailure, Advance, TypeOK, SnapshotInv, GoTo, Recovering, Claiming,
        InHand
  <2>. QED
    BY <2>1, <2>2, <2>3
<1>6. CASE MarkSuccessThrows(w)
  <2>1. TypeOK'
    <3>1. status' \in [Events -> Status \cup {"NONE"}]
      BY <1>2, <1>6 DEF MarkSuccessThrows, TypeOK, Status
    <3>2. stale' \in [Events -> BOOLEAN]
      BY <1>2, <1>6 DEF MarkSuccessThrows, TypeOK
    <3>3. faults' \in 0 .. MaxFaults
      BY <1>6 DEF MarkSuccessThrows, TypeOK
    <3>4. pc' \in [Procs -> Locations]
      BY <1>1, <1>6 DEF MarkSuccessThrows, TypeOK, GoTo, Locations
    <3>. QED
      BY <1>6, <3>1, <3>2, <3>3, <3>4 DEF MarkSuccessThrows, TypeOK
  <2>2. SnapshotInv'
    BY <1>1, <1>6
    DEF MarkSuccessThrows, TypeOK, SnapshotInv, GoTo, Recovering, Claiming, InHand
  <2>3. QueueInv'
    BY <1>2, <1>6 DEF MarkSuccessThrows, TypeOK, QueueInv, AttemptsFitStatus
  <2>. QED
    BY <2>1, <2>2, <2>3
<1>7. CASE MarkFailureThrows(w)
  <2>1. QueueType' /\ QueueInv'
    <3>1. CASE WriteFailed(s)
      BY <1>1, <3>1, WriteFailedInv
    <3>2. CASE UNCHANGED queue
      BY <3>2 DEF TypeOK, queue, QueueType, QueueInv, AttemptsFitStatus
    <3>. QED
      BY <1>7, <3>1, <3>2 DEF MarkFailureThrows
  <2>2. faults' \in 0 .. MaxFaults
    BY <1>7 DEF MarkFailureThrows, TypeOK
  <2>3. TypeOK'
    BY <1>1, <1>7, <2>1, <2>2
    DEF MarkFailureThrows, QueueType, TypeOK, GoTo, Locations
  <2>4. SnapshotInv'
    BY <1>1, <1>7
    DEF MarkFailureThrows, TypeOK, SnapshotInv, GoTo, Recovering, Claiming, InHand
  <2>. QED
    BY <2>1, <2>3, <2>4
<1>. QED
  BY <1>3, <1>4, <1>5, <1>6, <1>7 DEF Result

LEMMA CommandInv ==
  ASSUME Inv, NEW o \in Operators,
         AuditRecovery(o) \/ GiveCommand(o) \/ ResetEvents(o) \/ AuditCommand(o)
  PROVE  Inv'
<1>. USE OutboxAssumption DEF Inv
<1>. o \in Procs
  BY DEF Procs
<1>1. CASE AuditRecovery(o)
  <2>1. current[o] \in Snapshot
    BY <1>1 DEF AuditRecovery, SnapshotInv
  <2>2. TypeOK'
    BY <1>1, <2>1 DEF AuditRecovery, TypeOK, queue, GoTo, Locations, Status, Snapshot
  <2>3. SnapshotInv'
    BY <1>1
    DEF AuditRecovery, TypeOK, SnapshotInv, GoTo, Recovering, Claiming, InHand
  <2>4. QueueInv'
    BY <1>1 DEF AuditRecovery, queue, QueueInv, AttemptsFitStatus
  <2>. QED
    BY <2>2, <2>3, <2>4
<1>2. CASE GiveCommand(o)
  <2>1. PICK where \in Commands :
          LET found == {e \in Events : Matches(e, where)}
          IN /\ batch' = [batch EXCEPT ![o] = {SnapshotOf(e) : e \in found}]
             /\ command' = [command EXCEPT ![o] = where]
             /\ GoTo(o, IF found = {} THEN "done" ELSE "reset")
    BY <1>2 DEF GiveCommand
  <2>2. where.statuses \subseteq Status
    BY DEF RetryEvent, RetryDead, Replay, Status
  <2>3. \A e \in Events : Matches(e, where) => SnapshotOf(e) \in Snapshot
    BY <2>2, SnapshotType DEF Matches, Status
  <2>4. batch'[o] \in SUBSET Snapshot
    BY <2>1, <2>3 DEF TypeOK
  <2>5. TypeOK'
    BY <1>2, <2>1, <2>4 DEF GiveCommand, TypeOK, queue, GoTo, Locations
  <2>6. SnapshotInv'
    BY <1>2, <2>1
    DEF GiveCommand, TypeOK, SnapshotInv, GoTo, Recovering, Claiming, InHand
  <2>7. QueueInv'
    BY <1>2 DEF GiveCommand, queue, QueueInv, AttemptsFitStatus
  <2>. QED
    BY <2>5, <2>6, <2>7
<1>3. CASE ResetEvents(o)
  <2>1. TypeOK'
    BY <1>3 DEF ResetEvents, TypeOK, GoTo, Locations, Status
  <2>2. SnapshotInv'
    BY <1>3
    DEF ResetEvents, TypeOK, SnapshotInv, GoTo, Recovering, Claiming, InHand
  <2>3. QueueInv'
    BY <1>3 DEF ResetEvents, TypeOK, QueueInv, AttemptsFitStatus
  <2>. QED
    BY <2>1, <2>2, <2>3
<1>4. CASE AuditCommand(o)
  <2>1. TypeOK'
    BY <1>4 DEF AuditCommand, TypeOK, queue, GoTo, Locations, Snapshot
  <2>2. SnapshotInv'
    BY <1>4
    DEF AuditCommand, TypeOK, SnapshotInv, GoTo, Recovering, Claiming, InHand
  <2>3. QueueInv'
    BY <1>4 DEF AuditCommand, queue, QueueInv, AttemptsFitStatus
  <2>. QED
    BY <2>1, <2>2, <2>3
<1>. QED
  BY <1>1, <1>2, <1>3, <1>4

LEMMA AbandonInv ==
  ASSUME Inv, NEW p \in Procs, Abandon(p)
  PROVE  Inv'
<1>. USE OutboxAssumption DEF Inv
<1>1. TypeOK'
  BY DEF Abandon, TypeOK, queue, GoTo, Locations
<1>2. SnapshotInv'
  BY DEF Abandon, TypeOK, SnapshotInv, GoTo, Recovering, Claiming, InHand
<1>3. QueueInv'
  BY DEF Abandon, queue, QueueInv, AttemptsFitStatus
<1>. QED
  BY <1>1, <1>2, <1>3

LEMMA StutterInv ==
  ASSUME Inv, UNCHANGED vars
  PROVE  Inv'
BY DEF Inv, TypeOK, SnapshotInv, QueueInv, AttemptsFitStatus, Recovering,
       Claiming, InHand, vars, queue, locals

LEMMA NextInv ==
  ASSUME Inv, [Next]_vars
  PROVE  Inv'
BY TimeInv, RecoveryInv, ClaimInv, DeliveryInv, CommandInv, AbandonInv,
   StutterInv DEF Next, WorkerStep, OperatorStep, Result, Procs

LEMMA Invariance == Spec => []Inv
BY InitInv, NextInv, PTL DEF Spec, Inv

(***************************************************************************)
(* The queue keeps its types: attempts never pass the limit, whatever the  *)
(* number of workers and the age of the snapshots they write from.         *)
(***************************************************************************)
THEOREM TypeCorrect == Spec => []TypeOK
BY Invariance, PTL DEF Inv

(***************************************************************************)
(* The attempts of every event fit its status, though they are written     *)
(* from snapshots by any number of workers, recoveries and commands.       *)
(***************************************************************************)
THEOREM AttemptsAlwaysFit == Spec => []AttemptsFitStatus
BY Invariance, PTL DEF Inv, QueueInv

-----------------------------------------------------------------------------
(***************************************************************************)
(* What SUCCESS means.  The worker about to write it has had a delivery.   *)
(***************************************************************************)
DeliveredInv ==
  /\ SuccessWasDelivered
  /\ \A p \in Procs : pc[p] = "succeed" => current[p].event \in delivered

LEMMA NextDelivered ==
  ASSUME Inv, DeliveredInv, [Next]_vars
  PROVE  DeliveredInv'
<1>. USE DEF DeliveredInv, SuccessWasDelivered, GoTo
<1>1. ASSUME NEW e \in Events, Enqueue(e) \/ Tick(e) PROVE DeliveredInv'
  BY <1>1 DEF Enqueue, Tick, BackoffElapses, ProcessingTimesOut, locals, Inv,
              TypeOK
<1>2. ASSUME NEW p \in Procs, StartRecovery(p) \/ RecoveryStep(p) \/ Abandon(p)
      PROVE  DeliveredInv'
  <2>1. CASE Recover(p)
    <3>1. PICK s \in batch[p] :
            /\ WriteFailed(s)
            /\ IF p \in Operators
               THEN GoTo(p, "auditOne") /\ current' = [current EXCEPT ![p] = s]
               ELSE UNCHANGED <<pc, current>>
      BY <2>1 DEF Recover
    <3>2. s.event \in Events
      BY DEF Inv, TypeOK, Snapshot
    <3>. QED
      BY <2>1, <3>1, <3>2 DEF Recover, WriteFailed, Inv, TypeOK
  <2>. QED
    BY <1>2, <2>1
    DEF StartRecovery, RecoveryStep, RecoverNothing, EndRecovery, Abandon, queue,
        Inv, TypeOK
<1>3. ASSUME NEW w \in Workers, SelectBatch(w) \/ Claim(w) \/ ClaimLost(w)
      PROVE  DeliveredInv'
  <2>. w \in Procs
    BY DEF Procs
  <2>1. CASE SelectBatch(w)
    BY <2>1 DEF SelectBatch, queue, Inv, TypeOK
  <2>2. CASE Claim(w)
    BY <2>2 DEF Claim, Takes, Inv, TypeOK, Snapshot
  <2>3. CASE ClaimLost(w)
    BY <2>3 DEF ClaimLost, queue, Inv, TypeOK
  <2>. QED
    BY <1>3, <2>1, <2>2, <2>3
<1>4. ASSUME NEW w \in Workers, Result(w) PROVE DeliveredInv'
  <2>1. w \in Procs /\ current[w] \in Snapshot /\ current[w].event \in Events
    BY <1>4 DEF Procs, Inv, SnapshotInv, InHand, Result, Sync, MarkSuccess,
                MarkFailure, MarkSuccessThrows, MarkFailureThrows, Snapshot
  <2>2. CASE Sync(w)
    BY <2>1, <2>2 DEF Sync, queue, Inv, TypeOK
  <2>3. CASE MarkSuccess(w)
    BY <2>1, <2>3 DEF MarkSuccess, Advance, Inv, TypeOK
  <2>4. CASE MarkFailure(w)
    BY <2>1, <2>4 DEF MarkFailure, WriteFailed, Advance, Inv, TypeOK
  <2>5. CASE MarkSuccessThrows(w)
    BY <2>1, <2>5 DEF MarkSuccessThrows, Inv, TypeOK
  <2>6. CASE MarkFailureThrows(w)
    BY <2>1, <2>6 DEF MarkFailureThrows, WriteFailed, queue, Inv, TypeOK
  <2>. QED
    BY <1>4, <2>2, <2>3, <2>4, <2>5, <2>6 DEF Result
<1>5. ASSUME NEW o \in Operators,
             AuditRecovery(o) \/ GiveCommand(o) \/ ResetEvents(o) \/ AuditCommand(o)
      PROVE  DeliveredInv'
  <2>. o \in Procs
    BY DEF Procs
  <2>. QED
    BY <1>5 DEF AuditRecovery, GiveCommand, ResetEvents, AuditCommand, queue, Inv,
                TypeOK
<1>6. CASE UNCHANGED vars
  BY <1>6 DEF vars, queue, locals
<1>. QED
  BY <1>1, <1>2, <1>3, <1>4, <1>5, <1>6 DEF Next, WorkerStep, OperatorStep, Result, Procs

(***************************************************************************)
(* An event is SUCCESS only when every integration has accepted it, though *)
(* the update that says so names nothing but the event's id.               *)
(***************************************************************************)
THEOREM SuccessMeansDelivered == Spec => []SuccessWasDelivered
<1>1. Init => DeliveredInv
  BY DEF Init, DeliveredInv, SuccessWasDelivered
<1>2. Inv /\ DeliveredInv /\ [Next]_vars => DeliveredInv'
  BY NextDelivered
<1>3. DeliveredInv => SuccessWasDelivered
  BY DEF DeliveredInv
<1>. QED
  BY <1>1, <1>2, <1>3, Invariance, PTL DEF Spec

-----------------------------------------------------------------------------
(***************************************************************************)
(* What DEAD means when nobody requeues events.  Attempts are written from *)
(* old snapshots and may go down again, so the tries are compared with     *)
(* everything that may still be written, never with attempts alone.        *)
(***************************************************************************)
Tried(s, n) == s.attempts + n <= tries[s.event]

QueueTried ==
  \A e \in Events :
    /\ attempts[e] <= tries[e]
    /\ status[e] = "PROCESSING" => attempts[e] + 1 <= tries[e]

SnapshotsTried ==
  \A p \in Procs :
    /\ InHand(p) => Tried(current[p], 1)
    /\ Recovering(p) => \A s \in batch[p] : Tried(s, 1)
    /\ Claiming(p) => \A s \in batch[p] : Tried(s, 0)

TriedInv == QueueTried /\ SnapshotsTried /\ \A p \in Procs : pc[p] # "reset"

LEMMA TriedTime ==
  ASSUME Inv, TriedInv, NEW e \in Events, Enqueue(e) \/ Tick(e)
  PROVE  TriedInv'
<1>1. QueueTried'
  BY DEF Inv, TypeOK, TriedInv, QueueTried, QueueInv, Enqueue, Tick,
         BackoffElapses, ProcessingTimesOut
<1>2. SnapshotsTried' /\ \A p \in Procs : pc'[p] # "reset"
  BY DEF TriedInv, SnapshotsTried, Tried, Enqueue, Tick, BackoffElapses,
         ProcessingTimesOut, locals, InHand, Recovering, Claiming
<1>. QED
  BY <1>1, <1>2 DEF TriedInv

\* A failed attempt counted from a snapshot that has been tried once more.
LEMMA WriteFailedTried ==
  ASSUME Inv, QueueTried, NEW s \in Snapshot, Tried(s, 1), HasAttempt(s),
         WriteFailed(s), UNCHANGED tries
  PROVE  QueueTried'
<1>. USE OutboxAssumption
<1>1. s.event \in Events /\ s.attempts \in Nat /\ s.attempts + 1 <= tries[s.event]
  BY DEF Snapshot, Tried
<1>2. /\ attempts' = [attempts EXCEPT ![s.event] = s.attempts + 1]
      /\ status'[s.event] # "PROCESSING"
      /\ \A e \in Events \ {s.event} : status'[e] = status[e]
  BY <1>1 DEF WriteFailed, Inv, TypeOK
<1>. QED
  BY <1>1, <1>2 DEF QueueTried, Inv, TypeOK

LEMMA TriedRecovery ==
  ASSUME Inv, TriedInv, NEW p \in Procs, StartRecovery(p) \/ RecoveryStep(p)
  PROVE  TriedInv'
<1>. USE DEF TriedInv
<1>1. CASE StartRecovery(p)
  <2>1. \A s \in batch'[p] : Tried(s, 1)
    BY <1>1 DEF StartRecovery, Inv, TypeOK, StaleEvents, SnapshotOf, Tried, QueueTried
  <2>2. SnapshotsTried' /\ \A q \in Procs : pc'[q] # "reset"
    BY <1>1, <2>1
    DEF StartRecovery, Inv, TypeOK, SnapshotsTried, Tried, GoTo, InHand, Recovering,
        Claiming
  <2>. QED
    BY <1>1, <2>2 DEF StartRecovery, queue, QueueTried
<1>2. CASE Recover(p)
  <2>1. PICK s \in batch[p] :
          /\ batch' = [batch EXCEPT ![p] = @ \ {s}]
          /\ WriteFailed(s)
          /\ IF p \in Operators
             THEN GoTo(p, "auditOne") /\ current' = [current EXCEPT ![p] = s]
             ELSE UNCHANGED <<pc, current>>
    BY <1>2 DEF Recover
  <2>2. s \in Snapshot /\ HasAttempt(s) /\ Tried(s, 1) /\ pc[p] = "recover"
    BY <1>2 DEF Recover, Inv, TypeOK, SnapshotInv, SnapshotsTried, Recovering
  <2>3. QueueTried'
    BY <1>2, <2>1, <2>2, WriteFailedTried DEF Recover
  <2>4. SnapshotsTried' /\ \A q \in Procs : pc'[q] # "reset"
    BY <1>2, <2>1, <2>2
    DEF Recover, Inv, TypeOK, SnapshotsTried, Tried, GoTo, InHand, Recovering,
        Claiming
  <2>. QED
    BY <2>3, <2>4
<1>3. CASE RecoverNothing(p) \/ EndRecovery(p)
  <2>1. SnapshotsTried' /\ \A q \in Procs : pc'[q] # "reset"
    BY <1>3
    DEF RecoverNothing, EndRecovery, Inv, TypeOK, SnapshotsTried, Tried, GoTo, queue,
        InHand, Recovering, Claiming
  <2>. QED
    BY <1>3, <2>1 DEF RecoverNothing, EndRecovery, queue, QueueTried
<1>. QED
  BY <1>1, <1>2, <1>3 DEF RecoveryStep

LEMMA DueHasAttempt ==
  ASSUME TypeOK, QueueInv, NEW e \in Events, status[e] \in {"PENDING", "FAILED"}
  PROVE  attempts[e] \in Nat /\ attempts[e] < MaxAttempts
<1>. USE OutboxAssumption
<1>1. attempts[e] \in Nat
  BY DEF TypeOK
<1>2. CASE status[e] = "PENDING"
  BY <1>2 DEF QueueInv, AttemptsFitStatus
<1>3. CASE status[e] = "FAILED"
  BY <1>3 DEF QueueInv, AttemptsFitStatus
<1>. QED
  BY <1>1, <1>2, <1>3

LEMMA CountTryCounts ==
  ASSUME TypeOK, NEW e \in Events, CountTry(e)
  PROVE  /\ \A f \in Events \ {e} : tries'[f] = tries[f]
         /\ \A n \in Nat : n < MaxAttempts /\ n <= tries[e] => n + 1 <= tries'[e]
         /\ tries[e] <= tries'[e]
<1>. USE OutboxAssumption
<1>1. tries \in [Events -> 0 .. MaxAttempts] /\ tries[e] \in 0 .. MaxAttempts
  BY DEF TypeOK
<1>2. tries'[e] = IF tries[e] < MaxAttempts THEN tries[e] + 1 ELSE tries[e]
  BY <1>1 DEF CountTry
<1>3. \A f \in Events \ {e} : tries'[f] = tries[f]
  BY <1>1 DEF CountTry
<1>. QED
  BY <1>1, <1>2, <1>3

LEMMA TriedClaim ==
  ASSUME Inv, TriedInv, NEW w \in Workers,
         SelectBatch(w) \/ Claim(w) \/ ClaimLost(w)
  PROVE  TriedInv'
<1>. USE DEF TriedInv
<1>. w \in Procs
  BY DEF Procs
<1>1. CASE SelectBatch(w)
  <2>1. PICK S \in SUBSET DueEvents :
          /\ batch' = [batch EXCEPT ![w] = {SnapshotOf(e) : e \in S}]
          /\ GoTo(w, IF S = {} THEN "idle" ELSE "claim")
    BY <1>1 DEF SelectBatch
  <2>2. \A s \in batch'[w] : Tried(s, 0)
    BY <2>1 DEF Inv, TypeOK, DueEvents, SnapshotOf, Tried, QueueTried
  <2>3. SnapshotsTried' /\ \A q \in Procs : pc'[q] # "reset"
    BY <1>1, <2>1, <2>2
    DEF SelectBatch, Inv, TypeOK, SnapshotsTried, Tried, GoTo, InHand, Recovering,
        Claiming
  <2>. QED
    BY <1>1, <2>3 DEF SelectBatch, queue, QueueTried
<1>2. CASE Claim(w)
  <2>1. PICK s \in batch[w] :
          /\ batch' = [batch EXCEPT ![w] = @ \ {s}]
          /\ status[s.event] = s.status
          /\ status' = [status EXCEPT ![s.event] = "PROCESSING"]
          /\ CountTry(s.event)
          /\ current' = [current EXCEPT ![w] = s]
    BY <1>2 DEF Claim, Takes
  <2>2. /\ s \in Snapshot /\ HasAttempt(s) /\ Tried(s, 0)
        /\ s.status \in {"PENDING", "FAILED"}
        /\ pc[w] = "claim"
    BY <1>2 DEF Claim, Inv, TypeOK, SnapshotInv, SnapshotsTried, Claiming
  <2>3. s.event \in Events /\ s.attempts \in Nat /\ s.attempts < MaxAttempts
    BY <2>2, OutboxAssumption DEF Snapshot, HasAttempt
  <2>4. attempts[s.event] \in Nat /\ attempts[s.event] < MaxAttempts
    BY <2>1, <2>2, <2>3, DueHasAttempt DEF Inv
  <2>5. /\ \A e \in Events \ {s.event} : tries'[e] = tries[e]
        /\ \A n \in Nat : n < MaxAttempts /\ n <= tries[s.event]
             => n + 1 <= tries'[s.event]
        /\ tries[s.event] <= tries'[s.event]
    BY <2>1, <2>3, CountTryCounts DEF Inv
  <2>6. QueueTried'
    <3>. SUFFICES ASSUME NEW e \in Events
                  PROVE  /\ attempts'[e] <= tries'[e]
                         /\ status'[e] = "PROCESSING" => attempts'[e] + 1 <= tries'[e]
      BY DEF QueueTried
    <3>1. /\ attempts' = attempts
          /\ attempts[e] \in Nat /\ tries[e] \in Nat /\ tries'[e] \in Nat
      BY <1>2, <2>1, <2>3, CountTryType DEF Claim, Inv, TypeOK
    <3>2. CASE e = s.event
      BY <2>4, <2>5, <3>1, <3>2 DEF QueueTried
    <3>3. CASE e # s.event
      BY <2>1, <2>3, <2>5, <3>1, <3>3 DEF QueueTried, Inv, TypeOK
    <3>. QED
      BY <3>2, <3>3
  <2>7. Tried(s, 1)'
    BY <2>2, <2>3, <2>5 DEF Tried
  <2>8. \A t \in Snapshot : \A n \in {0, 1} : Tried(t, n) => Tried(t, n)'
    BY <2>3, <2>5, CountTryType, <2>1 DEF Tried, Snapshot, Inv, TypeOK
  <2>9. SnapshotsTried' /\ \A q \in Procs : pc'[q] # "reset"
    BY <1>2, <2>1, <2>2, <2>7, <2>8
    DEF Claim, Inv, TypeOK, SnapshotInv, SnapshotsTried, GoTo, InHand, Recovering,
        Claiming
  <2>. QED
    BY <2>6, <2>9
<1>3. CASE ClaimLost(w)
  <2>1. PICK s \in batch[w] :
          /\ batch' = [batch EXCEPT ![w] = @ \ {s}]
          /\ GoTo(w, IF batch[w] = {s} THEN "idle" ELSE "claim")
    BY <1>3 DEF ClaimLost, Takes
  <2>2. SnapshotsTried' /\ \A q \in Procs : pc'[q] # "reset"
    BY <1>3, <2>1
    DEF ClaimLost, Inv, TypeOK, SnapshotsTried, Tried, GoTo, InHand, Recovering,
        Claiming
  <2>. QED
    BY <1>3, <2>2 DEF ClaimLost, queue, QueueTried
<1>. QED
  BY <1>1, <1>2, <1>3

LEMMA TriedDelivery ==
  ASSUME Inv, TriedInv, NEW w \in Workers, Result(w)
  PROVE  TriedInv'
<1>. USE DEF TriedInv
<1>1. /\ w \in Procs /\ InHand(w)
      /\ current[w] \in Snapshot /\ HasAttempt(current[w]) /\ Tried(current[w], 1)
      /\ current[w].event \in Events
  BY DEF Procs, InHand, Inv, SnapshotInv, SnapshotsTried, Result, Sync,
         MarkSuccess, MarkFailure, MarkSuccessThrows, MarkFailureThrows, Snapshot
<1>2. QueueTried'
  <2>1. CASE Sync(w)
    BY <2>1 DEF Sync, queue, QueueTried
  <2>2. CASE MarkSuccess(w)
    BY <1>1, <2>2 DEF MarkSuccess, Inv, TypeOK, QueueTried
  <2>3. CASE MarkFailure(w)
    BY <1>1, <2>3, WriteFailedTried DEF MarkFailure
  <2>4. CASE MarkSuccessThrows(w)
    BY <1>1, <2>4 DEF MarkSuccessThrows, Inv, TypeOK, QueueTried
  <2>5. CASE MarkFailureThrows(w)
    <3>1. CASE WriteFailed(current[w])
      BY <1>1, <2>5, <3>1, WriteFailedTried DEF MarkFailureThrows
    <3>2. CASE UNCHANGED queue
      BY <2>5, <3>2 DEF MarkFailureThrows, queue, QueueTried
    <3>. QED
      BY <2>5, <3>1, <3>2 DEF MarkFailureThrows
  <2>. QED
    BY <2>1, <2>2, <2>3, <2>4, <2>5 DEF Result
<1>3. SnapshotsTried' /\ \A p \in Procs : pc'[p] # "reset"
  BY <1>1
  DEF Result, Sync, MarkSuccess, MarkFailure, MarkSuccessThrows, MarkFailureThrows,
      Advance, Inv, TypeOK, SnapshotsTried, Tried, GoTo, InHand, Recovering, Claiming
<1>. QED
  BY <1>2, <1>3

LEMMA TriedOperator ==
  ASSUME Commands = {}, Inv, TriedInv, NEW o \in Operators,
         AuditRecovery(o) \/ GiveCommand(o) \/ ResetEvents(o) \/ AuditCommand(o)
  PROVE  TriedInv'
<1>. USE DEF TriedInv
<1>. o \in Procs
  BY DEF Procs
<1>1. AuditRecovery(o) \/ AuditCommand(o)
  BY DEF GiveCommand, ResetEvents
<1>2. QueueTried'
  BY <1>1 DEF AuditRecovery, AuditCommand, queue, QueueTried
<1>3. SnapshotsTried' /\ \A p \in Procs : pc'[p] # "reset"
  BY <1>1
  DEF AuditRecovery, AuditCommand, Inv, TypeOK, SnapshotsTried, Tried, GoTo, queue,
      InHand, Recovering, Claiming
<1>. QED
  BY <1>2, <1>3

LEMMA TriedAbandon ==
  ASSUME Inv, TriedInv, NEW p \in Procs, Abandon(p)
  PROVE  TriedInv'
BY DEF Abandon, Inv, TypeOK, TriedInv, QueueTried, SnapshotsTried, Tried, GoTo, queue,
       InHand, Recovering, Claiming

LEMMA TriedStutter ==
  ASSUME TriedInv, UNCHANGED vars
  PROVE  TriedInv'
BY DEF TriedInv, QueueTried, SnapshotsTried, Tried, InHand, Recovering, Claiming,
       vars, queue, locals

LEMMA NextTried ==
  ASSUME Commands = {}, Inv, TriedInv, [Next]_vars
  PROVE  TriedInv'
BY TriedTime, TriedRecovery, TriedClaim, TriedDelivery, TriedOperator, TriedAbandon,
   TriedStutter DEF Next, WorkerStep, OperatorStep, Result, Procs

(***************************************************************************)
(* As long as nobody requeues events, an event is DEAD only after it was   *)
(* claimed MaxAttempts times: no overlap of workers, recoveries and        *)
(* crashes makes the queue give up early.                                  *)
(***************************************************************************)
THEOREM GivenUpLate == Commands = {} /\ Spec => []NeverDeadEarly
<1>1. Init => TriedInv
  BY DEF Init, TriedInv, QueueTried, SnapshotsTried, InHand, Recovering, Claiming
<1>2. Inv /\ TriedInv => NeverDeadEarly
  BY DEF Inv, QueueInv, AttemptsFitStatus, TriedInv, QueueTried, NeverDeadEarly
<1>3. CASE Commands # {}
  BY <1>3
<1>4. CASE Commands = {}
  <2>1. Inv /\ TriedInv /\ [Next]_vars => TriedInv'
    BY <1>4, NextTried
  <2>. QED
    BY <1>1, <1>2, <2>1, Invariance, PTL DEF Spec
<1>. QED
  BY <1>3, <1>4

-----------------------------------------------------------------------------
(***************************************************************************)
(* One holder.  An event that a worker holds is PROCESSING, unless its     *)
(* delivery was written down by an update that threw; and an event that is *)
(* stale, or that a recovery is about to take back, is in nobody's hands   *)
(* and in no batch that is still to be claimed.                            *)
(***************************************************************************)
Free(e) == \A w \in Workers : ~Holds(w, e) /\ ~Awaits(w, e)

HeldInv ==
  \A e \in Events : \A w \in Workers : Holds(w, e) =>
    /\ status[e] = "PROCESSING" \/ (pc[w] = "catch" /\ status[e] = "SUCCESS")
    /\ \A v \in Workers : Holds(v, e) => v = w

StaleInv ==
  \A e \in Events : status[e] = "PROCESSING" /\ stale[e] => Free(e)

RecoveredInv ==
  \A e \in Events : \A p \in Procs : Recovers(p, e) =>
    /\ \/ status[e] = "PROCESSING" /\ stale[e]
       \/ status[e] = "FAILED" /\ ~due[e]
       \/ status[e] = "DEAD"
    /\ Free(e)

HolderInv ==
  HeldInv /\ StaleInv /\ RecoveredInv /\ \A p \in Procs : pc[p] # "reset"

LEMMA HolderTime ==
  ASSUME Orderly, Inv, HolderInv, NEW f \in Events, Enqueue(f) \/ Tick(f)
  PROVE  HolderInv'
<1>1. \A p \in Procs, e \in Events : /\ Holds(p, e)' = Holds(p, e)
                                     /\ Awaits(p, e)' = Awaits(p, e)
                                     /\ Recovers(p, e)' = Recovers(p, e)
  BY DEF Enqueue, Tick, BackoffElapses, ProcessingTimesOut, locals, Holds, Awaits, Recovers
<1>2. \A e \in Events : Free(e)' = Free(e)
  BY <1>1 DEF Free, Procs
<1>3. UNCHANGED pc
  BY DEF Enqueue, Tick, BackoffElapses, ProcessingTimesOut, locals
<1>4. CASE Enqueue(f)
  <2>1. /\ status[f] = "NONE" /\ status' = [status EXCEPT ![f] = "PENDING"]
        /\ UNCHANGED <<stale, due>>
    BY <1>4 DEF Enqueue
  <2>. QED
    BY <1>1, <1>2, <1>3, <2>1
    DEF HolderInv, HeldInv, StaleInv, RecoveredInv, Inv, TypeOK, Procs
<1>5. CASE BackoffElapses(f)
  <2>1. /\ \A p \in Procs : ~Recovers(p, f)
        /\ due' = [due EXCEPT ![f] = TRUE] /\ UNCHANGED <<status, stale>>
    BY <1>5 DEF BackoffElapses
  <2>. QED
    BY <1>1, <1>2, <1>3, <2>1
    DEF HolderInv, HeldInv, StaleInv, RecoveredInv, Inv, TypeOK, Procs
<1>6. CASE ProcessingTimesOut(f)
  <2>1. /\ Free(f) /\ status[f] = "PROCESSING"
        /\ stale' = [stale EXCEPT ![f] = TRUE] /\ UNCHANGED <<status, due>>
    BY <1>6 DEF ProcessingTimesOut, Free
  <2>. QED
    BY <1>1, <1>2, <1>3, <2>1
    DEF HolderInv, HeldInv, StaleInv, RecoveredInv, Inv, TypeOK, Procs
<1>. QED
  BY <1>4, <1>5, <1>6 DEF Tick

\* A failed attempt leaves its event FAILED and not due, or DEAD.
LEMMA WriteFailedStatus ==
  ASSUME TypeOK, NEW s \in Snapshot, WriteFailed(s)
  PROVE  /\ s.event \in Events
         /\ (status'[s.event] = "FAILED" /\ ~due'[s.event]) \/ status'[s.event] = "DEAD"
         /\ \A e \in Events \ {s.event} : /\ status'[e] = status[e] /\ due'[e] = due[e]
                                          /\ stale'[e] = stale[e]
<1>1. s.event \in Events
  BY DEF Snapshot
<1>. QED
  BY <1>1 DEF WriteFailed, TypeOK

LEMMA HolderRecovery ==
  ASSUME Inv, HolderInv, NEW p \in Procs, StartRecovery(p) \/ RecoveryStep(p)
  PROVE  HolderInv'
<1>. USE DEF HolderInv
<1>1. TypeOK /\ TypeOK'
  BY RecoveryInv DEF Inv
<1>2. pc[p] \in {"idle", "recover"} /\ pc'[p] \in {"recover", "auditOne", "select", "done"}
  BY <1>1 DEF StartRecovery, RecoveryStep, Recover, RecoverNothing, EndRecovery, GoTo, TypeOK
<1>3. /\ \A q \in Procs \ {p} : /\ pc'[q] = pc[q] /\ current'[q] = current[q]
                                /\ batch'[q] = batch[q]
  BY <1>1 DEF StartRecovery, RecoveryStep, Recover, RecoverNothing, EndRecovery, GoTo, TypeOK
<1>4. \A q \in Procs, e \in Events : Holds(q, e)' = Holds(q, e)
  BY <1>2, <1>3 DEF Holds
<1>5. ASSUME NEW q \in Procs, NEW e \in Events, Awaits(q, e)'
      PROVE  Awaits(q, e)
  <2>1. CASE q # p
    BY <1>3, <1>5, <2>1 DEF Awaits
  <2>2. CASE q = p
    <3>1. pc'[p] \in {"select", "done"}
      BY <1>2, <1>5, <2>2 DEF Awaits
    <3>2. EndRecovery(p)
      BY <1>1, <3>1 DEF StartRecovery, RecoveryStep, Recover, RecoverNothing, GoTo, TypeOK
    <3>3. batch'[p] = {}
      BY <3>2 DEF EndRecovery
    <3>. QED
      BY <1>5, <2>2, <3>3 DEF Awaits
  <2>. QED
    BY <2>1, <2>2
<1>6. \A e \in Events : Free(e) => Free(e)'
  BY <1>4, <1>5 DEF Free, Procs
<1>7. \A q \in Procs : pc'[q] # "reset"
  BY <1>2, <1>3
<1>8. CASE StartRecovery(p)
  <2>1. UNCHANGED <<status, due, stale>>
    BY <1>8 DEF StartRecovery, queue
  <2>2. HeldInv' /\ StaleInv'
    BY <1>2, <1>3, <1>4, <1>6, <2>1 DEF HeldInv, StaleInv, Holds, Procs
  <2>3. ASSUME NEW e \in Events, Recovers(p, e)'
        PROVE  status[e] = "PROCESSING" /\ stale[e]
    <3>1. batch'[p] = {SnapshotOf(f) : f \in StaleEvents}
      BY <1>1, <1>8 DEF StartRecovery, TypeOK
    <3>. QED
      BY <2>3, <3>1 DEF Recovers, SnapshotOf, StaleEvents
  <2>4. \A q \in Procs \ {p}, e \in Events : Recovers(q, e)' = Recovers(q, e)
    BY <1>3 DEF Recovers
  <2>5. RecoveredInv'
    BY <1>6, <2>1, <2>3, <2>4 DEF RecoveredInv, StaleInv
  <2>. QED
    BY <1>7, <2>2, <2>5
<1>9. CASE RecoveryStep(p)
  <2>1. pc[p] = "recover" /\ batch'[p] \subseteq batch[p]
    BY <1>1, <1>9 DEF RecoveryStep, Recover, RecoverNothing, EndRecovery, TypeOK
  <2>2. \A q \in Procs, e \in Events : Recovers(q, e)' => Recovers(q, e)
    BY <1>3, <2>1 DEF Recovers
  <2>3. CASE UNCHANGED <<status, due, stale>>
    <3>1. HeldInv' /\ StaleInv'
      BY <1>2, <1>3, <1>4, <1>6, <2>3 DEF HeldInv, StaleInv, Holds, Procs
    <3>2. RecoveredInv'
      BY <1>6, <2>2, <2>3 DEF RecoveredInv
    <3>. QED
      BY <1>7, <3>1, <3>2
  <2>4. CASE Recover(p)
    <3>1. PICK s \in batch[p] : WriteFailed(s)
      BY <2>4 DEF Recover
    <3>. DEFINE f == s.event
    <3>2. s \in Snapshot /\ f \in Events /\ Recovers(p, f)
      BY <1>1, <2>1, <3>1, WriteFailedStatus DEF TypeOK, Recovers, Snapshot
    <3>3. Free(f)
      BY <3>2 DEF RecoveredInv
    <3>4. /\ (status'[f] = "FAILED" /\ ~due'[f]) \/ status'[f] = "DEAD"
          /\ \A e \in Events \ {f} : /\ status'[e] = status[e] /\ due'[e] = due[e]
                                    /\ stale'[e] = stale[e]
      BY <1>1, <3>1, <3>2, WriteFailedStatus
    <3>5. \A w \in Workers : ~Holds(w, f)
      BY <3>3 DEF Free
    <3>. HIDE DEF f
    <3>6. HeldInv'
      BY <1>2, <1>3, <1>4, <3>4, <3>5 DEF HeldInv, Holds, Procs
    <3>7. StaleInv' /\ RecoveredInv'
      BY <1>6, <2>2, <3>3, <3>4 DEF StaleInv, RecoveredInv
    <3>. QED
      BY <1>7, <3>6, <3>7
  <2>. QED
    BY <1>9, <2>3, <2>4 DEF RecoveryStep, RecoverNothing, EndRecovery, queue
<1>. QED
  BY <1>8, <1>9

LEMMA HolderClaim ==
  ASSUME Inv, HolderInv, NEW w \in Workers, SelectBatch(w) \/ Claim(w) \/ ClaimLost(w)
  PROVE  HolderInv'
<1>. USE DEF HolderInv
<1>. w \in Procs
  BY DEF Procs
<1>1. TypeOK /\ SnapshotInv
  BY DEF Inv
<1>2. /\ pc[w] \in {"select", "claim"} /\ pc'[w] \in {"idle", "claim", "sync"}
      /\ \A q \in Procs \ {w} : /\ pc'[q] = pc[q] /\ current'[q] = current[q]
                              /\ batch'[q] = batch[q]
  BY <1>1 DEF SelectBatch, Claim, ClaimLost, Takes, GoTo, TypeOK
<1>3. /\ \A q \in Procs, e \in Events : Recovers(q, e)' => Recovers(q, e)
      /\ \A q \in Procs : pc'[q] # "reset"
      /\ \A q \in Procs \ {w}, e \in Events : /\ Holds(q, e)' = Holds(q, e)
                                            /\ Awaits(q, e)' = Awaits(q, e)
  BY <1>2 DEF Recovers, Holds, Awaits
<1>4. CASE SelectBatch(w)
  <2>1. PICK S \in SUBSET DueEvents :
          /\ batch' = [batch EXCEPT ![w] = {SnapshotOf(e) : e \in S}]
          /\ GoTo(w, IF S = {} THEN "idle" ELSE "claim")
    BY <1>4 DEF SelectBatch
  <2>2. UNCHANGED <<status, due, stale>> /\ pc'[w] \in {"idle", "claim"}
    BY <1>1, <1>4, <2>1 DEF SelectBatch, queue, GoTo, TypeOK
  <2>3. ASSUME NEW e \in Events, Awaits(w, e)' PROVE e \in DueEvents
    <3>1. batch'[w] = {SnapshotOf(f) : f \in S}
      BY <1>1, <2>1 DEF TypeOK
    <3>2. PICK f \in S : SnapshotOf(f).event = e
      BY <2>3, <3>1 DEF Awaits
    <3>. QED
      BY <3>2 DEF SnapshotOf
  <2>4. \A e \in Events : ~Holds(w, e) /\ ~Holds(w, e)'
    BY <1>2, <2>2 DEF Holds
  <2>5. \A e \in Events \ DueEvents : Free(e) => Free(e)'
    BY <1>3, <2>3, <2>4 DEF Free, Procs
  <2>6. HeldInv'
    BY <1>2, <1>3, <2>2, <2>4 DEF HeldInv, Procs
  <2>7. StaleInv' /\ RecoveredInv'
    BY <1>3, <2>2, <2>5 DEF StaleInv, RecoveredInv, DueEvents
  <2>. QED
    BY <1>3, <2>6, <2>7
<1>5. CASE Claim(w)
  <2>1. PICK s \in batch[w] :
          /\ batch' = [batch EXCEPT ![w] = @ \ {s}]
          /\ status[s.event] = s.status
          /\ status' = [status EXCEPT ![s.event] = "PROCESSING"]
          /\ stale' = [stale EXCEPT ![s.event] = FALSE]
          /\ current' = [current EXCEPT ![w] = s]
    BY <1>5 DEF Claim, Takes
  <2>. DEFINE f == s.event
  <2>2. /\ pc[w] = "claim" /\ s \in Snapshot /\ s.status \in {"PENDING", "FAILED"}
        /\ f \in Events /\ Awaits(w, f)
    BY <1>1, <1>5, <2>1 DEF Claim, SnapshotInv, Claiming, TypeOK, Snapshot, Awaits
  <2>3. /\ status'[f] = "PROCESSING" /\ ~stale'[f] /\ status[f] \in {"PENDING", "FAILED"}
        /\ \A e \in Events \ {f} : status'[e] = status[e] /\ stale'[e] = stale[e]
        /\ UNCHANGED due
    BY <1>1, <1>5, <2>1, <2>2 DEF Claim, TypeOK
  <2>4. /\ \A e \in Events : Holds(w, e)' <=> e = f
        /\ \A e \in Events : Awaits(w, e)' => Awaits(w, e)
    BY <1>1, <1>5, <2>1, <2>2 DEF Claim, GoTo, Holds, Awaits, TypeOK
  <2>5. ~Free(f) /\ \A v \in Workers : ~Holds(v, f)
    BY <2>2, <2>3 DEF Free, HeldInv
  <2>6. \A q \in Procs : ~Recovers(q, f)
    BY <2>2, <2>5 DEF RecoveredInv
  <2>. HIDE DEF f
  <2>7. \A e \in Events \ {f} : Free(e) => Free(e)'
    BY <1>3, <2>4 DEF Free, Procs
  <2>8. HeldInv'
    BY <1>2, <1>3, <2>3, <2>4, <2>5 DEF HeldInv, Procs
  <2>9. StaleInv' /\ RecoveredInv'
    BY <1>3, <2>3, <2>6, <2>7 DEF StaleInv, RecoveredInv
  <2>. QED
    BY <1>3, <2>8, <2>9
<1>6. CASE ClaimLost(w)
  <2>1. /\ UNCHANGED <<status, due, stale>> /\ pc[w] = "claim" /\ pc'[w] \in {"idle", "claim"}
        /\ batch'[w] \subseteq batch[w]
    BY <1>1, <1>6 DEF ClaimLost, Takes, queue, GoTo, TypeOK
  <2>2. \A e \in Events : /\ ~Holds(w, e) /\ ~Holds(w, e)'
                          /\ Awaits(w, e)' => Awaits(w, e)
    BY <2>1 DEF Holds, Awaits
  <2>3. \A e \in Events : Free(e) => Free(e)'
    BY <1>3, <2>2 DEF Free, Procs
  <2>4. HeldInv'
    BY <1>2, <1>3, <2>1, <2>2 DEF HeldInv, Procs
  <2>5. StaleInv' /\ RecoveredInv'
    BY <1>3, <2>1, <2>3 DEF StaleInv, RecoveredInv
  <2>. QED
    BY <1>3, <2>4, <2>5
<1>. QED
  BY <1>4, <1>5, <1>6

LEMMA HolderDelivery ==
  ASSUME Orderly, Inv, HolderInv, NEW w \in Workers, Result(w)
  PROVE  HolderInv'
<1>. USE DEF HolderInv
<1>. DEFINE s == current[w]
            f == s.event
<1>1. TypeOK /\ SnapshotInv /\ w \in Procs
  BY DEF Inv, Procs
<1>2. /\ InHand(w) /\ s \in Snapshot /\ f \in Events /\ Holds(w, f)
      /\ pc'[w] \in {"succeed", "fail", "catch", "idle", "claim"}
      /\ \A q \in Procs \ {w} : pc'[q] = pc[q] /\ current'[q] = current[q]
      /\ UNCHANGED <<batch>>
  BY <1>1 DEF Result, Sync, MarkSuccess, MarkFailure, MarkSuccessThrows, MarkFailureThrows,
              Advance, GoTo, TypeOK, SnapshotInv, InHand, Snapshot, Holds
<1>3. /\ \A q \in Procs, e \in Events : /\ Recovers(q, e)' = Recovers(q, e)
                                       /\ Awaits(q, e)' = Awaits(q, e)
      /\ \A q \in Procs : pc'[q] # "reset"
      /\ \A q \in Procs \ {w}, e \in Events : Holds(q, e)' = Holds(q, e)
      /\ \A e \in Events \ {f} : ~Holds(w, e)
  BY <1>2 DEF Recovers, Holds, Awaits, InHand
<1>4. /\ status[f] = "PROCESSING" \/ (pc[w] = "catch" /\ status[f] = "SUCCESS")
      /\ \A v \in Workers \ {w} : ~Holds(v, f)
      /\ ~Free(f) /\ \A q \in Procs : ~Recovers(q, f)
  BY <1>2 DEF HeldInv, RecoveredInv, Free
<1>5. CASE Sync(w) \/ MarkSuccessThrows(w) \/ MarkFailureThrows(w)
  <2>1. current'[w] = s /\ (\A e \in Events : Holds(w, e)' => e = f)
    BY <1>5 DEF Sync, MarkSuccessThrows, MarkFailureThrows, Holds
  <2>2. \A e \in Events : Free(e) => Free(e)'
    BY <1>2, <1>3, <2>1 DEF Free, Procs
  <2>3. /\ \/ status' = status
           \/ pc'[w] = "catch" /\ status' = [status EXCEPT ![f] = "SUCCESS"]
        /\ \/ stale' = stale
           \/ stale' = [stale EXCEPT ![f] = FALSE]
        /\ UNCHANGED due
        /\ pc[w] # "catch"
    BY <1>1, <1>5 DEF Sync, MarkSuccessThrows, MarkFailureThrows, queue, GoTo, TypeOK
  <2>4. /\ status'[f] = "PROCESSING" \/ (pc'[w] = "catch" /\ status'[f] = "SUCCESS")
        /\ \A e \in Events \ {f} : status'[e] = status[e] /\ stale'[e] = stale[e]
        /\ stale'[f] => stale[f]
        /\ status'[f] = "PROCESSING" => status[f] = "PROCESSING"
    BY <1>1, <1>2, <1>4, <2>3 DEF TypeOK
  <2>5. HeldInv'
    BY <1>2, <1>3, <1>4, <2>1, <2>4 DEF HeldInv, Procs
  <2>6. StaleInv' /\ RecoveredInv'
    BY <1>3, <1>4, <2>2, <2>3, <2>4 DEF StaleInv, RecoveredInv
  <2>. QED
    BY <1>3, <2>5, <2>6
<1>6. CASE MarkSuccess(w) \/ MarkFailure(w)
  <2>1. \A e \in Events : ~Holds(w, e)'
    BY <1>1, <1>6 DEF MarkSuccess, MarkFailure, Advance, GoTo, Holds, TypeOK
  <2>2. \A e \in Events : Free(e) => Free(e)'
    BY <1>2, <1>3, <2>1 DEF Free, Procs
  <2>3. /\ status'[f] # "PROCESSING"
        /\ \A e \in Events \ {f} : /\ status'[e] = status[e] /\ stale'[e] = stale[e]
                                 /\ due'[e] = due[e]
    <3>1. CASE MarkSuccess(w)
      BY <1>1, <1>2, <3>1 DEF MarkSuccess, TypeOK
    <3>2. CASE MarkFailure(w)
      BY <1>1, <1>2, <3>2, WriteFailedStatus DEF MarkFailure
    <3>. QED
      BY <1>6, <3>1, <3>2
  <2>4. HeldInv'
    BY <1>2, <1>3, <1>4, <2>1, <2>3 DEF HeldInv, Procs
  <2>5. StaleInv' /\ RecoveredInv'
    BY <1>3, <1>4, <2>2, <2>3 DEF StaleInv, RecoveredInv
  <2>. QED
    BY <1>3, <2>4, <2>5
<1>. QED
  BY <1>5, <1>6 DEF Result

LEMMA HolderOperator ==
  ASSUME Commands = {}, Inv, HolderInv, NEW o \in Operators,
         AuditRecovery(o) \/ GiveCommand(o) \/ ResetEvents(o) \/ AuditCommand(o)
  PROVE  HolderInv'
<1>. USE DEF HolderInv
<1>1. TypeOK /\ o \in Procs /\ o \notin Workers
  BY OutboxAssumption DEF Inv, Procs
<1>2. AuditRecovery(o) \/ AuditCommand(o)
  <2>1. ~GiveCommand(o)
    BY DEF GiveCommand
  <2>2. ~ResetEvents(o)
    BY <1>1 DEF ResetEvents
  <2>. QED
    BY <2>1, <2>2
<1>3. /\ UNCHANGED <<queue, batch>>
      /\ pc'[o] \in {"recover", "done"} /\ (pc'[o] = "recover" => pc[o] = "auditOne")
      /\ \A q \in Procs \ {o} : pc'[q] = pc[q] /\ current'[q] = current[q]
  BY <1>1, <1>2 DEF AuditRecovery, AuditCommand, GoTo, TypeOK
<1>4. /\ \A w \in Workers, e \in Events : /\ Holds(w, e)' = Holds(w, e)
                                         /\ Awaits(w, e)' = Awaits(w, e)
      /\ \A q \in Procs, e \in Events : Recovers(q, e)' => Recovers(q, e)
      /\ \A q \in Procs : pc'[q] # "reset"
      /\ \A w \in Workers : pc'[w] = pc[w]
  BY <1>1, <1>3 DEF Holds, Awaits, Recovers, Procs
<1>5. \A e \in Events : Free(e)' = Free(e)
  BY <1>4 DEF Free
<1>. QED
  BY <1>3, <1>4, <1>5 DEF HeldInv, StaleInv, RecoveredInv, queue

LEMMA HolderAbandon ==
  ASSUME Inv, HolderInv, NEW p \in Procs, Abandon(p)
  PROVE  HolderInv'
<1>. USE DEF HolderInv
<1>1. TypeOK
  BY DEF Inv
<1>2. /\ UNCHANGED queue /\ pc'[p] \in {"idle", "done"} /\ batch'[p] = {}
      /\ \A q \in Procs \ {p} : /\ pc'[q] = pc[q] /\ current'[q] = current[q]
                              /\ batch'[q] = batch[q]
  BY <1>1 DEF Abandon, GoTo, TypeOK
<1>3. /\ \A q \in Procs, e \in Events : Holds(q, e)' => (Holds(q, e) /\ pc'[q] = pc[q])
      /\ \A q \in Procs, e \in Events : Awaits(q, e)' => Awaits(q, e)
      /\ \A q \in Procs, e \in Events : Recovers(q, e)' => Recovers(q, e)
      /\ \A q \in Procs : pc'[q] # "reset"
  <2>1. ASSUME NEW e \in Events
        PROVE  ~Holds(p, e)' /\ ~Awaits(p, e)' /\ ~Recovers(p, e)'
    BY <1>2 DEF Holds, Awaits, Recovers
  <2>2. ASSUME NEW q \in Procs \ {p}, NEW e \in Events
        PROVE  /\ Holds(q, e)' = Holds(q, e)
               /\ Awaits(q, e)' = Awaits(q, e)
               /\ Recovers(q, e)' = Recovers(q, e)
    BY <1>2 DEF Holds, Awaits, Recovers
  <2>. QED
    BY <1>2, <2>1, <2>2
<1>4. \A w \in Workers : w \in Procs
  BY DEF Procs
<1>5. \A e \in Events : Free(e) => Free(e)'
  BY <1>3, <1>4 DEF Free
<1>6. HeldInv'
  BY <1>2, <1>3, <1>4 DEF HeldInv, queue
<1>7. StaleInv' /\ RecoveredInv'
  BY <1>2, <1>3, <1>5 DEF StaleInv, RecoveredInv, queue
<1>. QED
  BY <1>3, <1>6, <1>7

LEMMA HolderStutter ==
  ASSUME HolderInv, UNCHANGED vars
  PROVE  HolderInv'
BY DEF HolderInv, HeldInv, StaleInv, RecoveredInv, Free, Holds, Awaits, Recovers, vars,
       queue, locals

LEMMA NextHolder ==
  ASSUME Orderly, Commands = {}, Inv, HolderInv, [Next]_vars
  PROVE  HolderInv'
BY HolderTime, HolderRecovery, HolderClaim, HolderDelivery, HolderOperator, HolderAbandon,
   HolderStutter DEF Next, WorkerStep, OperatorStep, Result, Procs

LEMMA HolderInvariance == Orderly /\ Commands = {} /\ Spec => [](Inv /\ HolderInv)
<1>. SUFFICES ASSUME Orderly, Commands = {} PROVE Spec => [](Inv /\ HolderInv)
  OBVIOUS
<1>1. Init => HolderInv
  <2>. SUFFICES ASSUME Init PROVE HolderInv
    OBVIOUS
  <2>1. \A q \in Procs : pc[q] = "idle"
    BY DEF Init
  <2>2. \A q \in Procs, e \in Events : ~Holds(q, e) /\ ~Recovers(q, e)
    BY <2>1 DEF Holds, Recovers
  <2>3. HeldInv
    BY <2>2 DEF HeldInv, Procs
  <2>4. StaleInv /\ RecoveredInv
    BY <2>2 DEF Init, StaleInv, RecoveredInv
  <2>. QED
    BY <2>1, <2>3, <2>4 DEF HolderInv
<1>2. Inv /\ HolderInv /\ [Next]_vars => HolderInv'
  BY NextHolder
<1>. QED
  BY <1>1, <1>2, Invariance, PTL DEF Spec

(***************************************************************************)
(* OneHolder for any number of workers and operators that recover: the     *)
(* compare-and-set of the claim is enough as long as delays outlast steps. *)
(***************************************************************************)
THEOREM HeldByOne == Orderly /\ Commands = {} /\ Spec => []OneHolder
<1>1. HolderInv => OneHolder
  BY DEF HolderInv, HeldInv, OneHolder
<1>. QED
  BY <1>1, HolderInvariance, PTL

LEMMA SettledStep ==
  ASSUME Orderly, Commands = {}, Inv, HolderInv, [Next]_vars, NEW e \in Events
  PROVE  /\ status[e] = "SUCCESS" /\ status'[e] # "SUCCESS" =>
              \E w \in Workers : pc[w] = "catch" /\ Holds(w, e)
         /\ status[e] = "DEAD" => status'[e] = "DEAD"
<1>1. TypeOK /\ SnapshotInv
  BY DEF Inv
<1>. DEFINE Stays == status[e] \in {"SUCCESS", "DEAD"} => status'[e] = status[e]
<1>2. ASSUME NEW f \in Events, Enqueue(f) \/ Tick(f) PROVE Stays
  BY <1>1, <1>2 DEF Enqueue, Tick, BackoffElapses, ProcessingTimesOut, TypeOK
<1>3. ASSUME NEW p \in Procs, StartRecovery(p) \/ RecoveryStep(p) \/ Abandon(p) PROVE Stays
  <2>1. CASE Recover(p)
    <3>1. PICK s \in batch[p] : status[s.event] = "PROCESSING" /\ WriteFailed(s)
      BY <2>1 DEF Recover
    <3>2. s \in Snapshot
      BY <1>1 DEF TypeOK
    <3>. QED
      BY <1>1, <3>1, <3>2, WriteFailedStatus
  <2>. QED
    BY <1>3, <2>1 DEF StartRecovery, RecoveryStep, RecoverNothing, EndRecovery, Abandon, queue
<1>4. ASSUME NEW w \in Workers, SelectBatch(w) \/ Claim(w) \/ ClaimLost(w) PROVE Stays
  <2>. w \in Procs
    BY DEF Procs
  <2>1. CASE Claim(w)
    <3>1. PICK s \in batch[w] : /\ status[s.event] = s.status
                               /\ status' = [status EXCEPT ![s.event] = "PROCESSING"]
      BY <2>1 DEF Claim
    <3>2. s.status \in {"PENDING", "FAILED"}
      BY <1>1, <2>1 DEF Claim, SnapshotInv, Claiming
    <3>. QED
      BY <1>1, <3>1, <3>2 DEF TypeOK
  <2>. QED
    BY <1>4, <2>1 DEF SelectBatch, ClaimLost, queue
<1>5. ASSUME NEW w \in Workers, Result(w)
      PROVE  Stays \/ (status[e] = "SUCCESS" /\ pc[w] = "catch" /\ Holds(w, e))
  <2>. DEFINE f == current[w].event
  <2>1. /\ w \in Procs /\ current[w] \in Snapshot /\ f \in Events /\ Holds(w, f)
    BY <1>1, <1>5 DEF Procs, Result, Sync, MarkSuccess, MarkFailure, MarkSuccessThrows,
                      MarkFailureThrows, SnapshotInv, InHand, Snapshot, Holds
  <2>2. status[f] = "PROCESSING" \/ (pc[w] = "catch" /\ status[f] = "SUCCESS")
    BY <2>1 DEF HolderInv, HeldInv
  <2>3. e # f => status'[e] = status[e]
    <3>1. CASE Sync(w) \/ MarkSuccess(w) \/ MarkSuccessThrows(w)
      BY <1>1, <2>1, <3>1 DEF Sync, MarkSuccess, MarkSuccessThrows, queue, TypeOK
    <3>2. CASE MarkFailure(w) \/ MarkFailureThrows(w)
      BY <1>1, <2>1, <3>2, WriteFailedStatus DEF MarkFailure, MarkFailureThrows, queue
    <3>. QED
      BY <1>5, <3>1, <3>2 DEF Result
  <2>. QED
    BY <2>1, <2>2, <2>3
<1>6. ASSUME NEW o \in Operators,
             AuditRecovery(o) \/ GiveCommand(o) \/ ResetEvents(o) \/ AuditCommand(o)
      PROVE  Stays
  <2>1. AuditRecovery(o) \/ AuditCommand(o)
    BY <1>6 DEF GiveCommand, ResetEvents, HolderInv, Procs
  <2>. QED
    BY <2>1 DEF AuditRecovery, AuditCommand, queue
<1>7. CASE UNCHANGED vars
  BY <1>7 DEF vars, queue
<1>8. Stays \/ \E w \in Workers : status[e] = "SUCCESS" /\ pc[w] = "catch" /\ Holds(w, e)
  BY <1>2, <1>3, <1>4, <1>5, <1>6, <1>7 DEF Next, WorkerStep, OperatorStep, Result, Procs
<1>. QED
  BY <1>8

(***************************************************************************)
(* SettledStaysSettled for any number of workers: the one way back from    *)
(* SUCCESS is an update that took effect and threw, and there is none from *)
(* DEAD.                                                                   *)
(***************************************************************************)
THEOREM SettledForGood == Orderly /\ Commands = {} /\ Spec => SettledStaysSettled
<1>. SUFFICES ASSUME Orderly, Commands = {} PROVE Spec => SettledStaysSettled
  OBVIOUS
<1>1. Inv /\ HolderInv /\ [Next]_vars =>
        [\A e \in Events :
           /\ status[e] = "SUCCESS" /\ status'[e] # "SUCCESS" =>
                \E w \in Workers : pc[w] = "catch" /\ Holds(w, e)
           /\ status[e] = "DEAD" => status'[e] = "DEAD"]_vars
  BY SettledStep
<1>. QED
  BY <1>1, HolderInvariance, PTL DEF Spec, SettledStaysSettled

-----------------------------------------------------------------------------
(***************************************************************************)
(* The outbox implements the abstract queue of EventQueue, for any number  *)
(* of events, workers and operators and without any timing assumption.     *)
(***************************************************************************)
(***************************************************************************)
(* Updates name events by snapshots that may be old, so the queue accepts  *)
(* them only because no snapshot is of an event that was never enqueued.   *)
(***************************************************************************)
Enqueued(e) == status[e] # "NONE"

KnownOf(p) ==
  /\ \A s \in batch[p] : Enqueued(s.event)
  /\ InHand(p) => Enqueued(current[p].event)

KnownInv == \A p \in Procs : KnownOf(p)

\* What a worker has in hand is an event that was enqueued.
LEMMA HandKnown ==
  ASSUME Inv, KnownInv, NEW w \in Workers, Result(w)
  PROVE  /\ w \in Procs /\ current[w] \in Snapshot
         /\ current[w].event \in Events /\ Enqueued(current[w].event)
<1>1. w \in Procs /\ InHand(w)
  BY DEF Procs, InHand, Result, Sync, MarkSuccess, MarkFailure, MarkSuccessThrows,
         MarkFailureThrows
<1>. QED
  BY <1>1 DEF Inv, SnapshotInv, Snapshot, KnownInv, KnownOf

\* No step of a worker, an operator or time forgets an event.
LEMMA StaysEnqueued ==
  ASSUME Inv, KnownInv, [Next]_vars, NEW e \in Events, Enqueued(e)
  PROVE  Enqueued(e)'
<1>. USE DEF Inv, TypeOK, Enqueued
<1>1. ASSUME NEW f \in Events, Enqueue(f) \/ Tick(f) PROVE Enqueued(e)'
  BY <1>1 DEF Enqueue, Tick, BackoffElapses, ProcessingTimesOut
<1>2. ASSUME NEW p \in Procs, StartRecovery(p) \/ RecoveryStep(p) \/ Abandon(p)
      PROVE  Enqueued(e)'
  <2>1. CASE Recover(p)
    BY <2>1 DEF Recover, WriteFailed, Snapshot
  <2>. QED
    BY <1>2, <2>1 DEF StartRecovery, RecoveryStep, RecoverNothing, EndRecovery, Abandon, queue
<1>3. ASSUME NEW w \in Workers, SelectBatch(w) \/ Claim(w) \/ ClaimLost(w)
      PROVE  Enqueued(e)'
  BY <1>3 DEF SelectBatch, Claim, ClaimLost, queue
<1>4. ASSUME NEW w \in Workers, Result(w) PROVE Enqueued(e)'
  BY <1>4 DEF Result, Sync, MarkSuccess, MarkFailure, WriteFailed, MarkSuccessThrows,
              MarkFailureThrows, queue
<1>5. ASSUME NEW o \in Operators,
             AuditRecovery(o) \/ GiveCommand(o) \/ ResetEvents(o) \/ AuditCommand(o)
      PROVE  Enqueued(e)'
  BY <1>5 DEF AuditRecovery, GiveCommand, ResetEvents, AuditCommand, queue
<1>6. CASE UNCHANGED vars
  BY <1>6 DEF vars, queue
<1>. QED
  BY <1>1, <1>2, <1>3, <1>4, <1>5, <1>6 DEF Next, WorkerStep, OperatorStep, Result, Procs

\* The requeue commands look for events that are in the collection.
LEMMA MatchesKnown ==
  ASSUME NEW e \in Events, NEW where \in Commands, Matches(e, where)
  PROVE  Enqueued(e)
BY OutboxAssumption DEF Matches, Enqueued, RetryEvent, RetryDead, Replay, Status

(***************************************************************************)
(* Only the processes change snapshots; each takes away from its batch,    *)
(* reads it anew, or takes in hand an event of it.                         *)
(***************************************************************************)
LEMMA StillKnown ==
  ASSUME Inv, KnownInv, [Next]_vars, NEW p \in Procs,
         batch'[p] \subseteq batch[p],
         InHand(p)' => \/ InHand(p) /\ current'[p] = current[p]
                       \/ current'[p] \in batch[p]
  PROVE  KnownOf(p)'
<1>1. \A s \in batch[p] : s.event \in Events /\ Enqueued(s.event)
  BY DEF Inv, TypeOK, Snapshot, KnownInv, KnownOf
<1>2. InHand(p) => current[p].event \in Events /\ Enqueued(current[p].event)
  BY DEF Inv, SnapshotInv, Snapshot, KnownInv, KnownOf
<1>. QED
  BY <1>1, <1>2, StaysEnqueued DEF KnownOf

LEMMA ReadKnown ==
  ASSUME Inv, KnownInv, [Next]_vars, NEW p \in Procs, NEW S \in SUBSET Events,
         \A e \in S : Enqueued(e),
         batch'[p] = {SnapshotOf(e) : e \in S}, ~ InHand(p)'
  PROVE  KnownOf(p)'
BY StaysEnqueued DEF KnownOf, SnapshotOf

LEMMA ProcessKnown ==
  ASSUME Inv, KnownInv, [Next]_vars, NEW p \in Procs,
         \/ StartRecovery(p) \/ RecoveryStep(p) \/ Abandon(p)
         \/ /\ p \in Workers
            /\ SelectBatch(p) \/ Claim(p) \/ ClaimLost(p) \/ Result(p)
         \/ /\ p \in Operators
            /\ AuditRecovery(p) \/ GiveCommand(p) \/ ResetEvents(p) \/ AuditCommand(p)
  PROVE  KnownOf(p)'
<1>. USE DEF InHand, GoTo
<1>t. pc \in [Procs -> Locations] /\ batch \in [Procs -> SUBSET Snapshot]
        /\ current \in [Procs -> Snapshot \cup {NoEvent}]
  BY DEF Inv, TypeOK
<1>1. CASE StartRecovery(p)
  <2>1. StaleEvents \in SUBSET Events /\ \A e \in StaleEvents : Enqueued(e)
    BY DEF StaleEvents, Enqueued
  <2>2. batch'[p] = {SnapshotOf(e) : e \in StaleEvents} /\ ~ InHand(p)'
    BY <1>1, <1>t DEF StartRecovery
  <2>. QED
    BY <2>1, <2>2, ReadKnown
<1>2. CASE RecoveryStep(p)
  BY <1>2, <1>t, StillKnown DEF RecoveryStep, Recover, RecoverNothing, EndRecovery
<1>3. CASE Abandon(p)
  BY <1>3, <1>t, StillKnown DEF Abandon
<1>4. CASE p \in Workers /\ SelectBatch(p)
  <2>1. PICK S \in SUBSET DueEvents :
          /\ batch' = [batch EXCEPT ![p] = {SnapshotOf(e) : e \in S}]
          /\ GoTo(p, IF S = {} THEN "idle" ELSE "claim")
    BY <1>4 DEF SelectBatch
  <2>. QED
    BY <2>1, <1>t, ReadKnown DEF DueEvents, Enqueued
<1>5. CASE p \in Workers /\ (Claim(p) \/ ClaimLost(p))
  BY <1>5, <1>t, StillKnown DEF Claim, ClaimLost, Takes
<1>6. CASE p \in Workers /\ Result(p)
  BY <1>6, <1>t, StillKnown
  DEF Result, Sync, MarkSuccess, MarkFailure, MarkSuccessThrows, MarkFailureThrows, Advance
<1>7. CASE GiveCommand(p)
  <2>1. PICK where \in Commands :
          /\ batch' = [batch EXCEPT ![p] =
                         {SnapshotOf(e) : e \in {f \in Events : Matches(f, where)}}]
          /\ ~ InHand(p)'
    BY <1>7, <1>t DEF GiveCommand
  <2>. DEFINE found == {f \in Events : Matches(f, where)}
  <2>2. found \in SUBSET Events /\ \A e \in found : Enqueued(e)
    BY MatchesKnown
  <2>3. batch'[p] = {SnapshotOf(e) : e \in found}
    BY <2>1, <1>t
  <2>. HIDE DEF found
  <2>. QED
    BY <2>1, <2>2, <2>3, ReadKnown
<1>8. CASE AuditRecovery(p) \/ ResetEvents(p) \/ AuditCommand(p)
  BY <1>8, <1>t, StillKnown DEF AuditRecovery, ResetEvents, AuditCommand
<1>. QED
  BY <1>1, <1>2, <1>3, <1>4, <1>5, <1>6, <1>7, <1>8

LEMMA OthersKnown ==
  ASSUME Inv, KnownInv, [Next]_vars, NEW p \in Procs,
         pc'[p] = pc[p], batch'[p] = batch[p], current'[p] = current[p]
  PROVE  KnownOf(p)'
BY StillKnown DEF InHand

LEMMA NextKnown ==
  ASSUME Inv, KnownInv, [Next]_vars
  PROVE  KnownInv'
<1>. SUFFICES ASSUME NEW p \in Procs PROVE KnownOf(p)'
  BY DEF KnownInv, KnownOf
<1>t. /\ pc \in [Procs -> Locations] /\ batch \in [Procs -> SUBSET Snapshot]
      /\ current \in [Procs -> Snapshot \cup {NoEvent}]
  BY DEF Inv, TypeOK
<1>. DEFINE Rests == pc'[p] = pc[p] /\ batch'[p] = batch[p] /\ current'[p] = current[p]
<1>1. ASSUME NEW e \in Events, Enqueue(e) \/ Tick(e) PROVE Rests
  BY <1>1 DEF Enqueue, Tick, BackoffElapses, ProcessingTimesOut, locals
<1>2. ASSUME NEW q \in Procs \ {p}, StartRecovery(q) \/ RecoveryStep(q) \/ Abandon(q)
      PROVE  Rests
  BY <1>2, <1>t DEF StartRecovery, RecoveryStep, Recover, RecoverNothing, EndRecovery,
                    Abandon, GoTo
<1>3. ASSUME NEW w \in Workers \ {p},
             SelectBatch(w) \/ Claim(w) \/ ClaimLost(w) \/ Result(w)
      PROVE  Rests
  BY <1>3, <1>t DEF SelectBatch, Claim, ClaimLost, Takes, Result, Sync, MarkSuccess,
                    MarkFailure, MarkSuccessThrows, MarkFailureThrows, Advance, GoTo
<1>4. ASSUME NEW o \in Operators \ {p},
             AuditRecovery(o) \/ GiveCommand(o) \/ ResetEvents(o) \/ AuditCommand(o)
      PROVE  Rests
  BY <1>4, <1>t DEF AuditRecovery, GiveCommand, ResetEvents, AuditCommand, GoTo
<1>5. CASE UNCHANGED vars
  BY <1>5, OthersKnown DEF vars, locals
<1>6. CASE Next
  <2>1. CASE \E e \in Events : Enqueue(e) \/ Tick(e)
    BY <2>1, <1>1, OthersKnown
  <2>2. CASE \E q \in Procs : StartRecovery(q) \/ RecoveryStep(q) \/ Abandon(q)
    BY <2>2, <1>2, OthersKnown, ProcessKnown
  <2>3. CASE \E w \in Workers : SelectBatch(w) \/ Claim(w) \/ ClaimLost(w) \/ Result(w)
    BY <2>3, <1>3, OthersKnown, ProcessKnown DEF Procs
  <2>4. CASE \E o \in Operators : \/ AuditRecovery(o) \/ GiveCommand(o)
                                  \/ ResetEvents(o) \/ AuditCommand(o)
    BY <2>4, <1>4, OthersKnown, ProcessKnown DEF Procs
  <2>. QED
    BY <1>6, <2>1, <2>2, <2>3, <2>4 DEF Next, WorkerStep, OperatorStep, Result, Procs
<1>. QED
  BY <1>5, <1>6

-----------------------------------------------------------------------------
(***************************************************************************)
(* The steps, as the abstract queue sees them.                             *)
(***************************************************************************)
state == [e \in Events |-> IF status[e] \in {"PENDING", "PROCESSING", "FAILED"}
                           THEN "OPEN" ELSE status[e]]

Seen == <<state, delivered>>

\* An update of one event is a reopening, or it settles the event.
LEMMA UpdateIsStep ==
  ASSUME Inv, NEW e \in Events, Enqueued(e), UNCHANGED delivered,
         NEW to \in Status, status' = [status EXCEPT ![e] = to],
         to = "SUCCESS" => e \in delivered
  PROVE  Queue!Next
<1>t. status \in [Events -> Status \cup {"NONE"}]
  BY DEF Inv, TypeOK
<1>1. state[e] # "NONE"
  BY DEF state, Enqueued
<1>2. CASE to \in {"PENDING", "PROCESSING", "FAILED"}
  <2>1. state' = [f \in Events |-> IF f \in {e} THEN "OPEN" ELSE state[f]]
    BY <1>2, <1>t DEF state
  <2>. QED
    BY <1>1, <2>1 DEF Queue!Next, Queue!Reopen, state
<1>3. CASE to \in {"SUCCESS", "DEAD"}
  <2>1. state' = [state EXCEPT ![e] = to]
    BY <1>3, <1>t DEF state
  <2>. QED
    BY <1>1, <1>3, <2>1 DEF Queue!Next, Queue!Settle, state
<1>. QED
  BY <1>2, <1>3 DEF Status

\* An operator that is about to update has given a command.
GivenInv == \A o \in Operators : pc[o] = "reset" => command[o] \in Commands

LEMMA NextGiven ==
  ASSUME Inv, GivenInv, [Next]_vars
  PROVE  GivenInv'
<1>. USE DEF Inv, TypeOK, GivenInv, GoTo, Procs
<1>1. ASSUME NEW e \in Events, Enqueue(e) \/ Tick(e) PROVE GivenInv'
  BY <1>1 DEF Enqueue, Tick, BackoffElapses, ProcessingTimesOut, locals
<1>2. ASSUME NEW p \in Procs, StartRecovery(p) \/ RecoveryStep(p) \/ Abandon(p)
      PROVE  GivenInv'
  BY <1>2 DEF StartRecovery, RecoveryStep, Recover, RecoverNothing, EndRecovery, Abandon
<1>3. ASSUME NEW w \in Workers, SelectBatch(w) \/ Claim(w) \/ ClaimLost(w)
      PROVE  GivenInv'
  BY <1>3, OutboxAssumption DEF SelectBatch, Claim, ClaimLost
<1>4. ASSUME NEW w \in Workers, Result(w) PROVE GivenInv'
  BY <1>4, OutboxAssumption
  DEF Result, Sync, MarkSuccess, MarkFailure, MarkSuccessThrows, MarkFailureThrows, Advance
<1>5. ASSUME NEW o \in Operators,
             AuditRecovery(o) \/ GiveCommand(o) \/ ResetEvents(o) \/ AuditCommand(o)
      PROVE  GivenInv'
  BY <1>5 DEF AuditRecovery, GiveCommand, ResetEvents, AuditCommand
<1>6. CASE UNCHANGED vars
  BY <1>6 DEF vars, locals
<1>. QED
  BY <1>1, <1>2, <1>3, <1>4, <1>5, <1>6 DEF Next, WorkerStep, OperatorStep, Result

\* A recovery or a failure writes FAILED or DEAD.
LEMMA WriteFailedIsStep ==
  ASSUME Inv, NEW s \in Snapshot, Enqueued(s.event), WriteFailed(s), UNCHANGED delivered
  PROVE  Queue!Next
<1>. DEFINE to == IF s.attempts + 1 >= MaxAttempts THEN "DEAD" ELSE "FAILED"
<1>1. /\ s.event \in Events /\ to \in Status /\ to # "SUCCESS"
      /\ status' = [status EXCEPT ![s.event] = to]
  BY DEF Snapshot, Status, WriteFailed
<1>. HIDE DEF to
<1>. QED
  BY <1>1, UpdateIsStep

LEMMA StepImplements ==
  ASSUME Inv, KnownInv, GivenInv, DeliveredInv, [Next]_vars
  PROVE  [Queue!Next]_Seen
<1>t. status \in [Events -> Status \cup {"NONE"}]
  BY DEF Inv, TypeOK
<1>. DEFINE Rests == UNCHANGED <<status, delivered>>
<1>r. Rests => UNCHANGED Seen
  BY DEF Seen, state
<1>1. ASSUME NEW e \in Events, Enqueue(e) PROVE Queue!Next
  <2>1. state[e] = "NONE" /\ state' = [state EXCEPT ![e] = "OPEN"]
    BY <1>1, <1>t DEF Enqueue, state
  <2>. QED
    BY <1>1, <2>1 DEF Enqueue, Queue!Next, Queue!Enqueue, state
<1>2. ASSUME NEW e \in Events, Tick(e) PROVE Rests
  BY <1>2 DEF Tick, BackoffElapses, ProcessingTimesOut
<1>3. ASSUME NEW p \in Procs, StartRecovery(p) \/ RecoveryStep(p) \/ Abandon(p)
      PROVE  Rests \/ Queue!Next
  <2>1. CASE Recover(p)
    <3>1. PICK s \in batch[p] : WriteFailed(s)
      BY <2>1 DEF Recover
    <3>2. s \in Snapshot /\ Enqueued(s.event)
      BY DEF Inv, TypeOK, KnownInv, KnownOf
    <3>. QED
      BY <2>1, <3>1, <3>2, WriteFailedIsStep DEF Recover
  <2>. QED
    BY <1>3, <2>1 DEF StartRecovery, RecoveryStep, RecoverNothing, EndRecovery, Abandon, queue
<1>4. ASSUME NEW w \in Workers, SelectBatch(w) \/ Claim(w) \/ ClaimLost(w)
      PROVE  Rests \/ Queue!Next
  <2>1. CASE Claim(w)
    <3>1. PICK s \in batch[w] : status' = [status EXCEPT ![s.event] = "PROCESSING"]
      BY <2>1 DEF Claim
    <3>2. s.event \in Events /\ Enqueued(s.event)
      BY DEF Inv, TypeOK, KnownInv, KnownOf, Snapshot, Procs
    <3>. QED
      BY <2>1, <3>1, <3>2, UpdateIsStep DEF Claim, Status
  <2>. QED
    BY <1>4, <2>1 DEF SelectBatch, ClaimLost, queue
<1>5. ASSUME NEW w \in Workers, Result(w) PROVE Rests \/ Queue!Next
  <2>. DEFINE s == current[w]
  <2>1. w \in Procs /\ s \in Snapshot /\ s.event \in Events /\ Enqueued(s.event)
    BY <1>5, HandKnown
  <2>. HIDE DEF s
  <2>2. CASE Sync(w)
    <3>1. UNCHANGED state
      BY <2>2 DEF Sync, queue, state
    <3>2. delivered' = delivered \/ delivered' = delivered \cup {s.event}
      BY <2>2 DEF Sync, s
    <3>3. state[s.event] # "NONE"
      BY <2>1, <1>t DEF state, Enqueued
    <3>. QED
      BY <2>1, <2>2, <3>1, <3>2, <3>3 DEF Sync, queue, Queue!Next, Queue!Deliver, state
  <2>3. CASE MarkSuccess(w) \/ MarkSuccessThrows(w)
    <3>1. /\ UNCHANGED delivered /\ s.event \in delivered
          /\ \/ UNCHANGED status
             \/ status' = [status EXCEPT ![s.event] = "SUCCESS"]
      BY <2>1, <2>3 DEF MarkSuccess, MarkSuccessThrows, DeliveredInv, s
    <3>. QED
      BY <2>1, <3>1, UpdateIsStep DEF Status
  <2>4. CASE MarkFailure(w) \/ MarkFailureThrows(w)
    <3>1. UNCHANGED delivered /\ (WriteFailed(s) \/ UNCHANGED status)
      BY <2>4 DEF MarkFailure, MarkFailureThrows, queue, s
    <3>. QED
      BY <2>1, <3>1, WriteFailedIsStep
  <2>. QED
    BY <1>5, <2>2, <2>3, <2>4 DEF Result
<1>6. ASSUME NEW o \in Operators,
             AuditRecovery(o) \/ GiveCommand(o) \/ ResetEvents(o) \/ AuditCommand(o)
      PROVE  Rests \/ Queue!Next
  <2>1. CASE ResetEvents(o)
    <3>. DEFINE matched == {e \in Events : Matches(e, command[o])}
    <3>1. command[o] \in Commands
      BY <2>1 DEF GivenInv, ResetEvents
    <3>2. matched \in SUBSET Events /\ \A e \in matched : state[e] # "NONE"
      BY <3>1, <1>t, MatchesKnown DEF state, Enqueued
    <3>3. state' = [e \in Events |-> IF e \in matched THEN "OPEN" ELSE state[e]]
      BY <2>1 DEF ResetEvents, state
    <3>. HIDE DEF matched
    <3>. QED
      BY <2>1, <3>2, <3>3 DEF ResetEvents, Queue!Next, Queue!Reopen, state
  <2>. QED
    BY <1>6, <2>1 DEF AuditRecovery, GiveCommand, AuditCommand, queue
<1>7. CASE UNCHANGED vars
  BY <1>7, <1>r DEF vars, queue
<1>. QED
  BY <1>1, <1>2, <1>3, <1>4, <1>5, <1>6, <1>7, <1>r
  DEF Next, WorkerStep, OperatorStep, Result, Procs

(***************************************************************************)
(* What producers rely on holds of the detailed queue: whatever workers,   *)
(* recoveries, operators, timeouts and crashes do to each other, every     *)
(* step is one that the abstract queue allows.                             *)
(***************************************************************************)
THEOREM QueueIsImplemented == Spec => ImplementsEventQueue
<1>1. Init => KnownInv /\ GivenInv /\ DeliveredInv
  BY DEF Init, Procs, KnownInv, KnownOf, InHand, GivenInv, DeliveredInv, SuccessWasDelivered
<1>2. Inv /\ KnownInv /\ [Next]_vars => KnownInv'
  BY NextKnown
<1>3. Inv /\ DeliveredInv /\ [Next]_vars => DeliveredInv'
  BY NextDelivered
<1>4. Inv /\ GivenInv /\ [Next]_vars => GivenInv'
  BY NextGiven
<1>5. Init => Queue!Init
  <2>1. Init => state = [e \in Events |-> "NONE"] /\ delivered = {}
    BY DEF Init, state
  <2>. QED
    BY <2>1 DEF Queue!Init, state
<1>6. Inv /\ KnownInv /\ GivenInv /\ DeliveredInv /\ [Next]_vars => [Queue!Next]_(Queue!queueVars)
  BY StepImplements DEF Seen, Queue!queueVars, state
<1>. QED
  BY <1>1, <1>2, <1>3, <1>4, <1>5, <1>6, Invariance, PTL DEF Spec, ImplementsEventQueue, Queue!Spec
=============================================================================
