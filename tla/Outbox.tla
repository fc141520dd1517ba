------------------------------- MODULE Outbox -------------------------------
(***************************************************************************)
(* The integration-event queue: src/services/integrationEventService.js,   *)
(* the worker that runs it (src/workers/integrationEventWorker.js) and the *)
(* operator commands of src/services/integrationOperatorService.js.        *)
(*                                                                         *)
(* The events are documents of one MongoDB collection.  A step below is    *)
(* one query or update of the store, the code between two awaits.  Workers *)
(* and operators act on snapshots they read earlier, and only some of      *)
(* their updates look at the event's status again.                         *)
(***************************************************************************)
EXTENDS Naturals, FiniteSets

CONSTANTS
  Events,       \* event numbers, in createdAt order
  Workers,      \* loops that run processPendingIntegrationEvents
  Operators,    \* operator requests, one command each
  Commands,     \* the requeue commands that operators may give
  MaxAttempts,  \* OUTBOX_MAX_ATTEMPTS
  BatchSize,    \* OUTBOX_BATCH_SIZE
  Orderly,      \* do delays outlast steps, and does a result that cannot be
                \* written leave no trace?
  MaxFaults,    \* bound: failed updates, failed requests and crashes
  NoEvent

Status == {"PENDING", "PROCESSING", "SUCCESS", "FAILED", "DEAD"}
Procs == Workers \cup Operators

(***************************************************************************)
(* The where clauses of the three requeue commands: one event whatever its *)
(* status, all dead events, or the failed or dead ones (or both) that an   *)
(* entity or age filter lets through.                                      *)
(***************************************************************************)
RetryEvent == {[statuses |-> Status, scope |-> {e}] : e \in Events}
RetryDead == {[statuses |-> {"DEAD"}, scope |-> Events]}
Replay == [statuses : SUBSET {"FAILED", "DEAD"}, scope : SUBSET Events]

ASSUME OutboxAssumption ==
  /\ Events \subseteq Nat
  /\ Workers \cap Operators = {}
  /\ Commands \subseteq RetryEvent \cup RetryDead \cup Replay
  /\ MaxAttempts \in Nat \ {0} /\ BatchSize \in Nat \ {0} /\ MaxFaults \in Nat
  /\ Orderly \in BOOLEAN
  /\ NoEvent \notin [event : Events, status : Status, attempts : Nat]

VARIABLES
  status,     \* status[e], "NONE" before e is enqueued
  attempts,   \* attempts[e]
  due,        \* due[e]: next_run_at is null or has passed
  stale,      \* stale[e]: updatedAt is a processing timeout ago
  audit,      \* integration_event_audits: [event, from]
  pc,         \* pc[p]: the statement that worker or operator p runs next
  batch,      \* batch[p]: the snapshots it has still to go through
  current,    \* current[p]: the snapshot it works on
  command,    \* command[o]: the where clause of o's command
  faults,
  delivered,  \* events whose sync has succeeded at least once
  tries       \* tries[e]: claims of e since it was enqueued or requeued, up
              \* to MaxAttempts

queue == <<status, attempts, due, stale>>
locals == <<pc, batch, current, command>>
vars == <<queue, audit, locals, faults, delivered, tries>>

Snapshot == [event : Events, status : Status, attempts : 0 .. MaxAttempts]

Locations == {"idle", "recover", "select", "claim", "sync", "succeed", "fail",
              "catch", "reset", "audit", "auditOne", "done"}

TypeOK ==
  /\ status \in [Events -> Status \cup {"NONE"}]
  /\ attempts \in [Events -> 0 .. MaxAttempts]
  /\ due \in [Events -> BOOLEAN]
  /\ stale \in [Events -> BOOLEAN]
  /\ audit \subseteq [event : Events, from : Status]
  /\ pc \in [Procs -> Locations]
  /\ batch \in [Procs -> SUBSET Snapshot]
  /\ current \in [Procs -> Snapshot \cup {NoEvent}]
  /\ command \in [Operators -> Commands \cup {NoEvent}]
  /\ faults \in 0 .. MaxFaults
  /\ delivered \subseteq Events
  /\ tries \in [Events -> 0 .. MaxAttempts]

Init ==
  /\ status = [e \in Events |-> "NONE"]
  /\ attempts = [e \in Events |-> 0]
  /\ due = [e \in Events |-> TRUE]
  /\ stale = [e \in Events |-> FALSE]
  /\ audit = {}
  /\ pc = [p \in Procs |-> "idle"]
  /\ batch = [p \in Procs |-> {}]
  /\ current = [p \in Procs |-> NoEvent]
  /\ command = [o \in Operators |-> NoEvent]
  /\ faults = 0
  /\ delivered = {}
  /\ tries = [e \in Events |-> 0]

SnapshotOf(e) == [event |-> e, status |-> status[e], attempts |-> attempts[e]]
StaleEvents == {e \in Events : status[e] = "PROCESSING" /\ stale[e]}
DueEvents == {e \in Events : status[e] \in {"PENDING", "FAILED"} /\ due[e]}
Matches(e, where) == e \in where.scope /\ status[e] \in where.statuses

\* p is between claiming e and writing down what became of it.
Holds(p, e) ==
  pc[p] \in {"sync", "succeed", "fail", "catch"} /\ current[p].event = e

\* p has found e due, or stale, and has not come to its update yet.
Awaits(p, e) == pc[p] \notin {"recover", "auditOne"} /\ \E s \in batch[p] : s.event = e
Recovers(p, e) == pc[p] \in {"recover", "auditOne"} /\ \E s \in batch[p] : s.event = e

CountTry(e) ==
  tries' = [tries EXCEPT ![e] = IF @ < MaxAttempts THEN @ + 1 ELSE @]

GoTo(p, loc) == pc' = [pc EXCEPT ![p] = loc]

\* Worker w drops its current event and takes the next, or ends its run.
Advance(w) ==
  /\ GoTo(w, IF batch[w] = {} THEN "idle" ELSE "claim")
  /\ current' = [current EXCEPT ![w] = NoEvent]
  /\ UNCHANGED <<batch, command>>

-----------------------------------------------------------------------------
(***************************************************************************)
(* Time.  The backoff of getBackoffMs is some delay after a failed attempt.*)
(* Orderly says that a worker gets through its batch within the processing *)
(* timeout (50 deliveries of 5 seconds at most, 15 minutes), a recovery    *)
(* from its query to its last update within a backoff (5 seconds or more), *)
(* and that an update to FAILED which throws has had no effect.  Nothing   *)
(* in the code enforces any of this.                                       *)
(***************************************************************************)
BackoffElapses(e) ==
  /\ status[e] = "FAILED" /\ ~due[e]
  /\ Orderly => \A p \in Procs : ~Recovers(p, e)
  /\ due' = [due EXCEPT ![e] = TRUE]
  /\ UNCHANGED <<status, attempts, stale, audit, locals, faults, delivered,
                 tries>>

ProcessingTimesOut(e) ==
  /\ status[e] = "PROCESSING" /\ ~stale[e]
  /\ Orderly => \A w \in Workers : ~Holds(w, e) /\ ~Awaits(w, e)
  /\ stale' = [stale EXCEPT ![e] = TRUE]
  /\ UNCHANGED <<status, attempts, due, audit, locals, faults, delivered,
                 tries>>

(***************************************************************************)
(* enqueueIntegrationEvent.                                                *)
(***************************************************************************)
Enqueue(e) ==
  /\ status[e] = "NONE"
  /\ \A f \in Events : f < e => status[f] # "NONE"
  /\ status' = [status EXCEPT ![e] = "PENDING"]
  /\ UNCHANGED <<attempts, due, stale, audit, locals, faults, delivered, tries>>

-----------------------------------------------------------------------------
(***************************************************************************)
(* What a failed or timed-out attempt writes to the event: one more        *)
(* attempt than the snapshot says, and the status that goes with it.       *)
(***************************************************************************)

\* Mutant: the event gets one attempt more than the limit.
WriteFailedLate(s) ==
  LET dead == s.attempts + 1 > MaxAttempts
  IN /\ attempts' = [attempts EXCEPT ![s.event] = s.attempts + 1]
     /\ status' = [status EXCEPT ![s.event] = IF dead THEN "DEAD" ELSE "FAILED"]
     /\ due' = [due EXCEPT ![s.event] = dead]
     /\ stale' = [stale EXCEPT ![s.event] = FALSE]

\* Mutant: attempts is incremented in place.
WriteFailedInPlace(s) ==
  LET tried == attempts[s.event] + 1
      dead  == tried >= MaxAttempts
  IN /\ attempts' = [attempts EXCEPT ![s.event] = tried]
     /\ status' = [status EXCEPT ![s.event] = IF dead THEN "DEAD" ELSE "FAILED"]
     /\ due' = [due EXCEPT ![s.event] = dead]
     /\ stale' = [stale EXCEPT ![s.event] = FALSE]

WriteFailed(s) ==
  LET dead == s.attempts + 1 >= MaxAttempts
  IN /\ attempts' = [attempts EXCEPT ![s.event] = s.attempts + 1]
     /\ status' = [status EXCEPT ![s.event] = IF dead THEN "DEAD" ELSE "FAILED"]
     /\ due' = [due EXCEPT ![s.event] = dead]
     /\ stale' = [stale EXCEPT ![s.event] = FALSE]

(***************************************************************************)
(* recoverStuckProcessingIntegrationEvents: a worker begins every run with *)
(* it, an operator may ask for it.  One query finds the stale events, one  *)
(* update each takes those back that are PROCESSING still.                 *)
(***************************************************************************)
StartRecovery(p) ==
  /\ pc[p] = "idle"
  /\ batch' = [batch EXCEPT ![p] = {SnapshotOf(e) : e \in StaleEvents}]
  /\ GoTo(p, "recover")
  /\ UNCHANGED <<queue, audit, current, command, faults, delivered, tries>>

Recover(p) ==
  /\ pc[p] = "recover"
  /\ \E s \in batch[p] :
       /\ batch' = [batch EXCEPT ![p] = @ \ {s}]
       /\ status[s.event] = "PROCESSING"
       /\ WriteFailed(s)
       /\ IF p \in Operators
          THEN GoTo(p, "auditOne") /\ current' = [current EXCEPT ![p] = s]
          ELSE UNCHANGED <<pc, current>>
  /\ UNCHANGED <<audit, command, faults, delivered, tries>>

RecoverNothing(p) ==
  /\ pc[p] = "recover"
  /\ \E s \in batch[p] :
       /\ batch' = [batch EXCEPT ![p] = @ \ {s}]
       /\ status[s.event] # "PROCESSING"
  /\ UNCHANGED <<queue, audit, pc, current, command, faults, delivered, tries>>

AuditRecovery(o) ==
  /\ pc[o] = "auditOne"
  /\ audit' = audit \cup {[event |-> current[o].event, from |-> "PROCESSING"]}
  /\ current' = [current EXCEPT ![o] = NoEvent]
  /\ GoTo(o, "recover")
  /\ UNCHANGED <<queue, batch, command, faults, delivered, tries>>

EndRecovery(p) ==
  /\ pc[p] = "recover"
  /\ batch[p] = {}
  /\ GoTo(p, IF p \in Workers THEN "select" ELSE "done")
  /\ UNCHANGED <<queue, audit, batch, current, command, faults, delivered,
                 tries>>

-----------------------------------------------------------------------------
(***************************************************************************)
(* processPendingIntegrationEvents: the batch is read once, oldest events  *)
(* first, then worked through one event at a time.                         *)
(***************************************************************************)

\* S is the result of a query for members of T, ORDER BY createdAt LIMIT n.
OldestOf(S, T, n) ==
  /\ S \subseteq T
  /\ Cardinality(S) <= n
  /\ S # T => Cardinality(S) = n
  /\ \A e \in S, f \in T \ S : e < f

\* Mutant: a failed event is not picked up again.
SelectBatchPending(w) ==
  /\ pc[w] = "select"
  /\ \E S \in SUBSET DueEvents :
       /\ OldestOf(S, {e \in DueEvents : status[e] = "PENDING"}, BatchSize)
       /\ batch' = [batch EXCEPT ![w] = {SnapshotOf(e) : e \in S}]
       /\ GoTo(w, IF S = {} THEN "idle" ELSE "claim")
  /\ UNCHANGED <<queue, audit, current, command, faults, delivered, tries>>

SelectBatch(w) ==
  /\ pc[w] = "select"
  /\ \E S \in SUBSET DueEvents :
       /\ OldestOf(S, DueEvents, BatchSize)
       /\ batch' = [batch EXCEPT ![w] = {SnapshotOf(e) : e \in S}]
       /\ GoTo(w, IF S = {} THEN "idle" ELSE "claim")
  /\ UNCHANGED <<queue, audit, current, command, faults, delivered, tries>>

\* The next event of the batch.
Takes(w, s) ==
  /\ s \in batch[w]
  /\ \A t \in batch[w] : s.event <= t.event
  /\ batch' = [batch EXCEPT ![w] = @ \ {s}]

\* Mutant: the claim does not compare the status.
ClaimUnguarded(w) ==
  /\ pc[w] = "claim"
  /\ \E s \in batch[w] :
       /\ Takes(w, s)
       /\ status' = [status EXCEPT ![s.event] = "PROCESSING"]
       /\ stale' = [stale EXCEPT ![s.event] = FALSE]
       /\ CountTry(s.event)
       /\ current' = [current EXCEPT ![w] = s]
  /\ GoTo(w, "sync")
  /\ UNCHANGED <<attempts, due, audit, command, faults, delivered>>

(***************************************************************************)
(* The claim compares the status with the snapshot's, and nothing else:    *)
(* an event that has failed once more since is claimed all the same.       *)
(***************************************************************************)
Claim(w) ==
  /\ pc[w] = "claim"
  /\ \E s \in batch[w] :
       /\ Takes(w, s)
       /\ status[s.event] = s.status
       /\ status' = [status EXCEPT ![s.event] = "PROCESSING"]
       /\ stale' = [stale EXCEPT ![s.event] = FALSE]
       /\ CountTry(s.event)
       /\ current' = [current EXCEPT ![w] = s]
  /\ GoTo(w, "sync")
  /\ UNCHANGED <<attempts, due, audit, command, faults, delivered>>

ClaimLost(w) ==
  /\ pc[w] = "claim"
  /\ \E s \in batch[w] :
       /\ Takes(w, s)
       /\ status[s.event] # s.status
       /\ GoTo(w, IF batch[w] = {s} THEN "idle" ELSE "claim")
  /\ UNCHANGED <<queue, audit, current, command, faults, delivered, tries>>

\* Mutant: any answer of syncEmployeeToAll counts as a success.
SyncAnyAnswer(w) ==
  /\ pc[w] = "sync"
  /\ GoTo(w, "succeed")
  /\ delivered' \in {delivered, delivered \cup {current[w].event}}
  /\ UNCHANGED <<queue, audit, batch, current, command, faults, tries>>

\* syncEmployeeToAll answers success, or failure, or throws.
Sync(w) ==
  /\ pc[w] = "sync"
  /\ \/ /\ GoTo(w, "succeed")
        /\ delivered' = delivered \cup {current[w].event}
     \/ /\ GoTo(w, "fail") \/ GoTo(w, "catch")
        /\ UNCHANGED delivered
  /\ UNCHANGED <<queue, audit, batch, current, command, faults, tries>>

\* The update names the event by its id only, as the next one does.
MarkSuccess(w) ==
  /\ pc[w] = "succeed"
  /\ status' = [status EXCEPT ![current[w].event] = "SUCCESS"]
  /\ stale' = [stale EXCEPT ![current[w].event] = FALSE]
  /\ Advance(w)
  /\ UNCHANGED <<attempts, due, audit, faults, delivered, tries>>

MarkFailure(w) ==
  /\ pc[w] \in {"fail", "catch"}
  /\ WriteFailed(current[w])
  /\ Advance(w)
  /\ UNCHANGED <<audit, faults, delivered, tries>>

-----------------------------------------------------------------------------
(***************************************************************************)
(* The requeue commands: a query for the matching events, one update of    *)
(* all events that match then, one audit entry for each that matched first.*)
(***************************************************************************)
GiveCommand(o) ==
  /\ pc[o] = "idle"
  /\ \E where \in Commands :
       LET found == {e \in Events : Matches(e, where)}
       IN /\ batch' = [batch EXCEPT ![o] = {SnapshotOf(e) : e \in found}]
          /\ command' = [command EXCEPT ![o] = where]
          /\ GoTo(o, IF found = {} THEN "done" ELSE "reset")
  /\ UNCHANGED <<queue, audit, current, faults, delivered, tries>>

ResetEvents(o) ==
  LET matched == {e \in Events : Matches(e, command[o])}
  IN /\ pc[o] = "reset"
     /\ status' = [e \in Events |->
                     IF e \in matched THEN "PENDING" ELSE status[e]]
     /\ attempts' = [e \in Events |-> IF e \in matched THEN 0 ELSE attempts[e]]
     /\ due' = [e \in Events |-> e \in matched \/ due[e]]
     /\ stale' = [e \in Events |-> e \notin matched /\ stale[e]]
     /\ tries' = [e \in Events |-> IF e \in matched THEN 0 ELSE tries[e]]
     /\ GoTo(o, IF matched = {} THEN "done" ELSE "audit")
     /\ UNCHANGED <<audit, batch, current, command, faults, delivered>>

AuditCommand(o) ==
  /\ pc[o] = "audit"
  /\ audit' = audit \cup {[event |-> s.event, from |-> s.status] : s \in batch[o]}
  /\ GoTo(o, "done")
  /\ UNCHANGED <<queue, batch, current, command, faults, delivered, tries>>

-----------------------------------------------------------------------------
(***************************************************************************)
(* Faults.                                                                 *)
(***************************************************************************)

(***************************************************************************)
(* The update after a delivery throws, whether it took effect or not: the  *)
(* catch block counts a failed attempt, once more if it was counted.       *)
(***************************************************************************)
MarkSuccessThrows(w) ==
  /\ pc[w] = "succeed"
  /\ faults < MaxFaults /\ faults' = faults + 1
  /\ \/ /\ status' = [status EXCEPT ![current[w].event] = "SUCCESS"]
        /\ stale' = [stale EXCEPT ![current[w].event] = FALSE]
     \/ UNCHANGED <<status, stale>>
  /\ GoTo(w, "catch")
  /\ UNCHANGED <<attempts, due, audit, batch, current, command, delivered, tries>>

MarkFailureThrows(w) ==
  /\ pc[w] = "fail"
  /\ faults < MaxFaults /\ faults' = faults + 1
  /\ (~Orderly /\ WriteFailed(current[w])) \/ UNCHANGED queue
  /\ GoTo(w, "catch")
  /\ UNCHANGED <<audit, batch, current, command, delivered, tries>>

(***************************************************************************)
(* The process dies, or a query or update that no try block guards throws: *)
(* the rest of the run or of the command is lost.                          *)
(***************************************************************************)
Abandon(p) ==
  /\ pc[p] \notin {"idle", "done"}
  /\ faults < MaxFaults /\ faults' = faults + 1
  /\ GoTo(p, IF p \in Workers THEN "idle" ELSE "done")
  /\ batch' = [batch EXCEPT ![p] = {}]
  /\ current' = [current EXCEPT ![p] = NoEvent]
  /\ UNCHANGED <<queue, audit, command, delivered, tries>>

-----------------------------------------------------------------------------
RecoveryStep(p) == Recover(p) \/ RecoverNothing(p) \/ EndRecovery(p)

WorkerStep(w) ==
  \/ StartRecovery(w) \/ RecoveryStep(w)
  \/ SelectBatch(w) \/ Claim(w) \/ ClaimLost(w)
  \/ Sync(w) \/ MarkSuccess(w) \/ MarkFailure(w)

OperatorStep(o) ==
  \/ StartRecovery(o) \/ RecoveryStep(o) \/ AuditRecovery(o)
  \/ GiveCommand(o) \/ ResetEvents(o) \/ AuditCommand(o)

Tick(e) == BackoffElapses(e) \/ ProcessingTimesOut(e)

Next ==
  \/ \E e \in Events : Enqueue(e) \/ Tick(e)
  \/ \E w \in Workers : WorkerStep(w) \/ MarkSuccessThrows(w) \/ MarkFailureThrows(w)
  \/ \E o \in Operators : OperatorStep(o)
  \/ \E p \in Procs : Abandon(p)

Spec == Init /\ [][Next]_vars

(***************************************************************************)
(* Time passes, and setInterval starts a run of every worker again and     *)
(* again, each of which goes on until it ends or is abandoned.             *)
(***************************************************************************)
FairSpec ==
  /\ Spec
  /\ \A e \in Events : WF_vars(Tick(e))
  /\ \A w \in Workers : WF_vars(WorkerStep(w))

-----------------------------------------------------------------------------
(***************************************************************************)
(* Whatever workers and operators do to each other's events.               *)
(***************************************************************************)

(***************************************************************************)
(* The attempts of an event always fit its status, though they are written *)
(* from snapshots: an event that may be retried has attempts left, one     *)
(* that is dead has none.                                                  *)
(***************************************************************************)
AttemptsFitStatus ==
  \A e \in Events :
    /\ status[e] = "PENDING" => attempts[e] = 0
    /\ status[e] = "FAILED" => attempts[e] \in 1 .. MaxAttempts - 1
    /\ status[e] = "PROCESSING" => attempts[e] < MaxAttempts
    /\ status[e] = "DEAD" => attempts[e] = MaxAttempts

(***************************************************************************)
(* Every integration has accepted an event that is marked SUCCESS.         *)
(***************************************************************************)
SuccessWasDelivered == \A e \in Events : status[e] = "SUCCESS" => e \in delivered

(***************************************************************************)
(* What producers rely on (EventQueue.tla): an enqueued event is never     *)
(* forgotten, and called SUCCESS only after an accepted delivery, whatever *)
(* workers, recoveries, operators and crashes do.                          *)
(***************************************************************************)
Queue == INSTANCE EventQueue WITH
           state <- [e \in Events |->
                       IF status[e] \in {"PENDING", "PROCESSING", "FAILED"}
                       THEN "OPEN" ELSE status[e]],
           accepted <- delivered

ImplementsEventQueue == Queue!Spec

(***************************************************************************)
(* With no requeue commands: an event is given up only after it was        *)
(* claimed MaxAttempts times, however workers, recoveries and crashes      *)
(* overlap.                                                                *)
(***************************************************************************)
NeverDeadEarly ==
  \A e \in Events : status[e] = "DEAD" => tries[e] >= MaxAttempts

(***************************************************************************)
(* Every event that is enqueued is delivered or given up in the end.       *)
(***************************************************************************)
EveryEventSettles ==
  \A e \in Events : status[e] # "NONE" ~> status[e] \in {"SUCCESS", "DEAD"}

-----------------------------------------------------------------------------
(***************************************************************************)
(* With Orderly, and no requeue commands.                                  *)
(***************************************************************************)

(***************************************************************************)
(* An event is in the hands of one worker at a time, however workers,      *)
(* recoveries and crashes overlap, and PROCESSING until that worker writes *)
(* its result.                                                             *)
(***************************************************************************)
OneHolder ==
  \A e \in Events : \A w \in Workers :
    Holds(w, e) => /\ pc[w] # "catch" => status[e] = "PROCESSING"
                   /\ \A v \in Workers : Holds(v, e) => v = w

(***************************************************************************)
(* A delivered event stays SUCCESS, unless its worker failed to write it   *)
(* down, and a dead one stays dead.                                        *)
(***************************************************************************)
SettledStaysSettled ==
  [][\A e \in Events :
       /\ status[e] = "SUCCESS" /\ status'[e] # "SUCCESS" =>
            \E w \in Workers : pc[w] = "catch" /\ Holds(w, e)
       /\ status[e] = "DEAD" => status'[e] = "DEAD"]_vars

-----------------------------------------------------------------------------
(***************************************************************************)
(* dashboard/src/components/IntegrationEventsPanel.jsx:942, what the       *)
(* operator confirms: "This will place ... back on the queue for another   *)
(* processing attempt."                                                    *)
(***************************************************************************)
RequeuedIsTriedAgain ==
  \A e \in Events : status[e] = "DEAD" => tries[e] > 0
=============================================================================
