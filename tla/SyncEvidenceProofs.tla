------------------------- MODULE SyncEvidenceProofs -------------------------
(***************************************************************************)
(* Theorems about SyncEvidence, and proofs that TLAPS checks.              *)
(***************************************************************************)
EXTENDS SyncEvidence, PayrollRulesProofs, FiniteSetTheorems

\* The mutations that some request saved.
SentKeys == {key[r] : r \in Requests} \ {NoKey}

(***************************************************************************)
(* Whatever is called, logged or retried is a mutation that was saved, of  *)
(* an employee whose id was issued; and an employee whose deletion was     *)
(* saved is gone, for good.                                                *)
(***************************************************************************)
SentInv ==
  /\ \A r \in Requests : /\ pc[r] = "idle" <=> key[r] = NoKey
                         /\ queue[r] # "NONE" => key[r] # NoKey
  /\ \A c \in late : c.key \in SentKeys
  /\ retry.targets \subseteq SentKeys
  /\ retry.pc \in {"call", "mark"} => retry.key \in SentKeys
  /\ retry.pc \notin {"call", "mark"} => retry.key = NoKey
  /\ \A i \in DOMAIN logged : logged[i] \in SentKeys
  /\ \A k \in Keys : syncLog[k] # "NONE" => k \in SentKeys

IssuedInv ==
  /\ \A e \in Employees : source[e] # NoRecord \/ history[e] # <<>> => e \in issued
  /\ \A k \in SentKeys : /\ k.emp \in issued
                         /\ k.act = "DELETE" => source[k.emp] = NoRecord

\* A row says TERMINATED only if the employee is gone, and is never active.
RowsInv ==
  \A e \in Employees : RowsAreRight(history[e], source[e] = NoRecord)

\* What the repair is about to close is of employees that are gone.
RepairInv ==
  repair.pc = "write" =>
    \A c \in repair.rows :
      /\ c.emp \in issued
      /\ OneSnapshot => source[c.emp] = NoRecord

\* A retry is marked only after Payroll took it.
MarkInv ==
  /\ retry.pc # "idle" \/ (\E k \in Keys : syncLog[k] = "FAILED") => adapters # {}
  /\ retry.pc = "mark" => syncLog[retry.key] = "SUCCESS"

(***************************************************************************)
(* r is the last change of e, every earlier one is through, and what is    *)
(* still on its way for e is r, at the rate of the document.               *)
(***************************************************************************)
Own(e) == \A r, s \in Of(e) : key[r] = key[s] => r = s

LastChange(e, r) ==
  /\ r \in Of(e)
  /\ \A s \in Of(e) \ {r} : syncLog[key[s]] = "SUCCESS"
  /\ source[e] = IF key[r].act = "DELETE" THEN NoRecord ELSE doc[r]
  /\ \A c \in late :
       c.key = key[r] /\ c.key.act # "DELETE" => c.rate = doc[r]
  /\ \A k \in retry.targets \cup ({retry.key} \ {NoKey}) : k.emp = e => k = key[r]
  /\ retry.key = key[r] /\ retry.key.act # "DELETE" => retry.rate = doc[r]
  /\ syncLog[key[r]] = "SUCCESS" => Delivered(e)
  /\ syncLog[key[r]] # "SUCCESS" /\ key[r].act = "CREATE" => Active(history[e]) = {}

QuietInv ==
  \A e \in issued \ overlapped : Own(e) => \E r \in Of(e) : LastChange(e, r)

SafeInv ==
  /\ TypeOK /\ SentInv /\ IssuedInv /\ RepairInv /\ MarkInv
  /\ OneSnapshot => RowsInv

-----------------------------------------------------------------------------
(***************************************************************************)
(* What a call does to Payroll.                                            *)
(***************************************************************************)
LEMMA KeyFacts ==
  /\ NoKey \notin SyncKeys
  /\ SyncKeys \subseteq Keys
  /\ \A k \in SyncKeys : k.emp \in Employees /\ k.act \in Actions
  /\ \A rate \in Rates : /\ Payload(rate) \in Payloads
                         /\ Payload(rate).rate = rate /\ rate # Absent
  /\ NoRecord \notin Rates
  BY EmployeeSyncAssumption, PayloadAssumption DEF SyncKeys, Payload

\* The ledger's rules are the service's.
LEMMA SameRules ==
  ASSUME NEW action, NEW k, NEW payload, NEW rows
  PROVE  Ledger!Write(action, rows, Ledger!Handle(action, k, payload, rows))
         = Write(action, rows, Handle(action, k, payload, rows))
<1>1. Ledger!Handle(action, k, payload, rows) = Handle(action, k, payload, rows)
  BY DEF Ledger!Handle, Handle, Ledger!HandleCreate, HandleCreate,
         Ledger!HandleUpdate, HandleUpdate, Ledger!HandleDelete, HandleDelete,
         Ledger!Active, Active, Ledger!CurrentRate, CurrentRate,
         Ledger!LatestRate, LatestRate, Ledger!TheRow, TheRow,
         Ledger!RateOr0, RateOr0, Ledger!TypeOrHourly, TypeOrHourly,
         Ledger!NormalizePayType, NormalizePayType
<1>2. ASSUME NEW inserted
      PROVE  Ledger!Write(action, rows, inserted) = Write(action, rows, inserted)
  BY DEF Ledger!Write, Write, Ledger!Deactivate, Deactivate, Ledger!Closed, Closed
<1>. QED
  BY <1>1, <1>2

\* The rows after mutation k is applied to them.
Applied(k, rate, rows) ==
  Write(k.act, rows, Handle(k.act, k, Payload(rate), rows))

LEMMA AppliedType ==
  ASSUME NEW k \in SyncKeys, NEW rate \in Rates, NEW rows \in Seq(PayRate)
  PROVE  Applied(k, rate, rows) \in Seq(PayRate)
<1>1. k \in Keys /\ Payload(rate) \in Payloads /\ k.act \in {"CREATE", "UPDATE", "DELETE"}
  BY KeyFacts DEF Actions
<1>2. Handle(k.act, k, Payload(rate), rows) \in Insertion
  BY <1>1, HandleType
<1>. QED
  BY <1>2, WriteRows DEF Applied

\* What a call of mutation k may do to Payroll.
PayrollMoves(k, rate) ==
  \/ UNCHANGED payroll
  \/ PayrollRuns(k, rate)
  \/ adapters # {} /\ PayrollFails(k)

LEMMA LogsType ==
  ASSUME NEW k \in SyncKeys, logged \in Seq(SyncKeys), Logs(k)
  PROVE  /\ logged' \in Seq(SyncKeys)
         /\ \A i \in DOMAIN logged' :
              logged'[i] = k \/ \E j \in DOMAIN logged : logged'[i] = logged[j]
<1>1. CASE logged' = logged
  BY <1>1
<1>2. CASE logged' = Append(logged, k)
  <2>1. /\ logged' \in Seq(SyncKeys) /\ Len(logged') = Len(logged) + 1
        /\ \A i \in 1 .. Len(logged) : logged'[i] = logged[i]
        /\ logged'[Len(logged) + 1] = k
    BY <1>2, AppendProperties
  <2>2. /\ DOMAIN logged = 1 .. Len(logged) /\ DOMAIN logged' = 1 .. Len(logged')
        /\ Len(logged) \in Nat
    BY <2>1, LenProperties
  <2>3. \A i \in 1 .. Len(logged) + 1 : i \in 1 .. Len(logged) \/ i = Len(logged) + 1
    BY <2>2
  <2>. QED
    BY <2>1, <2>2, <2>3
<1>. QED
  BY <1>1, <1>2 DEF Logs

LEMMA PayrollStep ==
  ASSUME TypeOK, NEW k \in SyncKeys, NEW rate \in Rates, PayrollMoves(k, rate)
  PROVE  /\ history' \in [Employees -> Seq(PayRate)]
         /\ syncLog' \in [Keys -> {"NONE", "SUCCESS", "FAILED"}]
         /\ logged' \in Seq(SyncKeys)
         /\ \A e \in Employees \ {k.emp} : history'[e] = history[e]
         /\ \A j \in Keys \ {k} : syncLog'[j] = syncLog[j]
         /\ history'[k.emp] # history[k.emp] =>
              /\ syncLog[k] # "SUCCESS" /\ syncLog'[k] = "SUCCESS"
         /\ IF syncLog[k] # "SUCCESS" /\ syncLog'[k] = "SUCCESS"
              THEN history'[k.emp] = Applied(k, rate, history[k.emp])
              ELSE history'[k.emp] = history[k.emp]
         /\ syncLog[k] = "SUCCESS" => syncLog'[k] = "SUCCESS"
         /\ syncLog'[k] = "FAILED" => syncLog[k] = "FAILED" \/ adapters # {}
         /\ \A i \in DOMAIN logged' :
              logged'[i] = k \/ \E j \in DOMAIN logged : logged'[i] = logged[j]
<1>1. /\ k \in Keys /\ k.emp \in Employees
      /\ history \in [Employees -> Seq(PayRate)]
      /\ syncLog \in [Keys -> {"NONE", "SUCCESS", "FAILED"}]
      /\ logged \in Seq(SyncKeys)
  BY KeyFacts DEF TypeOK
<1>2. Applied(k, rate, history[k.emp]) \in Seq(PayRate)
  BY <1>1, AppliedType
<1>3. CASE UNCHANGED payroll
  BY <1>1, <1>3 DEF payroll
<1>4. CASE PayrollRuns(k, rate) /\ syncLog[k] = "SUCCESS"
  BY <1>1, <1>4, LogsType DEF PayrollRuns
<1>5. CASE PayrollRuns(k, rate) /\ syncLog[k] # "SUCCESS"
  <2>1. Ledger!Apply(k, Payload(rate)) /\ Logs(k)
    BY <1>5 DEF PayrollRuns
  <2>2. /\ history' = [history EXCEPT ![k.emp] = Applied(k, rate, history[k.emp])]
        /\ syncLog' = [syncLog EXCEPT ![k] = "SUCCESS"]
    <3>. DEFINE ruled == Ledger!Write(k.act, history[k.emp],
                           Ledger!Handle(k.act, k, Payload(rate), history[k.emp]))
    <3>1. [j \in Keys |-> j.emp][k] = k.emp /\ [j \in Keys |-> j.act][k] = k.act
      BY <1>1
    <3>2. /\ history' = [history EXCEPT ![k.emp] = ruled]
          /\ syncLog' = [syncLog EXCEPT ![k] = "SUCCESS"]
      BY <2>1, <3>1 DEF Ledger!Apply
    <3>3. ruled = Applied(k, rate, history[k.emp])
      BY SameRules DEF Applied
    <3>. QED
      BY <3>2, <3>3
  <2>. QED
    BY <1>1, <1>2, <1>5, <2>1, <2>2, LogsType
<1>6. CASE adapters # {} /\ PayrollFails(k)
  BY <1>1, <1>6, LogsType DEF PayrollFails, Ledger!Fail
<1>. QED
  BY <1>3, <1>4, <1>5, <1>6 DEF PayrollMoves

-----------------------------------------------------------------------------
(***************************************************************************)
(* Type correctness.                                                       *)
(***************************************************************************)
LEMMA InitType == Init => TypeOK
<1>. SUFFICES ASSUME Init PROVE TypeOK
  OBVIOUS
<1>1. 0 \in Rates /\ MaxFaults \in Nat /\ MaxRepairs \in Nat
  BY PayloadAssumption, EmployeeSyncAssumption
<1>2. /\ <<>> \in Seq(PayRate) /\ <<>> \in Seq(SyncKeys)
  OBVIOUS
<1>3. retry = NoRetry /\ repair = NoRepair
  BY DEF Init
<1>4. /\ retry \in [pc : {"idle", "next", "call", "mark"}, targets : SUBSET SyncKeys,
                   key : SyncKeys \cup {NoKey}, rate : Rates]
      /\ repair \in [pc : {"idle", "reading", "write"}, gone : SUBSET Employees,
                    rows : SUBSET [emp : Employees, rate : StoredRates]]
  BY <1>1, <1>3 DEF NoRetry, NoRepair
<1>. QED
  BY <1>1, <1>2, <1>4
  DEF Init, TypeOK, Ledger!Init, Events!Init, Events!TypeOK, Events!States

\* What a repair reads of Payroll.
LEMMA CoverageType ==
  ASSUME TypeOK
  PROVE  /\ Coverage \subseteq [emp : Employees, rate : StoredRates]
         /\ \A c \in Coverage : history[c.emp] # <<>>
<1>1. ASSUME NEW e \in Employees
      PROVE  RateOr0(CurrentRate(history[e])) \in StoredRates
  <2>1. history[e] \in Seq(PayRate)
    BY DEF TypeOK
  <2>. QED
    BY <2>1, FoundRowType, TakenRowType
<1>2. ASSUME NEW e \in Covered
      PROVE  e \in Employees /\ history[e] # <<>>
  BY DEF Covered, Active
<1>. QED
  BY <1>1, <1>2 DEF Coverage

LEMMA RateType ==
  ASSUME TypeOK, NEW e \in Employees, source[e] # NoRecord
  PROVE  source[e] \in Rates
  BY DEF TypeOK

\* What a repair writes.
LEMMA TerminateType ==
  ASSUME NEW e \in Employees, NEW rows \in Seq(PayRate), NEW rate \in StoredRates
  PROVE  LET after == Terminate(e, rows, rate)
         IN  /\ after \in Seq(PayRate)
             /\ Active(after) = {}
             /\ RowsAreRight(after, TRUE)
<1>. DEFINE row == [rate |-> NormalizePayRate(rate), type |-> "TERMINATED",
                    active |-> FALSE, by |-> RepairKey(e)]
            after == Terminate(e, rows, rate)
<1>1. RepairKey(e) \in Keys
  BY EmployeeSyncAssumption
<1>2. row \in PayRate /\ ~row.active
  BY <1>1, FixedAssumption DEF PayRate, PayTypes, NormalizePayRate
<1>3. after = Write("REPAIR", rows, <<row>>)
  <2>1. <<row>> # <<>>
    BY RowInserted
  <2>. QED
    BY <2>1 DEF Terminate, Write
<1>. HIDE DEF row, after
<1>4. after \in Seq(PayRate) /\ Active(after) = {}
  <2>1. "REPAIR" # "CREATE"
    OBVIOUS
  <2>2. Write("REPAIR", rows, <<row>>) \in Seq(PayRate)
    BY <1>2, WriteRow
  <2>3. Active(Write("REPAIR", rows, <<row>>)) = {}
    BY <1>2, <2>1, InactiveLeavesNone
  <2>. QED
    BY <1>3, <2>2, <2>3
<1>5. RowsAreRight(after, TRUE)
  BY <1>4 DEF RowsAreRight, Active
<1>. QED
  BY <1>4, <1>5 DEF after

\* The rows of an employee after a repair: closed, or as they were.
LEMMA CommitStep ==
  ASSUME TypeOK, CommitRepair, NEW e \in Employees
  PROVE  \/ history'[e] = history[e]
         \/ /\ \E c \in repair.rows : c.emp = e
            /\ history'[e] \in Seq(PayRate)
            /\ Active(history'[e]) = {}
            /\ RowsAreRight(history'[e], TRUE)
<1>. DEFINE seen == {c \in repair.rows : c.emp = e}
<1>1. history'[e] = IF seen # {} THEN Terminate(e, history[e], TheRow(seen).rate)
                    ELSE history[e]
  BY DEF CommitRepair
<1>2. CASE seen # {}
  <2>1. TheRow(seen) \in seen
    BY <1>2 DEF TheRow
  <2>2. TheRow(seen).rate \in StoredRates /\ history[e] \in Seq(PayRate)
    BY <2>1 DEF TypeOK
  <2>. QED
    BY <1>1, <1>2, <2>2, TerminateType
<1>. QED
  BY <1>1, <1>2

LEMMA CallType ==
  ASSUME TypeOK, NEW k \in SyncKeys, NEW rate \in Rates,
         CallSucceeds(k, rate) \/ CallFails(k, rate)
  PROVE  /\ PayrollMoves(k, rate)
         /\ late' \subseteq late \cup {[key |-> k, rate |-> rate]}
         /\ faults' \in 0 .. MaxFaults /\ UNCHANGED repairs
<1>1. CASE CallSucceeds(k, rate)
  BY <1>1 DEF CallSucceeds, PayrollMoves, bounds, TypeOK
<1>2. CASE CallFails(k, rate)
  <2>1. faults' \in 0 .. MaxFaults /\ UNCHANGED repairs
    BY <1>2, EmployeeSyncAssumption DEF CallFails, Fault, TypeOK
  <2>. QED
    BY <1>2, <2>1 DEF CallFails, PayrollMoves
<1>. QED
  BY <1>1, <1>2

(***************************************************************************)
(* The steps, by what the invariants see of them: a request saves a        *)
(* change, ...                                                             *)
(***************************************************************************)
Saving(r, k, rate) ==
  /\ Saves(r, k, rate)
  /\ source' = [source EXCEPT ![k.emp] = IF k.act = "DELETE" THEN NoRecord ELSE rate]
  /\ IF k.act = "CREATE" THEN k.emp \notin issued /\ issued' = issued \cup {k.emp}
     ELSE source[k.emp] # NoRecord /\ UNCHANGED issued

\* ... a saved one, or its event, moves on, ...
Moving ==
  \A r \in Requests : /\ pc'[r] = "idle" <=> pc[r] = "idle"
                      /\ queue'[r] # "NONE" => queue[r] # "NONE" \/ pc[r] # "idle"

Standing == UNCHANGED <<source, issued, key, doc, adapters, repair, overlapped>>

\* ... one is called, or the retry or the repair goes on.
Calling(k, rate) ==
  /\ Standing /\ Moving
  /\ PayrollMoves(k, rate)
  /\ late' \subseteq late \cup {[key |-> k, rate |-> rate]}
  /\ \/ /\ \E r \in Requests : key[r] = k /\ doc[r] = rate
        /\ UNCHANGED retry
     \/ /\ [key |-> k, rate |-> rate] \in late
        /\ UNCHANGED retry
     \/ /\ retry.pc = "call" /\ retry.key = k /\ retry.rate = rate
        /\ \/ /\ adapters # {} => PayrollRuns(k, rate)
              /\ retry' = [retry EXCEPT !.pc = "mark"]
           \/ retry' = [retry EXCEPT !.pc = "next", !.key = NoKey, !.rate = 0]
  /\ late' \subseteq late \/ adapters # {}

LEMMA SavingType ==
  ASSUME TypeOK, NEW r \in Requests,
         CreateEmployee(r) \/ UpdateEmployee(r) \/ DeleteEmployee(r)
  PROVE  \E k \in SyncKeys, rate \in Rates : Saving(r, k, rate)
<1>1. CASE CreateEmployee(r)
  <2>1. PICK e \in Employees \ issued, corr \in Correlations, rate \in DocRates :
          /\ issued' = issued \cup {e}
          /\ source' = [source EXCEPT ![e] = rate]
          /\ Saves(r, [emp |-> e, act |-> "CREATE", corr |-> corr], rate)
    BY <1>1 DEF CreateEmployee
  <2>. DEFINE k == [emp |-> e, act |-> "CREATE", corr |-> corr]
  <2>2. k \in SyncKeys /\ k.emp = e /\ k.act = "CREATE" /\ "CREATE" # "DELETE"
    BY DEF SyncKeys, Actions
  <2>3. rate \in Rates
    BY EmployeeSyncAssumption
  <2>4. Saving(r, k, rate)
    BY <2>1, <2>2, <2>3 DEF Saving
  <2>. QED
    BY <2>2, <2>3, <2>4
<1>2. CASE UpdateEmployee(r)
  <2>1. PICK e \in Employees, corr \in Correlations, rate \in DocRates :
          /\ source[e] # NoRecord
          /\ source' = [source EXCEPT ![e] = rate]
          /\ Saves(r, [emp |-> e, act |-> "UPDATE", corr |-> corr], rate)
          /\ UNCHANGED issued
    BY <1>2 DEF UpdateEmployee
  <2>. DEFINE k == [emp |-> e, act |-> "UPDATE", corr |-> corr]
  <2>2. k \in SyncKeys /\ k.emp = e /\ k.act = "UPDATE"
    BY DEF SyncKeys, Actions
  <2>3. rate \in Rates
    BY EmployeeSyncAssumption
  <2>4. Saving(r, k, rate)
    BY <2>1, <2>2, <2>3 DEF Saving
  <2>. QED
    BY <2>2, <2>3, <2>4
<1>3. CASE DeleteEmployee(r)
  <2>1. PICK e \in Employees, corr \in Correlations :
          /\ source[e] # NoRecord
          /\ source' = [source EXCEPT ![e] = NoRecord]
          /\ Saves(r, [emp |-> e, act |-> "DELETE", corr |-> corr], 0)
          /\ UNCHANGED issued
    BY <1>3 DEF DeleteEmployee
  <2>. DEFINE k == [emp |-> e, act |-> "DELETE", corr |-> corr]
  <2>2. k \in SyncKeys /\ k.emp = e /\ k.act = "DELETE" /\ 0 \in Rates
    BY PayloadAssumption DEF SyncKeys, Actions
  <2>3. Saving(r, k, 0)
    BY <2>1, <2>2 DEF Saving
  <2>. QED
    BY <2>2, <2>3
<1>. QED
  BY <1>1, <1>2, <1>3

LEMMA NextCases ==
  ASSUME TypeOK, SentInv, Next
  PROVE  \/ \E r \in Requests, k \in SyncKeys, rate \in Rates : Saving(r, k, rate)
         \/ Standing /\ Moving /\ UNCHANGED <<payroll, late, retry>>
         \/ \E k \in SyncKeys, rate \in Rates : k \in SentKeys /\ Calling(k, rate)
         \/ StartRetry \/ (\E k \in SyncKeys : RetryNext(k)) \/ RetryMark \/ EndRetry
         \/ Repair
<1>. USE DEF Moving, Standing, sources, events, bounds
<1>1. \A r \in Requests : /\ doc[r] \in Rates
                          /\ key[r] # NoKey => key[r] \in SyncKeys /\ key[r] \in SentKeys
  BY DEF TypeOK, SentKeys
<1>2. ASSUME NEW r \in Requests, Enqueue(r) \/ EnqueueThrows(r)
      PROVE  Standing /\ Moving /\ UNCHANGED <<payroll, late, retry>>
  <2>1. pc' \in {[pc EXCEPT ![r] = "replied"], [pc EXCEPT ![r] = "fallback"]} /\ pc[r] = "saved"
    BY <1>2 DEF Enqueue, EnqueueThrows, Replies
  <2>2. queue' \in {queue, [queue EXCEPT ![r] = "OPEN"]}
    BY <1>2 DEF Enqueue, EnqueueThrows, EnqueuesEvent, Events!Enqueue
  <2>3. Moving
    BY <2>1, <2>2 DEF TypeOK, Events!TypeOK
  <2>. QED
    BY <1>2, <2>3 DEF Enqueue, EnqueueThrows, Replies, EnqueuesEvent, Events!Enqueue
<1>3. ASSUME NEW r \in Requests, HandlerDies(r)
      PROVE  Standing /\ Moving /\ UNCHANGED <<payroll, late, retry>>
  BY <1>3 DEF HandlerDies, TypeOK
<1>4. ASSUME NEW r \in Requests, SettleEvent(r) \/ ReopenEvent(r)
      PROVE  Standing /\ Moving /\ UNCHANGED <<payroll, late, retry>>
  BY <1>4 DEF SettleEvent, ReopenEvent, Events!Settle, Events!Reopen, TypeOK, Events!TypeOK
<1>5. ASSUME NEW r \in Requests, DirectSync(r) \/ DeliverEvent(r)
      PROVE  \E k \in SyncKeys, rate \in Rates : k \in SentKeys /\ Calling(k, rate)
  <2>1. key[r] # NoKey
    BY <1>5 DEF DirectSync, DeliverEvent, SentInv
  <2>2. key[r] \in SyncKeys /\ key[r] \in SentKeys /\ doc[r] \in Rates
    BY <1>1, <2>1
  <2>3. CallSucceeds(key[r], doc[r]) \/ CallFails(key[r], doc[r])
    BY <1>5 DEF DirectSync, DeliverEvent
  <2>4. /\ PayrollMoves(key[r], doc[r])
        /\ late' \subseteq late \cup {[key |-> key[r], rate |-> doc[r]]}
    BY <2>2, <2>3, CallType
  <2>5. late' \subseteq late \/ adapters # {}
    BY <2>3 DEF CallSucceeds, CallFails
  <2>6. UNCHANGED retry /\ Standing /\ Moving
    BY <1>5 DEF DirectSync, DeliverEvent, Replies, Events!Deliver, TypeOK
  <2>7. Calling(key[r], doc[r])
    BY <2>4, <2>5, <2>6 DEF Calling
  <2>. QED
    BY <2>2, <2>7
<1>6. ASSUME LateCall
      PROVE  \E k \in SyncKeys, rate \in Rates : k \in SentKeys /\ Calling(k, rate)
  <2>1. PICK c \in late : /\ late' = late \ {c} /\ PayrollRuns(c.key, c.rate)
                          /\ UNCHANGED <<sources, adapters, events, retry, repair, overlapped>>
    BY <1>6 DEF LateCall
  <2>2. c \in Calls /\ c.key \in SentKeys
    BY DEF TypeOK, SentInv
  <2>3. c.key \in SyncKeys /\ c.rate \in Rates /\ c = [key |-> c.key, rate |-> c.rate]
    BY <2>2 DEF Calls
  <2>4. Calling(c.key, c.rate)
    BY <2>1, <2>3 DEF Calling, PayrollMoves
  <2>. QED
    BY <2>2, <2>3, <2>4
<1>7. ASSUME RetryCall
      PROVE  \E k \in SyncKeys, rate \in Rates : k \in SentKeys /\ Calling(k, rate)
  <2>1. retry.pc = "call" /\ retry.key \in SentKeys /\ retry.rate \in Rates
    BY <1>7 DEF RetryCall, SentInv, TypeOK
  <2>2. retry.key \in SyncKeys
    BY <2>1 DEF TypeOK, SentKeys
  <2>3. CallSucceeds(retry.key, retry.rate) \/ CallFails(retry.key, retry.rate)
    BY <1>7 DEF RetryCall
  <2>4. /\ PayrollMoves(retry.key, retry.rate)
        /\ late' \subseteq late \cup {[key |-> retry.key, rate |-> retry.rate]}
    BY <2>1, <2>2, <2>3, CallType
  <2>5. late' \subseteq late \/ adapters # {}
    BY <2>3 DEF CallSucceeds, CallFails
  <2>6. \/ /\ adapters # {} => PayrollRuns(retry.key, retry.rate)
           /\ retry' = [retry EXCEPT !.pc = "mark"]
        \/ retry' = [retry EXCEPT !.pc = "next", !.key = NoKey, !.rate = 0]
    BY <1>7 DEF RetryCall, CallSucceeds
  <2>7. Standing /\ Moving
    BY <1>7 DEF RetryCall
  <2>8. Calling(retry.key, retry.rate)
    BY <2>1, <2>4, <2>5, <2>6, <2>7 DEF Calling
  <2>. QED
    BY <2>1, <2>2, <2>8
<1>. QED
  BY <1>2, <1>3, <1>4, <1>5, <1>6, <1>7, SavingType
  DEF Next, Handler, Worker, Retry

LEMMA PayrollType ==
  ASSUME TypeOK, NEW k \in SyncKeys, NEW rate \in Rates,
         CallSucceeds(k, rate) \/ CallFails(k, rate)
  PROVE  /\ history' \in [Employees -> Seq(PayRate)]
         /\ syncLog' \in [Keys -> {"NONE", "SUCCESS", "FAILED"}]
         /\ logged' \in Seq(SyncKeys)
         /\ late' \subseteq Calls
         /\ faults' \in 0 .. MaxFaults /\ repairs' \in 0 .. MaxRepairs
<1>1. /\ PayrollMoves(k, rate)
      /\ late' \subseteq late \cup {[key |-> k, rate |-> rate]}
      /\ faults' \in 0 .. MaxFaults /\ UNCHANGED repairs
  BY CallType
<1>2. late' \subseteq Calls /\ repairs' \in 0 .. MaxRepairs
  BY <1>1 DEF TypeOK, Calls
<1>. QED
  BY <1>1, <1>2, PayrollStep

LEMMA FaultType ==
  ASSUME faults \in 0 .. MaxFaults, repairs \in 0 .. MaxRepairs, Fault
  PROVE  faults' \in 0 .. MaxFaults /\ repairs' \in 0 .. MaxRepairs
  BY EmployeeSyncAssumption DEF Fault

\* A retry begins with mutations that were logged and are marked FAILED.
LEMMA TargetsFailed ==
  ASSUME TypeOK, NEW k \in RetryTargets
  PROVE  /\ k \in SyncKeys /\ k \in Keys /\ syncLog[k] = "FAILED"
         /\ \E i \in DOMAIN logged : logged[i] = k
<1>1. FailedBatch \subseteq FailedRows
  BY DEF FailedBatch
<1>2. PICK i \in FailedBatch : k = logged[i]
  BY DEF RetryTargets
<1>3. i \in DOMAIN logged /\ syncLog[logged[i]] = "FAILED"
  BY <1>1 DEF FailedRows
<1>4. logged[i] \in SyncKeys
  BY <1>3, ElementOfSeq DEF TypeOK
<1>. QED
  BY <1>2, <1>3, <1>4, KeyFacts

LEMMA TypeStep ==
  ASSUME TypeOK, SentInv, [Next]_vars
  PROVE  TypeOK'
<1>. USE DEF TypeOK, sources, events, payroll, bounds, Events!TypeOK, Events!States
<1>1. ASSUME NEW r \in Requests,
             CreateEmployee(r) \/ UpdateEmployee(r) \/ DeleteEmployee(r)
      PROVE  TypeOK'
  <2>1. PICK k \in SyncKeys, rate \in Rates : Saving(r, k, rate)
    BY <1>1, SavingType
  <2>2. k.emp \in Employees
    BY KeyFacts
  <2>. QED
    BY <2>1, <2>2 DEF Saving, Saves
<1>2. ASSUME NEW r \in Requests, Enqueue(r) \/ EnqueueThrows(r)
      PROVE  TypeOK'
  <2>1. key[r] \in SyncKeys
    BY <1>2 DEF Enqueue, EnqueueThrows, SentInv
  <2>2. key[r].emp \in Employees
    BY <2>1, KeyFacts
  <2>3. UNCHANGED events \/ EnqueuesEvent(r)
    BY <1>2 DEF Enqueue, EnqueueThrows
  <2>4. /\ queue' \in [Requests -> Events!States] /\ UNCHANGED accepted
        /\ newest' \in [Employees -> Requests \cup {NoRecord}]
    <3>1. CASE UNCHANGED events
      BY <3>1
    <3>2. CASE EnqueuesEvent(r)
      BY <2>2, <3>2 DEF EnqueuesEvent, Events!Enqueue
    <3>. QED
      BY <2>3, <3>1, <3>2
  <2>5. /\ pc' \in [Requests -> {"idle", "saved", "fallback", "replied", "lost"}]
        /\ reply' \in [Requests -> {"none", "QUEUED", "SUCCESS", "FAILED"}]
    BY <1>2 DEF Enqueue, EnqueueThrows, Replies
  <2>6. faults' \in 0 .. MaxFaults /\ repairs' \in 0 .. MaxRepairs
    BY <1>2, FaultType DEF Enqueue, EnqueueThrows
  <2>7. UNCHANGED <<source, issued, key, doc, adapters, payroll, late, retry, repair,
                    overlapped>>
    BY <1>2 DEF Enqueue, EnqueueThrows, Replies
  <2>. QED
    BY <2>4, <2>5, <2>6, <2>7
<1>3. ASSUME NEW r \in Requests, HandlerDies(r)
      PROVE  TypeOK'
  BY <1>3, FaultType DEF HandlerDies
<1>4. ASSUME NEW r \in Requests, SettleEvent(r) \/ ReopenEvent(r)
      PROVE  TypeOK'
  <2>1. queue' \in [Requests -> Events!States] /\ UNCHANGED accepted
    <3>1. CASE SettleEvent(r)
      BY <3>1 DEF SettleEvent, Events!Settle
    <3>2. CASE ReopenEvent(r)
      BY <3>2 DEF ReopenEvent, Events!Reopen
    <3>. QED
      BY <1>4, <3>1, <3>2
  <2>2. faults' \in 0 .. MaxFaults /\ repairs' \in 0 .. MaxRepairs
    BY <1>4, FaultType DEF SettleEvent, ReopenEvent
  <2>. QED
    BY <1>4, <2>1, <2>2 DEF SettleEvent, ReopenEvent
<1>5. ASSUME NEW r \in Requests, DirectSync(r) \/ DeliverEvent(r)
      PROVE  TypeOK'
  <2>1. key[r] \in SyncKeys /\ doc[r] \in Rates
    BY <1>5 DEF DirectSync, DeliverEvent, SentInv
  <2>2. CallSucceeds(key[r], doc[r]) \/ CallFails(key[r], doc[r])
    BY <1>5 DEF DirectSync, DeliverEvent
  <2>3. /\ history' \in [Employees -> Seq(PayRate)]
        /\ syncLog' \in [Keys -> {"NONE", "SUCCESS", "FAILED"}]
        /\ logged' \in Seq(SyncKeys)
        /\ late' \subseteq Calls
        /\ faults' \in 0 .. MaxFaults /\ repairs' \in 0 .. MaxRepairs
    BY <2>1, <2>2, PayrollType
  <2>4. CASE DirectSync(r)
    BY <2>3, <2>4 DEF DirectSync, Replies
  <2>5. CASE DeliverEvent(r)
    BY <2>3, <2>5 DEF DeliverEvent, Events!Deliver
  <2>. QED
    BY <1>5, <2>4, <2>5
<1>6. CASE LateCall
  <2>1. PICK c \in late : /\ late' = late \ {c} /\ PayrollRuns(c.key, c.rate)
                          /\ UNCHANGED <<sources, adapters, events, retry, repair, bounds,
                                         overlapped>>
    BY <1>6 DEF LateCall
  <2>2. c.key \in SyncKeys /\ c.rate \in Rates /\ PayrollMoves(c.key, c.rate)
    BY <2>1 DEF Calls, PayrollMoves
  <2>3. /\ history' \in [Employees -> Seq(PayRate)]
        /\ syncLog' \in [Keys -> {"NONE", "SUCCESS", "FAILED"}]
        /\ logged' \in Seq(SyncKeys)
    BY <2>2, PayrollStep
  <2>. QED
    BY <2>1, <2>3
<1>7. CASE RetryCall
  <2>1. retry.key \in SyncKeys /\ retry.rate \in Rates
    BY <1>7 DEF RetryCall, SentInv, SentKeys
  <2>2. CallSucceeds(retry.key, retry.rate) \/ CallFails(retry.key, retry.rate)
    BY <1>7 DEF RetryCall
  <2>3. /\ history' \in [Employees -> Seq(PayRate)]
        /\ syncLog' \in [Keys -> {"NONE", "SUCCESS", "FAILED"}]
        /\ logged' \in Seq(SyncKeys)
        /\ late' \subseteq Calls
        /\ faults' \in 0 .. MaxFaults /\ repairs' \in 0 .. MaxRepairs
    BY <2>1, <2>2, PayrollType
  <2>. QED
    BY <1>7, <2>3, PayloadAssumption DEF RetryCall
<1>8. CASE StartRetry
  <2>1. \A k \in RetryTargets : k \in SyncKeys
    BY TargetsFailed
  <2>. QED
    BY <1>8, <2>1 DEF StartRetry
<1>9. ASSUME NEW k \in SyncKeys, RetryNext(k)
      PROVE  TypeOK'
  <2>1. k.emp \in Employees /\ 0 \in Rates
    BY KeyFacts, PayloadAssumption
  <2>. QED
    BY <1>9, <2>1 DEF RetryNext
<1>10. CASE RetryMark
  BY <1>10, PayloadAssumption DEF RetryMark
<1>11. CASE EndRetry
  BY <1>11, PayloadAssumption DEF EndRetry, NoRetry
<1>12. CASE ReadSource
  BY <1>12, EmployeeSyncAssumption DEF ReadSource, Gone
<1>13. CASE ReadPayroll
  <2>1. repairs' \in 0 .. MaxRepairs
    BY <1>13, EmployeeSyncAssumption DEF ReadPayroll
  <2>2. repair' \in [pc : {"idle", "reading", "write"}, gone : SUBSET Employees,
                     rows : SUBSET [emp : Employees, rate : StoredRates]]
    <3>1. CASE Extra = {}
      BY <1>13, <3>1 DEF ReadPayroll, NoRepair
    <3>2. CASE Extra # {}
      <4>1. Extra \subseteq [emp : Employees, rate : StoredRates]
        BY CoverageType DEF Extra
      <4>2. repair' = [repair EXCEPT !.pc = "write", !.rows = Extra]
        BY <1>13, <3>2 DEF ReadPayroll
      <4>. QED
        BY <4>1, <4>2
    <3>. QED
      BY <3>1, <3>2
  <2>. QED
    BY <1>13, <2>1, <2>2 DEF ReadPayroll
<1>14. CASE CommitRepair
  <2>1. history' \in [Employees -> Seq(PayRate)]
    <3>1. DOMAIN history' = Employees /\ history' = [e \in Employees |-> history'[e]]
      BY <1>14 DEF CommitRepair
    <3>2. \A e \in Employees : history'[e] \in Seq(PayRate)
      BY <1>14, CommitStep
    <3>. QED
      BY <3>1, <3>2
  <2>. QED
    BY <1>14, <2>1 DEF CommitRepair, NoRepair
<1>15. CASE RollBackRepair
  BY <1>15, FaultType DEF RollBackRepair, NoRepair
<1>16. CASE UNCHANGED vars
  BY <1>16 DEF vars
<1>. QED
  BY <1>1, <1>2, <1>3, <1>4, <1>5, <1>6, <1>7, <1>8, <1>9, <1>10, <1>11, <1>12,
     <1>13, <1>14, <1>15, <1>16
  DEF Next, Handler, Worker, Retry, Repair

-----------------------------------------------------------------------------
(***************************************************************************)
(* What was sent, and whose id was issued.                                 *)
(***************************************************************************)
LEMMA SavingSent ==
  ASSUME TypeOK, NEW r \in Requests, NEW k \in SyncKeys, NEW rate \in Rates,
         Saving(r, k, rate), SentInv
  PROVE  SentKeys' = SentKeys \cup {k}
<1>1. pc[r] = "idle" /\ key' = [key EXCEPT ![r] = k] /\ key[r] = NoKey /\ k # NoKey
  BY KeyFacts DEF Saving, Saves, SentInv
<1>2. \A s \in Requests : key'[s] = IF s = r THEN k ELSE key[s]
  BY <1>1 DEF TypeOK
<1>. QED
  BY <1>1, <1>2 DEF SentKeys

LEMMA SentStep ==
  ASSUME TypeOK, SentInv, [Next]_vars
  PROVE  SentInv'
<1>. USE DEF SentInv
<1>1. ASSUME NEW r \in Requests, NEW k \in SyncKeys, NEW rate \in Rates, Saving(r, k, rate)
      PROVE  SentInv'
  <2>1. SentKeys' = SentKeys \cup {k}
    BY <1>1, SavingSent
  <2>2. \A s \in Requests : /\ pc'[s] = IF s = r THEN "saved" ELSE pc[s]
                            /\ key'[s] = IF s = r THEN k ELSE key[s]
    BY <1>1 DEF Saving, Saves, TypeOK
  <2>3. UNCHANGED <<queue, syncLog, logged, late, retry>>
    BY <1>1 DEF Saving, Saves, events, payroll
  <2>4. k # NoKey
    BY KeyFacts
  <2>. QED
    BY <2>1, <2>2, <2>3, <2>4
<1>2. CASE Standing /\ Moving /\ UNCHANGED <<payroll, late, retry>>
  <2>1. SentKeys' = SentKeys
    BY <1>2 DEF Standing, SentKeys
  <2>. QED
    BY <1>2, <2>1 DEF Standing, Moving, payroll
<1>3. ASSUME NEW k \in SyncKeys, NEW rate \in Rates, k \in SentKeys, Calling(k, rate)
      PROVE  SentInv'
  <2>1. SentKeys' = SentKeys
    BY <1>3 DEF Calling, Standing, SentKeys
  <2>2. \A s \in Requests : /\ pc'[s] = "idle" <=> key'[s] = NoKey
                            /\ queue'[s] # "NONE" => key'[s] # NoKey
    BY <1>3 DEF Calling, Standing, Moving
  <2>3. \A c \in late' : c.key \in SentKeys
    BY <1>3 DEF Calling
  <2>4. /\ retry'.targets \subseteq SentKeys
        /\ retry'.pc \in {"call", "mark"} => retry'.key \in SentKeys
        /\ retry'.pc \notin {"call", "mark"} => retry'.key = NoKey
    BY <1>3 DEF Calling, TypeOK
  <2>5. PayrollMoves(k, rate)
    BY <1>3 DEF Calling
  <2>6. /\ \A i \in DOMAIN logged' : logged'[i] \in SentKeys
        /\ \A j \in Keys : syncLog'[j] # "NONE" => j \in SentKeys
    BY <1>3, <2>5, PayrollStep
  <2>. QED
    BY <2>1, <2>2, <2>3, <2>4, <2>6
<1>4. ASSUME StartRetry \/ (\E k \in SyncKeys : RetryNext(k)) \/ RetryMark \/ EndRetry
      PROVE  SentInv'
  <2>1. UNCHANGED <<key, pc, queue, late, logged>>
    BY <1>4 DEF StartRetry, RetryNext, RetryMark, EndRetry, sources, events, payroll
  <2>2. SentKeys' = SentKeys
    BY <2>1 DEF SentKeys
  <2>3. /\ retry'.targets \subseteq SentKeys
        /\ retry'.pc \in {"call", "mark"} => retry'.key \in SentKeys
        /\ retry'.pc \notin {"call", "mark"} => retry'.key = NoKey
    <3>1. CASE StartRetry
      <4>1. \A k \in RetryTargets : k \in SentKeys
        BY TargetsFailed
      <4>. QED
        BY <3>1, <4>1 DEF StartRetry, TypeOK
    <3>2. ASSUME NEW k \in SyncKeys, RetryNext(k)
          PROVE  /\ retry'.targets \subseteq SentKeys
                 /\ retry'.pc \in {"call", "mark"} => retry'.key \in SentKeys
                 /\ retry'.pc \notin {"call", "mark"} => retry'.key = NoKey
      BY <3>2 DEF RetryNext, TypeOK
    <3>3. CASE RetryMark
      BY <3>3 DEF RetryMark, TypeOK
    <3>4. CASE EndRetry
      BY <3>4 DEF EndRetry, NoRetry, TypeOK
    <3>. QED
      BY <1>4, <3>1, <3>2, <3>3, <3>4
  <2>4. \A j \in Keys : syncLog'[j] # "NONE" => syncLog[j] # "NONE"
    <3>1. CASE RetryMark
      BY <3>1 DEF RetryMark
    <3>2. CASE UNCHANGED syncLog
      BY <3>2
    <3>. QED
      BY <1>4, <3>1, <3>2 DEF StartRetry, RetryNext, EndRetry, payroll
  <2>. QED
    BY <2>1, <2>2, <2>3, <2>4
<1>5. CASE Repair
  <2>1. UNCHANGED <<key, pc, queue, late, logged, retry, syncLog>>
    BY <1>5 DEF Repair, ReadSource, ReadPayroll, CommitRepair, RollBackRepair, sources,
                events, payroll
  <2>2. SentKeys' = SentKeys
    BY <2>1 DEF SentKeys
  <2>. QED
    BY <2>1, <2>2
<1>6. CASE UNCHANGED vars
  <2>1. SentKeys' = SentKeys
    BY <1>6 DEF vars, sources, SentKeys
  <2>. QED
    BY <1>6, <2>1 DEF vars, sources, events, payroll
<1>. QED
  BY <1>1, <1>2, <1>3, <1>4, <1>5, <1>6, NextCases

LEMMA IssuedStep ==
  ASSUME TypeOK, SentInv, IssuedInv, RepairInv, [Next]_vars
  PROVE  IssuedInv'
<1>. USE DEF IssuedInv
<1>1. ASSUME NEW r \in Requests, NEW k \in SyncKeys, NEW rate \in Rates, Saving(r, k, rate)
      PROVE  IssuedInv'
  <2>1. SentKeys' = SentKeys \cup {k}
    BY <1>1, SavingSent
  <2>2. /\ k.emp \in Employees /\ rate # NoRecord
        /\ \A j \in SentKeys : j.emp \in Employees
    BY KeyFacts DEF TypeOK, SentKeys
  <2>3. /\ \A e \in Employees :
             source'[e] = IF e = k.emp THEN (IF k.act = "DELETE" THEN NoRecord ELSE rate)
                          ELSE source[e]
        /\ UNCHANGED history
    BY <1>1 DEF Saving, Saves, payroll, TypeOK
  <2>4. CASE k.act = "CREATE"
    <3>1. k.emp \notin issued /\ issued' = issued \cup {k.emp}
      BY <1>1, <2>4 DEF Saving
    <3>. QED
      BY <2>1, <2>2, <2>3, <2>4, <3>1
  <2>5. CASE k.act # "CREATE"
    <3>1. source[k.emp] # NoRecord /\ issued' = issued
      BY <1>1, <2>5 DEF Saving
    <3>. QED
      BY <2>1, <2>2, <2>3, <3>1
  <2>. QED
    BY <2>4, <2>5
<1>2. CASE Standing /\ Moving /\ UNCHANGED <<payroll, late, retry>>
  BY <1>2 DEF Standing, SentKeys, payroll
<1>3. ASSUME NEW k \in SyncKeys, NEW rate \in Rates, k \in SentKeys, Calling(k, rate)
      PROVE  IssuedInv'
  <2>1. SentKeys' = SentKeys /\ UNCHANGED <<source, issued>> /\ PayrollMoves(k, rate)
    BY <1>3 DEF Calling, Standing, SentKeys
  <2>2. \A e \in Employees \ {k.emp} : history'[e] = history[e]
    BY <2>1, PayrollStep
  <2>3. k.emp \in issued
    BY <1>3
  <2>. QED
    BY <2>1, <2>2, <2>3
<1>4. CASE StartRetry \/ (\E k \in SyncKeys : RetryNext(k)) \/ RetryMark \/ EndRetry
  <2>1. UNCHANGED <<source, issued, key, history>>
    BY <1>4 DEF StartRetry, RetryNext, RetryMark, EndRetry, sources, payroll
  <2>. QED
    BY <2>1 DEF SentKeys
<1>5. CASE Repair
  <2>1. UNCHANGED <<source, issued, key>>
    BY <1>5 DEF Repair, ReadSource, ReadPayroll, CommitRepair, RollBackRepair, sources
  <2>2. SentKeys' = SentKeys
    BY <2>1 DEF SentKeys
  <2>3. CASE CommitRepair
    <3>1. \A e \in Employees : history'[e] = history[e] \/ \E c \in repair.rows : c.emp = e
      BY <2>3, CommitStep
    <3>2. \A c \in repair.rows : c.emp \in issued
      BY <2>3 DEF CommitRepair, RepairInv
    <3>. QED
      BY <2>1, <2>2, <3>1, <3>2
  <2>4. CASE UNCHANGED history
    BY <2>1, <2>2, <2>4
  <2>. QED
    BY <1>5, <2>3, <2>4 DEF Repair, ReadSource, ReadPayroll, RollBackRepair, payroll
<1>6. CASE UNCHANGED vars
  BY <1>6 DEF vars, sources, payroll, SentKeys
<1>. QED
  BY <1>1, <1>2, <1>3, <1>4, <1>5, <1>6, NextCases

-----------------------------------------------------------------------------
(***************************************************************************)
(* What the repair closes, what was marked, and which rows are there.      *)
(***************************************************************************)
LEMMA RepairStep ==
  ASSUME TypeOK, SentInv, IssuedInv, RepairInv, [Next]_vars
  PROVE  RepairInv'
<1>. USE DEF RepairInv
<1>1. ASSUME NEW r \in Requests, NEW k \in SyncKeys, NEW rate \in Rates, Saving(r, k, rate)
      PROVE  RepairInv'
  <2>1. UNCHANGED repair /\ k.emp \in Employees
    BY <1>1, KeyFacts DEF Saving, Saves
  <2>2. /\ issued \subseteq issued'
        /\ \A e \in issued : source[e] = NoRecord => source'[e] = NoRecord
    <3>1. \A e \in Employees : e # k.emp => source'[e] = source[e]
      BY <1>1 DEF Saving, TypeOK
    <3>2. IF k.act = "CREATE" THEN k.emp \notin issued /\ issued' = issued \cup {k.emp}
          ELSE source[k.emp] # NoRecord /\ issued' = issued
      BY <1>1 DEF Saving
    <3>3. issued \subseteq Employees
      BY DEF TypeOK
    <3>. QED
      BY <3>1, <3>2, <3>3
  <2>. QED
    BY <2>1, <2>2
<1>2. CASE Standing /\ Moving /\ UNCHANGED <<payroll, late, retry>>
  BY <1>2 DEF Standing
<1>3. ASSUME NEW k \in SyncKeys, NEW rate \in Rates, k \in SentKeys, Calling(k, rate)
      PROVE  RepairInv'
  BY <1>3 DEF Calling, Standing
<1>4. CASE StartRetry \/ (\E k \in SyncKeys : RetryNext(k)) \/ RetryMark \/ EndRetry
  BY <1>4 DEF StartRetry, RetryNext, RetryMark, EndRetry, sources
<1>5. CASE ReadSource
  BY <1>5 DEF ReadSource
<1>6. CASE ReadPayroll
  <2>1. /\ repair' = IF Extra = {} THEN NoRepair
                     ELSE [repair EXCEPT !.pc = "write", !.rows = Extra]
        /\ OneSnapshot => repair.gone = Gone
        /\ UNCHANGED <<source, issued>>
    BY <1>6 DEF ReadPayroll, sources
  <2>2. repair'.pc = "write" => \A c \in repair'.rows : c \in Coverage /\ c.emp \in repair.gone
    BY <2>1 DEF TypeOK, NoRepair, Extra
  <2>3. \A c \in Coverage : c.emp \in Employees /\ c.emp \in issued
    BY CoverageType DEF IssuedInv
  <2>4. \A e \in Gone : source[e] = NoRecord
    BY DEF Gone
  <2>. QED
    BY <2>1, <2>2, <2>3, <2>4
<1>7. CASE CommitRepair \/ RollBackRepair
  BY <1>7 DEF CommitRepair, RollBackRepair, NoRepair
<1>8. CASE UNCHANGED vars
  BY <1>8 DEF vars, sources
<1>. QED
  BY <1>1, <1>2, <1>3, <1>4, <1>5, <1>6, <1>7, <1>8, NextCases DEF Repair

LEMMA MarkStep ==
  ASSUME TypeOK, SentInv, MarkInv, [Next]_vars
  PROVE  MarkInv'
<1>. USE DEF MarkInv
<1>1. ASSUME NEW r \in Requests, NEW k \in SyncKeys, NEW rate \in Rates, Saving(r, k, rate)
      PROVE  MarkInv'
  BY <1>1 DEF Saving, Saves, payroll
<1>2. CASE Standing /\ Moving /\ UNCHANGED <<payroll, late, retry>>
  BY <1>2 DEF Standing, payroll
<1>3. ASSUME NEW k \in SyncKeys, NEW rate \in Rates, k \in SentKeys, Calling(k, rate)
      PROVE  MarkInv'
  <2>1. PayrollMoves(k, rate) /\ UNCHANGED adapters /\ k \in Keys
    BY <1>3, KeyFacts DEF Calling, Standing
  <2>2. /\ syncLog[k] = "SUCCESS" => syncLog'[k] = "SUCCESS"
        /\ \A j \in Keys \ {k} : syncLog'[j] = syncLog[j]
        /\ syncLog'[k] = "FAILED" => syncLog[k] = "FAILED" \/ adapters # {}
    BY <2>1, PayrollStep
  <2>3. retry'.pc # "idle" => retry.pc # "idle"
    BY <1>3 DEF Calling
  <2>4. retry'.pc = "mark" => syncLog'[retry'.key] = "SUCCESS"
    <3>1. CASE UNCHANGED retry
      <4>1. retry.pc = "mark" => retry.key \in Keys
        BY KeyFacts DEF SentInv, SentKeys, TypeOK
      <4>. QED
        BY <2>2, <3>1, <4>1
    <3>2. CASE retry.pc = "call" /\ retry.key = k /\ PayrollRuns(k, rate)
               /\ retry' = [retry EXCEPT !.pc = "mark"]
      <4>1. retry'.key = k
        BY <3>2 DEF TypeOK
      <4>2. CASE syncLog[k] = "SUCCESS"
        BY <2>2, <4>1, <4>2
      <4>3. CASE syncLog[k] # "SUCCESS"
        BY <2>1, <3>2, <4>1, <4>3 DEF PayrollRuns, Ledger!Apply, TypeOK
      <4>. QED
        BY <4>2, <4>3
    <3>3. CASE retry' = [retry EXCEPT !.pc = "next", !.key = NoKey, !.rate = 0]
      BY <3>3 DEF TypeOK
    <3>. QED
      BY <1>3, <3>1, <3>2, <3>3 DEF Calling
  <2>. QED
    BY <2>1, <2>2, <2>3, <2>4
<1>4. CASE StartRetry
  <2>1. \E k \in Keys : syncLog[k] = "FAILED"
    BY <1>4, TargetsFailed DEF StartRetry
  <2>2. UNCHANGED <<adapters, syncLog>> /\ retry'.pc = "next"
    BY <1>4 DEF StartRetry, payroll, TypeOK
  <2>. QED
    BY <2>1, <2>2
<1>5. CASE (\E k \in SyncKeys : RetryNext(k)) \/ EndRetry
  <2>1. UNCHANGED <<adapters, syncLog>>
    BY <1>5 DEF RetryNext, EndRetry, payroll
  <2>2. retry.pc = "next" /\ retry'.pc # "mark"
    <3>1. ASSUME NEW k \in SyncKeys, RetryNext(k)
          PROVE  retry.pc = "next" /\ retry'.pc # "mark"
      BY <3>1 DEF RetryNext, TypeOK
    <3>2. ASSUME EndRetry
          PROVE  retry.pc = "next" /\ retry'.pc # "mark"
      BY <3>2 DEF EndRetry, NoRetry
    <3>. QED
      BY <1>5, <3>1, <3>2
  <2>. QED
    BY <2>1, <2>2
<1>6. CASE RetryMark
  <2>1. adapters # {} /\ UNCHANGED adapters /\ retry'.pc = "next"
    BY <1>6 DEF RetryMark, TypeOK
  <2>. QED
    BY <2>1
<1>7. CASE Repair
  BY <1>7 DEF Repair, ReadSource, ReadPayroll, CommitRepair, RollBackRepair, payroll
<1>8. CASE UNCHANGED vars
  BY <1>8 DEF vars, payroll
<1>. QED
  BY <1>1, <1>2, <1>3, <1>4, <1>5, <1>6, <1>7, <1>8, NextCases

LEMMA RowsStep ==
  ASSUME OneSnapshot, TypeOK, SentInv, IssuedInv, RepairInv, RowsInv, [Next]_vars
  PROVE  RowsInv'
<1>. USE DEF RowsInv
<1>1. ASSUME NEW r \in Requests, NEW k \in SyncKeys, NEW rate \in Rates, Saving(r, k, rate)
      PROVE  RowsInv'
  <2>1. UNCHANGED history /\ k.emp \in Employees /\ rate # NoRecord
    BY <1>1, KeyFacts DEF Saving, Saves, payroll
  <2>2. ASSUME NEW e \in Employees
        PROVE  RowsAreRight(history[e], source'[e] = NoRecord)
    <3>1. CASE history[e] = <<>>
      BY <3>1 DEF RowsAreRight
    <3>2. CASE history[e] # <<>> /\ (source[e] = NoRecord => source'[e] = NoRecord)
      BY <3>2 DEF RowsAreRight
    <3>3. CASE history[e] # <<>> /\ source[e] = NoRecord /\ source'[e] # NoRecord
      <4>1. e = k.emp
        BY <1>1, <3>3 DEF Saving, TypeOK
      <4>2. e \in issued
        BY <3>3 DEF IssuedInv
      <4>. QED
        BY <1>1, <3>3, <4>1, <4>2 DEF Saving
    <3>. QED
      BY <3>1, <3>2, <3>3
  <2>. QED
    BY <2>1, <2>2
<1>2. CASE Standing /\ Moving /\ UNCHANGED <<payroll, late, retry>>
  BY <1>2 DEF Standing, payroll
<1>3. ASSUME NEW k \in SyncKeys, NEW rate \in Rates, k \in SentKeys, Calling(k, rate)
      PROVE  RowsInv'
  <2>1. PayrollMoves(k, rate) /\ UNCHANGED source /\ k.emp \in Employees
    BY <1>3, KeyFacts DEF Calling, Standing
  <2>2. \A e \in Employees \ {k.emp} : history'[e] = history[e]
    BY <2>1, PayrollStep
  <2>3. history'[k.emp] \in {history[k.emp], Applied(k, rate, history[k.emp])}
    BY <2>1, PayrollStep
  <2>4. RowsAreRight(Applied(k, rate, history[k.emp]), source[k.emp] = NoRecord)
    <3>. DEFINE mayEnd == source[k.emp] = NoRecord
    <3>1. /\ k \in Keys /\ Payload(rate) \in Payloads
          /\ k.act \in {"CREATE", "UPDATE", "DELETE"}
          /\ history[k.emp] \in Seq(PayRate)
      BY <2>1, KeyFacts DEF Actions, TypeOK
    <3>2. RowsAreRight(history[k.emp], mayEnd) /\ (k.act = "DELETE" => mayEnd)
      BY <1>3, <2>1 DEF IssuedInv
    <3>. HIDE DEF mayEnd
    <3>3. RowsAreRight(Applied(k, rate, history[k.emp]), mayEnd)
      BY <3>1, <3>2, HandledRowsAreRight DEF Applied
    <3>. QED
      BY <3>3 DEF mayEnd
  <2>5. RowsAreRight(history'[k.emp], source[k.emp] = NoRecord)
    BY <2>1, <2>3, <2>4
  <2>. QED
    BY <2>1, <2>2, <2>5
<1>4. CASE StartRetry \/ (\E k \in SyncKeys : RetryNext(k)) \/ RetryMark \/ EndRetry
  BY <1>4 DEF StartRetry, RetryNext, RetryMark, EndRetry, sources, payroll
<1>5. CASE ReadSource \/ ReadPayroll \/ RollBackRepair
  BY <1>5 DEF ReadSource, ReadPayroll, RollBackRepair, sources, payroll
<1>6. CASE CommitRepair
  <2>1. UNCHANGED source
    BY <1>6 DEF CommitRepair, sources
  <2>2. ASSUME NEW e \in Employees
        PROVE  RowsAreRight(history'[e], source[e] = NoRecord)
    <3>1. CASE history'[e] = history[e]
      BY <3>1
    <3>2. CASE /\ \E c \in repair.rows : c.emp = e
               /\ RowsAreRight(history'[e], TRUE)
      <4>1. source[e] = NoRecord
        BY <1>6, <3>2 DEF CommitRepair, RepairInv
      <4>. QED
        BY <3>2, <4>1 DEF RowsAreRight
    <3>. QED
      BY <1>6, <3>1, <3>2, CommitStep
  <2>. QED
    BY <2>1, <2>2
<1>7. CASE UNCHANGED vars
  BY <1>7 DEF vars, sources, payroll
<1>. QED
  BY <1>1, <1>2, <1>3, <1>4, <1>5, <1>6, <1>7, NextCases DEF Repair

LEMMA InitSafe == Init => SafeInv
<1>. SUFFICES ASSUME Init PROVE SafeInv
  OBVIOUS
<1>1. TypeOK
  BY InitType
<1>2. /\ SentKeys = {} /\ retry.pc = "idle" /\ retry.key = NoKey /\ retry.targets = {}
      /\ repair.pc = "idle"
  BY DEF Init, SentKeys, NoRetry, NoRepair
<1>3. /\ \A k \in Keys : syncLog[k] = "NONE"
      /\ \A e \in Employees : history[e] = <<>> /\ source[e] = NoRecord
      /\ DOMAIN logged = {} /\ late = {}
      /\ \A r \in Requests : pc[r] = "idle" /\ key[r] = NoKey /\ queue[r] = "NONE"
  BY DEF Init, Ledger!Init, Events!Init
<1>4. SentInv /\ IssuedInv /\ MarkInv /\ RepairInv
  BY <1>2, <1>3 DEF SentInv, IssuedInv, MarkInv, RepairInv
<1>5. RowsInv
  BY <1>3 DEF RowsInv, RowsAreRight
<1>. QED
  BY <1>1, <1>4, <1>5 DEF SafeInv

LEMMA SafeStep == SafeInv /\ [Next]_vars => SafeInv'
<1>. SUFFICES ASSUME SafeInv, [Next]_vars PROVE SafeInv'
  OBVIOUS
<1>1. TypeOK' /\ SentInv' /\ IssuedInv' /\ RepairInv' /\ MarkInv'
  BY TypeStep, SentStep, IssuedStep, RepairStep, MarkStep DEF SafeInv
<1>2. OneSnapshot => RowsInv'
  BY RowsStep DEF SafeInv
<1>. QED
  BY <1>1, <1>2 DEF SafeInv

(***************************************************************************)
(* The types are right, what is called or retried was saved by a request   *)
(* whose employee id was issued, a deleted employee does not come back,    *)
(* and a retry marks nothing that Payroll did not take.                    *)
(***************************************************************************)
THEOREM EmployeeSyncSafety == Spec => []SafeInv
<1>. QED
  BY InitSafe, SafeStep, PTL DEF Spec

-----------------------------------------------------------------------------
(***************************************************************************)
(* What the judgments are worth.                                           *)
(***************************************************************************)
\* A row that is current is active, and the only one.
LEMMA CurrentRow ==
  ASSUME NEW rows \in Seq(PayRate), NEW row \in CurrentRate(rows)
  PROVE  /\ \E i \in Active(rows) : row = rows[i]
         /\ TheRow(CurrentRate(rows)) = row
<1>1. Active(rows) \subseteq Nat
  BY LenProperties DEF Active
<1>2. \A i, j \in Nat : i <= j /\ j <= i => i = j
  OBVIOUS
<1>3. \A found \in CurrentRate(rows) : found = row
  BY <1>1, <1>2 DEF CurrentRate
<1>4. TheRow(CurrentRate(rows)) = row
  BY <1>3 DEF TheRow
<1>. QED
  BY <1>4 DEF CurrentRate

\* A stage of Payroll that says TERMINATED says that the employee is gone.
LEMMA TerminatedIsGone ==
  ASSUME TypeOK, RowsInv, NEW e \in Employees, PayrollStage(e) = "TERMINATED"
  PROVE  source[e] = NoRecord /\ Active(history[e]) = {}
<1>. DEFINE current == CurrentRate(history[e])
            shown == IF current # {} THEN current ELSE LatestRate(history[e])
<1>1. history[e] \in Seq(PayRate) /\ RowsAreRight(history[e], source[e] = NoRecord)
  BY DEF TypeOK, RowsInv
<1>2. PICK row \in shown : row.type = "TERMINATED"
  BY DEF PayrollStage
<1>3. CASE current # {}
  <2>1. PICK i \in Active(history[e]) : row = history[e][i]
    BY <1>1, <1>2, <1>3, CurrentRow
  <2>. QED
    BY <1>1, <1>2, <2>1 DEF RowsAreRight, Active
<1>4. CASE current = {}
  <2>1. Active(history[e]) = {}
    BY <1>1, <1>4, CurrentExists
  <2>2. history[e] # <<>> /\ row = history[e][Len(history[e])]
    BY <1>2, <1>4 DEF LatestRate
  <2>3. Len(history[e]) \in DOMAIN history[e]
    BY <1>1, <2>2, EmptySeq, LenProperties
  <2>. QED
    BY <1>1, <1>2, <2>1, <2>2, <2>3 DEF RowsAreRight
<1>. QED
  BY <1>3, <1>4

LEMMA HealthyIsAligned ==
  ASSUME TypeOK, RowsInv
  PROVE  HealthyMeansAligned
<1>. SUFFICES ASSUME NEW e \in issued, Overall(e) = "healthy"
              PROVE  Aligned(e)
  BY DEF HealthyMeansAligned
<1>1. e \in Employees /\ history[e] \in Seq(PayRate)
  BY DEF TypeOK
<1>2. /\ PayrollStage(e) \notin {"FAILED", "DRIFT", "MISSING"}
      /\ ~ (SourceStage(e) = "ABSENT" /\ PayrollStage(e) = "CURRENT")
  BY DEF Overall
<1>3. CASE PayrollStage(e) = "TERMINATED"
  BY <1>1, <1>3, TerminatedIsGone DEF Aligned
<1>4. CASE PayrollStage(e) # "TERMINATED"
  <2>1. source[e] = NoRecord \/ \E row \in CurrentRate(history[e]) : row.rate = source[e]
    BY <1>2, <1>4 DEF PayrollStage
  <2>2. PayrollStage(e) = "CURRENT"
    BY <1>2, <1>4 DEF PayrollStage
  <2>. QED
    BY <1>2, <2>1, <2>2 DEF SourceStage, Aligned
<1>. QED
  BY <1>3, <1>4

(***************************************************************************)
(* HealthyMeansAligned for any employees, requests and correlation ids,    *)
(* and any number of faults.                                               *)
(***************************************************************************)
THEOREM HealthyEvidenceIsRight == OneSnapshot /\ Spec => []HealthyMeansAligned
<1>. SUFFICES ASSUME OneSnapshot PROVE Spec => []HealthyMeansAligned
  OBVIOUS
<1>1. SafeInv => HealthyMeansAligned
  BY HealthyIsAligned DEF SafeInv
<1>. QED
  BY <1>1, EmployeeSyncSafety, PTL

LEMMA NoIssues ==
  ASSUME TypeOK, IssueCount = 0
  PROVE  /\ Recorded \subseteq Covered /\ Covered \subseteq Recorded
         /\ Duplicates = {} /\ PayRateMismatch = {}
<1>. DEFINE a == Recorded \ Covered
            b == Covered \ Recorded
            c == Duplicates
            d == PayRateMismatch
<1>1. /\ a \subseteq Employees /\ b \subseteq Employees /\ c \subseteq Employees
      /\ d \subseteq Employees
  BY DEF Recorded, Covered, Duplicates, PayRateMismatch
<1>2. IsFiniteSet(Employees)
  BY EmployeeSyncAssumption
<1>3. IsFiniteSet(a) /\ IsFiniteSet(b) /\ IsFiniteSet(c) /\ IsFiniteSet(d)
  BY <1>1, <1>2, FS_Subset
<1>4. Cardinality(a) + Cardinality(b) + Cardinality(c) + Cardinality(d) = 0
  BY DEF IssueCount
<1>. HIDE DEF a, b, c, d
<1>5. /\ Cardinality(a) \in Nat /\ Cardinality(b) \in Nat /\ Cardinality(c) \in Nat
      /\ Cardinality(d) \in Nat
  BY <1>3, FS_CardinalityType
<1>6. Cardinality(a) = 0 /\ Cardinality(b) = 0 /\ Cardinality(c) = 0 /\ Cardinality(d) = 0
  <2>1. \A w, x, y, z \in Nat : w + x + y + z = 0 => w = 0 /\ x = 0 /\ y = 0 /\ z = 0
    OBVIOUS
  <2>. QED
    BY <1>4, <1>5, <2>1, Zenon
<1>7. a = {} /\ b = {} /\ c = {} /\ d = {}
  BY <1>3, <1>6, FS_EmptySet
<1>. QED
  BY <1>7 DEF a, b, c, d

\* A set that holds i and has no more than one element is {i}.
LEMMA OneElement ==
  ASSUME NEW S, IsFiniteSet(S), ~ (Cardinality(S) > 1), NEW i \in S
  PROVE  S = {i}
<1>1. Cardinality(S) \in Nat /\ IsFiniteSet({i}) /\ Cardinality({i}) = 1
  BY FS_CardinalityType, FS_Singleton
<1>2. Cardinality({i}) <= Cardinality(S)
  BY FS_Subset
<1>3. Cardinality(S) = Cardinality({i})
  BY <1>1, <1>2
<1>. QED
  BY <1>3, FS_Subset

\* Without duplicates, a covered employee has one active row.
LEMMA OneActiveRow ==
  ASSUME TypeOK, RowsInv, Duplicates = {}, NEW e \in Covered
  PROVE  \E i \in Active(history[e]) : Active(history[e]) = {i}
<1>. DEFINE counted == {i \in Active(history[e]) : history[e][i].type # "TERMINATED"}
<1>1. e \in Employees
  BY DEF Covered
<1>2. history[e] \in Seq(PayRate) /\ RowsAreRight(history[e], source[e] = NoRecord)
  BY <1>1 DEF TypeOK, RowsInv
<1>3. counted = Active(history[e])
  BY <1>2 DEF RowsAreRight, Active
<1>4. ~ (Cardinality(counted) > 1)
  BY <1>1 DEF Duplicates
<1>5. PICK i \in Active(history[e]) : TRUE
  BY DEF Covered
<1>6. IsFiniteSet(Active(history[e]))
  <2>1. Active(history[e]) \subseteq 1 .. Len(history[e]) /\ Len(history[e]) \in Nat
    BY <1>2, LenProperties DEF Active
  <2>2. IsFiniteSet(1 .. Len(history[e]))
    BY <2>1, FS_Interval
  <2>. QED
    BY <2>1, <2>2, FS_Subset
<1>. HIDE DEF counted
<1>7. ~ (Cardinality(Active(history[e])) > 1)
  BY <1>3, <1>4
<1>8. Active(history[e]) = {i}
  BY <1>5, <1>6, <1>7, OneElement
<1>. QED
  BY <1>5, <1>8

\* Without an issue, a recorded employee has one active row, right to the cent.
LEMMA RightToTheCent ==
  ASSUME TypeOK, RowsInv, IssueCount = 0, NEW e \in Employees, source[e] # NoRecord
  PROVE  \E i \in Active(history[e]) :
           /\ Active(history[e]) = {i}
           /\ history[e][i] \in PayRate
           /\ CurrentRate(history[e]) = {history[e][i]}
           /\ history[e][i].rate = NormalizePayRate(source[e])
<1>. DEFINE current == CurrentRate(history[e])
<1>1. history[e] \in Seq(PayRate)
  BY DEF TypeOK
<1>2. /\ Recorded \subseteq Covered /\ Covered \subseteq Recorded
      /\ Duplicates = {} /\ PayRateMismatch = {}
  BY NoIssues
<1>3. e \in Covered
  BY <1>2 DEF Recorded
<1>4. PICK i \in Active(history[e]) : Active(history[e]) = {i}
  BY <1>2, <1>3, OneActiveRow
<1>5. i \in DOMAIN history[e] /\ history[e][i] \in PayRate
  BY <1>1, <1>4, ElementOfSeq DEF Active
<1>6. current = {history[e][i]}
  <2>1. i \in Int
    BY <1>1, <1>5, LenProperties
  <2>. QED
    BY <1>4, <2>1 DEF CurrentRate
<1>7. RateOr0(current) = history[e][i].rate
  BY <1>6 DEF RateOr0, TheRow
<1>8. NormalizePayRate(RateOr0(current)) = NormalizePayRate(source[e])
  BY <1>2, <1>3 DEF PayRateMismatch, Recorded
<1>9. NormalizePayRate(history[e][i].rate) = history[e][i].rate
  BY <1>5, FixedAssumption DEF NormalizePayRate, PayRate
<1>. QED
  BY <1>4, <1>5, <1>6, <1>7, <1>8, <1>9

LEMMA NoIssuesToTheCent ==
  ASSUME TypeOK, RowsInv
  PROVE  ReconciledToTheCent
<1>. SUFFICES ASSUME IssueCount = 0, NEW e \in issued
              PROVE  /\ PayrollStage(e) \in {"CURRENT", "DRIFT"} <=> SourceStage(e) = "PRESENT"
                     /\ e \in Recorded =>
                          /\ \E i \in Active(history[e]) :
                               /\ Active(history[e]) = {i}
                               /\ history[e][i].rate = NormalizePayRate(source[e])
                          /\ PayrollStage(e) = "DRIFT" <=> NormalizePayRate(source[e]) # source[e]
  BY DEF ReconciledToTheCent
<1>1. /\ e \in Employees /\ history[e] \in Seq(PayRate)
      /\ RowsAreRight(history[e], source[e] = NoRecord)
  BY DEF TypeOK, RowsInv
<1>2. CASE source[e] = NoRecord
  <2>1. Covered \subseteq Recorded
    BY NoIssues
  <2>2. Active(history[e]) = {}
    BY <1>1, <1>2, <2>1 DEF Recorded, Covered, RowsAreRight, Active
  <2>3. CurrentRate(history[e]) = {}
    BY <2>2 DEF CurrentRate
  <2>4. PayrollStage(e) \notin {"CURRENT", "DRIFT"}
    BY <2>3 DEF PayrollStage
  <2>. QED
    BY <1>2, <2>4 DEF SourceStage, Recorded
<1>3. CASE source[e] # NoRecord
  <2>1. PICK i \in Active(history[e]) :
          /\ Active(history[e]) = {i}
          /\ history[e][i] \in PayRate
          /\ CurrentRate(history[e]) = {history[e][i]}
          /\ history[e][i].rate = NormalizePayRate(source[e])
    BY <1>1, <1>3, RightToTheCent
  <2>2. PayrollStage(e) # "TERMINATED"
    BY <1>1, <1>3, TerminatedIsGone
  <2>3. PayrollStage(e) = IF history[e][i].rate = source[e] THEN "CURRENT" ELSE "DRIFT"
    BY <1>3, <2>1, <2>2 DEF PayrollStage
  <2>. QED
    BY <1>3, <2>1, <2>3 DEF SourceStage
<1>. QED
  BY <1>2, <1>3

(***************************************************************************)
(* ReconciledToTheCent, for any number of employees, and any two roundings *)
(* that keep what has two decimals.                                        *)
(***************************************************************************)
THEOREM ReconciliationIsRight == OneSnapshot /\ Spec => []ReconciledToTheCent
<1>. SUFFICES ASSUME OneSnapshot PROVE Spec => []ReconciledToTheCent
  OBVIOUS
<1>1. SafeInv => ReconciledToTheCent
  BY NoIssuesToTheCent DEF SafeInv
<1>. QED
  BY <1>1, EmployeeSyncSafety, PTL

LEMMA RepairCloses ==
  ASSUME OneSnapshot, SafeInv, [Next]_vars, NEW e \in Employees,
         Active(history[e]) # {}, Active(history'[e]) = {},
         repair.pc = "write", repair'.pc = "idle"
  PROVE  source[e] = NoRecord
<1>1. history'[e] # history[e] /\ repair' # repair
  OBVIOUS
<1>2. CASE CommitRepair
  <2>1. TypeOK /\ RepairInv
    BY DEF SafeInv
  <2>2. PICK c \in repair.rows : c.emp = e
    BY <1>1, <1>2, <2>1, CommitStep
  <2>. QED
    BY <2>1, <2>2 DEF RepairInv
<1>3. CASE RollBackRepair \/ ReadSource \/ ReadPayroll
  BY <1>1, <1>3 DEF RollBackRepair, ReadSource, ReadPayroll, payroll
<1>4. ASSUME NEW r \in Requests, NEW k \in SyncKeys, NEW rate \in Rates, Saving(r, k, rate)
      PROVE  FALSE
  BY <1>1, <1>4 DEF Saving, Saves
<1>5. ASSUME NEW k \in SyncKeys, NEW rate \in Rates, Calling(k, rate)
      PROVE  FALSE
  BY <1>1, <1>5 DEF Calling, Standing
<1>6. CASE \/ StartRetry \/ (\E k \in SyncKeys : RetryNext(k)) \/ RetryMark \/ EndRetry
           \/ Standing \/ UNCHANGED vars
  BY <1>1, <1>6 DEF StartRetry, RetryNext, RetryMark, EndRetry, Standing, vars
<1>. QED
  BY <1>2, <1>3, <1>4, <1>5, <1>6, NextCases DEF SafeInv, Repair

(***************************************************************************)
(* RepairClosesOnlyDeleted, for any number of employees, whatever happens  *)
(* between the reads of a repair and its commit.                           *)
(***************************************************************************)
THEOREM RepairIsRight == OneSnapshot /\ Spec => RepairClosesOnlyDeleted
<1>. SUFFICES ASSUME OneSnapshot PROVE Spec => RepairClosesOnlyDeleted
  OBVIOUS
<1>1. SafeInv /\ [Next]_vars =>
        [\A e \in Employees :
           (Active(history[e]) # {} /\ Active(history'[e]) = {} /\ repair.pc = "write"
              /\ repair'.pc = "idle")
           => source[e] = NoRecord]_vars
  BY RepairCloses
<1>. QED
  BY <1>1, EmployeeSyncSafety, PTL DEF Spec, RepairClosesOnlyDeleted

-----------------------------------------------------------------------------
(***************************************************************************)
(* Quiet employees: the last change of an employee, and what is known of   *)
(* it until the next one.                                                  *)
(***************************************************************************)
\* The mutations of an employee that were sent are those of its requests.
LEMMA SentOf ==
  ASSUME TypeOK, NEW k \in SentKeys
  PROVE  /\ k \in SyncKeys /\ k \in Keys /\ k.emp \in Employees
         /\ \E s \in Of(k.emp) : key[s] = k
<1>1. PICK s \in Requests : key[s] = k /\ k # NoKey
  BY DEF SentKeys
<1>2. k \in SyncKeys
  BY <1>1 DEF TypeOK
<1>. QED
  BY <1>1, <1>2, KeyFacts DEF Of

LEMMA OfFacts ==
  ASSUME TypeOK, NEW e, NEW s \in Of(e)
  PROVE  /\ s \in Requests /\ key[s] \in SyncKeys /\ key[s] \in Keys /\ key[s] # NoKey
         /\ key[s].emp = e /\ e \in Employees /\ doc[s] \in Rates /\ doc[s] # NoRecord
  BY KeyFacts DEF Of, TypeOK

\* Applying the last change delivers it.
LEMMA AppliedDelivers ==
  ASSUME TypeOK, NEW e, NEW q, LastChange(e, q), NEW rate \in Rates,
         syncLog[key[q]] # "SUCCESS",
         key[q].act # "DELETE" => rate = doc[q],
         UNCHANGED source, history'[e] = Applied(key[q], rate, history[e])
  PROVE  Delivered(e)'
<1>. DEFINE k == key[q]
            rows == history[e]
            payload == Payload(rate)
            after == Write(k.act, rows, Handle(k.act, k, payload, rows))
<1>1. /\ k \in SyncKeys /\ k \in Keys /\ e \in Employees /\ doc[q] # NoRecord
  BY OfFacts DEF LastChange
<1>2. /\ k.act \in {"CREATE", "UPDATE", "DELETE"} /\ rows \in Seq(PayRate)
      /\ payload \in Payloads /\ payload.rate = rate /\ rate # Absent
  BY <1>1, KeyFacts DEF Actions, TypeOK
<1>3. k.act = "CREATE" => Active(rows) = {}
  BY DEF LastChange
<1>4. history'[e] = after
  BY DEF Applied
<1>5. source'[e] = IF k.act = "DELETE" THEN NoRecord ELSE rate
  BY DEF LastChange
<1>. HIDE DEF k, rows, payload, after
<1>6. IF k.act = "DELETE" THEN Active(after) = {}
      ELSE \E row \in CurrentRate(after) : row.rate = Stored[payload.rate]
  BY <1>1, <1>2, <1>3, HandledIsCurrent DEF after
<1>7. k.act # "DELETE" => rate # NoRecord
  BY <1>1, KeyFacts
<1>. QED
  BY <1>2, <1>4, <1>5, <1>6, <1>7 DEF Delivered

LEMMA SavingQuiet ==
  ASSUME SafeInv, QuietInv, NEW r \in Requests, NEW k \in SyncKeys, NEW rate \in Rates,
         Saving(r, k, rate), NEW e \in issued' \ overlapped', Own(e)'
  PROVE  \E q \in Of(e)' : LastChange(e, q)'
<1>1. /\ TypeOK /\ SentInv /\ IssuedInv
  BY DEF SafeInv
<1>2. /\ key[r] = NoKey /\ k # NoKey /\ k.emp \in Employees
      /\ \A s \in Requests : /\ key'[s] = IF s = r THEN k ELSE key[s]
                             /\ doc'[s] = IF s = r THEN rate ELSE doc[s]
      /\ \A d \in Employees :
           source'[d] = IF d = k.emp THEN (IF k.act = "DELETE" THEN NoRecord ELSE rate)
                        ELSE source[d]
  BY <1>1, KeyFacts DEF Saving, Saves, TypeOK, SentInv
<1>3. UNCHANGED <<history, syncLog, late, retry>>
  BY DEF Saving, Saves, payroll
<1>4. overlapped' = IF Unsettled(k.emp) THEN overlapped \cup {k.emp} ELSE overlapped
  BY DEF Saving, Saves
<1>5. CASE e # k.emp
  <2>1. Of(e)' = Of(e) /\ r \notin Of(e)
    BY <1>2, <1>5 DEF Of
  <2>2. \A s \in Of(e) : s \in Requests /\ key'[s] = key[s] /\ doc'[s] = doc[s]
    BY <1>2, <2>1 DEF Of
  <2>3. Own(e)
    BY <2>1, <2>2 DEF Own
  <2>4. e \in issued \ overlapped /\ e \in Employees
    BY <1>1, <1>4, <1>5 DEF Saving, TypeOK
  <2>5. PICK q \in Of(e) : LastChange(e, q)
    BY <2>3, <2>4 DEF QuietInv
  <2>6. source'[e] = source[e] /\ (Delivered(e) => Delivered(e)')
    BY <1>2, <1>3, <1>5, <2>4 DEF Delivered
  <2>7. LastChange(e, q)'
    BY <1>3, <2>1, <2>2, <2>5, <2>6 DEF LastChange
  <2>. QED
    BY <2>1, <2>5, <2>7
<1>6. CASE e = k.emp
  <2>1. ~Unsettled(e) /\ e \in Employees
    BY <1>2, <1>4, <1>6
  <2>2. Of(e)' = Of(e) \cup {r} /\ r \notin Of(e)
    BY <1>2, <1>6 DEF Of
  <2>3. \A s \in Of(e) : s \in Requests /\ key'[s] = key[s] /\ syncLog[key[s]] = "SUCCESS"
    BY <1>2, <2>1, <2>2 DEF Of, Unsettled
  <2>4. /\ \A c \in late : c.key.emp # e
        /\ \A j \in retry.targets \cup ({retry.key} \ {NoKey}) : j.emp # e
    BY <2>1 DEF Unsettled
  <2>5. k \notin SentKeys
    <3>1. ASSUME k \in SentKeys PROVE FALSE
      <4>1. PICK s \in Of(e) : key[s] = k
        BY <1>1, <1>6, <3>1, SentOf
      <4>2. key'[s] = key'[r] /\ s # r
        BY <1>2, <2>2, <2>3, <4>1
      <4>. QED
        BY <2>2, <4>1, <4>2 DEF Own
    <3>. QED
      BY <3>1
  <2>6. syncLog[k] # "SUCCESS"
    BY <1>1, <2>5, KeyFacts DEF SentInv
  <2>7. k.act = "CREATE" => history[e] = <<>>
    BY <1>1, <1>6, <2>1 DEF Saving, IssuedInv
  <2>8. k.act = "CREATE" => Active(history[e]) = {}
    BY <2>7 DEF Active
  <2>9. retry.key = k => FALSE
    BY <1>2, <1>6, <2>4
  <2>10. LastChange(e, r)'
    BY <1>2, <1>3, <1>6, <2>1, <2>2, <2>3, <2>4, <2>6, <2>8, <2>9 DEF LastChange
  <2>. QED
    BY <2>2, <2>10
<1>. QED
  BY <1>5, <1>6

\* A call for e of anything but its last change, or of one that is through, does nothing.
LEMMA CallingQuiet ==
  ASSUME SafeInv, NEW k \in SyncKeys, NEW rate \in Rates, k \in SentKeys, Calling(k, rate),
         NEW e \in Employees, Own(e), NEW q \in Of(e), LastChange(e, q)
  PROVE  LastChange(e, q)'
<1>1. TypeOK /\ SentInv
  BY DEF SafeInv
<1>2. /\ UNCHANGED <<source, key, doc>> /\ Of(e)' = Of(e)
      /\ PayrollMoves(k, rate)
      /\ late' \subseteq late \cup {[key |-> k, rate |-> rate]}
  BY DEF Calling, Standing, Of
<1>3. /\ \A d \in Employees \ {k.emp} : history'[d] = history[d]
      /\ \A j \in Keys \ {k} : syncLog'[j] = syncLog[j]
      /\ IF syncLog[k] # "SUCCESS" /\ syncLog'[k] = "SUCCESS"
           THEN history'[k.emp] = Applied(k, rate, history[k.emp])
           ELSE history'[k.emp] = history[k.emp]
      /\ syncLog[k] = "SUCCESS" => syncLog'[k] = "SUCCESS"
  BY <1>1, <1>2, PayrollStep
<1>4. \A s \in Of(e) : key[s] \in Keys /\ key[s].emp = e /\ key[s] # NoKey
  BY <1>1, OfFacts
<1>5. k = key[q] /\ k.act # "DELETE" => rate = doc[q]
  <2>1. ASSUME NEW r \in Requests, key[r] = k, doc[r] = rate, k = key[q]
        PROVE  rate = doc[q]
    <3>1. r \in Of(e)
      BY <1>4, <2>1 DEF Of
    <3>. QED
      BY <2>1, <3>1 DEF Own
  <2>2. ASSUME [key |-> k, rate |-> rate] \in late, k = key[q], k.act # "DELETE"
        PROVE  rate = doc[q]
    BY <2>2 DEF LastChange
  <2>3. ASSUME retry.key = k, retry.rate = rate, k = key[q], k.act # "DELETE"
        PROVE  rate = doc[q]
    BY <2>3 DEF LastChange
  <2>. QED
    BY <2>1, <2>2, <2>3 DEF Calling
<1>6. \A s \in Of(e) \ {q} : syncLog'[key[s]] = "SUCCESS"
  BY <1>3, <1>4 DEF LastChange
<1>7. \A c \in late' : c.key = key[q] /\ c.key.act # "DELETE" => c.rate = doc[q]
  BY <1>2, <1>5 DEF LastChange
<1>8. /\ \A j \in retry'.targets \cup ({retry'.key} \ {NoKey}) : j.emp = e => j = key[q]
      /\ retry'.key = key[q] /\ retry'.key.act # "DELETE" => retry'.rate = doc[q]
  <2>1. retry'.targets = retry.targets
    BY <1>1 DEF Calling, TypeOK
  <2>2. retry'.key = NoKey \/ (retry'.key = retry.key /\ retry'.rate = retry.rate)
    BY <1>1 DEF Calling, TypeOK
  <2>. QED
    BY <1>4, <2>1, <2>2 DEF LastChange
<1>9. /\ syncLog'[key[q]] = "SUCCESS" => Delivered(e)'
      /\ syncLog'[key[q]] # "SUCCESS" /\ key[q].act = "CREATE" => Active(history'[e]) = {}
  <2>1. CASE history'[e] = history[e] /\ (syncLog'[key[q]] = "SUCCESS" => syncLog[key[q]] = "SUCCESS")
    <3>1. syncLog'[key[q]] # "SUCCESS" => syncLog[key[q]] # "SUCCESS"
      BY <1>3, <1>4
    <3>2. Delivered(e) => Delivered(e)'
      BY <1>2, <2>1 DEF Delivered
    <3>. QED
      BY <2>1, <3>1, <3>2 DEF LastChange
  <2>2. CASE k = key[q] /\ syncLog[k] # "SUCCESS" /\ syncLog'[k] = "SUCCESS"
    <3>1. history'[e] = Applied(key[q], rate, history[e])
      BY <1>3, <1>4, <2>2
    <3>2. Delivered(e)'
      BY <1>1, <1>2, <1>5, <2>2, <3>1, AppliedDelivers
    <3>. QED
      BY <2>2, <3>2
  <2>3. CASE k.emp = e /\ k # key[q]
    <3>1. PICK s \in Of(e) : key[s] = k
      BY <1>1, <2>3, SentOf
    <3>2. syncLog[k] = "SUCCESS"
      BY <2>3, <3>1 DEF LastChange
    <3>. QED
      BY <1>3, <1>4, <2>1, <2>3, <3>2
  <2>4. CASE k.emp # e
    BY <1>3, <1>4, <2>1, <2>4
  <2>. QED
    BY <1>3, <1>4, <2>1, <2>2, <2>3, <2>4
<1>. QED
  BY <1>2, <1>6, <1>7, <1>8, <1>9 DEF LastChange

LEMMA RetryQuiet ==
  ASSUME SafeInv,
         StartRetry \/ (\E k \in SyncKeys : RetryNext(k)) \/ RetryMark \/ EndRetry,
         NEW e \in Employees, NEW q \in Of(e), LastChange(e, q)
  PROVE  LastChange(e, q)'
<1>1. TypeOK /\ SentInv /\ MarkInv
  BY DEF SafeInv
<1>2. UNCHANGED <<source, key, doc, late, history>>
  BY DEF StartRetry, RetryNext, RetryMark, EndRetry, sources, payroll
<1>3. Of(e)' = Of(e) /\ Delivered(e)' = Delivered(e)
  BY <1>2 DEF Of, Delivered
<1>4. \A s \in Of(e) : key[s] \in Keys /\ key[s].emp = e /\ key[s] # NoKey
  BY <1>1, OfFacts
<1>5. \A s \in Of(e) : syncLog'[key[s]] = syncLog[key[s]]
  <2>1. CASE RetryMark
    <3>1. retry.pc = "mark" /\ retry.key # NoKey /\ syncLog[retry.key] = "SUCCESS"
      <4>1. retry.key \in SentKeys
        BY <1>1, <2>1 DEF RetryMark, SentInv
      <4>. QED
        BY <1>1, <2>1, <4>1 DEF RetryMark, MarkInv, SentKeys
    <3>2. retry.key.emp = e => retry.key = key[q]
      BY <3>1 DEF LastChange
    <3>3. retry.key.emp = e => \A s \in Of(e) : syncLog[key[s]] = "SUCCESS"
      BY <3>1, <3>2 DEF LastChange
    <3>4. \A k \in Keys : syncLog'[k] = IF k.emp = retry.key.emp /\ syncLog[k] = "FAILED"
                                       THEN "SUCCESS" ELSE syncLog[k]
      BY <2>1 DEF RetryMark
    <3>. QED
      BY <1>4, <3>3, <3>4
  <2>2. CASE UNCHANGED syncLog
    BY <2>2
  <2>. QED
    BY <2>1, <2>2 DEF StartRetry, RetryNext, EndRetry, payroll
<1>6. /\ \A j \in retry'.targets \cup ({retry'.key} \ {NoKey}) : j.emp = e => j = key[q]
      /\ retry'.key = key[q] /\ retry'.key.act # "DELETE" => retry'.rate = doc[q]
  <2>1. CASE StartRetry
    <3>1. retry'.targets = RetryTargets /\ retry'.key = NoKey
      BY <1>1, <2>1 DEF StartRetry, SentInv, TypeOK
    <3>2. ASSUME NEW j \in RetryTargets, j.emp = e
          PROVE  j = key[q]
      <4>1. syncLog[j] = "FAILED" /\ j \in SentKeys
        BY <1>1, TargetsFailed DEF SentInv
      <4>2. PICK s \in Of(e) : key[s] = j
        BY <1>1, <3>2, <4>1, SentOf
      <4>. QED
        BY <4>1, <4>2 DEF LastChange
    <3>. QED
      BY <1>4, <3>1, <3>2
  <2>2. ASSUME NEW k \in SyncKeys, RetryNext(k)
        PROVE  /\ \A j \in retry'.targets \cup ({retry'.key} \ {NoKey}) : j.emp = e => j = key[q]
               /\ retry'.key = key[q] /\ retry'.key.act # "DELETE" => retry'.rate = doc[q]
    <3>1. k \in retry.targets
      BY <2>2 DEF RetryNext
    <3>2. k.emp = e => k = key[q]
      BY <3>1 DEF LastChange
    <3>3. retry'.targets \subseteq retry.targets
      BY <1>1, <2>2 DEF RetryNext, TypeOK
    <3>4. \/ retry'.key = retry.key /\ retry'.rate = retry.rate
          \/ retry'.key = k /\ (k.act # "DELETE" => retry'.rate = source[k.emp])
      BY <1>1, <2>2 DEF RetryNext, TypeOK
    <3>5. key[q].act # "DELETE" => source[e] = doc[q]
      BY DEF LastChange
    <3>6. CASE retry'.key = retry.key /\ retry'.rate = retry.rate
      BY <3>3, <3>6 DEF LastChange
    <3>7. CASE retry'.key = k /\ (k.act # "DELETE" => retry'.rate = source[k.emp])
      BY <1>4, <3>2, <3>3, <3>5, <3>7 DEF LastChange
    <3>. QED
      BY <3>4, <3>6, <3>7
  <2>3. CASE RetryMark \/ EndRetry
    <3>1. retry'.targets \subseteq retry.targets /\ retry'.key = NoKey
      <4>1. CASE RetryMark
        BY <1>1, <4>1 DEF RetryMark, TypeOK
      <4>2. CASE EndRetry
        BY <4>2 DEF EndRetry, NoRetry
      <4>. QED
        BY <2>3, <4>1, <4>2
    <3>. QED
      BY <1>4, <3>1 DEF LastChange
  <2>. QED
    BY <2>1, <2>2, <2>3
<1>. QED
  BY <1>2, <1>3, <1>5, <1>6 DEF LastChange

LEMMA RepairQuiet ==
  ASSUME OneSnapshot, SafeInv, Repair,
         NEW e \in Employees, NEW q \in Of(e), LastChange(e, q)
  PROVE  LastChange(e, q)'
<1>1. TypeOK /\ RepairInv
  BY DEF SafeInv
<1>2. UNCHANGED <<source, key, doc, late, retry, syncLog>> /\ Of(e)' = Of(e)
  BY DEF Repair, ReadSource, ReadPayroll, CommitRepair, RollBackRepair, sources, payroll, Of
<1>3. CASE history'[e] = history[e]
  <2>1. Delivered(e)' = Delivered(e)
    BY <1>2, <1>3 DEF Delivered
  <2>. QED
    BY <1>2, <1>3, <2>1 DEF LastChange
<1>4. CASE history'[e] # history[e]
  <2>1. CommitRepair
    BY <1>4 DEF Repair, ReadSource, ReadPayroll, RollBackRepair, payroll
  <2>2. PICK c \in repair.rows : c.emp = e
    BY <1>1, <1>4, <2>1, CommitStep
  <2>3. Active(history'[e]) = {} /\ source[e] = NoRecord
    BY <1>1, <1>4, <2>1, <2>2, CommitStep DEF CommitRepair, RepairInv
  <2>4. Delivered(e)'
    BY <1>2, <2>3 DEF Delivered
  <2>. QED
    BY <1>2, <2>3, <2>4 DEF LastChange
<1>. QED
  BY <1>3, <1>4

LEMMA QuietStep ==
  ASSUME OneSnapshot, SafeInv, QuietInv, [Next]_vars
  PROVE  QuietInv'
<1>. SUFFICES ASSUME NEW e \in issued' \ overlapped', Own(e)'
              PROVE  \E q \in Of(e)' : LastChange(e, q)'
  BY DEF QuietInv
<1>1. TypeOK /\ SentInv
  BY DEF SafeInv
<1>2. ASSUME NEW r \in Requests, NEW k \in SyncKeys, NEW rate \in Rates, Saving(r, k, rate)
      PROVE  \E q \in Of(e)' : LastChange(e, q)'
  BY <1>2, SavingQuiet
<1>3. ASSUME UNCHANGED <<issued, overlapped, key>>
      PROVE  /\ e \in Employees /\ Of(e)' = Of(e) /\ Own(e)
             /\ \E q \in Of(e) : LastChange(e, q)
  <2>1. e \in Employees /\ e \in issued \ overlapped
    BY <1>1, <1>3 DEF TypeOK
  <2>2. Of(e)' = Of(e)
    BY <1>3 DEF Of
  <2>3. Own(e)
    BY <1>3, <2>2 DEF Own
  <2>. QED
    BY <2>1, <2>2, <2>3 DEF QuietInv
<1>4. CASE Standing /\ Moving /\ UNCHANGED <<payroll, late, retry>>
  <2>1. UNCHANGED <<issued, overlapped, source, key, doc, history, syncLog, late, retry>>
    BY <1>4 DEF Standing, payroll
  <2>2. PICK q \in Of(e) : LastChange(e, q)
    BY <1>3, <2>1
  <2>3. Of(e)' = Of(e) /\ Delivered(e)' = Delivered(e)
    BY <2>1 DEF Of, Delivered
  <2>. QED
    BY <2>1, <2>2, <2>3 DEF LastChange
<1>5. ASSUME NEW k \in SyncKeys, NEW rate \in Rates, k \in SentKeys, Calling(k, rate)
      PROVE  \E q \in Of(e)' : LastChange(e, q)'
  <2>1. UNCHANGED <<issued, overlapped, key>>
    BY <1>5 DEF Calling, Standing
  <2>. QED
    BY <1>3, <1>5, <2>1, CallingQuiet
<1>6. CASE StartRetry \/ (\E k \in SyncKeys : RetryNext(k)) \/ RetryMark \/ EndRetry
  <2>1. UNCHANGED <<issued, overlapped, key>>
    BY <1>6 DEF StartRetry, RetryNext, RetryMark, EndRetry, sources
  <2>. QED
    BY <1>3, <1>6, <2>1, RetryQuiet
<1>7. CASE Repair
  <2>1. UNCHANGED <<issued, overlapped, key>>
    BY <1>7 DEF Repair, ReadSource, ReadPayroll, CommitRepair, RollBackRepair, sources
  <2>. QED
    BY <1>3, <1>7, <2>1, RepairQuiet
<1>8. CASE UNCHANGED vars
  <2>1. UNCHANGED <<issued, overlapped, source, key, doc, history, syncLog, late, retry>>
    BY <1>8 DEF vars, sources, payroll
  <2>2. PICK q \in Of(e) : LastChange(e, q)
    BY <1>3, <2>1
  <2>3. Of(e)' = Of(e) /\ Delivered(e)' = Delivered(e)
    BY <2>1 DEF Of, Delivered
  <2>. QED
    BY <2>1, <2>2, <2>3 DEF LastChange
<1>. QED
  BY <1>1, <1>2, <1>4, <1>5, <1>6, <1>7, <1>8, NextCases

LEMMA QuietIsDelivered ==
  ASSUME QuietInv
  PROVE  QuietAgreement
<1>. SUFFICES ASSUME NEW e \in issued \ overlapped, ~Unsettled(e),
                     \A r, s \in Of(e) : key[r] = key[s] => r = s
              PROVE  Delivered(e)
  BY DEF QuietAgreement
<1>1. PICK q \in Of(e) : LastChange(e, q)
  BY DEF QuietInv, Own
<1>2. syncLog[key[q]] = "SUCCESS"
  BY DEF Unsettled
<1>. QED
  BY <1>1, <1>2 DEF LastChange

(***************************************************************************)
(* QuietAgreement, for any number of employees, changes, failures, late    *)
(* calls, retries and repairs.                                             *)
(***************************************************************************)
THEOREM QuietEmployeesAgree == OneSnapshot /\ Spec => []QuietAgreement
<1>. SUFFICES ASSUME OneSnapshot PROVE Spec => []QuietAgreement
  OBVIOUS
<1>1. Init => QuietInv
  BY DEF Init, QuietInv
<1>2. SafeInv /\ QuietInv /\ [Next]_vars => QuietInv'
  BY QuietStep
<1>3. QuietInv => QuietAgreement
  BY QuietIsDelivered
<1>. QED
  BY <1>1, <1>2, <1>3, EmployeeSyncSafety, PTL DEF Spec
=============================================================================
