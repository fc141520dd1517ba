---------------------------- MODULE SyncEvidence ----------------------------
(***************************************************************************)
(* The two judgments that operators see of the mirroring of employees: the *)
(* delivery evidence of one employee (employeeSyncEvidenceService.js) and  *)
(* the reconciliation of all of them (integrationReconciliationService.js),*)
(* each a function of what it reads, and what they can be trusted for.     *)
(***************************************************************************)
EXTENDS EmployeeSync

SourceStage(e) == IF source[e] = NoRecord THEN "ABSENT" ELSE "PRESENT"

\* OPEN stands for PENDING, PROCESSING and FAILED.
QueueStage(e) ==
  IF newest[e] # NoRecord THEN queue[newest[e]]
  ELSE IF \E i \in DOMAIN logged : logged[i].emp = e \/ ~OutboxEnabled THEN "BYPASSED"
  ELSE "MISSING"

\* The status of the sync_log row of e that was created last.
LatestSync(e) ==
  LET rows == SelectSeq(logged, LAMBDA k : k.emp = e)
  IN IF rows = <<>> THEN "NONE" ELSE syncLog[rows[Len(rows)]]

\* Mutant: a payroll row is current whatever rate it has.
PayrollStageNoDrift(e) ==
  LET current == CurrentRate(history[e])
      shown   == IF current # {} THEN current ELSE LatestRate(history[e])
  IN IF \E row \in shown : row.type = "TERMINATED" THEN "TERMINATED"
     ELSE IF current # {} THEN "CURRENT"
     ELSE IF LatestSync(e) = "FAILED" THEN "FAILED" ELSE "MISSING"

\* The rates are compared as they are, the document's with all its decimals.
PayrollStage(e) ==
  LET current == CurrentRate(history[e])
      shown   == IF current # {} THEN current ELSE LatestRate(history[e])
      matches == source[e] = NoRecord \/ \E row \in current : row.rate = source[e]
  IN IF \E row \in shown : row.type = "TERMINATED" THEN "TERMINATED"
     ELSE IF current # {} THEN (IF matches THEN "CURRENT" ELSE "DRIFT")
     ELSE IF LatestSync(e) = "FAILED" THEN "FAILED" ELSE "MISSING"

\* An open event, tried before or not, keeps the verdict from being healthy.
Overall(e) ==
  IF \/ QueueStage(e) = "DEAD"
     \/ PayrollStage(e) \in {"FAILED", "DRIFT"}
     \/ SourceStage(e) = "ABSENT" /\ PayrollStage(e) = "CURRENT"
  THEN "attention"
  ELSE IF QueueStage(e) = "OPEN" \/ PayrollStage(e) = "MISSING" THEN "pending"
  ELSE "healthy"

-----------------------------------------------------------------------------
(***************************************************************************)
(* computeIntegrationReconciliationSnapshot, on rows read at one moment.   *)
(***************************************************************************)
Recorded == {e \in Employees : source[e] # NoRecord}

Duplicates ==
  {e \in Covered :
     Cardinality({i \in Active(history[e]) : history[e][i].type # "TERMINATED"}) > 1}

\* Both rates are rounded by toFixed(2) before they are compared.
PayRateMismatch ==
  {e \in Recorded \cap Covered :
     NormalizePayRate(RateOr0(CurrentRate(history[e]))) # NormalizePayRate(source[e])}

\* Mutant: what Payroll covers and the source does not have is not counted.
IssueCountOfRecorded ==
  Cardinality(Recorded \ Covered) + Cardinality(Duplicates)
    + Cardinality(PayRateMismatch)

IssueCount ==
  Cardinality(Recorded \ Covered) + Cardinality(Covered \ Recorded)
    + Cardinality(Duplicates) + Cardinality(PayRateMismatch)

-----------------------------------------------------------------------------
(***************************************************************************)
(* Evidence that says healthy is right, whatever was lost, repeated or     *)
(* reordered on the way: the active payroll row has the rate of the source *)
(* document, or both are gone.  (As long as no employee comes or goes      *)
(* between the two reads of a repair; see the run employee_evidence.)      *)
(***************************************************************************)
HealthyMeansAligned ==
  \A e \in issued : Overall(e) = "healthy" => Aligned(e)

(***************************************************************************)
(* The two judgments agree on rates of two decimals, and on no other: when *)
(* a reconciliation finds no issue, Payroll covers the employees of the    *)
(* source and no one else, each by one row of its rate to the cent, and    *)
(* the evidence says DRIFT of those whose rate has further decimals.       *)
(***************************************************************************)
ReconciledToTheCent ==
  IssueCount = 0 =>
    \A e \in issued :
      /\ PayrollStage(e) \in {"CURRENT", "DRIFT"} <=> SourceStage(e) = "PRESENT"
      /\ e \in Recorded =>
           /\ \E i \in Active(history[e]) :
                /\ Active(history[e]) = {i}
                /\ history[e][i].rate = NormalizePayRate(source[e])
           /\ PayrollStage(e) = "DRIFT" <=> NormalizePayRate(source[e]) # source[e]

(***************************************************************************)
(* An employee whose changes did not overtake one another, and were sent   *)
(* under correlation ids of their own, has the rate of its document in     *)
(* Payroll, as the column holds it, as soon as nothing of it is on its     *)
(* way, whatever failed and was retried, by whom.                          *)
(***************************************************************************)
QuietAgreement ==
  \A e \in issued \ overlapped :
    (/\ ~Unsettled(e)
     /\ \A r, s \in Of(e) : key[r] = key[s] => r = s)
    => Delivered(e)

(***************************************************************************)
(* A repair closes the pay rates of employees only that are gone when it   *)
(* commits.                                                                *)
(***************************************************************************)
RepairClosesOnlyDeleted ==
  [][\A e \in Employees :
       (Active(history[e]) # {} /\ Active(history'[e]) = {} /\ repair.pc = "write"
          /\ repair'.pc = "idle")
       => source[e] = NoRecord]_vars
=============================================================================
