----------------------------- MODULE Drilldown ------------------------------
(***************************************************************************)
(* The drilldown of the dashboard and its CSV export: which employees the  *)
(* two list for the same filters, and the totals shown above the list      *)
(* (getDrilldown and exportDrilldownCsv of dashboard.controller.js), over  *)
(* the three copies of what an employee earned in the year asked for: the  *)
(* annualEarnings snapshot of the employee document, the rows of           *)
(* EarningsEmployeeYear and the EarningsSummary rows, all written by       *)
(* aggregateEarnings of scripts/aggregate-dashboard.js.                    *)
(*                                                                         *)
(* The filters on gender, ethnicity, employment type and shareholder are   *)
(* treated alike by the code: Dimensions holds as many as are followed,    *)
(* and the department, which is asked for by its name.  All pages of a     *)
(* list are taken together.                                                *)
(*                                                                         *)
(* The batch counts an employee without a value under a default group, the *)
(* list compares the column as it is: the group "Unknown" of the charts    *)
(* has a total, and a list only of those whose column says "Unknown".      *)
(***************************************************************************)
EXTENDS Naturals, FiniteSets, FiniteSetsExt

CONSTANTS
  Employees,
  Dimensions,  \* columns an employee can be filtered by
  ValueOf,     \* ValueOf[d][e]: the value of e in column d, or None
  None,        \* the column has no value
  Default,     \* Default[d]: the group of those without a value in column d
  Enrolled,    \* the employees enrolled in the plan that may be asked for
  Found,       \* the employees the search term that may be used matches
  Amounts,     \* what an employee may have earned
  MaxCount,    \* DRILLDOWN_FULL_SUMMARY_MAX_COUNT
  MaxChanges   \* bound: payments after the start

VARIABLES
  paid,      \* paid[e]: the earnings of e in the payroll tables
  totals,    \* totals[e]: its row of EarningsEmployeeYear, 0 without one
  snapshot,  \* snapshot[e]: annualEarnings, and whether it is of the year
  summary,   \* the EarningsSummary rows of the year, by group
  batch,     \* the batch: its next step, its year and what it read
  changes

vars == <<paid, totals, snapshot, summary, batch, changes>>

\* The group that the batch counts e in (getEmployeeSummaryDimensions).
GroupOf(d, e) == IF ValueOf[d][e] = None THEN Default[d] ELSE ValueOf[d][e]

Values(d) == {GroupOf(d, e) : e \in Employees}

\* A column is asked for by the groups the charts show, or not at all.
Any == "any"

Filters ==
  [on : {c \in [Dimensions -> {Any} \cup UNION {Values(d) : d \in Dimensions}] :
           \A d \in Dimensions : c[d] \in {Any} \cup Values(d)},
   plan : BOOLEAN, search : BOOLEAN, min : Amounts]

SumOf(amount, S) == MapThenSumSet(LAMBDA e : amount[e], S)

-----------------------------------------------------------------------------
(***************************************************************************)
(* The batch (aggregateEarnings).                                          *)
(***************************************************************************)
Groups == {<<"total", "all">>} \cup UNION {{d} \X Values(d) : d \in Dimensions}

Members(g) ==
  IF g[1] = "total" THEN Employees
  ELSE {e \in Employees : GroupOf(g[1], e) = g[2]}

SummaryRows(amount) == [g \in Groups |-> SumOf(amount, Members(g))]

NoBatch == [step |-> "idle", year |-> "this", read |-> [e \in Employees |-> 0]]

Init ==
  /\ paid \in [Employees -> Amounts]
  /\ totals = paid
  /\ snapshot = [e \in Employees |-> [valid |-> FALSE, amount |-> 0]]
  /\ summary = SummaryRows(paid)
  /\ batch = NoBatch
  /\ changes = 0

Pay(e) ==
  /\ changes < MaxChanges
  /\ changes' = changes + 1
  /\ \E a \in Amounts \ {paid[e]} : paid' = [paid EXCEPT ![e] = a]
  /\ UNCHANGED <<totals, snapshot, summary, batch>>

\* A run for the year, or for the next one, which rewrites the rows of the
\* year before its own too.
BatchReads ==
  /\ batch.step = "idle"
  /\ \E y \in {"this", "next"} :
       batch' = [step |-> "snapshots", year |-> y, read |-> paid]
  /\ UNCHANGED <<paid, totals, snapshot, summary, changes>>

\* The snapshots are written in batches, by --skip-snapshot not at all, and
\* up to the batch that exceeds the storage quota.
BatchWritesSnapshots ==
  /\ batch.step = "snapshots"
  /\ \E written \in SUBSET Employees :
       snapshot' = [e \in Employees |->
         IF e \notin written THEN snapshot[e]
         ELSE IF batch.year = "this"
              THEN [valid |-> TRUE, amount |-> batch.read[e]]
              ELSE [valid |-> FALSE, amount |-> 0]]
  /\ batch' = [batch EXCEPT !.step = "summary"]
  /\ UNCHANGED <<paid, totals, summary, changes>>

\* Rows are deleted and inserted; what is seen in between belongs to the
\* module DashboardSummaries.
BatchWritesSummary ==
  /\ batch.step = "summary"
  /\ summary' = IF batch.year = "this" THEN SummaryRows(batch.read) ELSE summary
  /\ batch' = [batch EXCEPT !.step = "totals"]
  /\ UNCHANGED <<paid, totals, snapshot, changes>>

BatchWritesTotals ==
  /\ batch.step = "totals"
  /\ totals' = batch.read
  /\ batch' = NoBatch
  /\ UNCHANGED <<paid, snapshot, summary, changes>>

BatchDies ==
  /\ batch.step # "idle"
  /\ batch' = NoBatch
  /\ UNCHANGED <<paid, totals, snapshot, summary, changes>>

Next ==
  \/ \E e \in Employees : Pay(e)
  \/ BatchReads \/ BatchWritesSnapshots \/ BatchWritesSummary
  \/ BatchWritesTotals \/ BatchDies

-----------------------------------------------------------------------------
(***************************************************************************)
(* The list (getDrilldown).                                                *)
(***************************************************************************)
ActiveDimensions(f) == {d \in Dimensions : f.on[d] # Any}

\* No department has the name asked for: the list and its totals are empty,
\* the export is refused.
NoSuchDepartment(f) ==
  /\ "department" \in ActiveDimensions(f)
  /\ \A e \in Employees : ValueOf["department"][e] # f.on["department"]

\* The part of the Mongo query both handlers build alike, on the columns as
\* they are.
Matching(f) ==
  {e \in Employees :
     /\ \A d \in ActiveDimensions(f) : ValueOf[d][e] = f.on[d]
     /\ f.search => e \in Found}

InSnapshot(f) ==
  {e \in Employees : snapshot[e].valid /\ snapshot[e].amount >= f.min}
InTotals(f) == {e \in Employees : totals[e] >= f.min}

isMinEarningsSnapshotCandidate(f) ==
  f.min > 0 /\ ActiveDimensions(f) = {} /\ ~ f.plan /\ ~ f.search

\* The snapshots answer when they count as many employees as the rows do.
UsesSnapshots(f) ==
  /\ isMinEarningsSnapshotCandidate(f)
  /\ Cardinality(InSnapshot(f)) = Cardinality(InTotals(f))

Query(f) ==
  {e \in Matching(f) :
     /\ f.plan => e \in Enrolled
     /\ f.min > 0 => e \in IF UsesSnapshots(f) THEN InSnapshot(f) ELSE InTotals(f)}

TotalEarnings(e) == IF snapshot[e].valid THEN snapshot[e].amount ELSE totals[e]

\* Mutant: rows at the minimum are left out.
ListedAbove(f) == {<<e, TotalEarnings(e)>> : e \in {x \in Query(f) :
                      f.min > 0 => TotalEarnings(x) > f.min}}

Listed(f) == {<<e, TotalEarnings(e)>> : e \in {x \in Query(f) :
                f.min > 0 => TotalEarnings(x) >= f.min}}

(***************************************************************************)
(* The export for the earnings context: it asks Mongo for the matching     *)
(* employees, and drops those below the minimum as it writes them.         *)
(***************************************************************************)
Exported(f) ==
  {<<e, TotalEarnings(e)>> : e \in {x \in Matching(f) :
     /\ f.min > 0 => TotalEarnings(x) >= f.min
     /\ f.plan => x \in Enrolled}}

(***************************************************************************)
(* The totals above the list, for the earnings context and a request for   *)
(* the full summary.                                                       *)
(***************************************************************************)

\* A search is not a filter here.
HasActiveFilter(f) == ActiveDimensions(f) # {} \/ f.min > 0 \/ f.plan

CanUseSingleDimension(f) == Cardinality(ActiveDimensions(f)) = 1 /\ f.min = 0

Partial(f) ==
  \/ f.min > 0
  \/ /\ HasActiveFilter(f) /\ ~ CanUseSingleDimension(f)
     /\ Cardinality(Query(f)) > MaxCount

\* Mutant: one dimension is looked up and the others are forgotten.
SummaryFirstDimension(f) ==
  IF NoSuchDepartment(f) THEN 0
  ELSE IF ~ HasActiveFilter(f) THEN summary[<<"total", "all">>]
  ELSE IF ActiveDimensions(f) # {}
       THEN LET d == CHOOSE d \in ActiveDimensions(f) : TRUE
            IN  summary[<<d, f.on[d]>>]
       ELSE SumOf(totals, Query(f))

SummaryTotalEarnings(f) ==
  IF NoSuchDepartment(f) THEN 0
  ELSE IF ~ HasActiveFilter(f) THEN summary[<<"total", "all">>]
  ELSE IF CanUseSingleDimension(f)
       THEN LET d == CHOOSE d \in ActiveDimensions(f) : TRUE
            IN  summary[<<d, f.on[d]>>]
       ELSE SumOf(totals, Query(f))

-----------------------------------------------------------------------------

Agree == \A e \in Employees : snapshot[e].valid => snapshot[e].amount = totals[e]
InSync == batch = NoBatch /\ summary = SummaryRows(totals)

\* Employees that a total looked up counts and the list leaves out: those
\* without a value in the one column that is asked for its default group.
Unlisted(f) ==
  IF ~ CanUseSingleDimension(f) \/ NoSuchDepartment(f) THEN {}
  ELSE {e \in Employees :
          \E d \in ActiveDimensions(f) : ValueOf[d][e] = None /\ f.on[d] = Default[d]}

\* A list and its export hold the same employees with the same earnings, and
\* the list is as long as it says: always without a minimum of earnings, and
\* with one while every snapshot of the year agrees with its row, whichever
\* of the two sources answered the list.
ExportMatchesList ==
  \A f \in Filters :
    f.min = 0 \/ Agree =>
      /\ Listed(f) = Exported(f)
      /\ Cardinality(Listed(f)) = Cardinality(Query(f))

\* When rows and summaries come from one run, the total shown above a list
\* that neither a search nor a plan narrows is that of the employees listed
\* and of the ones who belong to the group without saying so, whether it is
\* looked up for the company, looked up for one dimension, or added up for
\* several.
SummaryOfDimensions ==
  InSync => \A f \in Filters :
    ~ f.search /\ ~ f.plan /\ ~ Partial(f) =>
      SummaryTotalEarnings(f) = SumOf(totals, Query(f) \cup Unlisted(f))
=============================================================================
