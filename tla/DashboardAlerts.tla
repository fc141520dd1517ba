-------------------------- MODULE DashboardAlerts ---------------------------
(***************************************************************************)
(* The alerts of the dashboard: their configuration in MongoDB             *)
(* (models/Alert.js, alerts.controller.js), the summary rows and the lists *)
(* of employees in MySQL, rebuilt after every change of the configuration  *)
(* (alertAggregationService.js) and by the batch (step 4 of                *)
(* scripts/aggregate-dashboard.js), and the notes by which a manager takes *)
(* over what a summary shows (utils/alertDashboard.js).                    *)
(*                                                                         *)
(* What a rebuild computes for an alert is a number of employees.  Rows    *)
(* and lists carry the second their rebuild began, which is not the order  *)
(* in which rebuilds write.                                                *)
(***************************************************************************)
EXTENDS Naturals, FiniteSets

CONSTANTS
  Alerts, Types, Thresholds,
  Counts,     \* how many employees an alert may concern
  Jobs,       \* POST, PUT and DELETE requests under way
  MaxClock,   \* bound: seconds
  MaxStarts,  \* bound: requests, batches, and changes of the employees
  MaxFaults   \* bound: rebuilds and batches that a fault ends

VARIABLES
  config,    \* config[a]: the document of alert a
  matching,  \* matching[y]: how many employees an alert of type y concerns
  rows,      \* the rows of AlertsSummary
  listed,    \* listed[y]: the rebuilds that wrote AlertEmployee rows of y
  job,       \* job[j]: the request j
  script,    \* the batch
  ack,       \* the acknowledgement under way
  clock, starts, faults,
  odd,       \* history: which of the known races happened
  upset      \* history: the last rebuild or batch failed or met another one

vars == <<config, matching, rows, listed, job, script, ack, clock, starts, faults,
          odd, upset>>

Never == 0
NoNote == [at |-> Never, count |-> 0, type |-> "none"]
NoRow == [there |-> FALSE, active |-> FALSE, type |-> "none", th |-> "none",
            note |-> NoNote]
NoJob == [step |-> "idle", alert |-> "none", to |-> NoRow]
\* A rebuild or batch under way: its time, the rows it writes, and whether
\* no other was under way beside it.
NoSums == [at |-> Never, rows |-> {}, alone |-> TRUE]
NoScript == [step |-> "idle", sums |-> NoSums]
NoAck == [step |-> "idle", alert |-> "none", note |-> NoNote]

Active == {a \in Alerts : config[a].active}

Init ==
  /\ config = [a \in Alerts |-> NoRow]
  /\ matching \in [Types -> Counts]
  /\ rows = {}
  /\ listed = [y \in Types |-> {}]
  /\ job = [j \in Jobs |-> [do |-> NoJob, sums |-> NoSums]]
  /\ script = NoScript /\ ack = NoAck
  /\ clock = 1 /\ starts = 0 /\ faults = 0
  /\ odd = {} /\ upset = FALSE

Starts == starts < MaxStarts /\ starts' = starts + 1

EmployeesChange(y) ==
  /\ Starts
  /\ \E n \in Counts \ {matching[y]} : matching' = [matching EXCEPT ![y] = n]
  /\ UNCHANGED <<config, rows, listed, job, script, ack, clock, faults, odd, upset>>

\* The second in which a step is taken: that of the last one, or a later one.
Now == {t \in {clock, clock + 1} : t <= MaxClock}

-----------------------------------------------------------------------------
(***************************************************************************)
(* Create, update and delete.  The hooks of models/Alert.js look for an    *)
(* active alert of the type; then the document is written.                 *)
(***************************************************************************)
aggregates == <<matching, rows, listed, script, ack, faults, upset>>

Step(j) == job[j].do.step
Requests(step) == {j \in Jobs : Step(j) = step}
Checked == Requests("create") \cup Requests("update")

Taken(a, y) == \E b \in Active \ {a} : config[b].type = y

\* Mutant: an alert that is changed is checked, a new one is not.
MayBecomeIfThere(a, to) ==
  ~ config[a].there \/ ~ (to.active /\ Taken(a, to.type))

\* What may not be is answered with 409.
MayBecome(a, to) == ~ (to.active /\ Taken(a, to.type))

Check(j, step, a, to) ==
  /\ Step(j) = "idle" /\ Starts /\ MayBecome(a, to)
  /\ job' = [job EXCEPT ![j].do = [step |-> step, alert |-> a, to |-> to]]
  /\ odd' = IF Checked # {} THEN odd \cup {"raced"} ELSE odd
  /\ UNCHANGED <<config, clock, aggregates>>

Create(j) ==
  \E a \in Alerts, y \in Types, t \in Thresholds, active \in BOOLEAN :
    /\ ~ config[a].there /\ \A k \in Jobs : job[k].do.alert # a
    /\ Check(j, "create", a,
             [there |-> TRUE, active |-> active, type |-> y, th |-> t, note |-> NoNote])

Update(j) ==
  \E a \in Alerts, y \in Types, t \in Thresholds, active \in BOOLEAN :
    /\ config[a].there
    /\ Check(j, "update", a, [config[a] EXCEPT !.type = y, !.th = t, !.active = active])

\* An update leaves the note alone and changes nothing when the alert was
\* deleted in between; the aggregates are rebuilt all the same.
Write(j) ==
  LET a == job[j].do.alert IN
  /\ j \in Checked
  /\ config' = IF Step(j) = "update" /\ ~ config[a].there THEN config
               ELSE [config EXCEPT ![a] = [job[j].do.to EXCEPT !.note = config[a].note]]
  /\ job' = [job EXCEPT ![j].do = [NoJob EXCEPT !.step = "changed"]]
  /\ UNCHANGED <<aggregates, clock, starts, odd>>

Remove(j) ==
  /\ Step(j) = "idle" /\ Starts
  /\ \E a \in Alerts : config[a].there /\ config' = [config EXCEPT ![a] = NoRow]
  /\ job' = [job EXCEPT ![j].do.step = "changed"]
  /\ UNCHANGED <<aggregates, clock, odd>>

-----------------------------------------------------------------------------
(***************************************************************************)
(* A rebuild (refreshAlertAggregates): one SQL transaction, whose DELETEs  *)
(* come first and lock the rows they find.  On empty tables they lock gaps *)
(* only: several rebuilds get past them, and one with rows to insert then  *)
(* waits for the others.                                                   *)
(***************************************************************************)
Holders == Requests("locked")
Empty == rows = {} /\ \A y \in Types : listed[y] = {}

\* One row for each active alert that concerns anybody.
RowsAt(at) ==
  {[of |-> a, at |-> at, type |-> config[a].type, th |-> config[a].th,
    count |-> matching[config[a].type]] : a \in {b \in Active : matching[config[b].type] > 0}}

\* The index of AlertsSummary is unique on type and threshold.
Collide(R) == \E r, s \in R : r # s /\ r.type = s.type /\ r.th = s.th

\* Whoever is under way beside another one is disturbed.
Disturbed(jobs) == [j \in Jobs |-> IF j \in Holders THEN [jobs[j] EXCEPT !.sums.alone = FALSE]
                                   ELSE jobs[j]]
DisturbedScript ==
  IF script = NoScript THEN script ELSE [script EXCEPT !.sums.alone = FALSE]

\* The clock is read before the transaction begins.
RefreshStarts(j) ==
  /\ Step(j) = "changed"
  /\ clock' \in Now
  /\ job' = [job EXCEPT ![j].do.step = "started", ![j].sums.at = clock']
  /\ UNCHANGED <<config, aggregates, starts, odd>>

RefreshLocks(j) ==
  /\ Step(j) = "started"
  /\ Holders = {} \/ Empty
  /\ LET alone == Holders = {} /\ script = NoScript
         at    == job[j].sums.at
     IN  job' = [Disturbed(job) EXCEPT
                   ![j].do.step = "locked",
                   ![j].sums = [at |-> at, rows |-> RowsAt(at), alone |-> alone]]
  /\ script' = DisturbedScript
  /\ UNCHANGED <<config, matching, rows, listed, ack, clock, starts, faults, odd, upset>>

\* A note was taken on rows that are not older than the ones to be written.
Overtakes(at) ==
  at <= ack.note.at \/ \E a \in Alerts : at <= config[a].note.at

\* Mutant: the old summary rows stay beside the new ones.
RefreshCommitsOnTop(j) ==
  LET new == job[j].sums
      all == rows \cup new.rows
  IN
  /\ Step(j) = "locked"
  /\ new.rows = {} \/ Holders = {j}
  /\ ~ Collide(all)
  /\ rows' = all
  /\ listed' = [y \in Types |-> {r.at : r \in {q \in new.rows : q.type = y}}]
  /\ upset' = ~ new.alone
  /\ odd' = IF Overtakes(new.at) THEN odd \cup {"overtaken"} ELSE odd
  /\ job' = [job EXCEPT ![j] = [do |-> NoJob, sums |-> NoSums]]
  /\ UNCHANGED <<config, matching, script, ack, clock, starts, faults>>

RefreshCommits(j) ==
  LET new == job[j].sums IN
  /\ Step(j) = "locked"
  /\ new.rows = {} \/ Holders = {j}
  /\ ~ Collide(new.rows)
  /\ rows' = new.rows
  /\ listed' = [y \in Types |-> {r.at : r \in {q \in new.rows : q.type = y}}]
  /\ upset' = ~ new.alone
  /\ odd' = IF Overtakes(new.at) THEN odd \cup {"overtaken"} ELSE odd
  /\ job' = [job EXCEPT ![j] = [do |-> NoJob, sums |-> NoSums]]
  /\ UNCHANGED <<config, matching, script, ack, clock, starts, faults>>

\* A database does not answer, the rows collide, or MySQL picks this one of
\* two rebuilds that wait for each other: the transaction is rolled back and
\* the client is answered with a warning.
RefreshFails(j) ==
  /\ Step(j) \in {"started", "locked"}
  /\ \/ faults < MaxFaults /\ faults' = faults + 1
     \/ /\ Step(j) = "locked" /\ UNCHANGED faults
        /\ \/ Collide(job[j].sums.rows)
           \/ \E k \in Holders \ {j} : {job[j].sums.rows, job[k].sums.rows} \cap {{}} = {}
  /\ job' = [Disturbed(job) EXCEPT ![j] = [do |-> NoJob, sums |-> NoSums]]
  /\ script' = DisturbedScript
  /\ upset' = TRUE
  /\ UNCHANGED <<config, matching, rows, listed, ack, clock, starts, odd>>

-----------------------------------------------------------------------------
(***************************************************************************)
(* The batch (aggregateAlerts): statements of their own, without a         *)
(* transaction; each waits for the transactions that hold locks.           *)
(***************************************************************************)
unscripted == <<config, matching, ack, odd>>

ScriptReads ==
  /\ script = NoScript /\ Starts
  /\ clock' \in Now
  /\ script' = [step |-> "read", sums |-> [at |-> clock', rows |-> RowsAt(clock'),
                                          alone |-> Holders = {}]]
  /\ job' = Disturbed(job)
  /\ UNCHANGED <<unscripted, rows, listed, faults, upset>>

ScriptClears ==
  /\ script.step = "read" /\ Holders = {}
  /\ rows' = {}
  /\ script' = [script EXCEPT !.step = "cleared"]
  /\ UNCHANGED <<unscripted, clock, starts, listed, job, faults, upset>>

\* The table of the lists is dropped and created.
ScriptDrops ==
  /\ script.step = "cleared" /\ Holders = {}
  /\ listed' = [y \in Types |-> {}]
  /\ script' = [script EXCEPT !.step = "dropped"]
  /\ UNCHANGED <<unscripted, clock, starts, rows, job, faults, upset>>

ScriptLists ==
  /\ script.step = "dropped" /\ Holders = {}
  /\ listed' = [y \in Types |-> listed[y] \cup
                  {r.at : r \in {q \in script.sums.rows : q.type = y}}]
  /\ script' = [script EXCEPT !.step = "listed"]
  /\ UNCHANGED <<unscripted, clock, starts, rows, job, faults, upset>>

\* Rows that a rebuild wrote meanwhile reject those of the batch.
ScriptSums ==
  LET all == rows \cup script.sums.rows IN
  /\ script.step = "listed" /\ Holders = {}
  /\ rows' = IF Collide(all) THEN rows ELSE all
  /\ upset' = (Collide(all) \/ ~ script.sums.alone)
  /\ odd' = IF Overtakes(script.sums.at) THEN odd \cup {"overtaken"} ELSE odd
  /\ script' = NoScript
  /\ UNCHANGED <<config, matching, ack, clock, starts, listed, job, faults>>

ScriptDies ==
  /\ script # NoScript /\ faults < MaxFaults
  /\ faults' = faults + 1
  /\ script' = NoScript
  /\ upset' = TRUE
  /\ UNCHANGED <<unscripted, clock, starts, rows, listed, job>>

-----------------------------------------------------------------------------
(***************************************************************************)
(* A manager takes over an alert (acknowledgeAlert): the alert is read,    *)
(* then the latest row of its type, then the note is saved.                *)
(***************************************************************************)
Latest(y) ==
  LET own == {r \in rows : r.type = y}
  IN  {r \in own : \A q \in own : q.at <= r.at}

shared == <<matching, rows, listed, job, script, clock, starts, faults, upset>>

AckReads ==
  /\ ack = NoAck
  /\ \E a \in Active :
       ack' = [step |-> "read", alert |-> a, note |-> [NoNote EXCEPT !.type = config[a].type]]
  /\ UNCHANGED <<config, odd, shared>>

\* Without a row: 409.
AckSees ==
  /\ ack.step = "read"
  /\ \/ /\ Latest(ack.note.type) = {}
        /\ ack' = NoAck
     \/ \E r \in Latest(ack.note.type) :
          ack' = [ack EXCEPT !.step = "seen", !.note.at = r.at, !.note.count = r.count]
  /\ UNCHANGED <<config, odd, shared>>

\* The fields of the note are written; an alert deleted in between is not.
AckSaves ==
  /\ ack.step = "seen"
  /\ config' = IF config[ack.alert].there
               THEN [config EXCEPT ![ack.alert].note = ack.note] ELSE config
  /\ odd' = IF config[ack.alert].type # ack.note.type THEN odd \cup {"retyped"} ELSE odd
  /\ ack' = NoAck
  /\ UNCHANGED shared

\* Mutant: only the number of employees is compared.
NeedsReviewByCount(note, row) == row.count # note.count

NeedsReview(note, row) == row.at > note.at \/ row.count # note.count

\* The status "owned" of buildAlertFollowUpSnapshot.
Owned(a) ==
  /\ a \in Active /\ config[a].note # NoNote
  /\ \E r \in Latest(config[a].type) : ~ NeedsReview(config[a].note, r)

Next ==
  \/ \E y \in Types : EmployeesChange(y)
  \/ \E j \in Jobs : \/ Create(j) \/ Update(j) \/ Write(j) \/ Remove(j)
                     \/ RefreshStarts(j) \/ RefreshLocks(j)
                     \/ RefreshCommits(j) \/ RefreshFails(j)
  \/ ScriptReads \/ ScriptClears \/ ScriptDrops \/ ScriptLists
  \/ ScriptSums \/ ScriptDies
  \/ AckReads \/ AckSees \/ AckSaves

-----------------------------------------------------------------------------

Settled ==
  /\ \A j \in Jobs : Step(j) = "idle"
  /\ script = NoScript
  /\ ~ upset

\* At most one alert of a type is active, unless two requests looked for
\* another one before either had written.
OneActivePerType ==
  "raced" \notin odd =>
    \A a, b \in Active : a # b => config[a].type # config[b].type

\* After every change of the configuration has been answered, and the last
\* rebuild went through with no other beside it, the rows and the lists show
\* the active alerts and no others, each list from the rebuild of its row,
\* however the changes and their rebuilds crossed.
SummariesFollowAlerts ==
  Settled =>
    /\ \A r \in rows : config[r.of].active /\ r.type = config[r.of].type
                       /\ r.th = config[r.of].th
    /\ \A y \in Types : listed[y] = {r.at : r \in {q \in rows : q.type = y}}

\* What the dashboard shows as owned is what its manager saw: a row of the
\* same alert type that no later rebuild has replaced.  Known exceptions: a
\* rebuild that began before the one that was seen, or in the same second,
\* and wrote after it; and an alert that changed its type while the note was
\* being taken.
OwnedIsCurrent ==
  Settled /\ odd \cap {"overtaken", "retyped"} = {} =>
    \A a \in Alerts : Owned(a) =>
      \E r \in Latest(config[a].type) :
        config[a].note = [at |-> r.at, count |-> r.count, type |-> r.type]
=============================================================================
