------------------------- MODULE DashboardSummaries -------------------------
(***************************************************************************)
(* The summary tables of the dashboard service: the batch that rebuilds    *)
(* them (scripts/aggregate-dashboard.js), the worker that starts it as a   *)
(* child process (dashboardAggregationWorker.js), the handlers that read   *)
(* the tables through the cache or ask for a rebuild                       *)
(* (dashboard.controller.js), and the start and the stop of the service    *)
(* (runtime/serviceRuntime.js, dashboard-server.js).                       *)
(*                                                                         *)
(* A table is known by its dataset and its year and holds the version of   *)
(* the payroll data it was computed from.  The batch empties and refills   *)
(* each table in two statements without a transaction, and its process     *)
(* outlives the service when the service dies first.                       *)
(***************************************************************************)
EXTENDS Naturals, FiniteSets, DashboardCache

CONSTANTS
  Years,       \* years a rebuild may be asked for
  Target,      \* DASHBOARD_AGGREGATION_TARGET_YEAR
  Datasets,    \* the datasets followed, of "earnings" "totals" "vacation" "benefits"
  Asked,       \* the tables that GET requests ask for
  Readers,     \* GET requests under way
  RunIds,      \* bound: batch processes alive at once
  MaxChanges,  \* bound: changes of the payroll data
  MaxMishaps   \* bound: statements that fail, signals and crashes

AnyYear == 0   \* the benefits summary has no year
Missing == 0   \* a table without rows
None == 0

TableOf(d, y) == <<d, IF d = "benefits" THEN AnyYear ELSE y>>

(***************************************************************************)
(* The statements of the batch for year y, in their order.                 *)
(***************************************************************************)

\* Mutant: the rows are not deleted before they are inserted again.
AggregateEarningsOnTop(y) ==
  << [op |-> "read",   on |-> "earnings", year |-> y],
     [op |-> "create", on |-> "earnings", year |-> y] >>

AggregateEarnings(y) ==
  << [op |-> "read",    on |-> "earnings", year |-> y],
     [op |-> "destroy", on |-> "earnings", year |-> y],
     [op |-> "create",  on |-> "earnings", year |-> y] >>
\* The totals are those of the read of the earnings.
AggregateTotals(y) ==
  << [op |-> "destroy", on |-> "totals", year |-> y],
     [op |-> "destroy", on |-> "totals", year |-> y - 1],
     [op |-> "create",  on |-> "totals", year |-> y],
     [op |-> "create",  on |-> "totals", year |-> y - 1] >>
AggregateVacation(y) ==
  << [op |-> "read",    on |-> "vacation", year |-> y],
     [op |-> "destroy", on |-> "vacation", year |-> y],
     [op |-> "create",  on |-> "vacation", year |-> y] >>
AggregateBenefits ==
  << [op |-> "read",    on |-> "benefits", year |-> AnyYear],
     [op |-> "destroy", on |-> "benefits", year |-> AnyYear],
     [op |-> "create",  on |-> "benefits", year |-> AnyYear] >>

\* The statements of a dataset, when it is followed.
For(d, statements) == IF d \in Datasets THEN statements ELSE <<>>

Script(y) == For("earnings", AggregateEarnings(y)) \o For("totals", AggregateTotals(y))
               \o For("vacation", AggregateVacation(y)) \o For("benefits", AggregateBenefits)

Tables == {<<s.on, s.year>> : s \in UNION {ToSet(Script(y)) : y \in Years}}

TargetTables == {<<s.on, s.year>> : s \in ToSet(Script(Target))}

\* What a start inspects, and a GET may ask for: the summaries; the totals
\* of the employees are read by the drilldown.
Summaries == {t \in Tables : t[1] # "totals"}

Versions == 1 .. MaxChanges + 1

VARIABLES
  source,   \* the version of the payroll data
  table,    \* table[t]: the version t was computed from, or Missing
  run,      \* run[r]: the batch process in slot r
  svc,      \* the service: "down" "booting" "up" "stopping" "closing"
  ticking,  \* the interval of the worker is set
  active,   \* isRunning, activeChild and activeRunPromise: the run under way
  warm,     \* the warm-up of this start: "none" "inspect" "running" "done"
  cache,    \* dashboardCache
  reader,   \* reader[c]: the GET request c
  refresh,  \* the POST refresh-summaries under way
  mishaps   \* faults, signals and crashes so far

process == <<svc, ticking, active, warm>>
requests == <<cache, reader, refresh>>
vars == <<source, table, run, process, requests, mishaps>>

NoRun == [year |-> None, pc |-> None, seen |-> None, signal |-> "none",
          orphan |-> FALSE]
NewRun(y) == [NoRun EXCEPT !.year = y, !.pc = 1]
Live(r) == run[r] # NoRun
LiveRuns == {r \in RunIds : Live(r)}
NextSlot == {r \in RunIds \ LiveRuns : \A q \in RunIds \ LiveRuns : r <= q}
Statement(r) == Script(run[r].year)[run[r].pc]
Finished(r) == run[r].pc > Len(Script(run[r].year))

Idle == [at |-> "idle", table |-> <<"none", AnyYear>>, got |-> None]
NoRefresh == [at |-> "idle", year |-> None, since |-> None, alone |-> FALSE]

Init ==
  /\ source = 1
  /\ table = [t \in Tables |-> Missing]
  /\ run = [r \in RunIds |-> NoRun]
  /\ svc = "down" /\ ticking = FALSE /\ active = None /\ warm = "none"
  /\ cache = <<>>
  /\ reader = [c \in Readers |-> Idle]
  /\ refresh = NoRefresh
  /\ mishaps = 0

\* The payroll service changes the data the summaries are computed from.
SourceChanges ==
  /\ source <= MaxChanges
  /\ source' = source + 1
  /\ UNCHANGED <<table, run, process, requests, mishaps>>

(***************************************************************************)
(* The worker: runAggregation.                                             *)
(***************************************************************************)

\* Mutant: isRunning is not looked at.
RunAggregationBeside(y) ==
  \E r \in NextSlot :
    /\ run' = [run EXCEPT ![r] = NewRun(y)]
    /\ active' = r

\* Start a run for year y unless one is active: then nothing is started.
RunAggregation(y) ==
  IF active # None
  THEN UNCHANGED <<run, active>>
  ELSE \E r \in NextSlot :
         /\ run' = [run EXCEPT ![r] = NewRun(y)]
         /\ active' = r

\* A tick that finds a run active is skipped.
Tick ==
  /\ ticking /\ active = None
  /\ RunAggregation(Target)
  /\ UNCHANGED <<source, table, svc, ticking, warm, requests, mishaps>>

(***************************************************************************)
(* A child process closed.  When it was the active run, whoever waits for  *)
(* it goes on in the same turn of the event loop, whatever its exit code:  *)
(* the refresh clears the cache and answers, a blocking warm-up lets the   *)
(* service start, a stop goes on to the HTTP server.                       *)
(***************************************************************************)
ChildClosed(r) ==
  /\ run' = [run EXCEPT ![r] = NoRun]
  /\ IF active = r
     THEN /\ active' = None
          /\ IF refresh.at = "waiting"
             THEN refresh' = NoRefresh /\ cache' = <<>>
             ELSE UNCHANGED <<refresh, cache>>
          /\ warm' = IF warm = "running" THEN "done" ELSE warm
          /\ svc' = CASE svc = "booting"  -> "up"
                      [] svc = "stopping" -> "closing"
                      [] OTHER            -> svc
          /\ ticking' = (ticking \/ svc = "booting")
     ELSE UNCHANGED <<process, refresh, cache>>
  /\ UNCHANGED reader

(***************************************************************************)
(* The batch.                                                              *)
(***************************************************************************)
RunReads(r) ==
  /\ Live(r) /\ ~ Finished(r) /\ Statement(r).op = "read"
  /\ run' = [run EXCEPT ![r].seen = source, ![r].pc = @ + 1]
  /\ UNCHANGED <<source, table, process, requests, mishaps>>

RunDestroys(r) ==
  /\ Live(r) /\ ~ Finished(r) /\ Statement(r).op = "destroy"
  /\ table' = [table EXCEPT ![<<Statement(r).on, Statement(r).year>>] = Missing]
  /\ run' = [run EXCEPT ![r].pc = @ + 1]
  /\ UNCHANGED <<source, process, requests, mishaps>>

\* bulkCreate is one statement; the unique indexes reject it when rows of
\* another run are there.
RunCreates(r) ==
  LET t == <<Statement(r).on, Statement(r).year>> IN
  /\ Live(r) /\ ~ Finished(r) /\ Statement(r).op = "create"
  /\ table[t] = Missing
  /\ table' = [table EXCEPT ![t] = run[r].seen]
  /\ run' = [run EXCEPT ![r].pc = @ + 1]
  /\ UNCHANGED <<source, process, requests, mishaps>>

RunCollides(r) ==
  /\ Live(r) /\ ~ Finished(r) /\ Statement(r).op = "create"
  /\ table[<<Statement(r).on, Statement(r).year>>] # Missing
  /\ ChildClosed(r)
  /\ UNCHANGED <<source, table, mishaps>>

\* A database does not answer: exit code 1.
RunFails(r) ==
  /\ Live(r) /\ ~ Finished(r) /\ mishaps < MaxMishaps
  /\ mishaps' = mishaps + 1
  /\ ChildClosed(r)
  /\ UNCHANGED <<source, table>>

RunEnds(r) ==
  /\ Live(r) /\ Finished(r)
  /\ ChildClosed(r)
  /\ UNCHANGED <<source, table, mishaps>>

\* The signal takes effect.  A process may let SIGTERM wait for ever.
RunDies(r) ==
  /\ Live(r) /\ run[r].signal # "none"
  /\ ChildClosed(r)
  /\ UNCHANGED <<source, table, mishaps>>

RunSteps(r) ==
  RunReads(r) \/ RunDestroys(r) \/ RunCreates(r) \/ RunCollides(r) \/ RunEnds(r)

(***************************************************************************)
(* Start and stop of the service.                                          *)
(***************************************************************************)

\* The warm-up is waited for or left to run beside the HTTP server
\* (DASHBOARD_AGGREGATION_AWAIT_ON_START).
Boot ==
  /\ svc = "down"
  /\ \E await \in BOOLEAN :
       /\ svc' = IF await THEN "booting" ELSE "up"
       /\ ticking' = ~ await
  /\ warm' = "inspect"
  /\ UNCHANGED <<source, table, run, active, requests, mishaps>>

\* A target table without rows needs a rebuild; one with rows may be past
\* its freshness threshold or not.
WarmUp ==
  /\ svc # "down" /\ warm = "inspect"
  /\ \E old \in BOOLEAN :
       IF old \/ \E t \in TargetTables \cap Summaries : table[t] = Missing
       THEN /\ RunAggregation(Target)
            /\ warm' = "running"
            /\ UNCHANGED <<svc, ticking>>
       ELSE /\ warm' = "done"
            /\ svc' = IF svc = "booting" THEN "up" ELSE svc
            /\ ticking' = (ticking \/ svc = "booting")
            /\ UNCHANGED <<run, active>>
  /\ UNCHANGED <<source, table, requests, mishaps>>

\* SIGTERM or SIGINT: the workers are stopped first, the active run with
\* SIGTERM, then the HTTP server.
Stop ==
  /\ svc \in {"booting", "up"} /\ mishaps < MaxMishaps
  /\ mishaps' = mishaps + 1
  /\ ticking' = FALSE
  /\ IF active = None
     THEN svc' = "closing" /\ UNCHANGED run
     ELSE svc' = "stopping" /\ run' = [run EXCEPT ![active].signal = "SIGTERM"]
  /\ UNCHANGED <<source, table, active, warm, requests>>

\* Mutant: the stop waits for SIGTERM to take effect.
EscalateNever == FALSE /\ UNCHANGED vars

Escalate ==
  /\ svc = "stopping" /\ run[active].signal = "SIGTERM"
  /\ run' = [run EXCEPT ![active].signal = "SIGKILL"]
  /\ UNCHANGED <<source, table, process, requests, mishaps>>

\* The process is gone, its memory and its requests with it; children that
\* are still alive go on.
ServiceGone ==
  /\ svc' = "down" /\ ticking' = FALSE /\ active' = None /\ warm' = "none"
  /\ cache' = <<>>
  /\ reader' = [c \in Readers |-> Idle]
  /\ refresh' = NoRefresh
  /\ run' = [r \in RunIds |->
               IF Live(r) THEN [run[r] EXCEPT !.orphan = TRUE] ELSE NoRun]

\* The HTTP server closed, or its requests took too long.
Exit ==
  /\ svc = "closing"
  /\ ServiceGone
  /\ UNCHANGED <<source, table, mishaps>>

Crash ==
  /\ svc # "down" /\ mishaps < MaxMishaps
  /\ mishaps' = mishaps + 1
  /\ ServiceGone
  /\ UNCHANGED <<source, table>>

(***************************************************************************)
(* The requests.  The server listens until the workers are stopped.        *)
(***************************************************************************)
Listening == svc \in {"up", "stopping"}

\* A GET that the cache answers, or that has to read the table.
Get(c, t) ==
  /\ Listening /\ reader[c] = Idle
  /\ cache' = AfterGet(cache, t)
  /\ reader' = IF IsHit(cache, t)
               THEN reader
               ELSE [reader EXCEPT ![c] = [Idle EXCEPT !.at = "asked", !.table = t]]
  /\ UNCHANGED <<source, table, run, process, refresh, mishaps>>

\* A table without rows is answered with 404 and not cached.
ReadTable(c) ==
  /\ reader[c].at = "asked"
  /\ LET got == table[reader[c].table] IN
     reader' = [reader EXCEPT ![c] =
                  IF got = Missing THEN Idle
                  ELSE [@ EXCEPT !.at = "got", !.got = got]]
  /\ UNCHANGED <<source, table, run, process, cache, refresh, mishaps>>

\* The rows arrive, whatever happened to the cache since they were read.
Fill(c) ==
  /\ reader[c].at = "got"
  /\ cache' = AfterSet(cache, reader[c].table, reader[c].got)
  /\ reader' = [reader EXCEPT ![c] = Idle]
  /\ UNCHANGED <<source, table, run, process, refresh, mishaps>>

\* Mutant: the time to live is not applied.
EntryNeverAges == FALSE /\ UNCHANGED vars

EntryAges ==
  /\ \E i \in DOMAIN cache : ~ cache[i].old /\ cache' = Aged(cache, i)
  /\ UNCHANGED <<source, table, run, process, reader, refresh, mishaps>>

Sweep ==
  /\ PruneExpired(cache) # cache
  /\ cache' = PruneExpired(cache)
  /\ UNCHANGED <<source, table, run, process, reader, refresh, mishaps>>

\* The request is accepted and goes through the guards of its route.
RefreshArrives(y) ==
  /\ Listening /\ refresh = NoRefresh
  /\ refresh' = [NoRefresh EXCEPT !.at = "arrived", !.year = y, !.since = source]
  /\ UNCHANGED <<source, table, run, process, cache, reader, mishaps>>

\* Mutant: the year asked for is not passed on.
RefreshRunsTarget ==
  /\ refresh.at = "arrived"
  /\ RunAggregation(Target)
  /\ refresh' = [refresh EXCEPT !.at = "waiting", !.alone = (LiveRuns = {})]
  /\ UNCHANGED <<source, table, svc, ticking, warm, cache, reader, mishaps>>

\* It starts a run, or waits for the one that is active.
RefreshRuns ==
  /\ refresh.at = "arrived"
  /\ RunAggregation(refresh.year)
  /\ refresh' = [refresh EXCEPT !.at = "waiting", !.alone = (LiveRuns = {})]
  /\ UNCHANGED <<source, table, svc, ticking, warm, cache, reader, mishaps>>

Next ==
  \/ SourceChanges
  \/ Tick
  \/ \E r \in RunIds : RunSteps(r) \/ RunFails(r) \/ RunDies(r)
  \/ Boot \/ WarmUp \/ Stop \/ Escalate \/ Exit \/ Crash
  \/ \E c \in Readers : ReadTable(c) \/ Fill(c) \/ \E t \in Asked : Get(c, t)
  \/ EntryAges \/ Sweep
  \/ \E y \in Years : RefreshArrives(y)
  \/ RefreshRuns

Spec == Init /\ [][Next]_vars

(***************************************************************************)
(* Fairness: the interval goes off, a batch process that is not stopped    *)
(* executes its statements, timers fire, a killed process ends, a query is *)
(* answered.  Nothing is assumed of clients, of faults or of a restart.    *)
(***************************************************************************)
Fairness ==
  /\ WF_vars(Tick) /\ WF_vars(WarmUp)
  /\ WF_vars(Escalate) /\ WF_vars(Exit)
  /\ WF_vars(EntryAges) /\ WF_vars(Sweep)
  /\ WF_vars(RefreshRuns)
  /\ \A r \in RunIds :
       /\ WF_vars(RunSteps(r) /\ run[r].signal = "none")
       /\ WF_vars(RunDies(r) /\ run[r].signal = "SIGKILL")
  /\ \A c \in Readers : WF_vars(ReadTable(c)) /\ WF_vars(Fill(c))

FairSpec == Spec /\ Fairness

-----------------------------------------------------------------------------

\* The service has at most one batch process of its own, the one it counts
\* as active: whatever starts runs - the interval, the warm-up, a refresh -
\* and however a stop crosses them, none is started beside another and none
\* is forgotten while the service lives.
OneOwnRun ==
  {r \in LiveRuns : ~ run[r].orphan} = IF active = None THEN {} ELSE {active}

\* A refresh that started its own run, with no other process' run still
\* alive, and whose run went through, answers when every table of its year
\* holds data at least as new as the request.
RefreshSeesItsRun ==
  [][ /\ refresh.at = "waiting" /\ refresh.alone
      /\ refresh' = NoRefresh /\ svc' = svc
      /\ Finished(active)
      => \A s \in ToSet(Script(refresh.year)) :
           table[<<s.on, s.year>>] >= refresh.since ]_vars

Settles == <>[](svc = "up" /\ refresh = NoRefresh)

\* Once the service stays up, the faults and the refreshes are over (each
\* refresh, for whatever year, takes the place of the ticks that find it
\* running) and the payroll data no longer changes, the tables of the target
\* year come to hold that data, again and again, and are never again filled
\* with older data - also after runs that died between emptying a table and
\* refilling it, and after runs of an earlier process that outlived it.
SummariesCatchUp ==
  Settles =>
    /\ <>[](\A t \in TargetTables : table[t] \in {Missing, source})
    /\ []<>(\A t \in TargetTables : table[t] = source)

\* ... and so do the answers: what was read before a rebuild and cached
\* after it is served for the time to live of its entry and no longer.
AnswersCatchUp ==
  Settles =>
    <>[](\A i \in DOMAIN cache :
           cache[i].key \in TargetTables => cache[i].data = source)

\* A shutdown ends, however long the batch ignores SIGTERM and whatever
\* requests still wait.
ShutdownEnds == svc \in {"stopping", "closing"} ~> svc = "down"
=============================================================================
