--------------------------- MODULE ServiceParts ----------------------------
(***************************************************************************)
(* The parts of the service whose safety alone is checked: the alerts, the *)
(* drilldown with its export, the ids of the employees, the executive      *)
(* brief, the schema, the accounts with their page, and the rate limiter.  *)
(***************************************************************************)
EXTENDS OnePart, Naturals, FiniteSets

CONSTANTS
  \* the alerts
  Types, Thresholds, Counts, Jobs, MaxClock, MaxStarts, MaxFaults,
  \* the drilldown
  Enrolled, Found, Amounts, MaxCount, MaxChanges,
  \* the employee ids
  Callers, Earlier, MaxId,
  \* the executive brief
  Sources, Ages, FreshMinutes, AlertTypes, Depths, Waits, MaxFails,
  \* the schema
  Procs, Olds, SchemaStarts, MaxWrites,
  \* the accounts
  Users, Starters, Seeds, MaxSeeds, MaxCalls, MaxLoads, MaxBegun, MaxErrors,
  \* the rate limiter
  Keys, Window, Limit, Cleanup, Second, MaxTime, MaxRequests

VARIABLES
  config, matching, rows, listed, job, script, ack, clock, starts, faults, odd, upset,
  paid, totals, snapshot, summary, batch, changes,
  counter, employees, caller, given,
  situation, feed,
  db, proc, schemaStarts, writes, severed, rewritten,
  copies, account, seed, call, userPage, counts, together, userCrossed, full,
  now, store, cleanedAt, passed, retryAt, requests, unjust

alertsVars == <<config, matching, rows, listed, job, script, ack, clock, starts,
                faults, odd, upset>>
drilldownVars == <<paid, totals, snapshot, summary, batch, changes>>
idsVars == <<counter, employees, caller, given>>
briefVars == <<situation, feed>>
schemaVars == <<db, proc, schemaStarts, writes, severed, rewritten>>
accountsVars == <<copies, account, seed, call, userPage, counts, together, userCrossed, full>>
limiterVars == <<now, store, cleanedAt, passed, retryAt, requests, unjust>>

\* Three employees, of which any two differ in a column: one has said nothing
\* of its ethnicity, one has said "Unknown" and belongs to no department.
Employees == {"e1", "e2", "e3"}
Dimensions == {"department", "ethnicity"}
None == "none"
Default == [department |-> "Unassigned", ethnicity |-> "Unknown"]
ValueOf == [department |-> [e1 |-> "d1", e2 |-> "d1", e3 |-> None],
            ethnicity  |-> [e1 |-> "A", e2 |-> None, e3 |-> "Unknown"]]

Alerting == INSTANCE DashboardAlerts
Drill == INSTANCE Drilldown
Ids == INSTANCE EmployeeIds
Brief == INSTANCE DashboardBrief
Schema == INSTANCE SchemaMigrations WITH starts <- schemaStarts, MaxStarts <- SchemaStarts
Roles == INSTANCE Accounts WITH page <- userPage, crossed <- userCrossed,
                                MaxFailures <- MaxErrors
Limiter == INSTANCE RateLimiter

Services == {"alerts", "drilldown", "ids", "brief", "schema", "accounts", "limiter"}

\* A behaviour begins in an initial state of its part.
ServiceInit ==
  /\ part \in Services
  /\ Begins("alerts", Alerting!Init,
       Off4(config, matching, rows, listed) /\ Off4(job, script, ack, clock)
         /\ Off4(starts, faults, odd, upset))
  /\ Begins("drilldown", Drill!Init,
       Off4(paid, totals, snapshot, summary) /\ Off2(batch, changes))
  /\ Begins("ids", Ids!Init,
       Off4(counter, employees, caller, given))
  /\ Begins("brief", Brief!Init,
       Off2(situation, feed))
  /\ Begins("schema", Schema!Init,
       Off4(db, proc, schemaStarts, writes) /\ Off2(severed, rewritten))
  /\ Begins("accounts", Roles!Init,
       Off4(copies, account, seed, call)
         /\ Off4(userPage, counts, together, userCrossed) /\ Off(full))
  /\ Begins("limiter", Limiter!Init,
       Off4(now, store, cleanedAt, passed) /\ Off2(retryAt, requests) /\ Off(unjust))

\* No part of these is run.
ServiceRest ==
  /\ Off4(config, matching, rows, listed) /\ Off4(job, script, ack, clock)
     /\ Off4(starts, faults, odd, upset)
  /\ Off4(paid, totals, snapshot, summary) /\ Off2(batch, changes)
  /\ Off4(counter, employees, caller, given)
  /\ Off2(situation, feed)
  /\ Off4(db, proc, schemaStarts, writes) /\ Off2(severed, rewritten)
  /\ Off4(copies, account, seed, call)
     /\ Off4(userPage, counts, together, userCrossed) /\ Off(full)
  /\ Off4(now, store, cleanedAt, passed) /\ Off2(retryAt, requests) /\ Off(unjust)

StaysService(q) ==
  CASE q = "alerts"    -> UNCHANGED alertsVars
    [] q = "drilldown" -> UNCHANGED drilldownVars
    [] q = "ids"       -> UNCHANGED idsVars
    [] q = "brief"     -> UNCHANGED briefVars
    [] q = "schema"    -> UNCHANGED schemaVars
    [] q = "accounts"  -> UNCHANGED accountsVars
    [] q = "limiter"   -> UNCHANGED limiterVars

OnlyService(p) == part = p /\ part' = p /\ \A q \in Services \ {p} : StaysService(q)

ServiceNext ==
  \/ OnlyService("alerts")    /\ Alerting!Next
  \/ OnlyService("drilldown") /\ Drill!Next
  \/ OnlyService("ids")       /\ Ids!Next
  \/ OnlyService("brief")     /\ Brief!Next
  \/ OnlyService("schema")    /\ Schema!Next
  \/ OnlyService("accounts")  /\ Roles!Next
  \/ OnlyService("limiter")   /\ Limiter!Next

serviceVars == <<part, alertsVars, drilldownVars, idsVars, briefVars,
                 schemaVars, accountsVars, limiterVars>>

ServiceSpec == ServiceInit /\ [][ServiceNext]_serviceVars

-----------------------------------------------------------------------------
\* The properties, each stated and explained in the module of its part.

\* DashboardAlerts: one active alert per type.
OneActivePerType == part = "alerts" => Alerting!OneActivePerType

\* DashboardAlerts: rows and lists show the active alerts, and what is shown
\* as owned is what its manager saw.
AlertsAreFollowed ==
  part = "alerts" => Alerting!SummariesFollowAlerts /\ Alerting!OwnedIsCurrent

\* Drilldown: the list, its export and the totals looked up agree.
FiguresAgree ==
  part = "drilldown" => Drill!ExportMatchesList /\ Drill!SummaryOfDimensions

\* EmployeeIds: no id is given twice.
FreshIds == [][part = "ids" => Ids!GivesFreshId]_serviceVars

\* DashboardBrief: nothing is called ready that is not.
ReadyIsReady == part = "brief" => Brief!ReadyIsReady

\* SchemaMigrations: starts that overlap, fail and die leave what they
\* recorded, the data, and a database the next start can work with.
SchemaIsSound ==
  part = "schema" =>
    Schema!RecordedIsInPlace /\ Schema!DataSurvives /\ Schema!NextStartSucceeds

\* Accounts: seeds leave one of each role, and the root; and the page shows
\* the users as they are stored.
AccountsAgree == part = "accounts" => Roles!SeedsAgree /\ Roles!UsersShownAreStored

\* RateLimiter: neither too many pass nor too few.
LimitIsFair == part = "limiter" => Limiter!LimitIsFair
=============================================================================
