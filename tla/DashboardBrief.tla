--------------------------- MODULE DashboardBrief ----------------------------
(***************************************************************************)
(* The executive brief: the verdict on the state of the summaries, of the  *)
(* alerts and of the queue that the dashboard service computes             *)
(* (dashboardExecutiveService.js), the one that the browser computes from  *)
(* its other feeds while it has none of the service                        *)
(* (useDashboardData.js), and the operational readiness built on it        *)
(* (dashboardOperationalReadinessService.js).                              *)
(*                                                                         *)
(* One situation, one load of the page: feeds arrive or fail in any order. *)
(* The latest summary row and the rows an endpoint answers have one age.   *)
(***************************************************************************)
EXTENDS Naturals, FiniteSets, FiniteSetsExt

CONSTANTS
  Sources,       \* the datasets followed, of earnings, vacation and benefits
  Ages,          \* minutes since a dataset was computed
  FreshMinutes,  \* DASHBOARD_FRESHNESS_THRESHOLD_MINUTES
  AlertTypes,
  Depths,        \* numbers of actionable events
  Waits,         \* minutes the oldest pending event waits
  MaxFails       \* bound: feeds that fail although their service could answer

VARIABLES
  situation,  \* what there is to be told
  feed        \* feed[f]: "unasked", "loading", "arrived" or "failed"

briefVars == <<situation, feed>>

NoRows == 1 + Max(Ages)  \* the age of a dataset without rows
FrontFreshMinutes == 120 \* the browser does not know the threshold configured

QueueActionableWarning == 5
QueueActionableCritical == 20
QueuePendingAgeWarning == 10
QueuePendingAgeCritical == 30

Quiet == [down |-> FALSE, actionable |-> 0, backlog |-> 0, wait |-> 0]
Down == [Quiet EXCEPT !.down = TRUE]
Queues == {Down} \cup {q \in [down : {FALSE}, actionable : Depths, backlog : {0, 1}, wait : Waits] :
                         q.backlog = 0 => q.wait = 0}

\* A reader who may not see the queue is told nothing of it.
Situations ==
  {s \in [age : [Sources -> Ages \cup {NoRows}],
          alert : [AlertTypes -> {"none", "unassigned", "stale", "owned"}],
          operator : BOOLEAN, queue : Queues] :
     ~ s.operator => s.queue = Quiet}

Init ==
  /\ situation \in Situations
  /\ feed = [f \in Sources \cup {"alerts", "metrics", "brief"} |->
               IF f = "metrics" /\ ~ situation.operator THEN "unasked" ELSE "loading"]

\* A summary endpoint without rows answers 404.
Answerable(f) ==
  CASE f \in Sources -> situation.age[f] # NoRows
    [] f = "metrics" -> ~ situation.queue.down
    [] OTHER         -> TRUE

Failed(S) == {f \in S : feed[f] = "failed"}

Arrive(f) ==
  /\ feed[f] = "loading" /\ Answerable(f)
  /\ feed' = [feed EXCEPT ![f] = "arrived"]
  /\ UNCHANGED situation

Fail(f) ==
  /\ feed[f] = "loading"
  /\ Answerable(f) => Cardinality({g \in Failed(DOMAIN feed) : Answerable(g)}) < MaxFails
  /\ feed' = [feed EXCEPT ![f] = "failed"]
  /\ UNCHANGED situation

Next == \E f \in DOMAIN feed : Arrive(f) \/ Fail(f)

-----------------------------------------------------------------------------
(***************************************************************************)
(* What both sides share.  An action is known by its tone.                 *)
(***************************************************************************)
\* The label of a list of actions.
Label(tones) ==
  IF "critical" \in tones THEN "Action Required"
  ELSE IF tones # {} THEN "Monitor Closely" ELSE "Ready for Memo"

Rank(label) ==
  CASE label = "Ready for Memo" -> 0 [] label = "Monitor Closely" -> 1
    [] label = "Action Required" -> 2

AlertActions(alert) ==
  LET with(status) == \E y \in AlertTypes : alert[y] = status
  IN  IF with("unassigned") THEN {"critical", "info"}
      ELSE IF with("stale") THEN {"warning", "info"} ELSE {}

buildQueueSeverity(q) ==
  IF q.actionable >= QueueActionableCritical \/ q.wait >= QueuePendingAgeCritical
  THEN "critical"
  ELSE IF q.actionable >= QueueActionableWarning \/ q.wait >= QueuePendingAgeWarning
       THEN "warning" ELSE "healthy"

QueueActions(q) ==
  IF q.down THEN {"warning"}
  ELSE IF q.actionable > 0 \/ q.backlog > 0
       THEN IF buildQueueSeverity(q) = "healthy" THEN {"info"} ELSE {buildQueueSeverity(q)}
       ELSE {}

(***************************************************************************)
(* The service.                                                            *)
(***************************************************************************)
Unknown(s) == {d \in Sources : s.age[d] = NoRows}
Stale(s) == {d \in Sources \ Unknown(s) : s.age[d] > FreshMinutes}

buildFreshnessReadiness(s) ==
  IF Unknown(s) # {} THEN "coverage_gap"
  ELSE IF Stale(s) # {} THEN "refresh_lag" ELSE "current"

buildActionCenter(s) ==
  Label((IF buildFreshnessReadiness(s) # "current" THEN {"warning"} ELSE {})
        \cup AlertActions(s.alert)
        \cup IF s.operator THEN QueueActions(s.queue) ELSE {})

(***************************************************************************)
(* The browser, without the brief of the service.                          *)
(***************************************************************************)
Arrived == {d \in Sources : feed[d] = "arrived"}
FrontStale == {d \in Arrived : situation.age[d] > FrontFreshMinutes}

\* One dataset that is known and fresh hides that others are not known.
fallbackGlobalFreshness ==
  IF Arrived = {} THEN "unknown"
  ELSE IF FrontStale # {} THEN "stale" ELSE "fresh"

FrontAlerts ==
  IF feed["alerts"] = "arrived" THEN situation.alert
  ELSE [y \in AlertTypes |-> "none"]

\* Until they arrive, there are no metrics: nothing is actionable.
FrontQueue ==
  CASE feed["metrics"] = "arrived" -> situation.queue
    [] feed["metrics"] = "failed"  -> Down
    [] OTHER                       -> Quiet

\* Mutant: a summary that could not be loaded is not counted.
BriefWithoutErrors ==
  Label((IF fallbackGlobalFreshness # "fresh" THEN {"warning"} ELSE {})
        \cup AlertActions(FrontAlerts)
        \cup IF situation.operator THEN QueueActions(FrontQueue) ELSE {})

computedExecutiveBrief ==
  Label((IF Failed(Sources) # {} THEN {"critical"} ELSE {})
        \cup (IF fallbackGlobalFreshness # "fresh" THEN {"warning"} ELSE {})
        \cup AlertActions(FrontAlerts)
        \cup IF situation.operator THEN QueueActions(FrontQueue) ELSE {})

executiveBrief ==
  IF feed["brief"] = "arrived" THEN buildActionCenter(situation)
  ELSE computedExecutiveBrief

(***************************************************************************)
(* The operational readiness, for what else it looks at: the health of the *)
(* three services (the worst of them), of the delivery to Payroll, and the *)
(* issues that the reconciliation counts.                                  *)
(***************************************************************************)
Healths == {"healthy", "warning", "critical"}

SummariesCard(s) ==
  CASE buildFreshnessReadiness(s) = "coverage_gap" -> "critical"
    [] buildFreshnessReadiness(s) = "refresh_lag"  -> "warning"
    [] OTHER                                       -> "healthy"

ParityCard(s, issues) ==
  IF ~ s.operator THEN "restricted"
  ELSE IF issues = 0 THEN "healthy" ELSE "critical"

QueueCard(s, delivery) ==
  IF ~ s.operator THEN "restricted"
  ELSE IF s.queue.down \/ delivery = "critical" THEN "critical"
  ELSE IF delivery = "warning" THEN "warning"
  ELSE buildQueueSeverity(s.queue)

buildOverall(cards) ==
  IF "critical" \in cards THEN "Action needed"
  ELSE IF "warning" \in cards THEN "Monitor"
  ELSE IF "restricted" \in cards THEN "Limited" ELSE "Ready"

Readiness(s, services, delivery, issues) ==
  buildOverall({services, SummariesCard(s), ParityCard(s, issues), QueueCard(s, delivery)})

-----------------------------------------------------------------------------

\* The brief the page shows, also the one it makes up without the service,
\* says "Ready for Memo" only when the service would, and is never milder
\* than the service when the feed of the queue arrived.  Known exceptions:
\* feeds still loading, a feed of the alerts that failed, and a threshold
\* configured below that of the browser.  And the readiness is "Ready" only
\* when the brief has nothing but alerts, or a queue within its limits, to
\* mention.
ReadyIsReady ==
  /\ \/ FreshMinutes < FrontFreshMinutes
     \/ feed["alerts"] # "arrived"
     \/ \E f \in (DOMAIN feed) \ {"brief"} : feed[f] = "loading"
     \/ /\ executiveBrief = "Ready for Memo" =>
             buildActionCenter(situation) = "Ready for Memo"
        /\ feed["metrics"] = "arrived" \/ ~ situation.operator =>
             Rank(executiveBrief) >= Rank(buildActionCenter(situation))
  /\ \A services, delivery \in Healths, issues \in {0, 1} :
       Readiness(situation, services, delivery, issues) = "Ready" =>
         /\ services = "healthy" /\ issues = 0
         /\ buildActionCenter([situation EXCEPT !.alert = [y \in AlertTypes |-> "none"]])
              # "Action Required"
         /\ QueueActions(situation.queue) \subseteq {"info"}
         /\ \A d \in Sources : situation.age[d] <= FreshMinutes
=============================================================================
