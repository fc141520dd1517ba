----------------------------- MODULE MCDashboard -----------------------------
(***************************************************************************)
(* How the dashboard is served, for TLC: the summaries and their worker,   *)
(* the cache, and the operator's page in the browser.  What the page asks  *)
(* for is answered in any order, or not at all, whatever the service does, *)
(* so the parts share no state and interleaving them would show nothing: a *)
(* behaviour runs one part, and the others stay where they are.            *)
(***************************************************************************)
EXTENDS Naturals, FiniteSets

CONSTANTS
  \* the summaries and the cache
  Readers, RunIds, SummaryChanges, MaxMishaps, SummaryEntries, Keys, CacheEntries,
  \* the page of the queue
  Statuses, Rows, Flights, MaxClicks

VARIABLES
  part,
  source, table, run, svc, ticking, active, warm, cache, reader, refresh, mishaps,
  kept, recent,
  status, selected, shown, trail, loading, refreshing, background, flight, clicks

summariesVars == <<source, table, run, svc, ticking, active, warm, cache, reader,
                   refresh, mishaps>>
cacheVars == <<kept, recent>>
panelVars == <<status, selected, shown, trail, loading, refreshing, background,
               flight, clicks>>

EarningsAsked == {<<"earnings", 2>>}

Summaries == INSTANCE DashboardSummaries WITH
  Years <- {1, 2}, Target <- 2, Datasets <- {"earnings"}, Asked <- EarningsAsked,
  MaxChanges <- SummaryChanges, MaxEntries <- SummaryEntries
Cache == INSTANCE CacheUse WITH MaxEntries <- CacheEntries
Panel == INSTANCE OperatorPanel

Parts == {"summaries", "cache", "panel"}

One(S) == CHOOSE x \in S : TRUE

\* Each part is in one of its initial states; one that is not run in one
\* and the same, and the panel without a load under way.
Init ==
  /\ part \in Parts
  /\ Summaries!Init
  /\ Cache!Init
  /\ IF part = "panel" THEN Panel!Init
     ELSE /\ status = One(Statuses) /\ shown = status
          /\ selected = Panel!Nothing /\ trail = Panel!Nothing
          /\ loading = TRUE /\ refreshing = FALSE /\ background = FALSE
          /\ flight = [f \in Flights |-> Panel!Free] /\ clicks = 0

Stays(q) ==
  CASE q = "summaries" -> UNCHANGED summariesVars
    [] q = "cache"     -> UNCHANGED cacheVars
    [] q = "panel"     -> UNCHANGED panelVars

Only(p) == part = p /\ part' = p /\ \A q \in Parts \ {p} : Stays(q)

Next ==
  \/ Only("summaries") /\ Summaries!Next
  \/ Only("cache")     /\ Cache!Next
  \/ Only("panel")     /\ Panel!Next

vars == <<part, summariesVars, cacheVars, panelVars>>

\* Nothing that the fairness speaks of is enabled in a part at rest.
FairSpec == Init /\ [][Next]_vars /\ Summaries!Fairness /\ Panel!Fairness

-----------------------------------------------------------------------------
\* The properties, each stated and explained in the module of its part.

\* DashboardSummaries: no run is started beside another.
OneOwnRun == part = "summaries" => Summaries!OneOwnRun

\* DashboardSummaries: a refresh answers with data as new as itself.
RefreshSeesItsRun == Summaries!RefreshSeesItsRun

\* DashboardSummaries: the tables come to hold the payroll data, and the
\* cached answers do.
ReadersCatchUp == Summaries!SummariesCatchUp /\ Summaries!AnswersCatchUp

\* DashboardSummaries: a shutdown ends.
ShutdownEnds == Summaries!ShutdownEnds

\* CacheUse: the cache keeps what was used last.
LruKeepsRecent == part = "cache" => Cache!LruKeepsRecent

\* OperatorPanel: the page comes to show what is chosen.
PanelCatchesUp == Panel!PanelCatchesUp
=============================================================================
