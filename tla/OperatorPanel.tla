--------------------------- MODULE OperatorPanel ----------------------------
(***************************************************************************)
(* The page of the integration queue in the browser                        *)
(* (dashboard/src/components/IntegrationEventsPanel.jsx): the list of the  *)
(* events in the status chosen, the audit trail of the event selected, and *)
(* the refreshes that load both again.  Answers arrive in any order, and   *)
(* each is shown when it arrives: none is cancelled or turned down.  A     *)
(* refresh works on the choices of the moment it began.                    *)
(*                                                                         *)
(* The metrics and the parity snapshot are loaded alike and do not depend  *)
(* on a choice: they are left out.                                         *)
(***************************************************************************)
EXTENDS Naturals, FiniteSets

CONSTANTS
  Statuses,   \* what the list can be filtered by
  Rows,       \* events whose audit trail may be opened
  Flights,    \* bound: loads under way
  MaxClicks   \* bound: choices and commands of the operator, and loads that fail

VARIABLES
  status,     \* the status chosen
  selected,   \* the event whose audit trail is open
  shown,      \* the status of the events shown
  trail,      \* the event of the audit entries shown
  loading, refreshing,
  background, \* backgroundRefreshRef
  flight,     \* flight[f]: a load under way
  clicks

panelVars == <<status, selected, shown, trail, loading, refreshing, background,
               flight, clicks>>

Nothing == "nothing"
Free == [kind |-> "free", step |-> "none", status |-> Nothing, event |-> Nothing]

\* What each kind of load does, and with which choices it began.
Load(kind, step) == [kind |-> kind, step |-> step, status |-> status, event |-> selected]
Begin(load) == \E f \in Flights : flight[f] = Free /\ flight' = [flight EXCEPT ![f] = load]

Init ==
  /\ status \in Statuses
  /\ selected = Nothing /\ shown = Nothing /\ trail = Nothing
  /\ loading = TRUE /\ refreshing = FALSE /\ background = FALSE
  /\ clicks = 0
  /\ \E f \in Flights : flight = [g \in Flights |-> IF g = f THEN Load("list", "events") ELSE Free]

Click == clicks < MaxClicks /\ clicks' = clicks + 1

(***************************************************************************)
(* The operator.                                                           *)
(***************************************************************************)
ChooseStatus ==
  /\ Click
  /\ \E s \in Statuses \ {status} :
       /\ status' = s
       /\ Begin([Load("list", "events") EXCEPT !.status = s])
  /\ loading' = TRUE
  /\ UNCHANGED <<selected, shown, trail, refreshing, background>>

OpenTrail ==
  /\ Click /\ ~ loading /\ ~ refreshing
  /\ \E e \in Rows : selected' = e /\ Begin([Load("trail", "trail") EXCEPT !.event = e])
  /\ UNCHANGED <<status, shown, trail, loading, refreshing, background>>

CloseTrail ==
  /\ Click /\ selected # Nothing
  /\ selected' = Nothing /\ trail' = Nothing
  /\ UNCHANGED <<status, shown, loading, refreshing, background, flight>>

\* The refresh button, or a command that was carried out: retry, replay,
\* recover, repair.
Command ==
  /\ Click /\ ~ loading /\ ~ refreshing
  /\ refreshing' = TRUE
  /\ Begin(Load("command", "events"))
  /\ UNCHANGED <<status, selected, shown, trail, loading, background>>

(***************************************************************************)
(* The interval.                                                           *)
(***************************************************************************)

Timer ==
  /\ ~ loading /\ ~ refreshing /\ ~ background
  /\ background' = TRUE
  /\ Begin(Load("timer", "events"))
  /\ UNCHANGED <<status, selected, shown, trail, loading, refreshing, clicks>>

(***************************************************************************)
(* The answers.                                                            *)
(***************************************************************************)

\* Mutant: only a load that succeeds lets the interval go on.
EndOfSuccess(f) ==
  /\ flight' = [flight EXCEPT ![f] = Free]
  /\ refreshing' = (refreshing /\ flight[f].kind # "command")
  /\ background' = (background /\ (flight[f].kind # "timer" \/ clicks' # clicks))
  /\ loading' = (loading /\ flight[f].kind # "list")

End(f) ==
  /\ flight' = [flight EXCEPT ![f] = Free]
  /\ refreshing' = (refreshing /\ flight[f].kind # "command")
  /\ background' = (background /\ flight[f].kind # "timer")
  /\ loading' = (loading /\ flight[f].kind # "list")

\* A refresh goes on, whether the events came or not, with the trail of the
\* event that was selected when it began, and selects that event again.
GoOn(f) ==
  IF flight[f].kind # "list" /\ flight[f].event # Nothing
  THEN /\ selected' = flight[f].event
       /\ flight' = [flight EXCEPT ![f].step = "trail"]
       /\ UNCHANGED <<loading, refreshing, background>>
  ELSE End(f) /\ UNCHANGED selected

\* The events arrive, or fail to: then the list stays as it was.
EventsArrive(f) ==
  /\ flight[f].step = "events"
  /\ \/ shown' = flight[f].status /\ UNCHANGED clicks
     \/ Click /\ UNCHANGED shown
  /\ GoOn(f)
  /\ UNCHANGED <<status, trail>>

\* The entries arrive, or fail to: then none are shown.
TrailArrives(f) ==
  /\ flight[f].step = "trail"
  /\ \/ trail' = flight[f].event /\ UNCHANGED clicks
     \/ Click /\ trail' = Nothing
  /\ End(f)
  /\ UNCHANGED <<status, selected, shown>>

Next ==
  \/ ChooseStatus \/ OpenTrail \/ CloseTrail \/ Command \/ Timer
  \/ \E f \in Flights : EventsArrive(f) \/ TrailArrives(f)

\* The page is visible, so its interval goes off; each load is answered.
Fairness ==
  /\ WF_panelVars(Timer)
  /\ \A f \in Flights : WF_panelVars(EventsArrive(f) /\ clicks' = clicks)
                        /\ WF_panelVars(TrailArrives(f) /\ clicks' = clicks)

\* Once the operator chooses nothing more and loads succeed, the page comes
\* to show the events of the status chosen and the trail of the event
\* selected, and keeps showing them, whatever late answers of earlier
\* choices overwrote before.
PanelCatchesUp ==
  <>[](shown = status /\ (selected # Nothing => trail = selected))
=============================================================================
