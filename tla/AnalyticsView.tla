---------------------------- MODULE AnalyticsView ----------------------------
(***************************************************************************)
(* The year and the department chosen in the browser and the summaries     *)
(* that the analytics page shows for them (hooks/useDashboardData.js,      *)
(* pages/AnalyticsPage.jsx).  The hook keeps the summaries of a year; the  *)
(* page keeps those of a year and a department beside them and shows them  *)
(* while a department is chosen.                                           *)
(*                                                                         *)
(* Each effect loads when its choices change and aborts its load when they *)
(* change again.  Loads begun by a button or after a command are not       *)
(* aborted by anything.  The three summaries are loaded alike: one stands  *)
(* for all.                                                                *)
(***************************************************************************)
EXTENDS Naturals, FiniteSets

CONSTANTS
  YearsShown,   \* years to choose from
  Departments,
  Flights,      \* bound: loads under way
  MaxChoices    \* bound: choices and clicks, and loads that fail

VARIABLES
  currentYear,
  departmentScope,  \* the department chosen, or Everybody
  yearShown,          \* the summaries of the hook: their year, or NoData
  scoped,           \* scopedAnalytics: year and department, or NoData
  load,             \* load[f]: a load under way
  late,             \* history: buttons' loads were under way at a choice
  choices

viewVars == <<currentYear, departmentScope, yearShown, scoped, load, late, choices>>

Everybody == "everybody"
NoData == <<0, Everybody>>
NoLoad == [by |-> "nobody", of |-> NoData]

Global(year) == <<year, Everybody>>
AllGlobal == {Global(y) : y \in YearsShown}
AllScoped == YearsShown \X Departments

Free(loads) == {f \in Flights : loads[f] = NoLoad}

\* Mutant: an effect does not abort what it began.
AbortNothing(loads, mine) == loads

\* An effect is cleaned up.
Abort(loads, mine) ==
  [f \in Flights |-> IF loads[f].by = "effect" /\ loads[f].of \in mine
                     THEN NoLoad ELSE loads[f]]

With(loads, by, of) ==
  {[loads EXCEPT ![f] = [by |-> by, of |-> of]] : f \in Free(loads)}

Choice == choices < MaxChoices /\ choices' = choices + 1
Chosen == late' = (late \/ \E f \in Flights : load[f].by = "button")

Init ==
  /\ currentYear \in YearsShown
  /\ departmentScope = Everybody
  /\ yearShown = NoData /\ scoped = NoData
  /\ load \in With([f \in Flights |-> NoLoad], "effect", Global(currentYear))
  /\ late = FALSE /\ choices = 0

\* The hook loads everything again for a new year, and the page what its
\* department shows.
ChooseYear ==
  /\ Choice /\ Chosen
  /\ \E y \in YearsShown \ {currentYear} :
       /\ currentYear' = y
       /\ \E loads \in With(Abort(load, AllGlobal \cup AllScoped), "effect", Global(y)) :
            IF departmentScope = Everybody THEN load' = loads
            ELSE load' \in With(loads, "effect", <<y, departmentScope>>)
  /\ UNCHANGED <<departmentScope, yearShown, scoped>>

\* A department is chosen, or the choice is taken back: then what was shown
\* for it is forgotten.
ChooseDepartment ==
  /\ Choice /\ Chosen
  /\ departmentScope' \in (Departments \cup {Everybody}) \ {departmentScope}
  /\ LET loads == Abort(load, AllScoped) IN
     IF departmentScope' = Everybody
     THEN load' = loads /\ scoped' = NoData
     ELSE load' \in With(loads, "effect", <<currentYear, departmentScope'>>)
          /\ UNCHANGED scoped
  /\ UNCHANGED <<currentYear, yearShown>>

\* A button that loads again what is shown.
Reload ==
  /\ Choice
  /\ load' \in With(load, "button", <<currentYear, departmentScope>>)
  /\ UNCHANGED <<currentYear, departmentScope, yearShown, scoped, late>>

\* The button of the overview, or a command carried out: the hook loads all.
ReloadAll ==
  /\ Choice
  /\ load' \in With(load, "button", Global(currentYear))
  /\ UNCHANGED <<currentYear, departmentScope, yearShown, scoped, late>>

Shown(f, data) ==
  /\ load[f] # NoLoad
  /\ IF load[f].of \in AllGlobal THEN yearShown' = data /\ UNCHANGED scoped
     ELSE scoped' = data /\ UNCHANGED yearShown
  /\ load' = [load EXCEPT ![f] = NoLoad]
  /\ UNCHANGED <<currentYear, departmentScope, late>>

Arrives(f) == Shown(f, load[f].of) /\ UNCHANGED choices

\* An error takes the place of what was shown.
Fails(f) == Choice /\ Shown(f, NoData)

Next ==
  \/ ChooseYear \/ ChooseDepartment \/ Reload \/ ReloadAll
  \/ \E f \in Flights : Arrives(f) \/ Fails(f)

\* When nothing is loading, the page shows the year and the department
\* chosen, or an error.  Known exception: a load begun by a button before
\* the last choice may still arrive after it.
SummariesAreChosen ==
  (\A f \in Flights : load[f] = NoLoad) /\ ~ late =>
    /\ yearShown \in {NoData, Global(currentYear)}
    /\ scoped \in {NoData, <<currentYear, departmentScope>>}
=============================================================================
