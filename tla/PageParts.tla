----------------------------- MODULE PageParts ------------------------------
(***************************************************************************)
(* The pages, the forms and the dialogs of the browser: what they ask for  *)
(* is answered in any order, or not at all, whatever the service does.     *)
(***************************************************************************)
EXTENDS OnePart, Naturals, FiniteSets

CONSTANTS
  \* the drilldown page
  Choices, Searches, Pages, Sizes, Heavy, Minimum, Long, Flights, MaxViewClicks,
  \* the analytics page
  YearsShown, Departments, MaxChoices,
  \* the page of the employees
  Known, Later, OnFirst, Nobody, MaxFlights, EditorActs, EditorLost,
  \* the page of the alerts
  NoAlert, NoSearch, AlertActs, MaxFetches, MaxNotes, MaxReloads, AlertLost,
  \* the payroll console
  Staff, NoRecord, Slots, MaxIssues, ConsoleActs, MaxMishaps,
  \* the form of an employee
  NoValue, Forms, Client, MaxEdits, MaxSent,
  \* the settings of the alerts
  Kinds, Monthly, MaxRules, MaxSteps, MaxWrongs

VARIABLES
  filters, typed, searched, page, size, waiting, list, totalling, rowsShown, totalsShown,
  failed, overtaken, viewClicks,
  currentYear, departmentScope, yearShown, scoped, load, late, choices,
  staff, ui, editorFlights, submit, remove, editorActs, editorLost, astray, crowded, mixed,
  stored, alertCache, alertFeed, panel, fetches, notes, reloads, alertActs, sent, alertLost, crossed,
  rowsOvertaken,
  auth, cookie, console, flows, consoleActs, mishaps, last, alone,
  doc, form, request, edits, sentSoFar, raced,
  rules, made, modal, loads, save, edited, settingsOdd, steps, wrongs

drillViewVars == <<filters, typed, searched, page, size, waiting, list, totalling, rowsShown,
                   totalsShown, failed, overtaken, viewClicks>>
analyticsVars == <<currentYear, departmentScope, yearShown, scoped, load, late, choices>>
editorVars == <<staff, ui, editorFlights, submit, remove, editorActs, editorLost, astray,
                crowded, mixed>>
alertsPageVars == <<stored, alertCache, alertFeed, panel, fetches, notes, reloads, alertActs, sent,
                    alertLost, crossed, rowsOvertaken>>
consoleVars == <<auth, cookie, console, flows, consoleActs, mishaps, last, alone>>
formVars == <<doc, form, request, edits, sentSoFar, raced>>
settingsVars == <<rules, made, modal, loads, save, edited, settingsOdd, steps, wrongs>>

View == INSTANCE DrilldownView
Analytics == INSTANCE AnalyticsView
Editor == INSTANCE EmployeeEditor WITH
  stored <- staff, flights <- editorFlights, acts <- editorActs, lost <- editorLost,
  MaxActs <- EditorActs, MaxLost <- EditorLost
Detail == INSTANCE AlertsPage WITH
  feed <- alertFeed, cache <- alertCache, acts <- alertActs, lost <- alertLost, overtaken <- rowsOvertaken,
  MaxActs <- AlertActs, MaxLost <- AlertLost
Console == INSTANCE PayrollConsole WITH
  page <- console, acts <- consoleActs, MaxActs <- ConsoleActs
Form == INSTANCE EmployeeForm
Settings == INSTANCE AlertSettings WITH odd <- settingsOdd

Screens == {"view", "analytics", "editor", "alertsPage", "console", "form", "settings"}

\* A behaviour begins in an initial state of its part.
PageInit ==
  /\ part \in Screens
  /\ Begins("view", View!Init,
       Off4(filters, typed, searched, page) /\ Off4(size, waiting, list, totalling)
         /\ Off4(rowsShown, totalsShown, failed, overtaken) /\ Off(viewClicks))
  /\ Begins("analytics", Analytics!Init,
       Off4(currentYear, departmentScope, yearShown, scoped) /\ Off2(load, late)
         /\ Off(choices))
  /\ Begins("editor", Editor!Init,
       Off4(staff, ui, editorFlights, submit)
         /\ Off4(remove, editorActs, editorLost, astray) /\ Off2(crowded, mixed))
  /\ Begins("alertsPage", Detail!Init,
       Off4(stored, alertFeed, panel, fetches)
         /\ Off4(notes, reloads, alertActs, sent) /\ Off2(alertLost, crossed)
         /\ Off2(rowsOvertaken, alertCache))
  /\ Begins("console", Console!Init,
       Off4(auth, cookie, console, flows) /\ Off4(consoleActs, mishaps, last, alone))
  /\ Begins("form", Form!Init,
       Off4(doc, form, request, edits) /\ Off2(sentSoFar, raced))
  /\ Begins("settings", Settings!Init,
       Off4(rules, made, modal, loads) /\ Off4(save, edited, settingsOdd, steps)
         /\ Off(wrongs))

\* No part of these is run.
PageRest ==
  /\ Off4(filters, typed, searched, page) /\ Off4(size, waiting, list, totalling)
     /\ Off4(rowsShown, totalsShown, failed, overtaken) /\ Off(viewClicks)
  /\ Off4(currentYear, departmentScope, yearShown, scoped) /\ Off2(load, late)
     /\ Off(choices)
  /\ Off4(staff, ui, editorFlights, submit)
     /\ Off4(remove, editorActs, editorLost, astray) /\ Off2(crowded, mixed)
  /\ Off4(stored, alertFeed, panel, fetches)
     /\ Off4(notes, reloads, alertActs, sent) /\ Off2(alertLost, crossed)
     /\ Off2(rowsOvertaken, alertCache)
  /\ Off4(auth, cookie, console, flows) /\ Off4(consoleActs, mishaps, last, alone)
  /\ Off4(doc, form, request, edits) /\ Off2(sentSoFar, raced)
  /\ Off4(rules, made, modal, loads) /\ Off4(save, edited, settingsOdd, steps)
     /\ Off(wrongs)

StaysPage(q) ==
  CASE q = "view"       -> UNCHANGED drillViewVars
    [] q = "analytics"  -> UNCHANGED analyticsVars
    [] q = "editor"     -> UNCHANGED editorVars
    [] q = "alertsPage" -> UNCHANGED alertsPageVars
    [] q = "console"    -> UNCHANGED consoleVars
    [] q = "form"       -> UNCHANGED formVars
    [] q = "settings"   -> UNCHANGED settingsVars

OnlyPage(p) == part = p /\ part' = p /\ \A q \in Screens \ {p} : StaysPage(q)

PageNext ==
  \/ OnlyPage("view")       /\ View!Next
  \/ OnlyPage("analytics")  /\ Analytics!Next
  \/ OnlyPage("editor")     /\ Editor!Next
  \/ OnlyPage("alertsPage") /\ Detail!Next
  \/ OnlyPage("console")    /\ Console!Next
  \/ OnlyPage("form")       /\ Form!Next
  \/ OnlyPage("settings")   /\ Settings!Next

pageVars == <<part, drillViewVars, analyticsVars, editorVars, alertsPageVars,
             consoleVars, formVars, settingsVars>>

PageSpec == PageInit /\ [][PageNext]_pageVars

-----------------------------------------------------------------------------
\* The properties, each stated and explained in the module of its part.

\* EmployeeForm: the dates stored are in order, whoever sent them.
DatesAreInOrder == part = "form" => Form!DatesAreInOrder

\* EmployeeEditor, AlertsPage, EmployeeForm and AlertSettings: what was typed
\* about one employee or alert is not sent as another's, reaches it as it was
\* typed, and makes no second rule.
WordsReachTheirTarget ==
  [][/\ part = "editor" => Editor!SendsItsEmployee
     /\ part = "alertsPage" => Detail!WordsReachTheirAlert'
     /\ part = "form" => Form!FormIsFaithful
     /\ part = "settings" => Settings!MakesWhatIsMissing]_pageVars

\* The pages of the browser: they show what is chosen, as it is stored.
PagesFollowChoice ==
  /\ part = "view" => View!RowsAreChosen
  /\ part = "analytics" => Analytics!SummariesAreChosen
  /\ part = "editor" => Editor!RowsAreOfView /\ Editor!EvidenceIsOfEditor
  /\ part = "alertsPage" => Detail!NotesShownAreStored /\ Detail!EmployeesAreOfAlert
  /\ part = "console" => Console!SettlesAsAsked
  /\ part = "settings" => Settings!SettingsShownAreStored
=============================================================================
