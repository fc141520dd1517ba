---------------------------- MODULE EmployeeEditor ----------------------------
(***************************************************************************)
(* The page of the employee records (AdminEmployeesModal.jsx): a list of   *)
(* the view that is chosen, an editor of one employee or of a new one, and *)
(* the evidence of how far the employee edited has come through payroll.   *)
(*                                                                         *)
(* Nothing aborts a load or numbers it: the answers come in any order and  *)
(* are applied as they come, with the selection that was in force when the *)
(* load was asked for.  Choosing an employee, a view or a mode asks for    *)
(* the list again.  Of a draft only whose fields it started from is kept.  *)
(***************************************************************************)
EXTENDS Naturals, Sequences, FiniteSets, SequencesExt

CONSTANTS
  Known,       \* the employees there are at first
  Later,       \* those that may be created
  OnFirst,     \* of all of them, those the second view does not show
  Nobody,      \* no employee
  MaxFlights,  \* bound: loads under way
  MaxActs,     \* bound: clicks of the user
  MaxLost      \* bound: requests that fail

Emps == Known \cup Later
Views == {"first", "second"}

\* The first page without filters, and a later one.
InView(view, stored) == IF view = "first" THEN stored ELSE stored \ OnFirst

VARIABLES
  stored,   \* the employees of the source
  ui,       \* the page: view, selection, mode, rows, draft, evidence, flags
  flights,  \* the loads under way, in the order they were asked for
  submit,   \* the save under way
  remove,   \* the deletion under way
  acts, lost,
  astray,   \* the list lost the employee of the open editor
  crowded,  \* a view was left while a load or a command was under way, or
            \* the source changed between the reading of a load and its answer
  mixed     \* two loads of evidence were under way, or one of another
            \* employee than the editor's

vars == <<stored, ui, flights, submit, remove, acts, lost, astray, crowded, mixed>>

-----------------------------------------------------------------------------

Idle == [at |-> "none", kind |-> "none", emp |-> Nobody, draft |-> Nobody, view |-> "first",
         sel |-> Nobody, mode |-> "hidden", last |-> FALSE, same |-> FALSE]

List(view, sel, mode, loud, by) ==
  [what |-> "list", view |-> view, sel |-> sel, mode |-> mode, loud |-> loud, by |-> by,
   read |-> FALSE, rows |-> {}]

Evidence(emp, by) ==
  [what |-> "evidence", view |-> "first", sel |-> emp, mode |-> "hidden", loud |-> FALSE,
   by |-> by, read |-> TRUE, rows |-> {}]

\* The employee the editor is open on, as it judges by the rows it has.
Edited(u) == IF u.mode = "edit" /\ u.sel \in u.rows THEN u.sel ELSE Nobody
IsEditing(u) == Edited(u) # Nobody

\* The editor is made anew when its key changes.
Key(u) == CASE u.mode = "hidden" -> <<"none", Nobody>>
            [] u.mode = "create" -> <<"create", Nobody>>
            [] u.mode = "edit"   -> <<"edit", u.sel>>

FirstDraft(u) == Edited(u)

\* The editor as it would be if its key did not name the employee.
RemountedByMode(u) == IF u.mode = ui.mode THEN u ELSE [u EXCEPT !.draft = FirstDraft(u)]

\* What React does after a change of the page: the editor's draft if it is
\* a new one, the list if the view, the selection or the mode is another,
\* the evidence if the employee edited is another.
Remounted(u) == IF Key(u) = Key(ui) THEN u ELSE [u EXCEPT !.draft = FirstDraft(u)]

ListEffect(u) ==
  IF <<u.view, u.sel, u.mode>> = <<ui.view, ui.sel, ui.mode>> THEN <<>>
  ELSE <<List(u.view, u.sel, u.mode, u.view = "first", "effect")>>

EvidenceEffect(u) ==
  IF IsEditing(u) /\ <<u.mode, Edited(u)>> # <<ui.mode, Edited(ui)>>
  THEN <<Evidence(Edited(u), "effect")>> ELSE <<>>

EvidenceIn(fs) == {i \in DOMAIN fs : fs[i].what = "evidence"}

\* The flags and the employee named when loads are asked for.
Asked(u, more) ==
  LET evidence == EvidenceIn(more)
  IN [u EXCEPT !.loading    = @ \/ \E f \in ToSet(more) : f.what = "list" /\ f.loud,
               !.refreshing = @ \/ \E f \in ToSet(more) : f.what = "list" /\ ~f.loud,
               !.evLoading  = @ \/ evidence # {},
               !.evFor      = IF evidence = {} THEN @ ELSE more[Max(evidence)].sel]

\* The page becomes u, of the loads "left" and "asked" are under way, and
\* what follows from the change is asked for as well.
Renders(u, left, asked) ==
  LET more == asked \o ListEffect(u) \o EvidenceEffect(u)
      new == Remounted(u)
      all == left \o more
  IN /\ Len(all) =< MaxFlights
     /\ ui' = Asked(new, more)
     /\ flights' = all
     /\ astray' = (u.mode = "edit" /\
          \/ (astray /\ Key(u) = Key(ui))
          \/ (Key(u) = Key(ui) /\ IsEditing(ui) /\ ~IsEditing(u))
          \/ (Key(u) # Key(ui) /\ \E f \in ToSet(left) : f.what = "list"))
     /\ mixed' =
          \/ mixed
          \/ \E i, j \in EvidenceIn(all) : i # j
          \/ \E f \in ToSet(more) : f.what = "evidence" /\ u.mode = "edit" /\ f.sel # u.sel

Crowds(more) == crowded' = (crowded \/ more)
ListUnderWay(fs) == \E f \in ToSet(fs) : f.what = "list"
ListRead(fs) == \E f \in ToSet(fs) : f.what = "list" /\ f.read
Busy == ListUnderWay(flights) \/ submit.at # "none" \/ remove.at # "none"

-----------------------------------------------------------------------------
(* What the user does.                                                     *)

Act == acts < MaxActs /\ acts' = acts + 1

\* A filter, a search or a page.  The buttons of the pages are off while
\* the list is loading, the filters are not.
ChooseView(view) ==
  /\ Act
  /\ view # ui.view
  /\ Renders([ui EXCEPT !.view = view], flights, <<>>)
  /\ Crowds(Busy)
  /\ UNCHANGED <<stored, submit, remove, lost>>

NoEvidence(u) == [u EXCEPT !.ev = Nobody, !.evFor = Nobody]

\* handleEdit, from a row; the rows are hidden while the list is loading.
Edit(e) ==
  /\ Act
  /\ ~ui.loading /\ e \in ui.rows
  /\ Renders([ui EXCEPT !.mode = "edit", !.sel = e, !.ev = Nobody, !.evFor = e], flights, <<>>)
  /\ submit' = [submit EXCEPT !.same = @ /\ Key(ui) = <<"edit", e>>]
  /\ UNCHANGED <<stored, remove, lost, crowded>>

\* openCreatePanel and closeEditorPanel
Leave(mode) ==
  /\ Act
  /\ mode \in {"create", "hidden"}
  /\ ui.mode # "hidden" \/ mode = "create"
  /\ Renders([NoEvidence(ui) EXCEPT !.mode = mode, !.sel = Nobody], flights, <<>>)
  /\ submit' = [submit EXCEPT !.same = @ /\ Key(ui) = <<mode, Nobody>>]
  /\ UNCHANGED <<stored, remove, lost, crowded>>

\* handleRefresh
Refresh ==
  /\ Act
  /\ ~ui.refreshing /\ ~ui.loading /\ submit.at = "none"
  /\ Renders(ui, flights,
       <<List(ui.view, ui.sel, ui.mode, FALSE, "effect")>>
         \o (IF ui.evFor = Nobody THEN <<>> ELSE <<Evidence(ui.evFor, "effect")>>))
  /\ UNCHANGED <<stored, submit, remove, lost, crowded>>

\* The evidence is asked for again: by its button, and four seconds after
\* it was found pending.
EvidenceAgain ==
  LET named == IF ui.ev # Nobody THEN ui.ev ELSE IF ui.evFor # Nobody THEN ui.evFor ELSE ui.sel
  IN /\ Act
     /\ ui.mode # "hidden" /\ ~ui.evLoading /\ named # Nobody
     /\ Renders(ui, flights, <<Evidence(named, "effect")>>)
     /\ UNCHANGED <<stored, submit, remove, lost, crowded>>

\* The form is sent: as an update of the employee selected if the rows hold
\* that employee, as a new employee otherwise.  An update needs the id in
\* its draft.
Submit ==
  /\ Act
  /\ ui.mode # "hidden" /\ submit.at = "none"
  /\ IsEditing(ui) => ui.draft # Nobody
  /\ submit' = [at |-> "sent", kind |-> IF IsEditing(ui) THEN "update" ELSE "create",
                emp |-> ui.sel, draft |-> ui.draft, view |-> ui.view, sel |-> ui.sel,
                mode |-> ui.mode, last |-> FALSE, same |-> TRUE]
  /\ UNCHANGED <<stored, ui, flights, remove, lost, astray, crowded, mixed>>

\* handleDelete, from a row or the editor.  The rows' buttons are off while
\* one is under way; that of the editor is only off for its own employee,
\* which could start a second that is not modelled.
Delete(e) ==
  /\ Act
  /\ remove.at = "none"
  /\ (~ui.loading /\ e \in ui.rows) \/ e = Edited(ui)
  /\ e # Nobody
  /\ remove' = [at |-> "sent", kind |-> "delete", emp |-> e, draft |-> Nobody, view |-> ui.view,
                sel |-> ui.sel, mode |-> ui.mode, last |-> Cardinality(ui.rows) = 1,
                same |-> FALSE]
  /\ UNCHANGED <<stored, ui, flights, submit, lost, astray, crowded, mixed>>

-----------------------------------------------------------------------------
(* The service.                                                            *)

Failing == lost < MaxLost /\ lost' = lost + 1

\* The save: an update of an employee that is gone is refused.
ServeSubmit ==
  /\ submit.at = "sent"
  /\ \/ /\ submit.kind = "update"
        /\ submit' = [submit EXCEPT !.at = IF submit.emp \in stored THEN "done" ELSE "failed"]
        /\ UNCHANGED <<stored, lost>>
     \/ /\ submit.kind = "create"
        /\ \E e \in Later \ stored :
             /\ stored' = stored \cup {e}
             /\ submit' = [submit EXCEPT !.at = "done", !.emp = e]
        /\ UNCHANGED lost
     \/ Failing /\ submit' = [submit EXCEPT !.at = "failed"] /\ UNCHANGED stored
  /\ UNCHANGED <<ui, flights, remove, acts, astray, mixed>>
  /\ Crowds(stored' # stored /\ ListRead(flights))

ServeDelete ==
  /\ remove.at = "sent"
  /\ \/ /\ remove' = [remove EXCEPT !.at = IF remove.emp \in stored THEN "done" ELSE "failed"]
        /\ stored' = stored \ {remove.emp}
        /\ UNCHANGED lost
     \/ Failing /\ remove' = [remove EXCEPT !.at = "failed"] /\ UNCHANGED stored
  /\ UNCHANGED <<ui, flights, submit, acts, astray, mixed>>
  /\ Crowds(stored' # stored /\ ListRead(flights))

ReadList(i) ==
  /\ flights[i].what = "list" /\ ~flights[i].read
  /\ flights' = [flights EXCEPT ![i].read = TRUE, ![i].rows = InView(flights[i].view, stored)]
  /\ UNCHANGED <<stored, ui, submit, remove, acts, lost, astray, crowded, mixed>>

-----------------------------------------------------------------------------
(* The answers.                                                            *)

\* What a command does once the load it waits for has ended.
SubmitGoesOn(by) ==
  submit' = IF by # "submit" THEN submit
            ELSE IF submit.at = "list" THEN [submit EXCEPT !.at = "evidence"]
            ELSE Idle

\* After its list a save asks for the evidence of its employee; after its
\* evidence a deletion leaves the editor and asks for a list, or moves to
\* the page before if the row was the last of its page.
AfterList(f) ==
  IF f.by = "submit" THEN <<Evidence(submit.emp, "submit")>> ELSE <<>>

Landed(u, f) == IF f.loud THEN [u EXCEPT !.loading = FALSE] ELSE [u EXCEPT !.refreshing = FALSE]

\* loadEmployees: the rows are shown; if the employee selected when the load
\* was asked for is not one of them, the selection and the editor go.
ListAnswered(i) ==
  LET f == flights[i]
      gone == f.sel # Nobody /\ f.sel \notin f.rows
      u == Landed([ui EXCEPT !.rows = f.rows, !.broken = FALSE], f)
  IN /\ f.what = "list" /\ f.read
     /\ Renders(IF gone THEN [NoEvidence(u) EXCEPT !.sel = Nobody, !.mode = "hidden"] ELSE u,
                RemoveAt(flights, i), AfterList(f))
     /\ SubmitGoesOn(f.by)
     /\ remove' = IF f.by = "delete" THEN Idle ELSE remove
     /\ UNCHANGED <<stored, acts, lost, crowded>>

\* The rows go, the selection stays.
ListFails(i) ==
  LET f == flights[i] IN
  /\ f.what = "list"
  /\ Failing
  /\ Renders(Landed([ui EXCEPT !.rows = {}, !.broken = TRUE], f), RemoveAt(flights, i), AfterList(f))
  /\ SubmitGoesOn(f.by)
  /\ remove' = IF f.by = "delete" THEN Idle ELSE remove
  /\ UNCHANGED <<stored, acts, crowded>>

\* What the deletion does with the page when its evidence has come or not.
Deleted(u) == IF remove.sel = remove.emp
              THEN [u EXCEPT !.sel = Nobody, !.mode = "hidden"] ELSE u
MovesBack == remove.last /\ remove.view # "first"

\* loadSyncEvidence: whichever answer comes last is shown.  The end of a
\* save empties the form of a new employee, if it is still the same form.
EvidenceEnds(i, shown) ==
  LET f == flights[i]
      u == [ui EXCEPT !.ev = shown, !.evLoading = FALSE]
      left == RemoveAt(flights, i)
  IN /\ f.what = "evidence"
     /\ CASE f.by = "effect" -> Renders(u, left, <<>>) /\ UNCHANGED <<remove, crowded>>
          [] f.by = "submit" ->
               /\ Renders(IF submit.kind = "create" /\ submit.same
                          THEN [u EXCEPT !.draft = Nobody] ELSE u, left, <<>>)
               /\ UNCHANGED <<remove, crowded>>
          [] f.by = "delete" ->
               IF MovesBack
               THEN /\ Renders([Deleted(u) EXCEPT !.view = "first"], left, <<>>)
                    /\ remove' = Idle
                    /\ Crowds(ui.view # "first" /\ (ListUnderWay(left) \/ submit.at # "none"))
               ELSE /\ Renders(Deleted(u), left,
                         <<List(remove.view, remove.sel, remove.mode, FALSE, "delete")>>)
                    /\ remove' = [remove EXCEPT !.at = "list"]
                    /\ UNCHANGED crowded
     /\ SubmitGoesOn(f.by)

EvidenceAnswered(i) ==
  /\ EvidenceEnds(i, flights[i].sel)
  /\ UNCHANGED <<stored, acts, lost>>

EvidenceFails(i) ==
  /\ Failing
  /\ EvidenceEnds(i, Nobody)
  /\ UNCHANGED <<stored, acts>>

\* The answer of a save: the list it was sent from is asked for again.
SubmitAnswered ==
  /\ \/ /\ submit.at = "done"
        /\ Renders(ui, flights, <<List(submit.view, submit.sel, submit.mode, FALSE, "submit")>>)
        /\ submit' = [submit EXCEPT !.at = "list"]
     \/ /\ submit.at = "failed"
        /\ submit' = Idle
        /\ UNCHANGED <<ui, flights, astray, mixed>>
  /\ UNCHANGED <<stored, remove, acts, lost, crowded>>

\* The answer of a deletion: first the evidence of the employee deleted.
DeleteAnswered ==
  /\ \/ /\ remove.at = "done"
        /\ Renders(ui, flights, <<Evidence(remove.emp, "delete")>>)
        /\ remove' = [remove EXCEPT !.at = "evidence"]
     \/ /\ remove.at = "failed"
        /\ remove' = Idle
        /\ UNCHANGED <<ui, flights, astray, mixed>>
  /\ UNCHANGED <<stored, submit, acts, lost, crowded>>

-----------------------------------------------------------------------------

Init ==
  /\ stored = Known
  /\ ui = [view |-> "first", sel |-> Nobody, mode |-> "hidden", rows |-> {},
           broken |-> FALSE, draft |-> Nobody, loading |-> TRUE, refreshing |-> FALSE,
           ev |-> Nobody, evFor |-> Nobody, evLoading |-> FALSE]
  /\ flights = <<List("first", Nobody, "hidden", TRUE, "effect")>>
  /\ submit = Idle /\ remove = Idle
  /\ acts = 0 /\ lost = 0
  /\ astray = FALSE /\ crowded = FALSE /\ mixed = FALSE

Next ==
  \/ \E view \in Views : ChooseView(view)
  \/ \E e \in Emps : Edit(e) \/ Delete(e)
  \/ \E mode \in {"create", "hidden"} : Leave(mode)
  \/ Refresh \/ EvidenceAgain \/ Submit
  \/ ServeSubmit \/ ServeDelete \/ SubmitAnswered \/ DeleteAnswered
  \/ \E i \in DOMAIN flights :
       ReadList(i) \/ ListAnswered(i) \/ ListFails(i) \/ EvidenceAnswered(i) \/ EvidenceFails(i)

Spec == Init /\ [][Next]_vars

-----------------------------------------------------------------------------

\* The fields of one employee are never saved as those of another, nor as a
\* new employee: the editor is made anew for the employee it is opened on,
\* and what it sends is an update of that employee.  Except where the list
\* lost that employee under the open editor (a load that failed, or one
\* asked for before the employee was chosen): the editor then takes the
\* draft for a new employee's (astray).
SendsItsEmployee ==
  (submit.at = "none" /\ submit'.at = "sent" /\ ~astray) =>
    IF submit'.kind = "update" THEN submit'.draft = submit'.emp
    ELSE submit'.draft = Nobody
DraftsReachTheirEmployee == [][SendsItsEmployee]_vars

\* At rest the rows are those of the view that is chosen, and none that was
\* deleted, unless a load failed, or another load or a command was under
\* way when the view was left, or the source changed before a load it had
\* read was answered (crowded).
RowsAreOfView ==
  (~Busy /\ ~crowded /\ ~ui.broken) => ui.rows = InView(ui.view, stored)

\* At rest the evidence shown in the editor is that of its employee, unless
\* two loads of it ran at once, or another employee was deleted meanwhile.
EvidenceIsOfEditor ==
  (flights = <<>> /\ ui.mode = "edit" /\ ~mixed) => ui.ev \in {Nobody, ui.sel}
=============================================================================
