---------------------------- MODULE EmployeeIds -----------------------------
(***************************************************************************)
(* The employee ids (services/employeeIdService.js): a counter in MongoDB  *)
(* that the first request creates from the highest id in use, and that     *)
(* each creation of an employee increments (createEmployee).               *)
(*                                                                         *)
(* An id is its number: EMP000007 is 7.  An id that is not of that form    *)
(* counts as 0 for the scan, and cannot be given.                          *)
(***************************************************************************)
EXTENDS Naturals, FiniteSets, FiniteSetsExt

CONSTANTS
  Callers,   \* requests under way
  Earlier,   \* ids that employees may have before there is a counter
  MaxId      \* bound: ids

VARIABLES
  counter,   \* the counter document: its seq, or NoCounter
  employees, \* the ids in use
  caller,    \* caller[c]: the request c
  given      \* history: the ids that the counter gave

idVars == <<counter, employees, caller, given>>

NoCounter == MaxId + 1  \* no counter document
AtRest == [step |-> "idle", peek |-> FALSE, id |-> 0]

Init ==
  /\ counter = NoCounter
  /\ employees \in SUBSET Earlier
  /\ caller = [c \in Callers |-> AtRest]
  /\ given = {}

At(c, step) == caller[c].step = step
Go(c, step) == caller' = [caller EXCEPT ![c].step = step]
Answer(c) == caller' = [caller EXCEPT ![c] = AtRest]

\* A creation, or a form that shows the next id (peekNextEmployeeId).
Asks(c) ==
  /\ At(c, "idle")
  /\ \E peek \in BOOLEAN :
       caller' = [caller EXCEPT ![c] = [AtRest EXCEPT !.step = "find", !.peek = peek]]
  /\ UNCHANGED <<counter, employees, given>>

FindCounter(c) ==
  /\ At(c, "find")
  /\ IF counter = NoCounter THEN Go(c, "scan")
     ELSE IF caller[c].peek THEN Answer(c) ELSE Go(c, "reserve")
  /\ UNCHANGED <<counter, employees, given>>

FindHighest(c) ==
  /\ At(c, "scan")
  /\ caller' = [caller EXCEPT ![c].step = "create", ![c].id = Max(employees \cup {0})]
  /\ UNCHANGED <<counter, employees, given>>

\* Mutant: a counter that another request created is set again.
CreateOrSet(c) ==
  /\ At(c, "create")
  /\ counter' = caller[c].id
  /\ IF caller[c].peek THEN Answer(c) ELSE Go(c, "reserve")
  /\ UNCHANGED <<employees, given>>

\* The unique key rejects a second counter; that error is swallowed.
CreateCounter(c) ==
  /\ At(c, "create")
  /\ counter' = IF counter = NoCounter THEN caller[c].id ELSE counter
  /\ IF caller[c].peek THEN Answer(c) ELSE Go(c, "reserve")
  /\ UNCHANGED <<employees, given>>

Reserve(c) ==
  /\ At(c, "reserve") /\ counter < MaxId
  /\ counter' = counter + 1
  /\ caller' = [caller EXCEPT ![c].step = "save", ![c].id = counter + 1]
  /\ given' = given \cup {counter + 1}
  /\ UNCHANGED employees

\* The employee is saved, or turned down: then its id is lost.
Save(c) ==
  /\ At(c, "save")
  /\ \/ employees' = employees \cup {caller[c].id}
     \/ UNCHANGED employees
  /\ Answer(c)
  /\ UNCHANGED <<counter, given>>

DeleteEmployee ==
  /\ \E e \in employees : employees' = employees \ {e}
  /\ UNCHANGED <<counter, caller, given>>

Next ==
  \/ \E c \in Callers : \/ Asks(c) \/ FindCounter(c) \/ FindHighest(c)
                        \/ CreateCounter(c) \/ Reserve(c) \/ Save(c)
  \/ DeleteEmployee

\* No employee is given an id that is in use, or that the counter gave
\* before, also when the first requests create the counter together, and
\* when the employee with the highest id is deleted.
GivesFreshId == \A c \in Callers : Reserve(c) => caller'[c].id \notin given \cup employees
FreshIds == [][GivesFreshId]_idVars
=============================================================================
