----------------------------- MODULE EmployeeForm -----------------------------
(***************************************************************************)
(* What becomes of one employee's fields on their way: the editor's draft  *)
(* (AdminEmployeesModal.jsx), its own validation and payload, the          *)
(* contract of the service (employeeContracts.js), the checks of create    *)
(* and update (employee.controller.js) and the stored document with its    *)
(* defaults (models/Employee.js), and back into a draft.                   *)
(*                                                                         *)
(* Several administrators have a form open, and a client of the API sends  *)
(* single fields.  The fields stand for their kinds: ethnicity for the     *)
(* last name and the gender, payRate for the other amounts, vacationDays   *)
(* for the other whole numbers.  A moment is twice the day, plus one when  *)
(* it is not midnight; a number is counted in halves.                      *)
(***************************************************************************)
EXTENDS Integers, FiniteSets

CONSTANTS
  NoValue,        \* no value: an empty input, a field that is not there
  Forms,        \* the administrators' forms
  Client,       \* a client of the API
  Departments,  \* the departments there are
  MaxEdits,     \* bound: fields changed in forms
  MaxSent       \* bound: requests sent

VARIABLES
  doc,          \* the document of the employee, or None before it is created
  form,         \* form[f]: mode, draft, row it was made of, errors, sent
  request,      \* request[w]: what w sent, and how far the service is with it
  edits, sentSoFar,
  raced         \* an update was checked against a document no longer there

vars == <<doc, form, request, edits, sentSoFar, raced>>

Texts == {"firstName", "ethnicity"}
Dates == {"hireDate", "birthDate"}
Numbers == {"vacationDays", "payRate"}
Fields == Texts \cup Dates \cup Numbers \cup {"employmentType", "isShareholder", "departmentId"}

\* What the inputs offer; a text can be blank or longer than the service
\* allows, and a date is a day.
Inputs ==
  [firstName |-> {NoValue, "spaces", "Ann", "long"}, ethnicity |-> {NoValue, "Ann"},
   employmentType |-> {"Full-time", "Part-time"}, isShareholder |-> BOOLEAN,
   departmentId |-> {NoValue} \cup Departments, hireDate |-> {NoValue, 1, 2},
   birthDate |-> {NoValue, 1, 2}, vacationDays |-> {NoValue, -2, 0, 3}, payRate |-> {NoValue, 0, 3}]

None == [missing |-> TRUE]
Trim(k, v) == IF k \in Texts /\ v = "spaces" THEN NoValue ELSE v
Without(p, v) == [k \in {k \in DOMAIN p : p[k] # v} |-> p[k]]
Before(birth, hire) == birth < hire

-----------------------------------------------------------------------------
\* The form.
BlankDraft ==
  [k \in Fields |-> CASE k = "employmentType" -> "Full-time"
                      [] k = "isShareholder"  -> FALSE
                      [] OTHER                -> NoValue]

\* buildDraftFromEmployee: of a moment the day is shown
DraftOf(d) ==
  [k \in Fields |-> IF d[k] = NoValue THEN BlankDraft[k]
                    ELSE IF k \in Dates THEN d[k] \div 2 ELSE d[k]]

\* Mutant: false and zero are taken for empty.
CompactTruthy(draft) ==
  LET value(k) == IF draft[k] = NoValue \/ (k \in Numbers /\ draft[k] = 0)
                       \/ (k = "isShareholder" /\ ~draft[k]) THEN NoValue
                  ELSE IF k \in Dates THEN 2 * draft[k] ELSE Trim(k, draft[k])
  IN Without([k \in Fields |-> value(k)], NoValue)

\* compactPayload: an empty field is left out, a day becomes its midnight
Compact(draft) ==
  LET value(k) == IF draft[k] = NoValue THEN NoValue
                  ELSE IF k \in Dates THEN 2 * draft[k] ELSE Trim(k, draft[k])
  IN Without([k \in Fields |-> value(k)], NoValue)

NumberErrors(draft) ==
  {k \in Numbers : draft[k] # NoValue /\ (draft[k] < 0 \/ (k = "vacationDays" /\ draft[k] % 2 # 0))}

\* validateEmployeeDraft; how long a name may be it does not ask
Errors(draft) ==
  (IF Trim("firstName", draft.firstName) = NoValue THEN {"firstName"} ELSE {})
    \cup (IF \/ NoValue \in {draft.birthDate, draft.hireDate}
             \/ Before(draft.birthDate, draft.hireDate) THEN {} ELSE Dates)
    \cup NumberErrors(draft)

Closed == [mode |-> "closed"]
NoRequest == [at |-> "none"]

Opened(mode, d) ==
  [mode |-> mode, draft |-> IF mode = "create" THEN BlankDraft ELSE DraftOf(d),
   row |-> d, errors |-> {}, sent |-> BlankDraft]

\* The editor is opened on a row of the list, or to create the employee.
Open(f) ==
  /\ request[f] = NoRequest
  /\ form' = [form EXCEPT ![f] =
       IF doc = None THEN Opened("create", None) ELSE Opened("edit", doc)]
  /\ UNCHANGED <<doc, request, edits, sentSoFar, raced>>

\* handleFieldChange: the errors of both dates go with either
Change(f, k, v) ==
  /\ form[f] # Closed /\ edits < MaxEdits /\ form[f].draft[k] # v
  /\ form' = [form EXCEPT ![f].draft[k] = v,
                          ![f].errors = @ \ (IF k \in Dates THEN Dates ELSE {k})]
  /\ edits' = edits + 1
  /\ UNCHANGED <<doc, request, sentSoFar, raced>>

\* resetDraft
Reset(f) ==
  /\ form[f] # Closed /\ request[f] = NoRequest
  /\ form' = [form EXCEPT ![f] = Opened(form[f].mode, form[f].row)]
  /\ UNCHANGED <<doc, request, edits, sentSoFar, raced>>

Asks(w, mode, payload) ==
  /\ sentSoFar < MaxSent /\ sentSoFar' = sentSoFar + 1
  /\ request' = [request EXCEPT ![w] =
       [at |-> "contract", mode |-> mode, payload |-> payload, found |-> None]]

\* handleSubmit; the button is disabled while a save is under way
Submit(f) ==
  /\ form[f] # Closed /\ request[f] = NoRequest
  /\ LET errors == Errors(form[f].draft)
     IN \/ errors # {} /\ form' = [form EXCEPT ![f].errors = errors]
           /\ UNCHANGED <<request, sentSoFar>>
        \/ /\ errors = {} /\ (form[f].mode = "create" => doc = None)
           /\ form' = [form EXCEPT ![f].sent = form[f].draft]
           /\ Asks(f, IF form[f].mode = "create" THEN "create" ELSE "update",
                   Compact(form[f].draft))
  /\ UNCHANGED <<doc, edits, raced>>

\* A client of the API sends what it likes: here one field, or none, or one
\* that is not the client's to set.
ClientSends ==
  /\ doc # None /\ request[Client] = NoRequest
  /\ \E k \in Dates \cup {"vacationDays", "annualEarnings"} :
       \E v \in IF k \in Dates THEN {2, 4} ELSE {NoValue, 0, 3} :
         Asks(Client, "update", Without([x \in {k} |-> v], NoValue))
  /\ UNCHANGED <<doc, form, edits, raced>>

-----------------------------------------------------------------------------
\* The service.
TooLong(p) == \E k \in Texts \cap DOMAIN p : p[k] = "long"
BadNumber(p) ==
  \E k \in Numbers \cap DOMAIN p : p[k] < 0 \/ (k = "vacationDays" /\ p[k] % 2 # 0)

Given(p) == Without([k \in DOMAIN p |-> Trim(k, p[k])], NoValue)

\* normalizeEmployeeMutationPayload
Refused(p, mode) ==
  \/ DOMAIN p \ Fields # {}
  \/ mode = "create" /\ "firstName" \notin DOMAIN Given(p)
  \/ TooLong(p) \/ BadNumber(p)
  \/ Dates \subseteq DOMAIN p /\ ~Before(p.birthDate, p.hireDate)
  \/ mode = "update" /\ DOMAIN Given(p) = {}

Replies(w, what) == request' = [request EXCEPT ![w].at = what]
At(w, stage) == request[w].at = stage

\* The contract, and whether the department exists: nothing in the services
\* removes one.
Contract(w) ==
  /\ At(w, "contract")
  /\ LET r == request[w]
     IN IF \/ Refused(r.payload, r.mode)
           \/ "departmentId" \in DOMAIN r.payload /\ r.payload.departmentId \notin Departments
        THEN Replies(w, "refused")
        ELSE request' = [request EXCEPT ![w].at = IF r.mode = "create" THEN "save" ELSE "find",
                                        ![w].payload = Given(r.payload)]
  /\ UNCHANGED <<doc, form, edits, sentSoFar, raced>>

\* What the model fills in, and what update writes over.
Stored(d, p) == [k \in Fields |-> IF k \in DOMAIN p THEN p[k] ELSE d[k]]
Defaults ==
  [k \in Fields |-> CASE k = "employmentType" -> "Full-time" [] k = "isShareholder" -> FALSE
                      [] k \in Numbers -> 0 [] OTHER -> NoValue]

InOrder(d) == NoValue \in {d.birthDate, d.hireDate} \/ Before(d.birthDate, d.hireDate)

\* Mutant: the dates are compared only when both are sent.
ConsistentInPayload(d, p) == ~(Dates \subseteq DOMAIN p) \/ InOrder(Stored(d, p))

\* assertUpdateTimelineConsistency: a date that is not sent is the stored one
Consistent(d, p) == Dates \cap DOMAIN p = {} \/ InOrder(Stored(d, p))

Find(w) ==
  /\ At(w, "find")
  /\ IF doc = None THEN Replies(w, "missing")
     ELSE IF ~Consistent(doc, request[w].payload) THEN Replies(w, "refused")
     ELSE request' = [request EXCEPT ![w].at = "update", ![w].found = doc]
  /\ UNCHANGED <<doc, form, edits, sentSoFar, raced>>

\* findByIdAndUpdate, however the document looks by now
Update(w) ==
  /\ At(w, "update")
  /\ IF doc = None THEN Replies(w, "missing") /\ UNCHANGED <<doc, raced>>
     ELSE /\ doc' = Stored(doc, request[w].payload) /\ Replies(w, "saved")
          /\ raced' = (raced \/ request[w].found # doc)
  /\ UNCHANGED <<form, edits, sentSoFar>>

\* employee.save() of a new document
Save(w) ==
  /\ At(w, "save")
  /\ doc' = Stored(Defaults, request[w].payload) /\ Replies(w, "saved")
  /\ UNCHANGED <<form, edits, sentSoFar, raced>>

Delete ==
  /\ doc # None /\ sentSoFar < MaxSent /\ sentSoFar' = sentSoFar + 1
  /\ doc' = None
  /\ UNCHANGED <<form, request, edits, raced>>

\* The answer: after an update the list is read again and the draft stays,
\* after a create the form is emptied, after a refusal all is as it was.
Answered(w) ==
  /\ request[w].at \in {"saved", "refused", "missing"}
  /\ request' = [request EXCEPT ![w] = NoRequest]
  /\ form' = IF w = Client THEN form
             ELSE IF request[w].at # "saved" THEN [form EXCEPT ![w].sent = BlankDraft]
             ELSE IF form[w].mode = "create" THEN [form EXCEPT ![w] = Opened("create", None)]
             ELSE [form EXCEPT ![w].sent = BlankDraft,
                               ![w].row = IF doc = None THEN @ ELSE doc]
  /\ UNCHANGED <<doc, edits, sentSoFar, raced>>

\* An employee there already has been imported or made by a client, with
\* dates that are in order and a hire date that is no midnight.
Imported ==
  {None,
   Stored(Defaults, [firstName |-> "Ann", employmentType |-> "Part-time", isShareholder |-> TRUE,
                     ethnicity |-> "Ann", hireDate |-> 5, birthDate |-> 2, vacationDays |-> 4])}

Init ==
  /\ doc \in Imported
  /\ form = [f \in Forms |-> Closed]
  /\ request = [w \in Forms \cup {Client} |-> NoRequest]
  /\ edits = 0 /\ sentSoFar = 0 /\ raced = FALSE

Next ==
  \/ \E f \in Forms : \/ Open(f) \/ Reset(f) \/ Submit(f)
                      \/ \E k \in Fields : \E v \in Inputs[k] : Change(f, k, v)
  \/ ClientSends \/ Delete
  \/ \E w \in Forms \cup {Client} :
       Contract(w) \/ Find(w) \/ Update(w) \/ Save(w) \/ Answered(w)

Spec == Init /\ [][Next]_vars

-----------------------------------------------------------------------------
\* The stored birth date is before the hire date, whoever sent the one and
\* the other, and though an update is checked against what was stored
\* before.  Known exception: an update that met another between its check
\* and its write.
DatesAreInOrder == doc # None /\ ~raced => InOrder(doc)

\* When a form's request is written, the document shows again what the form
\* showed, a zero and an unticked box included, and nothing else has
\* changed but where the form was empty: what is stored cannot be emptied.
\* A form that passed its own validation is refused by the service only for
\* a name too long, or for the one of two dates that it left empty.
FormIsFaithful ==
  \A f \in Forms :
    /\ request[f].at \in {"update", "save"} /\ request'[f].at = "saved" =>
         LET before == IF request[f].at = "save" THEN Defaults ELSE doc
             sent == form[f].sent
         IN DraftOf(doc') = [k \in Fields |-> IF Trim(k, sent[k]) = NoValue THEN DraftOf(before)[k]
                                              ELSE sent[k]]
    /\ request[f].at # "refused" /\ request'[f].at = "refused" =>
         \/ "long" \in {form[f].sent[k] : k \in Texts}
         \/ Cardinality({k \in Dates : form[f].sent[k] = NoValue}) = 1

FormsAreFaithful == [][FormIsFaithful]_vars
=============================================================================
