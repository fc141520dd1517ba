---------------------------- MODULE PayrollRules ----------------------------
(***************************************************************************)
(* The payroll rules of src/services/payrollMutationService.js: what one   *)
(* CREATE, UPDATE or DELETE mutation does to the pay-rate history of its   *)
(* employee.  No state and no transactions here: a handler is a function   *)
(* from the rows it reads to the row it appends, PayrollService.tla says   *)
(* which rows it reads and when the row becomes visible.                   *)
(*                                                                         *)
(* The history of an employee is the sequence of its pay_rates rows in id  *)
(* order, which is also the order of the ORDER BY effective_date DESC,     *)
(* id DESC that every query of the service uses.                           *)
(***************************************************************************)
EXTENDS Naturals, Sequences

CONSTANTS
  Keys,      \* sync_log identities: one (employee, action, correlationId) each
  Rates,     \* the numbers a rate may be; 0 is what a missing one is written as
  Stored,    \* Stored[r]: what the column pay_rate makes of the number r
  Payloads,  \* the payroll fields of a delivery, [rate |-> ..., type |-> ...]
  Absent     \* a field that the delivery does not carry

PayTypes == {"HOURLY", "SALARY", "COMMISSION", "TERMINATED"}

(***************************************************************************)
(* A delivery carries a rate and a pay type, each possibly absent.  No     *)
(* client of the service asks for the type TERMINATED, which only the      *)
(* DELETE handler writes.                                                  *)
(***************************************************************************)
ASSUME PayloadAssumption ==
  /\ 0 \in Rates
  /\ Absent \notin Rates /\ Absent \notin PayTypes
  /\ Payloads \subseteq [rate : Rates \cup {Absent},
                         type : (PayTypes \ {"TERMINATED"}) \cup {Absent}]

(***************************************************************************)
(* pay_rate is a DECIMAL(10,2): MySQL rounds what is inserted to two       *)
(* decimals and keeps what has no more.  A number the column cannot hold   *)
(* is an error of the statement, and not among the Rates.                  *)
(***************************************************************************)
ASSUME StorageAssumption ==
  /\ Stored \in [Rates -> Rates]
  /\ Stored[0] = 0
  /\ \A r \in Rates : Stored[Stored[r]] = Stored[r]

StoredRates == {Stored[r] : r \in Rates}

(***************************************************************************)
(* A pay_rates row.  "by" is the mutation that inserted it: the table has  *)
(* no such column, the properties need it to tell a repeated insert of one *)
(* mutation from the inserts of two.                                       *)
(***************************************************************************)
PayRate == [rate : StoredRates, type : PayTypes, active : BOOLEAN, by : Keys]

\* Mutant: an absent pay type is stored as it came.
NormalizePayTypeVerbatim(type) == type

NormalizePayType(type) == IF type = Absent THEN "HOURLY" ELSE type

Active(rows) == {i \in DOMAIN rows : rows[i].active}

\* At most one row: the newest active one (findActivePayRate).
CurrentRate(rows) ==
  {rows[i] : i \in {j \in Active(rows) : \A k \in Active(rows) : k <= j}}

\* At most one row: the newest one, active or not (findLatestPayRate).
LatestRate(rows) == IF rows = <<>> THEN {} ELSE {rows[Len(rows)]}

TheRow(found) == CHOOSE row \in found : TRUE

RateOr0(found) == IF found = {} THEN 0 ELSE TheRow(found).rate

TypeOrHourly(found) == IF found = {} THEN "HOURLY" ELSE TheRow(found).type

(***************************************************************************)
(* The three handlers.  Each returns the rows it inserts given the rows it *)
(* reads: none when it finds nothing to do, one otherwise.  UPDATE looks   *)
(* for a row of the rate as it was sent, before the column rounds it.      *)
(***************************************************************************)

\* Mutant: CREATE inserts without looking for an active row.
HandleCreateUnchecked(k, payload, rows) ==
  <<[rate   |-> IF payload.rate = Absent THEN 0 ELSE Stored[payload.rate],
     type   |-> NormalizePayType(payload.type),
     active |-> TRUE,
     by     |-> k]>>

HandleCreate(k, payload, rows) ==
  IF Active(rows) # {} THEN <<>>
  ELSE <<[rate   |-> IF payload.rate = Absent THEN 0 ELSE Stored[payload.rate],
          type   |-> NormalizePayType(payload.type),
          active |-> TRUE,
          by     |-> k]>>

HandleUpdate(k, payload, rows) ==
  LET current == CurrentRate(rows)
      rate == IF payload.rate = Absent THEN RateOr0(current) ELSE payload.rate
      type == IF payload.type = Absent THEN TypeOrHourly(current)
              ELSE payload.type
      noPayrollFields == payload.rate = Absent /\ payload.type = Absent
      unchanged == \E row \in current : row.rate = rate /\ row.type = type
  IN IF noPayrollFields \/ unchanged THEN <<>>
     ELSE <<[rate |-> Stored[rate], type |-> type, active |-> TRUE, by |-> k]>>

HandleDelete(k, rows) ==
  LET current == CurrentRate(rows)
      latest  == IF current # {} THEN current ELSE LatestRate(rows)
  IN IF current = {} /\ TypeOrHourly(latest) = "TERMINATED" THEN <<>>
     ELSE <<[rate   |-> RateOr0(latest),
             type   |-> "TERMINATED",
             active |-> FALSE,
             by     |-> k]>>

Handle(action, k, payload, rows) ==
  CASE action = "CREATE" -> HandleCreate(k, payload, rows)
    [] action = "UPDATE" -> HandleUpdate(k, payload, rows)
    [] action = "DELETE" -> HandleDelete(k, rows)

(***************************************************************************)
(* What the statements of a handler do to the table: UPDATE and DELETE     *)
(* first clear is_active on every active row, CREATE only inserts.         *)
(***************************************************************************)
Closed(row) == [row EXCEPT !.active = FALSE]

Deactivate(rows) == [i \in DOMAIN rows |-> Closed(rows[i])]

Write(action, rows, inserted) ==
  IF inserted = <<>> THEN rows
  ELSE (IF action = "CREATE" THEN rows ELSE Deactivate(rows)) \o inserted
=============================================================================
