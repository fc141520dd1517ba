---------------------------- MODULE PayrollLedger ----------------------------
(***************************************************************************)
(* What the Payroll service promises of one mutation, without calls,       *)
(* transactions or snapshots: it is applied in one step to the employee's  *)
(* current rows and marked SUCCESS, it is never applied while it is marked *)
(* SUCCESS, and a failed attempt leaves the rows alone.                    *)
(*                                                                         *)
(* The mark may fall back from SUCCESS to FAILED: the service writes it    *)
(* outside the transaction (see RecordFailure in PayrollService.tla).      *)
(***************************************************************************)
EXTENDS PayrollRules

CONSTANTS Employees, Emp, Act

VARIABLES
  history,  \* history[e]: the pay_rates rows of employee e
  syncLog   \* syncLog[k]: the status of mutation k

Init ==
  /\ history = [e \in Employees |-> <<>>]
  /\ syncLog = [k \in Keys |-> "NONE"]

Apply(k, payload) ==
  /\ syncLog[k] # "SUCCESS"
  /\ syncLog' = [syncLog EXCEPT ![k] = "SUCCESS"]
  /\ LET rows == history[Emp[k]]
     IN history' = [history EXCEPT ![Emp[k]] =
                      Write(Act[k], rows, Handle(Act[k], k, payload, rows))]

Fail(k) ==
  /\ syncLog' = [syncLog EXCEPT ![k] = "FAILED"]
  /\ UNCHANGED history

Next == \E k \in Keys : (\E payload \in Payloads : Apply(k, payload)) \/ Fail(k)

Spec == Init /\ [][Next]_<<history, syncLog>>
=============================================================================
