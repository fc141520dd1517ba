------------------------------ MODULE MCPayroll ------------------------------
(***************************************************************************)
(* Instances of PayrollService for TLC: three mutations of one employee,   *)
(* created, given another rate and deleted.                                *)
(***************************************************************************)
EXTENDS PayrollService, TLC

CONSTANTS emp, create, update, delete

MCEmp == [k \in Keys |-> emp]

MCAct == [k \in Keys |-> CASE k = create -> "CREATE"
                           [] k = update -> "UPDATE"
                           [] k = delete -> "DELETE"]

\* In tenths of a cent: the column rounds half up.
MCStored == [r \in Rates |-> 10 * ((r + 5) \div 10)]

\* The SA service sends a rate and no pay type; other clients may send both.
MCPayloads == {[rate |-> 10, type |-> Absent], [rate |-> 24, type |-> "SALARY"]}

Symmetry == Permutations(Calls)
=============================================================================
