--------------------------- MODULE MCEmployeeSync ---------------------------
(***************************************************************************)
(* Instances of SyncEvidence for TLC.  Rates are in tenths of a cent: the  *)
(* column rounds half up, and toFixed(2) rounds half down, as it does for  *)
(* the numbers whose binary value lies below the half (1.005 is one).  The *)
(* documents of the runs are at 1.00, which is stored as it is, and 1.011, *)
(* which both roundings take to 1.01.                                      *)
(***************************************************************************)
EXTENDS SyncEvidence, TLC

MCStored == [r \in Rates |-> 10 * ((r + 5) \div 10)]
MCFixed == [r \in Rates |-> 10 * ((r + 4) \div 10)]

MCKeys == SyncKeys \cup {RepairKey(e) : e \in Employees}
MCPayloads == {Payload(rate) : rate \in Rates}

Symmetry == Permutations(Requests) \cup Permutations(Correlations)
=============================================================================
