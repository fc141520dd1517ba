----------------------------- MODULE MCIdentity -----------------------------
(***************************************************************************)
(* Instances of Sessions for TLC.                                          *)
(***************************************************************************)
EXTENDS Sessions, TLC

CONSTANTS t1, t2
=============================================================================
