------------------------------- MODULE MCParts --------------------------------
(***************************************************************************)
(* The parts of the service and of the browser, for TLC: a behaviour runs  *)
(* one of them, and the others stay where they are.                        *)
(***************************************************************************)
EXTENDS ServiceParts, PageParts, TLC

Init ==
  \/ ServiceInit /\ PageRest
  \/ PageInit /\ ServiceRest

Next ==
  \/ ServiceNext /\ UNCHANGED pageVars
  \/ PageNext /\ UNCHANGED serviceVars

vars == <<serviceVars, pageVars>>

Spec == Init /\ [][Next]_vars

\* Alerts, their types and requests are alike.
Alike == Permutations(Alerts) \cup Permutations(Types) \cup Permutations(Jobs)
=============================================================================
