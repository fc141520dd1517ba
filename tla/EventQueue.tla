----------------------------- MODULE EventQueue -----------------------------
(***************************************************************************)
(* What the queue of integration events promises to those who enqueue, and *)
(* what it does not, without attempts, batches, workers or operators: an   *)
(* event that was enqueued is never forgotten, it may be delivered any     *)
(* number of times, at any time and in any order, it is settled as SUCCESS *)
(* only after a delivery succeeded, and it may be opened again.            *)
(***************************************************************************)
CONSTANT Events

VARIABLES
  state,     \* state[e]: NONE until e is enqueued, OPEN, then SUCCESS or DEAD
  accepted   \* the events that the integrations have accepted at least once

queueVars == <<state, accepted>>

States == {"NONE", "OPEN", "SUCCESS", "DEAD"}

TypeOK == state \in [Events -> States] /\ accepted \subseteq Events

Init ==
  /\ state = [e \in Events |-> "NONE"]
  /\ accepted = {}

Enqueue(e) ==
  /\ state[e] = "NONE"
  /\ state' = [state EXCEPT ![e] = "OPEN"]
  /\ UNCHANGED accepted

Deliver(e) ==
  /\ state[e] # "NONE"
  /\ accepted' = accepted \cup {e}
  /\ UNCHANGED state

Settle(e) ==
  /\ state[e] # "NONE"
  /\ \/ e \in accepted /\ state' = [state EXCEPT ![e] = "SUCCESS"]
     \/ state' = [state EXCEPT ![e] = "DEAD"]
  /\ UNCHANGED accepted

Reopen(S) ==
  /\ \A e \in S : state[e] # "NONE"
  /\ state' = [e \in Events |-> IF e \in S THEN "OPEN" ELSE state[e]]
  /\ UNCHANGED accepted

Next ==
  \/ \E e \in Events : Enqueue(e) \/ Deliver(e) \/ Settle(e)
  \/ \E S \in SUBSET Events : Reopen(S)

Spec == Init /\ [][Next]_queueVars
=============================================================================
