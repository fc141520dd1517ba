------------------------------ MODULE MCOutbox ------------------------------
(***************************************************************************)
(* Instances of Outbox for TLC.                                            *)
(***************************************************************************)
EXTENDS Outbox, TLC

CONSTANTS w1, w2, o1

OneEvent == {1}
TwoEvents == {1, 2}

NoCommands == {}
AllCommands == RetryEvent \cup RetryDead \cup Replay
RetryEventOnly == RetryEvent

Symmetry == Permutations(Workers)
=============================================================================
