------------------------------- MODULE OnePart --------------------------------
(***************************************************************************)
(* Several parts put beside each other, of which a behaviour runs one: the *)
(* parts share no state in the code either, and what one asks of another   *)
(* is answered in any order, or not at all.                                *)
(***************************************************************************)
CONSTANT Alerts   \* those that the service keeps and a page shows

VARIABLE part

\* The variables of a part that is not run hold nothing.
Off(x) == x = 0
Off2(a, b) == Off(a) /\ Off(b)
Off4(a, b, c, d) == Off2(a, b) /\ Off2(c, d)

Begins(p, initially, atRest) == IF part = p THEN initially ELSE atRest
=============================================================================
