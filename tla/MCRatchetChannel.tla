--------------------------- MODULE MCRatchetChannel ---------------------------
(* A small instance of RatchetChannel for TLC: one party sends three times *)
(* as much as the other, enough to fill and overflow the store of skipped  *)
(* keys between two answers.                                               *)
EXTENDS RatchetChannel

Uneven == [alice |-> 6, bob |-> 2]
=============================================================================
