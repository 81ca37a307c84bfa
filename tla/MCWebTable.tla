----------------------------- MODULE MCWebTable -----------------------------
(***************************************************************************)
(* Instances of WebTable for TLC.                                          *)
(***************************************************************************)
EXTENDS WebTable, TLC

CONSTANTS a, b, c, r1, r2

Three == {a, b, c}
Two == {a, b}
Symmetry == Permutations(Ids) \cup Permutations(Threads)
=============================================================================
