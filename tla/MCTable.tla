------------------------------ MODULE MCTable -------------------------------
(***************************************************************************)
(* Instances of Table for TLC.                                             *)
(***************************************************************************)
EXTENDS Table, TLC

CONSTANTS a, b, c

Three == {a, b, c}
Two == {a, b}
Symmetry == Permutations(Ids)

\* Bound: between two hands, folds by players who are out of the hand, which
\* leave no head or no blind, or else, before anybody has confirmed, the trace
\* of at most one late bet.
OneLateCall ==
  \/ IsRunning(table)
  \/ table.pot = 0 /\ table.bettor = None
  \/ /\ Cardinality({p \in table.players : table.pbet[p] > 0}) <= 1
     /\ table.head # None /\ table.blind # None
     /\ table.confirmed = {}
=============================================================================
