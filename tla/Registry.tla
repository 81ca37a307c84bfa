------------------------------ MODULE Registry ------------------------------
(***************************************************************************)
(* The games that a ServerManager has registered, and the threads that     *)
(* serve them: what the owner's calls, the lobby's handlers and the        *)
(* threads of the tables have in common (module Lobby).                    *)
(***************************************************************************)
EXTENDS Functions

VARIABLES
  tables,    \* the port of each registered game
  bound,     \* the ports on which a table's thread accepts
  stopping   \* the ports whose shutdown_flag is set

Registered == DOMAIN tables

\* A game in the list is served: a thread of its own accepts on the port that the
\* lobby gives for it, and has not been told to stop.
ListedIsServed ==
  /\ \A g \in Registered : tables[g] \in bound \ stopping
  /\ IsInjective(tables)
=============================================================================
