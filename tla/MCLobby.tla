------------------------------ MODULE MCLobby ------------------------------
(***************************************************************************)
(* An instance of Lobby for TLC.                                           *)
(***************************************************************************)
EXTENDS Lobby, TLC

CONSTANTS a, b, g, h

\* Two clients of a lobby with a game, or one of a lobby whose tables come and go.
TwoLimits ==
  { [clients |-> {a, b}, games |-> {g}, calls |-> 1, shutDown |-> FALSE],
    [clients |-> {a}, games |-> {g, h}, calls |-> 3, shutDown |-> TRUE] }

\* Bound: where tables come and go, the client does not.
Stays == limits.shutDown => (\A x \in Clients : conn[x] \in {"none", "open"} /\ at[x] # "leave")
=============================================================================
