----------------------------- MODULE MCTcpClient -----------------------------
(***************************************************************************)
(* An instance of TcpClient for TLC: one game beside the lobby.            *)
(***************************************************************************)
EXTENDS TcpClient, TLC

CONSTANT texasholdem

OneGame == {texasholdem}
=============================================================================
