----------------------------- MODULE MCTcpTable -----------------------------
(***************************************************************************)
(* An instance of TcpTable for TLC.  Bounds: each of two clients goes its  *)
(* own way, so that between them every command and every end occurs.       *)
(***************************************************************************)
EXTENDS TcpTable, TLC

CONSTANTS a, b

Two == {a, b}

EachSends ==
  (a :> {"RAISE", "FOLD", "REPLACE_CARDS"}) @@ (b :> {"ALL_IN", "CHECK", "REPLACE_CARDS"})

EachMakes == (a :> {"reset"}) @@ (b :> {"closed"})
=============================================================================
