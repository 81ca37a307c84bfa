---------------------------- MODULE JoinedWallets ----------------------------
(***************************************************************************)
(* The players who are joining a table, and the wallets they may bring     *)
(* (module SavedWallets).                                                  *)
(***************************************************************************)
VARIABLES
  joining,  \* join_table in progress, for each table and player
  held      \* history: the wallets each player brought or has had at a table

\* Whoever joins brings a new wallet or one they had at a table before, also
\* one that does not fit the i64 of its column, and whatever writes were lost,
\* late or overtaken by others (db.rs:89, db.rs:120).
WalletComesBack ==
  \A k \in DOMAIN joining : \A p \in DOMAIN joining[k] : joining[k][p].wallet \in held[p]
=============================================================================
