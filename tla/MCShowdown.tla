----------------------------- MODULE MCShowdown -----------------------------
(***************************************************************************)
(* The two halves of a showdown in one instance for TLC: hands are dealt   *)
(* and ranked (HandRules), or else pots are paid (SidePots).               *)
(***************************************************************************)
EXTENDS MCHandRules, TLC

CONSTANTS
  a, b, c, d, None,
  MaxBet, MaxDead  \* as in SidePots

VARIABLES table, strength

Pots == INSTANCE SidePots
          WITH Ids <- {a, b, c, d}, MaxPlayers <- 5, BlindBet <- 1,
               Game <- "SevenCardStud", OverflowChecks <- FALSE, WordSize <- 64

potVars == <<table, strength>>

\* Nothing is dealt: a hand of seven from no deck.
NoDeal == [deck |-> {}, first |-> 7, second |-> 0, order |-> "any"]

ShowdownInit ==
  \/ Init /\ table = Pots!NewTable /\ strength = None
  \/ deal = NoDeal /\ hand = <<>> /\ other = <<>> /\ Pots!Init

ShowdownNext ==
  \/ Next /\ UNCHANGED potVars
  \/ Pots!Next /\ UNCHANGED vars

ShowdownSpec == ShowdownInit /\ [][ShowdownNext]_<<vars, potVars>>

\* SidePots: sorting the bets into levels pays what the rule pays.
PaysByTheChip == Pots!PaysByTheChip
=============================================================================
