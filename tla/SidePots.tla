------------------------------ MODULE SidePots ------------------------------
(***************************************************************************)
(* pay_showdown_pots (Server/src/lib.rs:682-745) against the rule it       *)
(* computes.  The code sorts the distinct bets into levels and pays one    *)
(* pot for each; the rule is stated chip by chip.  The states are the      *)
(* tables that can reach a showdown: any bets, any players folded, players *)
(* who joined during the hand (no bet, no cards), and bets left behind by  *)
(* players who are gone.                                                   *)
(***************************************************************************)
EXTENDS TableOps

CONSTANTS
  MaxBet,  \* bound: the highest bet
  MaxDead  \* bound: the most that departed players left in the pot

VARIABLES
  table,   \* the table at the showdown, then after it
  strength \* the ranking that decided it, None before

vars == <<table, strength>>

\* A table in its last round: the players of live hold cards and their bets
\* are in; the other players have folded, or came during the hand.
LastRound(bets, live, joined, dead) ==
  LET order == CHOOSE o \in Orders[live] : TRUE
      ring  == Rebuild([NewTable EXCEPT !.players = live], order)
      t == [NewTable EXCEPT !.players = Ids,
                            !.pbet    = bets,
                            !.folded  = [p \in Ids |-> p \notin live \cup joined],
                            !.next    = ring.nextf,
                            !.prev    = ring.prevf,
                            !.turn    = order[1],
                            !.clock   = "fresh",
                            !.round   = EndRound - 1]
  IN [t EXCEPT !.pot = Bets(t) + dead]

Init ==
  \E bets \in [Ids -> 0..MaxBet], live, joined \in SUBSET Ids, dead \in 0..MaxDead :
    /\ live # {} /\ live \cap joined = {}
    /\ \A p \in joined : bets[p] = 0
    /\ table = LastRound(bets, live, joined, dead)
    /\ strength = None

Showdown ==
  \E rank \in Ranks[Contenders(table)] :
    /\ IsRunning(table)
    /\ table' = EndGame(table, rank)
    /\ strength' = [p \in Contenders(table) |-> Strength(table, rank, p)]

Next == Showdown

Spec == Init /\ [][Next]_vars

-----------------------------------------------------------------------------

\* The rule.  The chips that are some player's c-th are won together, by the
\* strongest hand among the contenders who have a c-th chip in the pot.
Layer(c) == {p \in Ids : table.pbet[p] >= c}

WinsLayer(p, c) ==
  /\ p \in Contenders(table) \cap Layer(c)
  /\ \A q \in Contenders(table) \cap Layer(c) : strength'[q] <= strength'[p]

\* What no contender can win so goes to the strongest hand of all, with the
\* chips of the players who are gone.
Unclaimed == {c \in 1..MaxBet : \A p \in Ids : ~WinsLayer(p, c)}

LayerChips(layers) == SumFunctionOnSet([c \in 1..MaxBet |-> Cardinality(Layer(c))], layers)

Rest == table.pot - Bets(table) + LayerChips(Unclaimed)

Gain(p) == table'.wallet[p] - table.wallet[p]

\* Sorting the bets into levels (lib.rs:683-719) pays what the rule pays.
PaysByTheChip ==
  [][\A p \in Ids :
       Gain(p) = LayerChips({c \in 1..MaxBet : WinsLayer(p, c)})
                 + IF p = table'.showdown THEN Rest ELSE 0]_vars
=============================================================================
