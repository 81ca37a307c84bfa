------------------------------ MODULE MCCards -------------------------------
(***************************************************************************)
(* The dealing of the three games (CardTable) as instances for TLC, one of *)
(* which is chosen at the start, and what Cards says of it.                *)
(***************************************************************************)
EXTENDS Cards, TLC

CONSTANTS a, b, c, None

VARIABLES game, table, cards

Three == {a, b, c}
Symmetry == Permutations(Players)

Holdem == INSTANCE CardTable
  WITH Ids <- Players, MaxPlayers <- 3, BlindBet <- 1, Game <- "TexasHoldem",
       OverflowChecks <- FALSE, WordSize <- 64, Aces <- {},
       JoinChips <- {1, 2}, Amounts <- {1}, MaxChips <- 3

\* Bound: two at the table, for whom there are cards enough.
Stud == INSTANCE CardTable
  WITH Ids <- Players, MaxPlayers <- 2, BlindBet <- 1, Game <- "SevenCardStud",
       OverflowChecks <- FALSE, WordSize <- 64, Aces <- {},
       JoinChips <- {1, 2}, Amounts <- {1}, MaxChips <- 3

\* Bound: both come with two chips, so that after the ante both still draw and bet.
FiveDraw == INSTANCE CardTable
  WITH Ids <- Players, MaxPlayers <- 2, BlindBet <- 1, Game <- "FiveCardDraw",
       OverflowChecks <- FALSE, WordSize <- 64, Aces <- {18, 14, 8, 3},
       JoinChips <- {2}, Amounts <- {1}, MaxChips <- 4

\* Bound: a showdown is followed by a start, or by a purge of everybody.
NobodyConfirms == table.confirmed = {}

DealingInit ==
  /\ game \in {"TexasHoldem", "SevenCardStud", "FiveCardDraw"}
  /\ Holdem!Init /\ Init

DealingNext ==
  /\ \/ game = "TexasHoldem" /\ Holdem!Next
     \/ game = "SevenCardStud" /\ Stud!Next
     \/ game = "FiveCardDraw" /\ FiveDraw!Next
  /\ left' = cards'.left /\ hand' = cards'.hand /\ faceUp' = cards'.faceUp
  /\ community' = cards'.community /\ dealtIn' = Holdem!Ring(table')
  /\ UNCHANGED game

dealingVars == <<vars, game, table, cards>>

DealingSpec == DealingInit /\ [][DealingNext]_dealingVars

\* The dealing of the three games keeps the promises of module Cards.
DealsCards == Spec

\* A deck of as many cards as the game can deal is never short: in every round
\* each player of the hand holds the cards that the rules give them by then, and
\* so does the board, however many have folded, left, joined or drawn cards
\* (deck.rs:33 deals fewer cards without a word when the deck is short).
HandsMatchRound ==
  /\ game = "TexasHoldem" => Holdem!HandsMatchRound
  /\ game = "SevenCardStud" => Stud!HandsMatchRound
  /\ game = "FiveCardDraw" => FiveDraw!HandsMatchRound

\* A hand that comes to its last round shows complete hands, five or seven
\* cards with the board's, of all who were dealt in and did not fold or leave
\* with this very request, although all-in players skip the betting of the
\* rounds they still get cards in.
ShowdownIsComplete ==
  [][/\ game = "TexasHoldem" => Holdem!ShowdownStep
     /\ game = "SevenCardStud" => Stud!ShowdownStep
     /\ game = "FiveCardDraw" => FiveDraw!ShowdownStep]_dealingVars
=============================================================================
