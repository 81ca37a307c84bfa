---------------------------- MODULE MCHandRules -----------------------------
(***************************************************************************)
(* Decks small enough for TLC, in which every category occurs.             *)
(***************************************************************************)
EXTENDS HandRules

Cards(suits, values) == {16 * s + v : s \in suits, v \in values}

FaceUp(cards) == {c + 64 : c \in cards}

\* Ace to five, or ten to ace, of one suit, with aces or kings for the pairs.
TwoEnds ==
  { Cards({0}, (1..5) \cup {7}) \cup Cards({1}, {1, 2}) \cup Cards({2, 3}, {1}),
    Cards({0}, {1, 8} \cup 10..13) \cup Cards({1}, {1, 13}) \cup Cards({2, 3}, {13}) }

\* A longer row with three suits, for seven cards.
LongRow ==
  { Cards({0}, 1..8) \cup Cards({1}, {1, 2, 3, 8}) \cup Cards({2, 3}, {2}),
    Cards({0}, {1} \cup 7..13) \cup Cards({1}, {1, 12, 13, 9}) \cup Cards({2, 3}, {13}) }

\* A pair for each of two hands, with the kickers of the repository's test.
PairsAndKickers ==
  { Cards(0..3, {2}) \cup Cards({0}, {13, 12, 7}) \cup Cards({1}, {13, 10, 8}) }

\* Two hands of five, some of their cards face up.
TwoHands == PairsAndKickers \cup
  { Cards({0}, 1..5) \cup FaceUp(Cards({1}, 1..5)) \cup Cards({2}, {1, 2}),
    Cards({0}, {1} \cup 10..13) \cup FaceUp(Cards({1}, {1} \cup 10..13))
      \cup Cards({2}, {13, 9}) }

\* Five cards in any order; seven; and two hands of five.
AllDeals ==
  [deck : TwoEnds, first : {5}, second : {0}, order : {"any"}]
    \cup [deck : LongRow, first : {7}, second : {0}, order : {"rising"}]
    \cup [deck : TwoHands, first : {5}, second : {5}, order : {"falling"}]

KickerDeals == [deck : PairsAndKickers, first : {5}, second : {5}, order : {"falling"}]
=============================================================================
