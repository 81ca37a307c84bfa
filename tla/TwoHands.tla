------------------------------ MODULE TwoHands ------------------------------
(***************************************************************************)
(* HandRank against the rules of poker: a complete hand is evaluated,      *)
(* compared and its used cards marked, and each is compared with what the  *)
(* rules say of the set of its cards.  Module HandRules deals the hands.   *)
(***************************************************************************)
EXTENDS HandRank

VARIABLES
  deal,  \* the deal chosen
  hand,  \* the first hand
  other  \* the other hand

\* Two hands are dealt.
Complete == deal.second > 0 /\ Len(other) = deal.second

\* Two hands never come out equal in HandRank::cmp, so the winner does not
\* depend on the order in which the HashMap of the players yields them
\* (hand.rs:213, fivecarddraw.rs:125).
NoTies ==
  Complete => LET r == Evaluate(hand)
                  s == Evaluate(other)
              IN RankLess(r, s) # RankLess(s, r)

-----------------------------------------------------------------------------

\* The rules, for a set of five cards.
HighValues(S) == {High(Value(c)) : c \in S}

OneSuit(S) == Cardinality({Suit(c) : c \in S}) = 1

Straights(S) == {h \in 5..14 : Run(h) = HighValues(S)}

\* How many cards of S have the value v.
Often(S, v) == Cardinality({c \in S : High(Value(c)) = v})

\* The sum of the squares of how often each value occurs tells the shapes of
\* five cards apart: 4+1 has 17, 3+2 13, 3+1+1 11, 2+2+1 9 and 2+1+1+1 7.
Shape(S) == Cardinality({cd \in S \X S : Value(cd[1]) = Value(cd[2])})

RuleCategory(S) ==
  LET shape    == Shape(S)
      straight == Straights(S)
      flush    == OneSuit(S)
  IN Max({1} \cup {c \in 2..10 :
       CASE c = 2 -> shape = 7   [] c = 3 -> shape = 9   [] c = 4 -> shape = 11
         [] c = 7 -> shape = 13  [] c = 8 -> shape = 17
         [] c = 5 -> straight # {}
         [] c = 6 -> flush
         [] c = 9 -> straight # {} /\ flush
         [] c = 10 -> straight = {14} /\ flush})

\* What decides between two hands of a category before the kickers do: the
\* straight, or the values that occur more than once, the most frequent first.
RuleMade(S) ==
  IF Straights(S) # {} THEN Straights(S)
  ELSE {15 * Often(S, v) + v : v \in {w \in HighValues(S) : Often(S, w) > 1}}

\* Sets of the same size, by their greatest elements first.
SetLess(V, W) == V # W /\ Max(V \ W) < Max(W \ V)

RuleLess(S, T) ==
  LET s == RuleCategory(S)
      t == RuleCategory(T)
  IN s < t \/ (s = t /\ SetLess(RuleMade(S), RuleMade(T)))

\* The first hand is complete, and nothing is dealt to the other yet.
FirstDealt == Len(hand) = deal.first /\ other = <<>>

\* Hand::evaluate takes every five cards, in whatever order they come, for what
\* they are, and never more cards for more than the best five of them.  (It may
\* take them for less: it wants all cards of a flush, sees no second triple in a
\* full house, and the low ace only among exactly five.)
RankedRight ==
  FirstDealt /\ Len(hand) >= 5 =>
    LET category == Evaluate(hand).category
    IN /\ \E S \in kSubset(5, ToSet(hand)) : RuleCategory(S) >= category
       /\ Len(hand) = 5 => category = RuleCategory(ToSet(hand))

\* The cards that cards_used marks are cards of the hand, at most five, and
\* have its rank by themselves.  (Five cards in a row may be a flush, too.)
UsedCardsMakeTheHand ==
  FirstDealt =>
    LET rank  == Evaluate(hand)
        used  == CardsUsed(rank, hand)
        alone == Evaluate(Picked(hand, {i \in DOMAIN hand : hand[i] \in used}))
    IN /\ used \subseteq ToSet(hand) /\ Cardinality(used) \in 1..5
       /\ rank.category > 1 => \/ alone.category > rank.category
                               \/ alone.category = rank.category /\ alone.made = rank.made

\* Of two hands of five that differ in more than kickers, HandRank::cmp finds the
\* better one greater.
BetterHandWins ==
  Complete /\ Len(hand) = 5 /\ Len(other) = 5 /\ RuleLess(ToSet(hand), ToSet(other)) =>
    RankLess(Evaluate(hand), Evaluate(other))

\* Hands of the same rank and length with different kickers are told apart by the
\* values of the cards that cards_used_against marks.  (Of two hands of unequal
\* length the kickers of one may be the first of the other's.)
MarksTellApart ==
  Complete /\ Len(hand) = Len(other) =>
    LET r == Evaluate(hand)
        s == Evaluate(other)
        Marked(S) == [v \in 2..14 |-> Often(S, v)]
    IN r.category = s.category /\ r.made = s.made /\ r.kickers # s.kickers
         /\ r.category \in {1, 2, 3, 4, 8}
       => Marked(CardsUsedAgainst(r, hand, {s})) # Marked(CardsUsedAgainst(s, other, {r}))

\* Where kickers decide, the better hand is the one with the higher last needed
\* kicker: cards_used_against marks the kickers needed up to there, and those
\* only (Poker/tests/hand.rs:44).  The code breaks this: compare_values takes
\* the kickers from the last to the first, so the marked ones decide nothing.
NeededKickersDecide ==
  LET r == Evaluate(hand)
      s == Evaluate(other)
      needed == NeededKickers(r.kickers, {s.kickers})
      last == Len(needed)
  IN Complete /\ r.category = s.category /\ r.category \in {2, 3, 4, 8} /\ r.made = s.made =>
       (last > 0 /\ needed[last] > s.kickers[last] => RankLess(s, r))
=============================================================================
