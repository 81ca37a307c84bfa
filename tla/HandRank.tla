------------------------------ MODULE HandRank ------------------------------
(***************************************************************************)
(* The value of a hand (Poker/src/hand.rs): Hand::evaluate, the order of   *)
(* HandRanks, and the cards a showdown marks as used.                      *)
(*                                                                         *)
(* A card is its byte: the value (ace 1, king 13) in the low four bits,    *)
(* the suit in the next two, and the bit above for a card that lies face   *)
(* up.  A hand is a sequence of cards in the order they were dealt.        *)
(*                                                                         *)
(* A HandRank is a record.  category is its rank_value; made are the       *)
(* values of the pair, triple and so on, or the straight's highest;        *)
(* kickers the values the variant keeps beside these, and cards the sorted *)
(* cards of the hand.                                                      *)
(***************************************************************************)
EXTENDS Integers, SequencesExt

Value(card) == card % 16

Suit(card) == (card \div 16) % 4

\* The ace counts as 14 in what makes a rank, but as 1 among the kickers.
High(value) == IF value = 1 THEN 14 ELSE value

Values(hand) == [i \in 1..Len(hand) |-> Value(hand[i])]

\* sort_by and filter: the elements of s at the indices I, those of a higher weight
\* first, and those of the same weight as they come.
Arranged(s, I, weight) ==
  LET Before(i) == {j \in I : weight[j] > weight[i] \/ (weight[j] = weight[i] /\ j < i)}
      places == {<<i, Cardinality(Before(i)) + 1>> : i \in I}
  IN [n \in 1..Cardinality(I) |-> s[CHOOSE i \in I : <<i, n>> \in places]]

Descending(values) == Arranged(values, DOMAIN values, values)

\* By value, then by suit.
SortedCards(hand) ==
  Arranged(hand, DOMAIN hand, [i \in DOMAIN hand |-> 4 * Value(hand[i]) + Suit(hand[i])])

\* How often each value occurs.
CountValues(values) ==
  [v \in ToSet(values) |-> Cardinality({i \in DOMAIN values : values[i] = v})]

\* The values, each once: the most frequent first, then the highest (ace low).
ByCount(values) ==
  LET counts == CountValues(values)
      firsts == {i \in DOMAIN values : \A j \in 1..(i - 1) : values[j] # values[i]}
  IN Arranged(values, firsts, [i \in firsts |-> 16 * counts[values[i]] + values[i]])

\* filter alone: the elements at the indices I, as they come.
Picked(s, I) == Arranged(s, I, [i \in DOMAIN s |-> 0])

\* The values that are not named, in the order of the hand.
Without(values, named) == Picked(values, {i \in DOMAIN values : ~ Contains(named, values[i])})

\* The flush test: every two neighbours are of one suit.
IsFlush(hand) == \A i \in 2..Len(hand) : Suit(hand[i - 1]) = Suit(hand[i])

NoStraight == 0

\* The ace as 14 only: also a mutant of check_straight.
StraightAceHigh(values) ==
  LET present == {High(v) : v \in ToSet(values)}
  IN Max({NoStraight} \cup {h \in present : (h - 4)..h \subseteq present})

\* check_straight: the highest of five values in a row.  The ace counts as
\* low only in a hand of exactly these five cards.
StraightHigh(values) ==
  IF Descending(values) = <<5, 4, 3, 2, 1>> THEN 5 ELSE StraightAceHigh(values)

\* The tests of evaluate.  The code makes them from the last to the first.
Shows(flush, straight, first, second) ==
  << TRUE,                              \* HighCard
     first = 2,                         \* OnePair
     first = 2 /\ second = 2,           \* TwoPair
     first = 3,                         \* ThreeOfAKind
     straight # NoStraight,             \* Straight
     flush,                             \* Flush
     first = 3 /\ second = 2,           \* FullHouse
     first = 4,                         \* FourOfAKind
     flush /\ straight # NoStraight,    \* StraightFlush
     flush /\ straight = 14 >>          \* RoyalFlush

\* How many of the most frequent values the variant of a category names.
Named == <<0, 1, 2, 1, 0, 0, 2, 1, 0, 0>>

NoCards == [category |-> 0, made |-> <<>>, kickers |-> <<>>, cards |-> <<>>]

\* evaluate, of a hand that is not empty.
Rank(hand) ==
  LET values   == Values(hand)
      counts   == CountValues(values)
      byCount  == ByCount(values)
      Times(i) == IF i \in DOMAIN byCount THEN counts[byCount[i]] ELSE 0
      straight == StraightHigh(values)
      shows    == Shows(IsFlush(hand), straight, Times(1), Times(2))
      category == Max({c \in 1..10 : shows[c]})
      named    == SubSeq(byCount, 1, Named[category])
      made     == [i \in DOMAIN named |-> High(named[i])]
  IN [ category |-> category,
       made     |-> CASE category \in {5, 9} -> <<straight>>
                      [] category = 3 -> Descending(made)
                      [] OTHER -> made,
       kickers  |-> CASE category \in {1, 6} -> Descending(values)
                      [] category \in {2, 3, 4, 8} -> Without(values, named)
                      [] OTHER -> <<>>,
       cards    |-> SortedCards(hand) ]

Evaluate(hand) == IF hand = <<>> THEN NoCards ELSE Rank(hand)

-----------------------------------------------------------------------------

\* The order of Vec<u8>: by the first difference, a prefix first.
VecLess(s, t) ==
  \E i \in 1..Len(t) :
    /\ \A j \in 1..(i - 1) : j <= Len(s) /\ s[j] = t[j]
    /\ i <= Len(s) => s[i] < t[i]

\* A mutant of the order, without the cards.
PartsNoCards(rank) == << <<rank.category>>, rank.made, Reverse(rank.kickers) >>

\* A mutant of the order, with the pairs and triples last.
PartsMadeLast(rank) == << <<rank.category>>, Reverse(rank.kickers), rank.made, rank.cards >>

\* What cmp compares, one after the other.  compare_values takes the kickers
\* from the last to the first.
Parts(rank) == << <<rank.category>>, rank.made, Reverse(rank.kickers), rank.cards >>

\* HandRank::cmp is Ordering::Less.
RankLess(r, s) ==
  LET p == Parts(r)
      q == Parts(s)
  IN \E i \in DOMAIN p : SubSeq(p, 1, i - 1) = SubSeq(q, 1, i - 1) /\ VecLess(p[i], q[i])

-----------------------------------------------------------------------------

\* sorted_by_value
ByHigh(hand) ==
  Arranged(hand, DOMAIN hand, [i \in DOMAIN hand |-> High(Value(hand[i]))])

\* A mutant of straight_values that forgets that the ace is low in the lowest.
RunOnly(high) == (high - 4)..high

\* straight_values
Run(high) == IF high = 5 THEN {2, 3, 4, 5, 14} ELSE (high - 4)..high

\* The cards of a value, as take_value filters them (the ace is 14).
OfValue(hand, v) == Picked(hand, {i \in DOMAIN hand : High(Value(hand[i])) = v})

\* The first card of each value of a straight.
TakeStraight(hand, high) ==
  {OfValue(hand, v)[1] : v \in {w \in Run(high) : OfValue(hand, w) # <<>>}}

TakeFirst(s, n) == {s[i] : i \in DOMAIN s \cap 1..n}

\* cards_used, as a set.
CardsUsed(rank, hand) ==
  CASE rank.category = 1       -> TakeFirst(ByHigh(hand), 1)
    [] rank.category = 6       -> TakeFirst(ByHigh(hand), 5)
    [] rank.category \in {5, 9} -> TakeStraight(hand, rank.made[1])
    [] rank.category = 10      -> TakeStraight(hand, 14)
    [] OTHER -> {c \in ToSet(hand) : Contains(rank.made, High(Value(c)))}

\* A mutant that stops short of the kicker that differs.
NeededAgainstBeforeIt(own, other) ==
  LET n == Min({Len(own), Len(other)})
  IN Min({n} \cup {i - 1 : i \in {j \in 1..n : own[j] # other[j]}})

\* needed_kickers: up to the first that differs, for the other hand that needs
\* the most.
NeededAgainst(own, other) ==
  LET n == Min({Len(own), Len(other)})
  IN Min({n} \cup {i \in 1..n : own[i] # other[i]})

NeededKickers(own, others) ==
  SubSeq(own, 1, Max({0} \cup {NeededAgainst(own, other) : other \in others}))

\* add_kickers: one card for each value, an ace for none as its value there is 1.
AddKickers(cards, hand, values) ==
  LET free(v) == OfValue(Picked(hand, {i \in DOMAIN hand : hand[i] \notin cards}), v)
  IN cards \cup UNION {TakeFirst(free(v), Cardinality({i \in DOMAIN values : values[i] = v}))
                         : v \in ToSet(values)}

\* cards_used_against the hands of ranks, as a set.
CardsUsedAgainst(rank, hand, ranks) ==
  LET same   == {r \in ranks : r.category = rank.category}
      others == {r.kickers : r \in {q \in same : q.made = rank.made}}
      needed == NeededKickers(rank.kickers, others)
  IN IF same = {} \/ rank.category \notin {1, 2, 3, 4, 8} THEN CardsUsed(rank, hand)
     ELSE AddKickers(IF rank.category = 1 THEN {} ELSE CardsUsed(rank, hand), hand, needed)
=============================================================================
