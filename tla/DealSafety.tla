----------------------------- MODULE DealSafety -----------------------------
(***************************************************************************)
(* The dealing of the three games implements Cards, for any players, decks *)
(* and chips, so no card is in two places and no hidden card is seen.      *)
(* Cards is seen through a table and its cards: the players dealt in are   *)
(* those on the ring.  And the hands and the board are complete in every   *)
(* round while the deck does not run out.                                  *)
(***************************************************************************)
EXTENDS CardTable, TableLemmas

C == INSTANCE CardSafety
  WITH Players <- Ids, left <- cards.left, hand <- cards.hand, faceUp <- cards.faceUp,
       community <- cards.community, dealtIn <- Ring(table)

\* The deck is a Vec, chips are u64.
Sizes == DeckSize \in Nat /\ JoinChips \subseteq Nat /\ Amounts \subseteq Nat

-----------------------------------------------------------------------------
(* Where the players sit, counted along next from the turn.                 *)

\* The walk of Distance, from p.
Walk(t, p) ==
  CHOOSE walk : walk = [k \in 0..Cardinality(Ids) |->
    IF k = 0 THEN p ELSE IF walk[k-1] = None THEN None ELSE t.next[walk[k-1]]]

LEMMA WalkSteps ==
  ASSUME NEW t, Sound(t), NEW p \in Ring(t)
  PROVE  LET n == Cardinality(Ids)
             w == Walk(t, p)
         IN /\ n \in Nat /\ w \in [0..n -> Ring(t)] /\ w[0] = p
            /\ \A k \in 1..n : w[k] = t.next[w[k-1]]
<1> DEFINE n == Cardinality(Ids)
           w == Walk(t, p)
           Step(v, k) == IF k = 0 THEN p ELSE IF v[k-1] = None THEN None ELSE t.next[v[k-1]]
           IsWalk(v, m) == v \in [0..m -> Ring(t)] /\ \A k \in 0..m : v[k] = Step(v, k)
           Bad == {m \in Nat : \A v : ~IsWalk(v, m)}
<1>1. n \in Nat
  BY FS_CardinalityType, IdsAssumption
<1>2. None \notin Ring(t) /\ \A q \in Ring(t) : t.next[q] \in Ring(t)
  BY IdsAssumption DEF Sound, RingLinks, Ring
<1>3. Bad = {}
  <2> SUFFICES ASSUME Bad # {} PROVE FALSE
    OBVIOUS
  <2>1. PICK m \in Bad : \A k \in Bad : m <= k
    BY Least, Bad \subseteq Nat, Zenon
  <2>2. CASE m = 0
    <3> DEFINE v == [k \in 0..0 |-> p]
    <3>1. IsWalk(v, 0)
      OBVIOUS
    <3> QED
      BY <2>1, <2>2, <3>1
  <2>3. CASE m # 0
    <3>1. m \in Nat /\ m - 1 \in Nat /\ m - 1 \notin Bad
      <4>1. m \in Nat
        BY <2>1
      <4> HIDE DEF Bad
      <4> QED
        BY <2>1, <2>3, <4>1
    <3>2. PICK v : IsWalk(v, m - 1)
      BY <3>1
    <3> DEFINE u == [k \in 0..m |-> IF k = m THEN t.next[v[m-1]] ELSE v[k]]
    <3>3. v[m-1] \in Ring(t)
      BY <3>1, <3>2
    <3>4. u \in [0..m -> Ring(t)]
      BY <1>2, <3>1, <3>2, <3>3
    <3>5. ASSUME NEW k \in 0..m
          PROVE  u[k] = Step(u, k)
      <4>1. CASE k = m
        BY <1>2, <2>3, <3>1, <3>3, <4>1
      <4>2. CASE k # m
        <5>1. k \in 0..(m-1) /\ (k # 0 => k - 1 \in 0..(m-1))
          BY <3>1, <4>2
        <5> QED
          BY <3>1, <3>2, <4>2, <5>1
      <4> QED
        BY <4>1, <4>2
    <3>6. IsWalk(u, m)
      BY <3>4, <3>5
    <3> QED
      BY <2>1, <3>6
  <2> QED
    BY <2>2, <2>3
<1>4. PICK v : IsWalk(v, n)
  BY <1>1, <1>3
<1>5. v = [k \in 0..n |-> Step(v, k)]
  BY <1>4
<1>6. w = [k \in 0..n |-> Step(w, k)]
  BY <1>5 DEF Walk
<1> HIDE DEF w
<1>7. \A k \in 0..n : w[k] \in Ring(t)
  <2> DEFINE Stray == {k \in 0..n : w[k] \notin Ring(t)}
  <2> SUFFICES ASSUME Stray # {} PROVE FALSE
    OBVIOUS
  <2>1. PICK k \in Stray : \A j \in Stray : k <= j
    BY Least, Stray \subseteq Nat, Zenon
  <2>2. w[k] = Step(w, k)
    BY <1>6
  <2>3. k # 0
    BY <2>1, <2>2
  <2>4. k - 1 \in 0..n /\ k - 1 \notin Stray
    BY <1>1, <2>1, <2>3
  <2> QED
    BY <1>2, <2>1, <2>2, <2>3, <2>4
<1>8. w[0] = p /\ \A k \in 1..n : w[k] = t.next[w[k-1]]
  <2>1. 0 \in 0..n
    BY <1>1
  <2>2. \A k \in 1..n : k \in 0..n /\ k - 1 \in 0..n /\ k # 0
    BY <1>1
  <2> QED
    BY <1>2, <1>6, <1>7, <2>1, <2>2
<1>9. w \in [0..n -> Ring(t)]
  BY <1>6, <1>7
<1> QED
  BY <1>1, <1>8, <1>9 DEF w

\* The players at distance 0, 1, ... from p: all of the ring, each once.
Place(t, p) == [q \in Ring(t) |-> IF q = p THEN 0 ELSE Distance(t, p, q)]

\* From a member of a sound ring, the distances along next number all its
\* members 0, 1, ... without gap or repetition: a round deals to each of them
\* once (the walk of handle_round_action, from the turn).
THEOREM Places ==
  ASSUME NEW t, Sound(t), NEW p \in Ring(t)
  PROVE  LET N == Cardinality(Ring(t))
         IN /\ N \in Nat /\ Place(t, p) \in [Ring(t) -> 0..(N - 1)]
            /\ \A q, r \in Ring(t) : Place(t, p)[q] = Place(t, p)[r] => q = r
            /\ \A k \in 0..(N - 1) : \E q \in Ring(t) : Place(t, p)[q] = k
<1> DEFINE n == Cardinality(Ids)
           N == Cardinality(Ring(t))
           w == Walk(t, p)
           Again == {k \in 1..n : \E i \in 0..(k - 1) : w[i] = w[k]}
<1>1. /\ n \in Nat /\ w \in [0..n -> Ring(t)] /\ w[0] = p
      /\ \A k \in 1..n : w[k] = t.next[w[k-1]]
  BY WalkSteps
<1>2. Ring(t) \subseteq Ids /\ None \notin Ids /\ IsFiniteSet(Ring(t)) /\ N \in Nat /\ N <= n
  <2>1. Ring(t) \subseteq Ids /\ None \notin Ids /\ IsFiniteSet(Ids)
    BY IdsAssumption DEF Ring
  <2> QED
    BY <2>1, FS_Subset, FS_CardinalityType
<1>3. \A q \in Ring(t) : t.next[q] \in Ring(t)
  BY DEF Sound, RingLinks
<1>4. OneCycle(t)
  BY DEF Sound
<1> HIDE DEF w, n, N
<1>5. Again # {}
  <2>1. IsFiniteSet(0..n) /\ Cardinality(0..n) = n + 1
    BY <1>1, FS_Interval
  <2>2. N < n + 1
    BY <1>1, <1>2
  <2>3. PICK i \in 0..n, j \in 0..n : i # j /\ w[i] = w[j]
    BY <1>1, <1>2, <2>1, <2>2, FS_PigeonHole DEF N
  <2>4. ASSUME NEW k \in 0..n, NEW l \in 0..n, k < l, w[k] = w[l]
        PROVE  l \in Again
    <3>1. l \in 1..n /\ k \in 0..(l - 1)
      BY <1>1, <2>4
    <3> QED
      BY <2>4, <3>1
  <2>5. w[i] = w[j] /\ w[j] = w[i]
    BY <2>3
  <2>6. i < j \/ j < i
    BY <1>1, <2>3
  <2> HIDE DEF Again
  <2> QED
    BY <2>4, <2>5, <2>6
<1>6. PICK m \in Again : \A k \in Again : m <= k
  <2>1. Again \subseteq Nat
    BY <1>1
  <2> HIDE DEF Again
  <2> QED
    BY <1>5, <2>1, Least, Zenon
<1>7. m \in 1..n /\ m \in Nat /\ \E i \in 0..(m - 1) : w[i] = w[m]
  BY <1>1, <1>6
<1>8. \A i, j \in 0..(m - 1) : w[i] = w[j] => i = j
  <2>1. ASSUME NEW i \in 0..(m - 1), NEW j \in 0..(m - 1), w[i] = w[j], i < j
        PROVE  FALSE
    <3>1. j \in Again
      BY <1>1, <1>7, <2>1
    <3> QED
      BY <1>1, <1>6, <1>7, <2>1, <3>1
  <2> QED
    BY <1>7, <2>1
<1> DEFINE S == {w[i] : i \in 0..(m - 1)}
<1>9. S = Ring(t)
  <2>1. S \subseteq Ring(t) /\ S # {}
    <3>1. 0 \in 0..(m - 1) /\ 0..(m - 1) \subseteq 0..n
      BY <1>1, <1>7
    <3> QED
      BY <1>1, <3>1
  <2>2. ASSUME NEW i \in 0..(m - 1)
        PROVE  t.next[w[i]] \in S
    <3>1. i + 1 \in 1..n /\ w[i + 1] = t.next[w[i]]
      BY <1>1, <1>7
    <3>2. CASE i + 1 = m
      BY <1>7, <3>1, <3>2
    <3>3. CASE i + 1 # m
      <4>1. i + 1 \in 0..(m - 1)
        BY <1>7, <3>3
      <4> QED
        BY <3>1, <4>1
    <3> QED
      BY <3>2, <3>3
  <2> QED
    BY <1>4, <2>1, <2>2 DEF OneCycle
<1>10. N = m
  <2> DEFINE f == [i \in 1..m |-> w[i - 1]]
  <2>1. \A i \in 1..m : i - 1 \in 0..(m - 1)
    BY <1>7
  <2>2. \A k \in 0..(m - 1) : k + 1 \in 1..m /\ (k + 1) - 1 = k
    BY <1>7
  <2>3. ExistsBijection(1..m, Ring(t))
    <3>1. f \in [1..m -> Ring(t)]
      BY <1>9, <2>1
    <3>2. \A i, j \in 1..m : f[i] = f[j] => i = j
      BY <1>7, <1>8, <2>1
    <3>3. \A q \in Ring(t) : \E i \in 1..m : f[i] = q
      BY <1>9, <2>2
    <3> QED
      BY <3>1, <3>2, <3>3 DEF ExistsBijection, Bijection, Injection, Surjection, IsInjective
  <2> QED
    BY <1>2, <1>7, <2>3, FS_CountingElements DEF N
<1>11. ASSUME NEW k \in 0..(m - 1)
       PROVE  Place(t, p)[w[k]] = k
  <2>1. w[k] \in Ring(t) /\ 0 \in 0..(m - 1)
    BY <1>7, <1>9
  <2>2. CASE k = 0
    BY <1>1, <2>1, <2>2 DEF Place
  <2>3. CASE k # 0
    <3>1. w[k] # p
      BY <1>1, <1>8, <2>1, <2>3
    <3> DEFINE K == {i \in 1..n : w[i] = w[k]}
    <3>2. k \in K /\ k \in Nat
      BY <1>1, <1>7, <2>3
    <3>3. \A i \in K : k <= i
      <4>1. ASSUME NEW i \in K, i < k PROVE FALSE
        <5>1. i \in 0..(m - 1)
          BY <1>1, <1>7, <4>1
        <5> QED
          BY <1>8, <4>1, <5>1
      <4>2. K \subseteq Int
        BY <1>1
      <4> HIDE DEF K
      <4> QED
        BY <3>2, <4>1, <4>2
    <3>4. Min(K) = k
      <4>1. K \subseteq Int
        BY <1>1
      <4>2. Min(K) \in K /\ \A i \in K : Min(K) <= i
        BY <3>2, <3>3, Zenon DEF Min
      <4>3. Min(K) <= k /\ k <= Min(K)
        BY <3>2, <3>3, <4>2
      <4>4. Min(K) \in Int /\ k \in Int
        BY <3>2, <4>1, <4>2
      <4> HIDE DEF K
      <4> QED
        BY <4>3, <4>4
    <3>5. Distance(t, p, w[k]) = Min(K)
      <4>1. \E i \in 1..n : w[i] = w[k]
        BY <3>2
      <4> QED
        BY <4>1, Zenon DEF Distance, Walk, w, n
    <3> QED
      BY <2>1, <3>1, <3>4, <3>5 DEF Place
  <2> QED
    BY <2>2, <2>3
<1>12. \A q \in Ring(t) : \E k \in 0..(m - 1) : q = w[k] /\ Place(t, p)[q] = k
  BY <1>9, <1>11
<1>13. /\ \A q \in Ring(t) : Place(t, p)[q] \in 0..(m - 1)
       /\ \A q, r \in Ring(t) : Place(t, p)[q] = Place(t, p)[r] => q = r
  BY <1>12
<1>14. \A k \in 0..(m - 1) : \E q \in Ring(t) : Place(t, p)[q] = k
  BY <1>9, <1>11
<1>15. Place(t, p) \in [Ring(t) -> 0..(m - 1)]
  BY <1>13 DEF Place
<1> QED
  BY <1>7, <1>10, <1>13, <1>14, <1>15 DEF N

-----------------------------------------------------------------------------
(* What a deal does to the cards.                                           *)

CardsType ==
  [left : 0..DeckSize, hand : [Ids -> SUBSET Card], faceUp : SUBSET Card,
   community : SUBSET Card]

\* The cards that leave the deck from c to d.
Gone(c, d) == (d.left + 1)..c.left

OffDeck(c) == \A p \in Ids : c.hand[p] \cap 1..c.left = {}

\* Dealt and TurnUp of Cards, of two values of the cards.
Deals(c, d, players) ==
  /\ c \in CardsType /\ d \in CardsType /\ d.left <= c.left
  /\ \A p \in Ids :
       /\ d.hand[p] \ c.hand[p] \subseteq Gone(c, d)
       /\ p \notin players => d.hand[p] \subseteq c.hand[p]
       /\ \A q \in Ids \ {p} : (d.hand[p] \ c.hand[p]) \cap (d.hand[q] \ c.hand[q]) = {}
  /\ d.community = c.community \cup (Gone(c, d) \ (UNION {d.hand[p] : p \in Ids}))
  /\ c.faceUp \subseteq d.faceUp /\ d.faceUp \ c.faceUp \subseteq Gone(c, d)

Keeps(c, d, players) == \A p \in players : c.hand[p] \subseteq d.hand[p]

LEMMA CardsFields ==
  ASSUME DeckSize \in Nat, NEW c \in CardsType
  PROVE  /\ c.left \in Nat /\ c.left <= DeckSize /\ c.hand \in [Ids -> SUBSET Card]
         /\ c.faceUp \subseteq Card /\ c.community \subseteq Card
         /\ \A p \in Ids : c.hand[p] \subseteq Card
BY DEF CardsType

\* Who may be dealt to need not have been dealt to.
LEMMA DealsToMore ==
  ASSUME NEW c, NEW d, NEW players, NEW more, Deals(c, d, players), players \subseteq more
  PROVE  Deals(c, d, more)
BY DEF Deals

\* A deal leaves nobody with a card of the deck.
LEMMA DealsOffDeck ==
  ASSUME DeckSize \in Nat, NEW c, NEW d, NEW players, Deals(c, d, players), OffDeck(c)
  PROVE  OffDeck(d)
<1>1. c.left \in Nat /\ d.left \in Nat /\ d.left <= c.left
  BY CardsFields DEF Deals
<1>2. ASSUME NEW p \in Ids, NEW x \in d.hand[p], x \in 1..d.left
      PROVE  FALSE
  <2>1. x \in 1..c.left /\ x \notin Gone(c, d)
    BY <1>1, <1>2 DEF Gone
  <2>2. x \in c.hand[p]
    BY <1>2, <2>1 DEF Deals
  <2> QED
    BY <2>1, <2>2 DEF OffDeck
<1> QED
  BY <1>2 DEF OffDeck

\* Nothing at all is a deal.
LEMMA NoDeal ==
  ASSUME DeckSize \in Nat, NEW c \in CardsType, NEW players
  PROVE  Deals(c, c, players) /\ Keeps(c, c, Ids)
<1>1. Gone(c, c) = {}
  BY CardsFields DEF Gone
<1>2. c.community = c.community \cup (Gone(c, c) \ (UNION {c.hand[p] : p \in Ids}))
  BY <1>1
<1>3. c.left <= c.left
  BY CardsFields
<1> QED
  BY <1>2, <1>3 DEF Deals, Keeps

\* Two deals are one, if the second takes from nobody what the first dealt.
LEMMA DealsThen ==
  ASSUME DeckSize \in Nat, NEW c, NEW d, NEW e, NEW players,
         Deals(c, d, players), Deals(d, e, players),
         \A p \in Ids : d.hand[p] \cap Gone(c, d) \subseteq e.hand[p]
  PROVE  Deals(c, e, players)
<1> DEFINE first == Gone(c, d)
           then  == Gone(d, e)
<1>1. c.left \in Nat /\ d.left \in Nat /\ e.left \in Nat
  BY CardsFields DEF Deals
<1>2. d.left <= c.left /\ e.left <= d.left
  BY DEF Deals
<1>3. Gone(c, e) = first \cup then /\ first \cap then = {} /\ e.left <= c.left
  BY <1>1, <1>2 DEF Gone
<1> HIDE DEF first, then
<1>4. ASSUME NEW p \in Ids
      PROVE  /\ d.hand[p] \ c.hand[p] \subseteq first
             /\ e.hand[p] \ d.hand[p] \subseteq then
             /\ e.hand[p] \ c.hand[p] \subseteq first \cup then
  BY DEF Deals, first, then
<1>5. ASSUME NEW p \in Ids, NEW q \in Ids \ {p}
      PROVE  (e.hand[p] \ c.hand[p]) \cap (e.hand[q] \ c.hand[q]) = {}
  <2>1. /\ (d.hand[p] \ c.hand[p]) \cap (d.hand[q] \ c.hand[q]) = {}
        /\ (e.hand[p] \ d.hand[p]) \cap (e.hand[q] \ d.hand[q]) = {}
    BY DEF Deals
  <2> QED
    BY <1>3, <1>4, <2>1
<1>6. ASSUME NEW p \in Ids, p \notin players
      PROVE  e.hand[p] \subseteq c.hand[p]
  BY <1>6 DEF Deals
<1>7. e.community = c.community \cup (Gone(c, e) \ (UNION {e.hand[p] : p \in Ids}))
  <2> DEFINE D == UNION {d.hand[p] : p \in Ids}
             E == UNION {e.hand[p] : p \in Ids}
  <2>1. /\ d.community = c.community \cup (first \ D)
        /\ e.community = d.community \cup (then \ E)
    BY DEF Deals, first, then
  <2>2. ASSUME NEW x \in first PROVE x \in D <=> x \in E
    <3>1. \A p \in Ids : x \in d.hand[p] => x \in e.hand[p]
      BY <2>2 DEF first
    <3>2. \A p \in Ids : x \in e.hand[p] => x \in d.hand[p]
      BY <1>3, <1>4, <2>2
    <3> QED
      BY <3>1, <3>2
  <2> HIDE DEF D, E
  <2>3. e.community = c.community \cup (Gone(c, e) \ E)
    BY <1>3, <2>1, <2>2
  <2> QED
    BY <2>3 DEF E
<1>8. c.faceUp \subseteq e.faceUp /\ e.faceUp \ c.faceUp \subseteq Gone(c, e)
  BY <1>3 DEF Deals, first, then
<1>9. c \in CardsType /\ e \in CardsType
  BY DEF Deals
<1> QED
  BY <1>3, <1>4, <1>5, <1>6, <1>7, <1>8, <1>9 DEF Deals

LEMMA HandsOfFields ==
  ASSUME DeckSize \in Nat, NEW c \in CardsType, NEW players
  PROVE  LET h == HandsOf(c, players)
         IN /\ h \in CardsType /\ h.left = c.left /\ h.faceUp = c.faceUp
            /\ h.community = c.community
            /\ h.hand = [p \in Ids |-> IF p \in players THEN c.hand[p] ELSE {}]
            /\ h = [c EXCEPT !.hand = h.hand]
BY DEF HandsOf, CardsType

\* Players who were not dealt to drop their hands: still the same deal.
LEMMA DealsHandsOf ==
  ASSUME DeckSize \in Nat, NEW c, NEW d, NEW players, NEW stay,
         Deals(c, d, players), OffDeck(c), players \subseteq stay
  PROVE  Deals(c, HandsOf(d, stay), players)
<1> DEFINE h == HandsOf(d, stay)
<1>1. /\ h \in CardsType /\ h.left = d.left /\ h.faceUp = d.faceUp
      /\ h.community = d.community
      /\ \A p \in Ids : h.hand[p] = IF p \in stay THEN d.hand[p] ELSE {}
  <2>1. d \in CardsType
    BY DEF Deals
  <2>2. /\ h \in CardsType /\ h.left = d.left /\ h.faceUp = d.faceUp
        /\ h.community = d.community
        /\ h.hand = [p \in Ids |-> IF p \in stay THEN d.hand[p] ELSE {}]
    BY <2>1, HandsOfFields, Zenon
  <2> HIDE DEF h
  <2> QED
    BY <2>2
<1> HIDE DEF h
<1>2. Gone(c, h) = Gone(c, d)
  BY <1>1 DEF Gone
<1>3. c.left \in Nat /\ d.left \in Nat
  BY CardsFields DEF Deals
<1>4. ASSUME NEW p \in Ids, p \notin stay
      PROVE  d.hand[p] \cap Gone(c, d) = {}
  <2>1. d.hand[p] \subseteq c.hand[p]
    BY <1>4 DEF Deals
  <2>2. Gone(c, d) \subseteq 1..c.left
    BY <1>3 DEF Gone
  <2> QED
    BY <2>1, <2>2 DEF OffDeck
<1>5. \A p \in Ids :
        /\ h.hand[p] \ c.hand[p] \subseteq Gone(c, h)
        /\ p \notin players => h.hand[p] \subseteq c.hand[p]
        /\ \A q \in Ids \ {p} : (h.hand[p] \ c.hand[p]) \cap (h.hand[q] \ c.hand[q]) = {}
  BY <1>1, <1>2 DEF Deals
<1>6. h.community = c.community \cup (Gone(c, h) \ (UNION {h.hand[p] : p \in Ids}))
  <2> DEFINE D == UNION {d.hand[p] : p \in Ids}
             H == UNION {h.hand[p] : p \in Ids}
  <2>1. d.community = c.community \cup (Gone(c, d) \ D)
    BY DEF Deals
  <2>2. \A x \in Gone(c, d) : x \in D <=> x \in H
    BY <1>1, <1>4
  <2> HIDE DEF D, H
  <2>3. h.community = c.community \cup (Gone(c, h) \ H)
    BY <1>1, <1>2, <2>1, <2>2
  <2> QED
    BY <2>3 DEF H
<1>7. h.left <= c.left /\ c.faceUp \subseteq h.faceUp /\ h.faceUp \ c.faceUp \subseteq Gone(c, h)
  BY <1>1, <1>2 DEF Deals
<1>8. Deals(c, h, players)
  BY <1>1, <1>5, <1>6, <1>7 DEF Deals
<1> QED
  BY <1>8 DEF h

-----------------------------------------------------------------------------
(* One round of dealing.                                                    *)

\* Shares of e cards, one after the other, do not overlap...
LEMMA SharesFollow ==
  ASSUME NEW e \in 0..5, NEW k \in Nat, NEW l \in Nat, k < l
  PROVE  k * e + e <= l * e
<1>1. CASE e = 0 BY <1>1
<1>2. CASE e = 1 BY <1>2
<1>3. CASE e = 2 BY <1>3
<1>4. CASE e = 3 BY <1>4
<1>5. CASE e = 4 BY <1>5
<1>6. CASE e = 5 BY <1>6
<1>7. e \in {0, 1, 2, 3, 4, 5}
  OBVIOUS
<1> QED
  BY <1>1, <1>2, <1>3, <1>4, <1>5, <1>6, <1>7

\* ... and leave no gap.
LEMMA ShareOf ==
  ASSUME NEW e \in 1..5, NEW i \in Nat
  PROVE  \E k \in Nat : k * e <= i /\ i <= k * e + e - 1
<1>1. e \in {1, 2, 3, 4, 5}
  OBVIOUS
<1>2. \E k \in Nat : k * 1 <= i /\ i <= k * 1 + 1 - 1
  OBVIOUS
<1>3. \E k \in Nat : k * 2 <= i /\ i <= k * 2 + 2 - 1
  <2>1. i \div 2 \in Nat /\ (i \div 2) * 2 <= i /\ i <= (i \div 2) * 2 + 1
    OBVIOUS
  <2> QED BY <2>1
<1>4. \E k \in Nat : k * 3 <= i /\ i <= k * 3 + 3 - 1
  <2>1. i \div 3 \in Nat /\ (i \div 3) * 3 <= i /\ i <= (i \div 3) * 3 + 2
    OBVIOUS
  <2> QED BY <2>1
<1>5. \E k \in Nat : k * 4 <= i /\ i <= k * 4 + 4 - 1
  <2>1. i \div 4 \in Nat /\ (i \div 4) * 4 <= i /\ i <= (i \div 4) * 4 + 3
    OBVIOUS
  <2> QED BY <2>1
<1>6. \E k \in Nat : k * 5 <= i /\ i <= k * 5 + 5 - 1
  <2>1. i \div 5 \in Nat /\ (i \div 5) * 5 <= i /\ i <= (i \div 5) * 5 + 4
    OBVIOUS
  <2> QED BY <2>1
<1> QED
  BY <1>1, <1>2, <1>3, <1>4, <1>5, <1>6

\* What the round deals to a player, from the place along the ring.
Share(n, t, e, p) == Off(n, Place(t, t.turn)[p] * e, e)

LEMMA Shares ==
  ASSUME NEW t, Sound(t), IsRunning(t), NEW n \in Nat, NEW e \in 0..5
  PROVE  LET number == e * Cardinality(Ring(t))
         IN /\ number \in Nat
            /\ \A p, q \in Ring(t) : p # q => Share(n, t, e, p) \cap Share(n, t, e, q) = {}
            /\ UNION {Share(n, t, e, p) : p \in Ring(t)} = (Max({0, n - number}) + 1)..n
<1> DEFINE N == Cardinality(Ring(t))
           place == Place(t, t.turn)
<1>1. /\ N \in Nat /\ place \in [Ring(t) -> 0..(N - 1)]
      /\ \A q, r \in Ring(t) : place[q] = place[r] => q = r
      /\ \A k \in 0..(N - 1) : \E q \in Ring(t) : place[q] = k
  <2>1. t.turn \in Ring(t)
    BY RingSeated
  <2> QED
    BY <2>1, Places, Zenon
<1> HIDE DEF N, place
<1>2. \A k \in Nat : k * e \in Nat /\ e * k = k * e
  <2>1. e \in Nat
    OBVIOUS
  <2> QED
    BY <2>1
<1>3. \A p \in Ring(t) : place[p] \in Nat /\ place[p] < N
  BY <1>1
<1>4. \A p \in Ring(t) : \A x : x \in Share(n, t, e, p) <=>
        x \in 1..n /\ place[p] * e <= n - x /\ n - x <= place[p] * e + e - 1
  <2>1. \A p \in Ring(t) : place[p] * e \in Nat
    BY <1>2, <1>3
  <2> QED
    BY <2>1 DEF Share, Off, place
<1>5. ASSUME NEW p \in Ring(t), NEW q \in Ring(t), place[p] < place[q]
      PROVE  Share(n, t, e, p) \cap Share(n, t, e, q) = {}
  <2>1. place[p] * e + e <= place[q] * e /\ place[p] * e \in Nat /\ place[q] * e \in Nat
    BY <1>2, <1>3, <1>5, SharesFollow
  <2> QED
    BY <1>4, <2>1
<1>6. ASSUME NEW p \in Ring(t), NEW q \in Ring(t), p # q
      PROVE  Share(n, t, e, p) \cap Share(n, t, e, q) = {}
  <2>1. place[p] < place[q] \/ place[q] < place[p]
    BY <1>1, <1>3, <1>6
  <2> QED
    BY <1>5, <2>1
<1>7. Max({0, n - N * e}) = IF n >= N * e THEN n - N * e ELSE 0
  <2>1. N * e \in Nat
    BY <1>1, <1>2
  <2>2. Max({0, n - N * e}) = IF 0 >= n - N * e THEN 0 ELSE n - N * e
    BY <2>1, MaxOfTwo
  <2> QED
    BY <2>1, <2>2
<1>8. ASSUME NEW p \in Ring(t), NEW x \in Share(n, t, e, p)
      PROVE  x \in (Max({0, n - N * e}) + 1)..n
  <2>1. place[p] * e + e <= N * e /\ place[p] * e \in Nat /\ N * e \in Nat
    BY <1>1, <1>2, <1>3, SharesFollow
  <2> QED
    BY <1>4, <1>7, <1>8, <2>1
<1>9. ASSUME NEW x \in (Max({0, n - N * e}) + 1)..n
      PROVE  \E p \in Ring(t) : x \in Share(n, t, e, p)
  <2>1. N * e \in Nat
    BY <1>1, <1>2
  <2>2. x \in 1..n /\ n - x \in Nat /\ n - x < N * e
    BY <1>7, <1>9, <2>1
  <2>3. e \in 1..5
    <3>1. CASE e = 0
      BY <1>1, <2>2, <3>1
    <3> QED
      BY <3>1
  <2>4. PICK k \in Nat : k * e <= n - x /\ n - x <= k * e + e - 1
    BY <2>2, <2>3, ShareOf
  <2>5. k < N
    <3>1. N < k => N * e + e <= k * e
      BY <1>1, SharesFollow
    <3>2. N * e \in Nat /\ k * e \in Nat
      BY <1>1, <1>2
    <3>3. CASE N = k
      BY <2>2, <2>4, <3>2, <3>3
    <3>4. CASE N < k
      BY <2>2, <2>3, <2>4, <3>1, <3>2, <3>4
    <3> QED
      BY <1>1, <3>3, <3>4
  <2>6. PICK q \in Ring(t) : place[q] = k
    BY <1>1, <2>5
  <2> QED
    BY <1>4, <2>2, <2>4, <2>6
<1>10. e * N = N * e /\ N * e \in Nat
  BY <1>1, <1>2
<1>11. UNION {Share(n, t, e, p) : p \in Ring(t)} = (Max({0, n - N * e}) + 1)..n
  BY <1>8, <1>9
<1> QED
  BY <1>6, <1>10, <1>11 DEF N

LEMMA EachRound ==
  ASSUME NEW round
  PROVE  /\ Down(round) \in 0..5 /\ Up(round) \in 0..1 /\ Board(round) \in 0..3
         /\ Down(round) + Up(round) \in 0..5
         /\ Board(round) # 0 => Down(round) = 0 /\ Up(round) = 0
<1>1. CASE Game = "FiveCardDraw"
  BY <1>1 DEF Down, Up, Board, FiveCardDrawDown
<1>2. CASE Game = "TexasHoldem"
  <2>1. Up(round) = 0 /\ Down(round) = IF round = 0 THEN 2 ELSE 0
    BY <1>2 DEF Down, Up, TexasHoldemDown
  <2>2. Board(round) \in {0, 1, 3} /\ (round = 0 => Board(round) = 0)
    BY <1>2 DEF Board
  <2> QED
    BY <2>1, <2>2
<1>3. CASE Game = "SevenCardStud"
  <2>1. Board(round) = 0 /\ Down(round) = SevenCardStudDown(round)
    BY <1>3 DEF Board, Down
  <2>2. /\ SevenCardStudDown(round) \in {0, 1, 2} /\ Up(round) \in {0, 1}
    BY <1>3 DEF Up, SevenCardStudDown
  <2> QED
    BY <2>1, <2>2
<1> QED
  BY <1>1, <1>2, <1>3, GameAssumption

\* What goes off the top of the deck to one place.
LEMMA OffTop ==
  ASSUME NEW n \in Nat, NEW k \in Nat
  PROVE  /\ Max({0, n - k}) \in Nat /\ Max({0, n - k}) <= n
         /\ Off(n, 0, k) = (Max({0, n - k}) + 1)..n
<1>1. Max({0, n - k}) = IF 0 >= n - k THEN 0 ELSE n - k
  BY MaxOfTwo
<1> DEFINE m == Max({0, n - k})
<1>2. m = IF 0 >= n - k THEN 0 ELSE n - k
  BY <1>1
<1> HIDE DEF m
<1>3. m \in Nat /\ m <= n
  BY <1>2
<1>4. ASSUME NEW x \in Int
      PROVE  x \in 1..n /\ n - x \in 0..(0 + k - 1) <=> x \in (m + 1)..n
  BY <1>2
<1>5. Off(n, 0, k) = (m + 1)..n
  <2>1. \A x \in 1..n : x \in Int
    OBVIOUS
  <2>2. \A x \in (m + 1)..n : x \in Int
    BY <1>3
  <2> QED
    BY <1>4, <2>1, <2>2 DEF Off
<1> QED
  BY <1>3, <1>5 DEF m

\* What a round deals to a player of the ring, to the board, and in all.
Got(c, t, round, p) == Share(c.left, t, Down(round) + Up(round), p)

GotBoard(c, round) == Off(c.left, 0, Board(round))

Number(t, round) == (Down(round) + Up(round)) * Cardinality(Ring(t)) + Board(round)

LEMMA DealRoundFields ==
  ASSUME DeckSize \in Nat, NEW c \in CardsType, NEW t, Sound(t), IsRunning(t), NEW round,
         NEW d, d = DealRound(c, t, round)
  PROVE  /\ d.left = Max({0, c.left - Number(t, round)})
         /\ d.hand = [p \in Ids |-> IF p \in Ring(t) THEN c.hand[p] \cup Got(c, t, round, p)
                                    ELSE c.hand[p]]
         /\ d.community = c.community \cup GotBoard(c, round)
         /\ c.faceUp \subseteq d.faceUp
         /\ d.faceUp \subseteq c.faceUp \cup GotBoard(c, round)
                              \cup (UNION {Got(c, t, round, p) : p \in Ring(t)})
         /\ d = [left |-> d.left, hand |-> d.hand, faceUp |-> d.faceUp,
                 community |-> d.community]
<1> DEFINE e     == Down(round) + Up(round)
           board == Off(c.left, 0, Board(round))
           got(p) == Share(c.left, t, e, p)
           place(p) == IF p = t.turn THEN 0 ELSE Distance(t, t.turn, p)
           first == [p \in Ring(t) |-> place(p) * e]
           down(p) == Off(c.left, first[p], Down(round))
           up(p) == Off(c.left, first[p] + Down(round), Up(round))
<1>1. /\ d.left = Max({0, c.left - (e * Cardinality(Ring(t)) + Board(round))})
      /\ d.hand = [p \in Ids |-> IF p \in Ring(t) THEN c.hand[p] \cup down(p) \cup up(p)
                                 ELSE c.hand[p]]
      /\ d.community = c.community \cup board
      /\ d.faceUp = c.faceUp \cup board \cup (UNION {up(p) : p \in Ring(t)})
      /\ d = [left |-> d.left, hand |-> d.hand, faceUp |-> d.faceUp,
              community |-> d.community]
  BY DEF DealRound
<1>2. ASSUME NEW p \in Ring(t)
      PROVE  down(p) \cup up(p) = got(p)
  <2>1. Place(t, t.turn)[p] \in Nat /\ place(p) = Place(t, t.turn)[p]
    <3>1. t.turn \in Ring(t)
      BY RingSeated
    <3>2. /\ Cardinality(Ring(t)) \in Nat
          /\ Place(t, t.turn) \in [Ring(t) -> 0..(Cardinality(Ring(t)) - 1)]
      BY <3>1, Places, Zenon
    <3> QED
      BY <3>2 DEF Place
  <2>2. e \in Nat /\ Down(round) \in Nat /\ Up(round) \in Nat
    BY EachRound
  <2>3. first[p] = Place(t, t.turn)[p] * e /\ first[p] \in Nat
    BY <2>1, <2>2
  <2>4. c.left \in Nat
    BY CardsFields
  <2> HIDE DEF first
  <2>5. Off(c.left, first[p], Down(round)) \cup Off(c.left, first[p] + Down(round), Up(round))
          = Off(c.left, first[p], Down(round) + Up(round))
    BY <2>2, <2>3, <2>4 DEF Off
  <2> QED
    BY <2>3, <2>5 DEF Share
<1> HIDE DEF first, down, up, got, board
<1>3. d.hand = [p \in Ids |-> IF p \in Ring(t) THEN c.hand[p] \cup got(p) ELSE c.hand[p]]
  <2>1. \A p \in Ring(t) : c.hand[p] \cup down(p) \cup up(p) = c.hand[p] \cup got(p)
    BY <1>2
  <2> QED
    BY <1>1, <2>1
<1>4. \A p \in Ring(t) : up(p) \subseteq got(p)
  BY <1>2
<1>5. c.faceUp \subseteq d.faceUp
      /\ d.faceUp \subseteq c.faceUp \cup board \cup (UNION {got(p) : p \in Ring(t)})
  BY <1>1, <1>4
<1> QED
  BY <1>1, <1>3, <1>5 DEF got, board, Got, GotBoard, Number

\* handle_round_action deals each card that leaves the deck to one player of
\* the ring or to the board, from a deck that may run out.
LEMMA DealRoundDeals ==
  ASSUME DeckSize \in Nat, NEW c \in CardsType, OffDeck(c),
         NEW t, Sound(t), IsRunning(t), NEW round,
         NEW d, d = DealRound(c, t, round)
  PROVE  d \in CardsType /\ Deals(c, d, Ring(t)) /\ Keeps(c, d, Ids)
<1> DEFINE n     == c.left
           e     == Down(round) + Up(round)
           b     == Board(round)
           board == GotBoard(c, round)
           got(p) == Got(c, t, round, p)
           number == Number(t, round)
           gone  == (Max({0, n - number}) + 1)..n
<1>1. /\ n \in Nat /\ n <= DeckSize /\ c.hand \in [Ids -> SUBSET Card]
      /\ c.faceUp \subseteq Card /\ c.community \subseteq Card
  BY CardsFields
<1>2. e \in 0..5 /\ b \in Nat /\ (b # 0 => e = 0)
  BY EachRound
<1>3. /\ d.left = Max({0, n - number})
      /\ d.hand = [p \in Ids |-> IF p \in Ring(t) THEN c.hand[p] \cup got(p) ELSE c.hand[p]]
      /\ d.community = c.community \cup board
      /\ c.faceUp \subseteq d.faceUp
      /\ d.faceUp \subseteq c.faceUp \cup board \cup (UNION {got(p) : p \in Ring(t)})
      /\ d = [left |-> d.left, hand |-> d.hand, faceUp |-> d.faceUp,
              community |-> d.community]
  BY DealRoundFields
<1>4. LET all == e * Cardinality(Ring(t))
      IN /\ all \in Nat
         /\ \A p, q \in Ring(t) : p # q => got(p) \cap got(q) = {}
         /\ UNION {got(p) : p \in Ring(t)} = (Max({0, n - all}) + 1)..n
  BY <1>1, <1>2, Shares DEF Got
<1>17. board = Off(n, 0, b) /\ number = e * Cardinality(Ring(t)) + b
  BY DEF GotBoard, Number
<1> HIDE DEF got, e, board, number
<1>5. Cardinality(Ring(t)) \in Nat
  BY IdsAssumption, FS_Subset, FS_CardinalityType DEF Ring
<1>6. /\ number \in Nat
      /\ \A p \in Ring(t) : got(p) \subseteq gone
      /\ board \subseteq gone /\ gone = board \cup (UNION {got(p) : p \in Ring(t)})
      /\ b # 0 => \A p \in Ring(t) : got(p) = {}
  <2>1. CASE b = 0
    <3>1. number = e * Cardinality(Ring(t))
      BY <1>4, <1>17, <2>1
    <3>2. board = {}
      BY <1>1, <1>17, <2>1 DEF Off
    <3>3. gone = UNION {got(p) : p \in Ring(t)}
      BY <1>4, <3>1
    <3> HIDE DEF gone
    <3>4. \A p \in Ring(t) : got(p) \subseteq gone
      BY <3>3
    <3> QED
      BY <1>4, <2>1, <3>1, <3>2, <3>3, <3>4
  <2>2. CASE b # 0
    <3>1. e = 0 /\ e * Cardinality(Ring(t)) = 0 /\ number = b
      BY <1>2, <1>5, <1>17, <2>2
    <3>2. board = gone
      BY <1>1, <1>2, <1>17, <3>1, OffTop
    <3>3. UNION {got(p) : p \in Ring(t)} = (Max({0, n - 0}) + 1)..n
      BY <1>4, <3>1
    <3>4. (Max({0, n - 0}) + 1)..n = {}
      <4>1. Max({0, n - 0}) = IF 0 >= n - 0 THEN 0 ELSE n - 0
        BY <1>1, MaxOfTwo
      <4> QED
        BY <1>1, <4>1
    <3>5. \A p \in Ring(t) : got(p) = {}
      BY <3>3, <3>4
    <3> HIDE DEF gone
    <3> QED
      BY <1>2, <3>1, <3>2, <3>5
  <2> QED
    BY <2>1, <2>2
<1>7. /\ d.left \in Nat /\ d.left <= n
      /\ gone = Gone(c, d) /\ gone \subseteq 1..n /\ gone \subseteq Card
  <2>1. Max({0, n - number}) = IF 0 >= n - number THEN 0 ELSE n - number
    BY <1>1, <1>6, MaxOfTwo
  <2>2. d.left \in Nat /\ d.left <= n
    BY <1>1, <1>3, <1>6, <2>1
  <2>3. gone = Gone(c, d)
    BY <1>3 DEF Gone
  <2>4. gone \subseteq 1..n
    BY <1>1, <1>6, <2>1
  <2>5. 1..n \subseteq Card
    BY <1>1 DEF Card
  <2> HIDE DEF gone
  <2> QED
    BY <2>2, <2>3, <2>4, <2>5
<1> HIDE DEF n, gone, b
<1>8. \A p \in Ids : d.hand[p] = IF p \in Ring(t) THEN c.hand[p] \cup got(p) ELSE c.hand[p]
  BY <1>3
<1>9. Ring(t) \subseteq Ids
  BY DEF Ring
<1>10. d \in CardsType
  <2>1. d.hand \in [Ids -> SUBSET Card]
    <3>1. \A p \in Ids : d.hand[p] \subseteq Card
      BY <1>1, <1>6, <1>7, <1>8
    <3> QED
      BY <1>3, <3>1
  <2>2. d.left \in 0..DeckSize
    BY <1>1, <1>7
  <2>3. d.faceUp \subseteq Card
    BY <1>1, <1>3, <1>6, <1>7
  <2>4. d.community \subseteq Card
    BY <1>1, <1>3, <1>6, <1>7
  <2> QED
    BY <1>3, <2>1, <2>2, <2>3, <2>4 DEF CardsType
<1>11. ASSUME NEW p \in Ids
       PROVE  /\ d.hand[p] \ c.hand[p] \subseteq gone
              /\ p \notin Ring(t) => d.hand[p] \subseteq c.hand[p]
              /\ \A q \in Ids \ {p} :
                   (d.hand[p] \ c.hand[p]) \cap (d.hand[q] \ c.hand[q]) = {}
  <2>1. \A q \in Ids : d.hand[q] \ c.hand[q] \subseteq IF q \in Ring(t) THEN got(q) ELSE {}
    BY <1>8
  <2>2. /\ d.hand[p] \ c.hand[p] \subseteq gone
        /\ p \notin Ring(t) => d.hand[p] \subseteq c.hand[p]
    BY <1>6, <1>8
  <2>3. ASSUME NEW q \in Ids \ {p}
        PROVE  (d.hand[p] \ c.hand[p]) \cap (d.hand[q] \ c.hand[q]) = {}
    <3>1. CASE p \in Ring(t) /\ q \in Ring(t)
      BY <1>4, <2>1, <3>1
    <3>2. CASE p \notin Ring(t) \/ q \notin Ring(t)
      BY <2>1, <3>2
    <3> QED
      BY <3>1, <3>2
  <2> QED
    BY <2>2, <2>3
<1>12. d.community = c.community \cup (gone \ (UNION {d.hand[p] : p \in Ids}))
  <2> DEFINE D == UNION {d.hand[p] : p \in Ids}
  <2>1. ASSUME NEW x \in gone PROVE x \in D <=> x \notin board
    <3>1. \A p \in Ids : x \notin c.hand[p]
      BY <1>7, <2>1 DEF OffDeck, n
    <3>2. x \in D <=> \E p \in Ring(t) : x \in got(p)
      BY <1>8, <1>9, <3>1
    <3>3. CASE b = 0
      <4>1. board = {}
        BY <1>1, <1>17, <3>3 DEF Off, n
      <4> QED
        BY <1>6, <2>1, <3>2, <4>1
    <3>4. CASE b # 0
      BY <1>6, <2>1, <3>2, <3>4
    <3> QED
      BY <3>3, <3>4
  <2> HIDE DEF D
  <2>2. board = gone \ D
    BY <1>6, <2>1
  <2> QED
    BY <1>3, <2>2 DEF D
<1>13. c.faceUp \subseteq d.faceUp /\ d.faceUp \ c.faceUp \subseteq gone
  BY <1>3, <1>6
<1>14. Keeps(c, d, Ids)
  BY <1>8 DEF Keeps
<1>15. d.left <= c.left
  BY <1>7 DEF n
<1>16. Deals(c, d, Ring(t))
  BY <1>7, <1>10, <1>11, <1>12, <1>13, <1>15 DEF Deals
<1> QED
  BY <1>10, <1>14, <1>16

\* The recursion that DealRounds is defined by.
Dealing(c, t, first, last) ==
  CHOOSE dealt : dealt = [round \in (first - 1)..last |->
    IF round < first THEN c ELSE DealRound(dealt[round - 1], t, round)]

LEMMA DealingSteps ==
  ASSUME NEW c, NEW t, NEW first \in Nat \ {0}, NEW last \in Nat, first - 1 <= last
  PROVE  LET dealt == Dealing(c, t, first, last)
         IN /\ DealRounds(c, t, first, last) = dealt[last]
            /\ dealt[first - 1] = c
            /\ \A k \in first..last : dealt[k] = DealRound(dealt[k - 1], t, k)
<1> DEFINE r == first - 1
           Step(v, k) == IF k < first THEN c ELSE DealRound(v[k - 1], t, k)
           IsDealing(v, m) == v = [k \in r..m |-> Step(v, k)]
           Bad == {m \in Nat : m >= r /\ \A v : ~IsDealing(v, m)}
           dealt == Dealing(c, t, first, last)
<1>1. Bad = {}
  <2> SUFFICES ASSUME Bad # {} PROVE FALSE
    OBVIOUS
  <2>1. PICK m \in Bad : \A k \in Bad : m <= k
    BY Least, Bad \subseteq Nat, Zenon
  <2>2. m \in Nat /\ m >= r
    BY <2>1
  <2>3. CASE m = r
    <3> DEFINE v == [k \in r..m |-> c]
    <3>1. \A k \in r..m : Step(v, k) = c
      BY <2>2, <2>3
    <3>2. IsDealing(v, m)
      BY <3>1
    <3> QED
      BY <2>1, <3>2
  <2>4. CASE m # r
    <3>1. m - 1 \in Nat /\ m - 1 >= r /\ m - 1 < m
      BY <2>2, <2>4
    <3>2. m - 1 \notin Bad
      <4> HIDE DEF Bad
      <4> QED
        BY <2>1, <2>2, <3>1
    <3>3. PICK v : IsDealing(v, m - 1)
      BY <3>1, <3>2
    <3> DEFINE u == [k \in r..m |-> IF k = m THEN DealRound(v[m - 1], t, m) ELSE v[k]]
    <3>4. ASSUME NEW k \in r..m
          PROVE  u[k] = Step(u, k)
      <4>1. CASE k = m
        <5>1. ~(m < first) /\ m - 1 \in r..m /\ m - 1 # m
          BY <2>2, <2>4, <3>1
        <5> QED
          BY <4>1, <5>1
      <4>2. CASE k # m
        <5>1. k \in r..(m - 1) /\ (~(k < first) => k - 1 \in r..m /\ k - 1 # m)
          BY <2>2, <4>2
        <5>2. v[k] = Step(v, k)
          BY <3>3, <5>1
        <5>3. u[k] = v[k] /\ (~(k < first) => u[k - 1] = v[k - 1])
          BY <4>2, <5>1
        <5> HIDE DEF u
        <5> QED
          BY <5>2, <5>3
      <4> QED
        BY <4>1, <4>2
    <3>5. IsDealing(u, m)
      BY <3>4
    <3> HIDE DEF u
    <3> QED
      BY <2>1, <3>5
  <2> QED
    BY <2>3, <2>4
<1>2. PICK v : IsDealing(v, last)
  BY <1>1
<1>3. dealt = [k \in r..last |-> Step(dealt, k)]
  BY <1>2 DEF Dealing
<1>4. DealRounds(c, t, first, last) = dealt[last]
  BY DEF DealRounds, Dealing
<1> HIDE DEF dealt
<1>5. dealt[r] = c
  <2>1. r \in r..last /\ r < first
    OBVIOUS
  <2> QED
    BY <1>3, <2>1
<1>6. \A k \in first..last : dealt[k] = DealRound(dealt[k - 1], t, k)
  <2>1. \A k \in first..last : k \in r..last /\ ~(k < first)
    OBVIOUS
  <2> QED
    BY <1>3, <2>1
<1> QED
  BY <1>4, <1>5, <1>6 DEF dealt

\* finish_remaining_rounds deals all that is still to come.
LEMMA DealRoundsDeals ==
  ASSUME DeckSize \in Nat, NEW c \in CardsType, OffDeck(c), NEW t, Sound(t), IsRunning(t),
         NEW first \in Nat \ {0}, NEW last \in Nat, first - 1 <= last,
         NEW d, d = DealRounds(c, t, first, last)
  PROVE  /\ d \in CardsType /\ Deals(c, d, Ring(t)) /\ Keeps(c, d, Ids)
         /\ last = first - 1 => d = c
<1> DEFINE r == first - 1
           dealt == Dealing(c, t, first, last)
           Good(e) == e \in CardsType /\ Deals(c, e, Ring(t)) /\ Keeps(c, e, Ids)
           Off1 == {k \in r..last : ~Good(dealt[k])}
<1>1. /\ d = dealt[last] /\ dealt[r] = c
      /\ \A k \in first..last : dealt[k] = DealRound(dealt[k - 1], t, k)
  BY DealingSteps
<1> HIDE DEF dealt
<1>2. Good(c)
  BY NoDeal
<1>3. ASSUME NEW e, Good(e), NEW k
      PROVE  Good(DealRound(e, t, k))
  <2> DEFINE f == DealRound(e, t, k)
  <2>1. OffDeck(e)
    BY <1>3, DealsOffDeck
  <2>2. f \in CardsType /\ Deals(e, f, Ring(t)) /\ Keeps(e, f, Ids)
    BY <1>3, <2>1, DealRoundDeals
  <2> HIDE DEF f
  <2>3. Keeps(c, f, Ids)
    BY <1>3, <2>2 DEF Keeps
  <2>4. Deals(c, f, Ring(t))
    <3>1. \A p \in Ids : e.hand[p] \cap Gone(c, e) \subseteq f.hand[p]
      BY <2>2 DEF Keeps
    <3> QED
      BY <1>3, <2>2, <3>1, DealsThen
  <2> QED
    BY <2>2, <2>3, <2>4 DEF f
<1> HIDE DEF Good
<1>4. Off1 = {}
  <2> SUFFICES ASSUME Off1 # {} PROVE FALSE
    OBVIOUS
  <2>1. Off1 \subseteq Nat
    OBVIOUS
  <2>2. PICK k \in Off1 : \A j \in Off1 : k <= j
    BY <2>1, Least, Zenon
  <2>3. k \in r..last /\ k # r
    BY <1>1, <1>2, <2>2
  <2>4. k \in first..last /\ k - 1 \in r..last
    BY <2>3
  <2>5. k - 1 \notin Off1
    <3>1. k \in Nat
      BY <2>3
    <3> HIDE DEF Off1
    <3> QED
      BY <2>2, <3>1
  <2>6. Good(dealt[k - 1])
    BY <2>4, <2>5
  <2>7. Good(dealt[k])
    BY <1>1, <1>3, <2>4, <2>6
  <2> QED
    BY <2>2, <2>7
<1>5. last \in r..last
  OBVIOUS
<1>6. Good(d)
  BY <1>1, <1>4, <1>5
<1>7. last = r => d = c
  BY <1>1
<1> QED
  BY <1>6, <1>7 DEF Good

-----------------------------------------------------------------------------
(* One call, with the cards.  A state is a table, its cards and the hands   *)
(* of its showdown.                                                         *)

StateOK(s) ==
  /\ Sound(s.table)
  /\ s.cards \in CardsType /\ OffDeck(s.cards) /\ s.shown \in [Ids -> SUBSET Card]
  /\ IsRunning(s.table) => s.shown = NoCards
  /\ ~IsRunning(s.table) => s.cards.hand = NoCards

\* Start, Play, End and Rest of Cards, from s to u, but for what is seen.
Starts(s, u) ==
  /\ ~IsRunning(s.table) /\ IsRunning(u.table) /\ Cardinality(Ring(u.table)) >= 2
  /\ Deals(NewDeck, u.cards, Ring(u.table)) /\ u.shown = NoCards

Plays(s, u) ==
  /\ IsRunning(s.table) /\ IsRunning(u.table)
  /\ Ring(u.table) \subseteq Ring(s.table) /\ Ring(u.table) # {}
  /\ Deals(s.cards, u.cards, Ring(u.table)) /\ u.shown = s.shown

Ends(s, u) ==
  /\ IsRunning(s.table) /\ ~IsRunning(u.table)
  /\ Deals(s.cards, [u.cards EXCEPT !.hand = u.shown], Ring(s.table))
  /\ u.cards.hand = NoCards

Rests(s, u) ==
  /\ ~IsRunning(s.table) /\ ~IsRunning(u.table)
  /\ u.cards = s.cards /\ u.shown \in {s.shown, NoCards}

Moves(s, u) == Starts(s, u) \/ Plays(s, u) \/ Ends(s, u) \/ Rests(s, u)

LEMMA NoCardsType == NoCards \in [Ids -> SUBSET Card] /\ \A p \in Ids : NoCards[p] = {}
BY DEF NoCards

LEMMA NoHandsOffDeck ==
  ASSUME NEW c, c.hand = NoCards
  PROVE  OffDeck(c)
BY NoCardsType DEF OffDeck

\* The board and the hands a showdown shows are what a hand that is over was
\* dealt, and nobody keeps a card.
LEMMA ShownHands ==
  ASSUME DeckSize \in Nat, NEW d \in CardsType, NEW stay
  PROVE  LET none  == HandsOf(d, {})
             faces == HandsOf(d, stay).hand
         IN /\ none \in CardsType /\ none.hand = NoCards /\ none.left = d.left
            /\ faces \in [Ids -> SUBSET Card]
            /\ [none EXCEPT !.hand = faces] = HandsOf(d, stay)
BY DEF HandsOf, CardsType, NoCards

\* The rounds that are left are dealt to the ring, none if the round is over
\* without a next one.
LEMMA AllDealtDeals ==
  ASSUME DeckSize \in Nat, NEW s, StateOK(s), IsRunning(s.table),
         NEW u, u.round \in Nat, s.table.round <= u.round,
         NEW d, d = AllDealt(s, u)
  PROVE  /\ d \in CardsType /\ Deals(s.cards, d, Ring(s.table)) /\ Keeps(s.cards, d, Ids)
         /\ u.round = s.table.round => d = s.cards
<1> DEFINE t == s.table
           last == Min({u.round, EndRound - 1})
<1>1. t.round \in Nat /\ t.round < EndRound /\ EndRound \in Nat
  BY EndRoundType DEF StateOK, Sound, HandOpen, TableType
<1>2. last = IF u.round <= EndRound - 1 THEN u.round ELSE EndRound - 1
  <2> DEFINE m == IF u.round <= EndRound - 1 THEN u.round ELSE EndRound - 1
             S == {u.round, EndRound - 1}
  <2>1. m \in S /\ \A x \in S : m <= x
    BY <1>1
  <2>2. Min(S) \in S /\ \A x \in S : Min(S) <= x
    BY <2>1, Zenon DEF Min
  <2> QED
    BY <1>1, <2>1, <2>2
<1> HIDE DEF last
<1>3. last \in Nat /\ t.round + 1 \in Nat \ {0} /\ (t.round + 1) - 1 = t.round /\ t.round <= last
  BY <1>1, <1>2
<1>4. d = DealRounds(s.cards, t, t.round + 1, last)
  BY DEF AllDealt, last
<1>5. Sound(t) /\ s.cards \in CardsType /\ OffDeck(s.cards)
  BY DEF StateOK
<1>6. /\ d \in CardsType /\ Deals(s.cards, d, Ring(t)) /\ Keeps(s.cards, d, Ids)
      /\ last = t.round => d = s.cards
  BY <1>3, <1>4, <1>5, DealRoundsDeals
<1>7. u.round = t.round => last = t.round
  BY <1>1, <1>2
<1> QED
  BY <1>6, <1>7

\* A hand has two players at least.
LEMMA TwoOnTheRing ==
  ASSUME NEW t, Sound(t), IsRunning(t)
  PROVE  Cardinality(Ring(t)) >= 2
<1> DEFINE p == t.turn
           q == t.next[p]
<1>1. p \in Ring(t) /\ q \in Ring(t) /\ p # q
  BY DEF Sound, TurnOnRing, RingLinks
<1>2. IsFiniteSet(Ring(t)) /\ Cardinality(Ring(t)) \in Nat
  BY IdsAssumption, FS_Subset, FS_CardinalityType DEF Ring
<1> HIDE DEF p, q
<1>3. Cardinality({p}) = 1 /\ IsFiniteSet({p})
  BY FS_Singleton
<1>4. Cardinality({p} \cup {q}) = 2
  BY <1>1, <1>3, FS_AddElement
<1>5. Cardinality({p} \cup {q}) <= Cardinality(Ring(t))
  BY <1>1, <1>2, FS_Subset
<1> QED
  BY <1>2, <1>4, <1>5

\* Whatever a call does to the table, its cards move as in Cards.  contenders
\* are to be all on the ring if there is still something to deal.
LEMMA AfterMoves ==
  ASSUME DeckSize \in Nat, NEW s, StateOK(s), NEW u, Sound(u), NEW contenders,
         IsRunning(s.table) /\ IsRunning(u) => Ring(u) \subseteq Ring(s.table),
         Ended(s.table, u) => /\ s.table.round <= u.round
                              /\ \/ u.round = s.table.round
                                 \/ Ring(s.table) \subseteq contenders,
         NEW a, a = After(s, u, contenders)
  PROVE  /\ a.table = u /\ StateOK(a) /\ Moves(s, a)
         /\ IsRunning(s.table) /\ IsRunning(u) => Keeps(s.cards, a.cards, u.players)
         /\ Ended(s.table, u) => \A p \in contenders \cap Ids : s.cards.hand[p] \subseteq a.shown[p]
<1> DEFINE t == s.table
           c == s.cards
<1>1. /\ Sound(t) /\ c \in CardsType /\ OffDeck(c) /\ s.shown \in [Ids -> SUBSET Card]
      /\ t.round \in Nat /\ u.round \in Nat /\ u.players \subseteq Ids
  BY DEF StateOK, Sound, TableType
<1>2. CASE Started(t, u)
  <2>1. ~IsRunning(t) /\ IsRunning(u)
    BY <1>2 DEF Started
  <2> DEFINE d == DealRound(NewDeck, u, 0)
  <2>2. a.table = u /\ a.cards = d /\ a.shown = NoCards
    BY <1>2 DEF After
  <2>3. NewDeck \in CardsType /\ OffDeck(NewDeck)
    <3>1. NewDeck.hand = NoCards
      BY DEF NewDeck
    <3>2. NewDeck \in CardsType
      BY NoCardsType DEF NewDeck, CardsType
    <3> QED
      BY <3>1, <3>2, NoHandsOffDeck
  <2>4. d \in CardsType /\ Deals(NewDeck, d, Ring(u))
    BY <2>1, <2>3, DealRoundDeals
  <2>5. OffDeck(d)
    BY <2>3, <2>4, DealsOffDeck
  <2> HIDE DEF d
  <2>6. StateOK(a)
    BY <2>1, <2>2, <2>4, <2>5, NoCardsType DEF StateOK
  <2>7. Starts(s, a)
    BY <2>1, <2>2, <2>4, TwoOnTheRing DEF Starts
  <2> QED
    BY <2>1, <2>2, <2>6, <2>7 DEF Moves, Ended
<1>3. CASE Ended(t, u)
  <2>1. IsRunning(t) /\ ~IsRunning(u) /\ ~Started(t, u)
    BY <1>3 DEF Ended, Started
  <2> DEFINE d == AllDealt(s, u)
             h == HandsOf(d, contenders)
  <2>2. /\ a.table = u /\ a.cards = HandsOf(d, {}) /\ a.shown = h.hand
    BY <1>3, <2>1 DEF After
  <2>3. /\ d \in CardsType /\ Deals(c, d, Ring(t)) /\ Keeps(c, d, Ids)
        /\ u.round = t.round => d = c
    BY <1>1, <1>3, <2>1, AllDealtDeals
  <2> HIDE DEF d
  <2>4. /\ a.cards \in CardsType /\ a.cards.hand = NoCards
        /\ a.shown \in [Ids -> SUBSET Card] /\ [a.cards EXCEPT !.hand = a.shown] = h
    BY <2>2, <2>3, ShownHands
  <2>5. Deals(c, h, Ring(t))
    <3>1. CASE Ring(t) \subseteq contenders
      BY <1>1, <2>3, <3>1, DealsHandsOf
    <3>2. CASE u.round = t.round
      <4>1. Deals(c, c, {})
        BY <1>1, NoDeal
      <4>2. Deals(c, HandsOf(c, contenders), {})
        BY <1>1, <4>1, DealsHandsOf
      <4> QED
        BY <2>3, <3>2, <4>2, DealsToMore
    <3> QED
      BY <1>3, <3>1, <3>2
  <2>6. StateOK(a)
    <3>1. OffDeck(a.cards)
      BY <2>4, NoHandsOffDeck
    <3> QED
      BY <2>1, <2>2, <2>4, <3>1 DEF StateOK
  <2>7. Ends(s, a)
    BY <2>1, <2>2, <2>4, <2>5 DEF Ends
  <2>8. \A p \in contenders \cap Ids : c.hand[p] \subseteq a.shown[p]
    <3>1. h.hand = [p \in Ids |-> IF p \in contenders THEN d.hand[p] ELSE {}]
      BY <2>3, HandsOfFields, Zenon
    <3> QED
      BY <2>2, <2>3, <3>1 DEF Keeps
  <2> QED
    BY <2>1, <2>2, <2>6, <2>7, <2>8 DEF Moves
<1>4. CASE ~Started(t, u) /\ ~Ended(t, u)
  <2> DEFINE d == IF IsRunning(u) /\ u.round > t.round THEN DealRound(c, u, u.round) ELSE c
             h == HandsOf(d, u.players)
  <2>1. /\ a.table = u /\ a.cards = h
        /\ a.shown = IF u.showdown = None THEN NoCards ELSE s.shown
    BY <1>4 DEF After
  <2>2. CASE IsRunning(t)
    <3>1. IsRunning(u) /\ Ring(u) \subseteq Ring(t)
      BY <1>4, <2>2 DEF Ended
    <3>2. d \in CardsType /\ Deals(c, d, Ring(u)) /\ Keeps(c, d, Ids)
      <4>1. DealRound(c, u, u.round) \in CardsType
            /\ Deals(c, DealRound(c, u, u.round), Ring(u))
            /\ Keeps(c, DealRound(c, u, u.round), Ids)
        BY <1>1, <3>1, DealRoundDeals
      <4>2. Deals(c, c, Ring(u)) /\ Keeps(c, c, Ids)
        BY <1>1, NoDeal
      <4> QED
        BY <1>1, <4>1, <4>2
    <3> HIDE DEF d
    <3>3. Ring(u) \subseteq u.players
      BY RingSeated
    <3>4. Deals(c, h, Ring(u))
      BY <1>1, <3>2, <3>3, DealsHandsOf
    <3>5. OffDeck(h) /\ h \in CardsType
      BY <1>1, <3>4, DealsOffDeck DEF Deals
    <3>6. a.shown = NoCards /\ s.shown = NoCards
      BY <2>1, <2>2, <3>1 DEF StateOK, Sound, HandOpen
    <3>7. StateOK(a)
      BY <2>1, <3>1, <3>5, <3>6, NoCardsType DEF StateOK
    <3>8. Plays(s, a)
      BY <2>1, <2>2, <3>1, <3>4, <3>6, RingSeated DEF Plays
    <3>9. Keeps(c, a.cards, u.players)
      <4>1. h.hand = [p \in Ids |-> IF p \in u.players THEN d.hand[p] ELSE {}]
        BY <3>2, HandsOfFields, Zenon
      <4> QED
        BY <1>1, <2>1, <3>2, <4>1 DEF Keeps
    <3> QED
      BY <1>4, <2>1, <3>7, <3>8, <3>9 DEF Moves
  <2>3. CASE ~IsRunning(t)
    <3>1. ~IsRunning(u) /\ d = c /\ c.hand = NoCards
      BY <1>4, <2>3 DEF Started, StateOK
    <3>2. h = c
      <4>1. h.hand = [p \in Ids |-> IF p \in u.players THEN c.hand[p] ELSE {}]
            /\ h = [c EXCEPT !.hand = h.hand]
        BY <1>1, <3>1, HandsOfFields, Zenon
      <4>2. h.hand = c.hand
        BY <3>1, <4>1 DEF NoCards
      <4> QED
        BY <1>1, <4>1, <4>2 DEF CardsType
    <3>3. a.shown \in {s.shown, NoCards}
      BY <2>1
    <3> HIDE DEF d, h
    <3>4. a.cards = c
      BY <2>1, <3>2
    <3>5. StateOK(a)
      BY <1>1, <2>1, <3>1, <3>3, <3>4, NoCardsType DEF StateOK
    <3>6. Rests(s, a)
      BY <2>1, <2>3, <3>1, <3>3, <3>4 DEF Rests
    <3> QED
      BY <1>4, <2>1, <2>3, <3>5, <3>6 DEF Moves
  <2> QED
    BY <2>2, <2>3
<1> QED
  BY <1>2, <1>3, <1>4

-----------------------------------------------------------------------------
(* What the calls do to the fields of a table that the cards depend on.     *)

\* The same hand goes on, or none is played: nothing is dealt.
SamePlay(t, u) == u.next = t.next /\ u.turn = t.turn /\ u.round = t.round

LEMMA SamePlayRing ==
  ASSUME NEW t, NEW u, SamePlay(t, u)
  PROVE  Ring(u) = Ring(t) /\ (IsRunning(u) <=> IsRunning(t))
BY DEF SamePlay, Ring, IsRunning

LEMMA BetPlay ==
  ASSUME NEW t \in TableType, NEW p \in Ids, NEW amount
  PROVE  /\ SamePlay(t, Raise(t, p, amount)) /\ Raise(t, p, amount).health = t.health
         /\ SamePlay(t, AllIn(t, p)) /\ AllIn(t, p).health = t.health
         /\ SamePlay(t, Check(t, p)) /\ (CheckOk(t, p) => Check(t, p).health = t.health)
<1>1. SamePlay(t, Raise(t, p, amount)) /\ Raise(t, p, amount).health = t.health
  BY DEF Raise, TableType, SamePlay
<1>2. SamePlay(t, AllIn(t, p)) /\ AllIn(t, p).health = t.health
  BY DEF AllIn, TableType, SamePlay
<1>3. SamePlay(t, Check(t, p)) /\ (CheckOk(t, p) => Check(t, p).health = t.health)
  BY DEF Check, CheckOk, TableType, SamePlay
<1> QED
  BY <1>1, <1>2, <1>3

LEMMA JoinPlay ==
  ASSUME NEW t \in TableType, NEW p \in Ids, NEW chips
  PROVE  SamePlay(t, AddPlayer(t, p, chips)) /\ SamePlay(t, KeepPlaying(t, p))
BY DEF AddPlayer, LinkNode, KeepPlaying, TableType, SamePlay

LEMMA WithoutRing ==
  ASSUME NEW t, Sound(t), NEW p \in Ids, NEW u, u.turn = None \/ u.next = NextWithout(t, p)
  PROVE  IsRunning(u) => Ring(u) \subseteq Ring(t)
<1>1. u.next = NextWithout(t, p) => SeatOrder(t, u)
  BY CutInOrder
<1> QED
  BY <1>1 DEF SeatOrder, IsRunning

LEMMA EndGameRound ==
  ASSUME NEW t \in TableType, NEW rank
  PROVE  LET e == EndGame(t, rank)
         IN e.round = t.round /\ e.players = t.players
<1>1. CASE Best(t, rank, Contenders(t)) = None
  BY <1>1 DEF EndGame
<1>2. CASE Best(t, rank, Contenders(t)) # None
  BY <1>2, EndGameFields
<1> QED
  BY <1>1, <1>2

LEMMA FoldPlay ==
  ASSUME NEW t, Sound(t), NEW p \in t.players, NEW rank \in Ranks[Contenders(t)]
  PROVE  LET f == Fold(t, p, rank)
         IN f.round = t.round /\ (IsRunning(f) => Ring(f) \subseteq Ring(t))
<1>1. t \in TableType /\ p \in Ids /\ p \notin {t.prev[p], t.next[p]}
  BY IdsAssumption DEF Sound, RingLinks, TurnOnRing, Ring, TableType
<1>2. Folded(t, p) \in TableType /\ Folded(t, p).round = t.round
  BY <1>1, FoldedRing, FoldedFields
<1>3. Fold(t, p, rank) \in {Folded(t, p), EndGame(Folded(t, p), rank)}
  BY <1>1 DEF Fold, Folded
<1>4. Fold(t, p, rank).round = t.round
  BY <1>2, <1>3, EndGameRound
<1>5. Fold(t, p, rank).turn = None \/ Fold(t, p, rank).next = NextWithout(t, p)
  BY FoldNext
<1> QED
  BY <1>1, <1>4, <1>5, WithoutRing

LEMMA RemovePlay ==
  ASSUME NEW t, Sound(t), t.health = "ok", NEW p \in t.players,
         NEW rank \in Ranks[Contenders(t)], NEW order \in Orders[t.players \ {p}]
  PROVE  LET r == Remove(t, p, order, rank)
         IN /\ r.round = t.round /\ r.health = "ok"
            /\ IsRunning(r) => Ring(r) \subseteq Ring(t)
<1> DEFINE out   == Fold(t, p, rank)
           head  == IF out.head # p THEN out.head
                    ELSE IF out.nextf[p] = p THEN None ELSE out.nextf[p]
           moved == [out EXCEPT !.head = head]
           left  == Drop(moved, {p})
<1>1. /\ out \in TableType /\ out.health = "ok" /\ out.round = t.round /\ p \in Ids
  <2>1. Sound(out) /\ out.health = "ok"
    BY FoldSound
  <2> QED
    BY <2>1, FoldPlay DEF Sound, TableType
<1> HIDE DEF out
<1>2. moved \in TableType /\ moved.health = out.health /\ moved.round = out.round
  BY <1>1 DEF TableType, Pointer
<1> HIDE DEF moved
<1>3. left \in TableType /\ left.health = moved.health /\ left.round = moved.round
  <2>1. {p} \in SUBSET Ids
    BY <1>1
  <2>2. left \in TableType
    BY <1>2, <2>1, DropType
  <2> QED
    BY <1>2, <2>1, <2>2, DropFields
<1> HIDE DEF left
<1>4. Rebuild(left, order).round = left.round /\ Rebuild(left, order).health = left.health
  BY <1>3 DEF Rebuild, TableType
<1>5. Remove(t, p, order, rank) = Rebuild(left, order)
  BY <1>1 DEF Remove, out, moved, left
<1>6. LET r == Remove(t, p, order, rank) IN r.turn = None \/ r.next = NextWithout(t, p)
  BY RemoveNext
<1>7. Remove(t, p, order, rank).round = t.round /\ Remove(t, p, order, rank).health = "ok"
  BY <1>1, <1>2, <1>3, <1>4, <1>5
<1> QED
  BY <1>1, <1>6, <1>7, WithoutRing

LEMMA AdvanceTurnPlay ==
  ASSUME NEW t \in TableType, NEW rank
  PROVE  LET u == AdvanceTurn(t, rank)
         IN /\ u.players = t.players /\ u.round \in Nat /\ t.round <= u.round
            /\ IsRunning(u) => Ring(u) = Ring(t)
<1> DEFINE moved == MarkTurnStarted([t EXCEPT !.turn = NextBettingNode(t, t.turn)])
           Good(u) == u.players = t.players /\ u.round \in Nat /\ t.round <= u.round
<1>1. t.round \in Nat /\ EndRound \in Nat
  BY EndRoundType DEF TableType
<1>2. ASSUME NEW u \in TableType, u.players = t.players, NEW r \in Nat, t.round <= r
      PROVE  Good([u EXCEPT !.round = r]) /\ Good(EndGame([u EXCEPT !.round = r], rank))
  <2> DEFINE w == [u EXCEPT !.round = r]
  <2>1. w \in TableType /\ w.players = t.players /\ w.round = r
    BY <1>2 DEF TableType
  <2> HIDE DEF w
  <2>2. EndGame(w, rank).round = r /\ EndGame(w, rank).players = t.players
    BY <2>1, EndGameRound
  <2> QED
    BY <1>2, <2>1, <2>2 DEF w
<1>3. moved \in TableType /\ moved.players = t.players /\ moved.round = t.round
  <2>1. NextBettingNode(t, t.turn) \in Pointer
    BY NextBettingNodeOnRing DEF Ring, Pointer
  <2> QED
    BY <2>1 DEF MarkTurnStarted, TableType
<1>4. Good(t) /\ Good([t EXCEPT !.health = "selflock"]) /\ Good(moved)
  BY <1>1, <1>3 DEF TableType
<1> HIDE DEF moved, Good
<1>5. Good(FinishRemainingRounds(t, rank))
  <2> DEFINE r == IF t.round < EndRound THEN EndRound ELSE t.round + 1
  <2>1. r \in Nat /\ t.round <= r
    BY <1>1
  <2>2. Good(EndGame([t EXCEPT !.round = r], rank))
    BY <1>2, <2>1
  <2>3. FinishRemainingRounds(t, rank) = EndGame([t EXCEPT !.round = r], rank)
    BY DEF FinishRemainingRounds
  <2> QED
    BY <2>2, <2>3
<1>6. Good(NextRound(moved, rank))
  <2>1. t.round + 1 \in Nat /\ t.round <= t.round + 1
    BY <1>1
  <2>2. /\ Good([moved EXCEPT !.round = t.round + 1])
        /\ Good(EndGame([moved EXCEPT !.round = t.round + 1], rank))
    BY <1>2, <1>3, <2>1
  <2>3. [moved EXCEPT !.round = @ + 1] = [moved EXCEPT !.round = t.round + 1]
    BY <1>3
  <2> QED
    BY <2>2, <2>3 DEF NextRound
<1>7. AdvanceTurn(t, rank) \in {t, [t EXCEPT !.health = "selflock"], moved,
                                FinishRemainingRounds(t, rank), NextRound(moved, rank)}
  BY DEF AdvanceTurn, moved
<1>8. Good(AdvanceTurn(t, rank))
  BY <1>4, <1>5, <1>6, <1>7
<1>9. AdvanceTurn(t, rank).turn = None \/ AdvanceTurn(t, rank).next = t.next
  BY AdvanceTurnNext
<1> QED
  BY <1>8, <1>9 DEF Good, IsRunning, Ring

-----------------------------------------------------------------------------
(* The requests of two calls.                                               *)

\* advance_turn, after a call that dealt nothing: it deals to the ring, or the
\* hand ends with the ring among the contenders.
LEMMA AdvanceMoves ==
  ASSUME DeckSize \in Nat, NEW s, StateOK(s), s.table.health = "ok",
         NEW C0 \in SUBSET Ids, NEW rank \in Ranks[C0], Contenders(s.table) \subseteq C0,
         NEW a, a = ThenAdvance(s, rank)
  PROVE  /\ StateOK(a) /\ Moves(s, a)
         /\ IsRunning(a.table) => Ring(a.table) = Ring(s.table)
         /\ IsRunning(s.table) /\ IsRunning(a.table) =>
              Keeps(s.cards, a.cards, s.table.players)
         /\ Ended(s.table, a.table) =>
              \A p \in Contenders(s.table) : s.cards.hand[p] \subseteq a.shown[p]
         /\ ~IsRunning(s.table) => ~IsRunning(a.table)
<1> DEFINE t == s.table
           u == AdvanceTurn(t, rank)
<1>1. Sound(t) /\ t \in TableType
  BY DEF StateOK, Sound
<1>2. Sound(u)
  BY <1>1, AdvanceTurnSound
<1>3. /\ u.players = t.players /\ u.round \in Nat /\ t.round <= u.round
      /\ IsRunning(u) => Ring(u) = Ring(t)
  BY <1>1, AdvanceTurnPlay, Zenon
<1>4. ~IsRunning(t) => ~IsRunning(u)
  BY DEF AdvanceTurn, IsRunning
<1>5. a = After(s, u, Contenders(t))
  BY DEF ThenAdvance
<1>6. Ring(t) \subseteq Contenders(t) /\ Contenders(t) \subseteq Ids
  BY <1>1, RingSeated
<1> HIDE DEF u
<1>7. /\ a.table = u /\ StateOK(a) /\ Moves(s, a)
      /\ IsRunning(t) /\ IsRunning(u) => Keeps(s.cards, a.cards, u.players)
      /\ Ended(t, u) => \A p \in Contenders(t) \cap Ids : s.cards.hand[p] \subseteq a.shown[p]
  BY <1>2, <1>3, <1>5, <1>6, AfterMoves
<1> QED
  BY <1>3, <1>4, <1>6, <1>7

\* A bet, a fold or a removal, and advance_turn: what the second deals is all
\* that the request deals.
LEMMA TwoCalls ==
  ASSUME DeckSize \in Nat, NEW s, StateOK(s), IsRunning(s.table),
         NEW u, Sound(u), u.health = "ok", u.round = s.table.round,
         IsRunning(u) => Ring(u) \subseteq Ring(s.table),
         NEW contenders, NEW C0 \in SUBSET Ids, NEW rank \in Ranks[C0], Contenders(u) \subseteq C0,
         NEW a, a = ThenAdvance(After(s, u, contenders), rank)
  PROVE  StateOK(a) /\ Moves(s, a)
<1> DEFINE m == After(s, u, contenders)
           c == s.cards
           t == s.table
<1>1. c \in CardsType /\ OffDeck(c) /\ Sound(t) /\ t.round \in Nat
  BY DEF StateOK, Sound, TableType
<1>2. m.table = u /\ StateOK(m) /\ Moves(s, m)
  BY <1>1, AfterMoves
<1>3. a = ThenAdvance(m, rank)
  OBVIOUS
<1>4. CASE IsRunning(u)
  <2>1. m.cards = HandsOf(c, u.players)
    BY <1>1, <1>4 DEF After, Started, Ended
  <2> HIDE DEF m
  <2>2. /\ StateOK(a) /\ Moves(m, a) /\ (IsRunning(a.table) => Ring(a.table) = Ring(u))
    BY <1>2, <1>3, AdvanceMoves
  <2>3. m.shown = NoCards /\ s.shown = NoCards
    BY <1>2, <1>4 DEF StateOK
  <2>4. ASSUME NEW e, NEW players, Deals(m.cards, e, players)
        PROVE  Deals(c, e, players)
    <3>1. Deals(c, m.cards, {})
      BY <1>1, <2>1, NoDeal, DealsHandsOf
    <3>2. Deals(c, m.cards, players)
      BY <3>1, DealsToMore
    <3>3. Gone(c, m.cards) = {}
      <4>1. m.cards.left = c.left
        BY <1>1, <2>1 DEF HandsOf, CardsType
      <4>2. c.left \in Nat
        BY <1>1, CardsFields
      <4> QED
        BY <4>1, <4>2 DEF Gone
    <3> QED
      BY <2>4, <3>2, <3>3, DealsThen
  <2>5. CASE IsRunning(a.table)
    <3>1. Plays(m, a)
      BY <1>2, <1>4, <2>2, <2>5 DEF Moves, Starts, Ends, Rests
    <3>2. Plays(s, a)
      BY <1>2, <1>4, <2>2, <2>3, <2>4, <2>5, <3>1 DEF Plays
    <3> QED
      BY <2>2, <3>2 DEF Moves
  <2>6. CASE ~IsRunning(a.table)
    <3>1. Ends(m, a)
      BY <1>2, <1>4, <2>2, <2>6 DEF Moves, Starts, Plays, Rests
    <3>2. Deals(c, [a.cards EXCEPT !.hand = a.shown], Ring(u))
      BY <1>2, <2>4, <3>1 DEF Ends
    <3>3. Deals(c, [a.cards EXCEPT !.hand = a.shown], Ring(t))
      BY <1>4, <3>2, DealsToMore
    <3>4. Ends(s, a)
      BY <2>6, <3>1, <3>3 DEF Ends
    <3> QED
      BY <2>2, <3>4 DEF Moves
  <2> QED
    BY <2>5, <2>6
<1>5. CASE ~IsRunning(u)
  <2>1. AllDealt(s, u) = c
    BY <1>1, AllDealtDeals
  <2>2. m.cards = HandsOf(c, {}) /\ m.shown = HandsOf(c, contenders).hand
    BY <1>5, <2>1 DEF After, Started, Ended
  <2> HIDE DEF m
  <2>3. StateOK(a) /\ Moves(m, a) /\ ~IsRunning(a.table)
    BY <1>2, <1>5, <1>3, AdvanceMoves
  <2>4. a.cards = m.cards /\ a.shown \in {m.shown, NoCards}
    BY <1>2, <1>5, <2>3 DEF Moves, Starts, Plays, Ends, Rests
  <2>5. PICK stay : a.shown = HandsOf(c, stay).hand
    <3>1. HandsOf(c, {}).hand = NoCards
      BY <1>1, HandsOfFields DEF NoCards
    <3> QED
      BY <2>2, <2>4, <3>1
  <2>6. [a.cards EXCEPT !.hand = a.shown] = HandsOf(c, stay) /\ a.cards.hand = NoCards
    BY <1>1, <2>2, <2>4, <2>5, ShownHands
  <2>7. Deals(c, HandsOf(c, stay), Ring(t))
    <3>1. Deals(c, HandsOf(c, stay), {})
      BY <1>1, NoDeal, DealsHandsOf
    <3> QED
      BY <3>1, DealsToMore
  <2>8. Ends(s, a)
    BY <2>3, <2>6, <2>7 DEF Ends
  <2> QED
    BY <2>3, <2>8 DEF Moves
<1> QED
  BY <1>4, <1>5

\* replace_cards takes as many cards off the deck as it throws away, if there
\* are as many.
LEMMA ReplaceDeals ==
  ASSUME DeckSize \in Nat, StateOK(State), IsRunning(table),
         NEW discard \in Discards(cards.hand[table.turn]),
         NEW s, s = ReplaceCards(table.turn, discard)
  PROVE  /\ s.table = table /\ s.shown = shown /\ StateOK(s)
         /\ Deals(cards, s.cards, {table.turn})
         /\ \A q \in Ids \ {table.turn} : s.cards.hand[q] = cards.hand[q]
<1> DEFINE p == table.turn
           n == cards.left
           k == Cardinality(discard)
           d == s.cards
           new == Off(n, 0, k)
<1>1. /\ cards \in CardsType /\ OffDeck(cards) /\ Sound(table) /\ p \in Ids
      /\ shown \in [Ids -> SUBSET Card] /\ shown = NoCards
  BY RingSeated DEF StateOK, State, Ring
<1>2. /\ n \in Nat /\ n <= DeckSize /\ cards.hand \in [Ids -> SUBSET Card]
  BY <1>1, CardsFields
<1>3. discard \subseteq cards.hand[p] /\ k \in Nat
  <2>1. discard \subseteq cards.hand[p] /\ cards.hand[p] \subseteq Card
    BY <1>1, <1>2 DEF Discards
  <2>2. IsFiniteSet(Card)
    BY FS_Interval DEF Card
  <2> QED
    BY <2>1, <2>2, FS_Subset, FS_CardinalityType
<1> HIDE DEF k
<1>4. new = (Max({0, n - k}) + 1)..n /\ Max({0, n - k}) \in Nat /\ Max({0, n - k}) <= n
  BY <1>2, <1>3, OffTop
<1>5. /\ s.table = table /\ s.shown = shown
      /\ d = [cards EXCEPT !.hand[p] = (@ \ discard) \cup new, !.left = Max({0, n - k})]
  BY DEF ReplaceCards, State, k
<1> HIDE DEF d, new
<1>6. /\ d.left = Max({0, n - k}) /\ d.faceUp = cards.faceUp /\ d.community = cards.community
      /\ d.hand = [cards.hand EXCEPT ![p] = (@ \ discard) \cup new]
      /\ d = [left |-> d.left, hand |-> d.hand, faceUp |-> d.faceUp,
              community |-> d.community]
  BY <1>1, <1>5 DEF CardsType
<1>7. new = Gone(cards, d) /\ new \subseteq Card /\ d.left \in Nat /\ d.left <= n
  BY <1>2, <1>4, <1>6 DEF Gone, Card
<1>8. \A q \in Ids : d.hand[q] = IF q = p THEN (cards.hand[p] \ discard) \cup new
                                 ELSE cards.hand[q]
  BY <1>1, <1>2, <1>6
<1>9. d \in CardsType
  <2>1. d.hand \in [Ids -> SUBSET Card]
    BY <1>1, <1>2, <1>6, <1>7
  <2>2. d.left \in 0..DeckSize
    BY <1>2, <1>7
  <2> QED
    BY <1>1, <1>6, <2>1, <2>2, CardsFields DEF CardsType
<1>10. Deals(cards, d, {p})
  <2>1. \A q \in Ids : /\ d.hand[q] \ cards.hand[q] \subseteq IF q = p THEN new ELSE {}
                       /\ q \notin {p} => d.hand[q] \subseteq cards.hand[q]
    BY <1>8
  <2>2. new \ (UNION {d.hand[q] : q \in Ids}) = {}
    BY <1>1, <1>8
  <2>3. d.community = cards.community \cup (Gone(cards, d) \ (UNION {d.hand[q] : q \in Ids}))
    BY <1>6, <1>7, <2>2
  <2>4. \A q \in Ids : \A r \in Ids \ {q} :
          (d.hand[q] \ cards.hand[q]) \cap (d.hand[r] \ cards.hand[r]) = {}
    BY <2>1
  <2> QED
    BY <1>1, <1>6, <1>7, <1>9, <2>1, <2>3, <2>4 DEF Deals
<1>11. OffDeck(d)
  BY <1>1, <1>10, DealsOffDeck
<1>12. StateOK(s)
  BY <1>1, <1>5, <1>9, <1>11 DEF StateOK, d
<1> QED
  BY <1>5, <1>8, <1>10, <1>12 DEF d

\* The draw and advance_turn, which lets the player keep what was drawn.
LEMMA DrawMoves ==
  ASSUME DeckSize \in Nat, StateOK(State), IsRunning(table), table.health = "ok",
         NEW discard \in Discards(cards.hand[table.turn]), NEW rank \in Ranks[Contenders(table)],
         NEW a, a = ThenAdvance(ReplaceCards(table.turn, discard), rank)
  PROVE  StateOK(a) /\ Moves(State, a)
<1> DEFINE s == ReplaceCards(table.turn, discard)
           p == table.turn
<1>1. /\ s.table = table /\ s.shown = shown /\ StateOK(s)
      /\ Deals(cards, s.cards, {p})
      /\ \A q \in Ids \ {p} : s.cards.hand[q] = cards.hand[q]
  BY ReplaceDeals
<1>2. a = ThenAdvance(s, rank)
  OBVIOUS
<1> HIDE DEF s
<1>3. /\ Sound(table) /\ p \in Ring(table) /\ p \in Contenders(table) /\ p \in table.players
      /\ Contenders(table) \in SUBSET Ids /\ table.players \subseteq Ids
      /\ Ring(table) \subseteq Ids
  BY RingSeated DEF StateOK, State, Ring
<1>4. /\ StateOK(a) /\ Moves(s, a)
      /\ IsRunning(a.table) => Ring(a.table) = Ring(table)
      /\ IsRunning(a.table) => Keeps(s.cards, a.cards, table.players)
      /\ ~IsRunning(a.table) => \A q \in Contenders(table) : s.cards.hand[q] \subseteq a.shown[q]
  BY <1>1, <1>2, <1>3, AdvanceMoves DEF Ended
<1>5. \A q \in Ids \ {p} : s.cards.hand[q] \cap Gone(cards, s.cards) = {}
  <2>1. OffDeck(cards) /\ cards \in CardsType /\ s.cards \in CardsType
    BY <1>1 DEF StateOK, State
  <2>2. Gone(cards, s.cards) \subseteq 1..cards.left
    BY <2>1, CardsFields DEF Gone
  <2> QED
    BY <1>1, <2>1, <2>2 DEF OffDeck
<1>6. ASSUME NEW e, Deals(s.cards, e, Ring(table)), s.cards.hand[p] \subseteq e.hand[p]
      PROVE  Deals(cards, e, Ring(table))
  <2>1. \A q \in Ids : s.cards.hand[q] \cap Gone(cards, s.cards) \subseteq e.hand[q]
    BY <1>5, <1>6
  <2>2. Deals(cards, s.cards, Ring(table))
    BY <1>1, <1>3, DealsToMore
  <2> QED
    BY <1>6, <2>1, <2>2, DealsThen
<1>7. State.table = table /\ State.cards = cards /\ State.shown = shown
  BY DEF State
<1>8. CASE IsRunning(a.table)
  <2>1. Plays(s, a)
    BY <1>1, <1>4, <1>8 DEF Moves, Starts, Ends, Rests
  <2>2. Deals(cards, a.cards, Ring(a.table))
    BY <1>1, <1>3, <1>4, <1>6, <1>8, <2>1 DEF Plays, Keeps
  <2>3. Plays(State, a)
    BY <1>1, <1>7, <1>8, <2>1, <2>2 DEF Plays
  <2> QED
    BY <1>4, <2>3 DEF Moves
<1>9. CASE ~IsRunning(a.table)
  <2>1. Ends(s, a)
    BY <1>1, <1>4, <1>9 DEF Moves, Starts, Plays, Rests
  <2> DEFINE e == [a.cards EXCEPT !.hand = a.shown]
  <2>2. e.hand = a.shown
    BY <1>4 DEF StateOK, CardsType
  <2>3. Deals(s.cards, e, Ring(table))
    BY <1>1, <2>1 DEF Ends
  <2> HIDE DEF e
  <2>4. Deals(cards, e, Ring(table))
    BY <1>3, <1>4, <1>6, <1>9, <2>2, <2>3
  <2>5. Ends(State, a)
    BY <1>7, <1>9, <2>1, <2>4 DEF Ends, e
  <2> QED
    BY <1>4, <2>5 DEF Moves
<1> QED
  BY <1>8, <1>9

-----------------------------------------------------------------------------
(* Every request moves the cards as in Cards.                               *)

Inv == table.health = "ok" => StateOK(State)

\* What a request leads to.  After the panic of a draw no other request comes.
Reaches(s) ==
  /\ Becomes(s) /\ Moves(State, s)
  /\ StateOK(s) \/ (Plays(State, s) /\ s.table.health # "ok")

LEMMA BetMoves ==
  ASSUME DeckSize \in Nat, StateOK(State), IsRunning(table),
         NEW later, Sound(later), SamePlay(table, later), NEW isOk \in BOOLEAN,
         isOk => later.health = "ok", BetThenAdvance(later, isOk)
  PROVE  \E s : Reaches(s)
<1> DEFINE bet == After(State, later, {})
<1>1. State.table = table /\ Ring(later) = Ring(table) /\ IsRunning(later)
      /\ later.round = table.round
  BY SamePlayRing DEF State, SamePlay
<1>2. CASE ~isOk /\ Becomes(bet)
  <2>1. StateOK(bet) /\ Moves(State, bet)
    BY <1>1, AfterMoves DEF Ended
  <2> QED
    BY <1>2, <2>1 DEF Reaches
<1>3. ASSUME isOk, NEW rank \in Ranks[Contenders(later)], Becomes(ThenAdvance(bet, rank))
      PROVE  \E s : Reaches(s)
  <2>1. Contenders(later) \in SUBSET Ids
    BY ContendersSubset DEF Sound
  <2> DEFINE s == ThenAdvance(bet, rank)
  <2>2. StateOK(s) /\ Moves(State, s)
    BY <1>1, <1>3, <2>1, TwoCalls
  <2> HIDE DEF bet
  <2> QED
    BY <1>3, <2>2 DEF Reaches
<1> QED
  BY <1>2, <1>3 DEF BetThenAdvance

\* A call of its own.
LEMMA CallMoves ==
  ASSUME DeckSize \in Nat, StateOK(State), NEW u, Sound(u), NEW contenders,
         IsRunning(table) => /\ u.round = table.round
                             /\ IsRunning(u) => Ring(u) \subseteq Ring(table),
         Becomes(After(State, u, contenders))
  PROVE  \E s : Reaches(s)
<1> DEFINE s == After(State, u, contenders)
<1>1. State.table = table /\ table.round \in Nat
  BY DEF State, StateOK, Sound, TableType
<1>2. StateOK(s) /\ Moves(State, s)
  BY <1>1, AfterMoves DEF Ended
<1> HIDE DEF s
<1>3. Becomes(s)
  BY DEF s
<1> QED
  BY <1>2, <1>3 DEF Reaches

LEMMA NextReaches ==
  ASSUME Sizes, table.health = "ok", StateOK(State), Next
  PROVE  \E s : Reaches(s)
<1>1. /\ DeckSize \in Nat /\ State.table = table /\ Sound(table) /\ table \in TableType
      /\ Contenders(table) \in SUBSET Ids /\ table.players \subseteq Ids
      /\ table.showdown # None => ~IsRunning(table)
      /\ IsRunning(table) => table.turn \in table.players /\ table.turn \in Ids
  BY RingSeated DEF Sizes, State, StateOK, Sound, HandOpen, TableType
<1>2. CASE Bet
  <2> DEFINE p == table.turn
  <2>1. IsRunning(table) /\ p \in Ids
    BY <1>1, <1>2 DEF Bet
  <2>2. ASSUME NEW amount \in Amounts,
               BetThenAdvance(Raise(table, p, amount), RaiseOk(table, p, amount))
        PROVE  \E s : Reaches(s)
    <3>1. amount \in Nat
      BY DEF Sizes
    <3>2. /\ Sound(Raise(table, p, amount)) /\ SamePlay(table, Raise(table, p, amount))
          /\ Raise(table, p, amount).health = "ok"
      BY <1>1, <2>1, <3>1, RaiseSound, BetPlay
    <3>3. RaiseOk(table, p, amount) \in BOOLEAN
      BY DEF RaiseOk
    <3> QED
      BY <1>1, <2>1, <2>2, <3>2, <3>3, BetMoves
  <2>3. ASSUME BetThenAdvance(AllIn(table, p), AllInOk(table, p))
        PROVE  \E s : Reaches(s)
    <3>1. /\ Sound(AllIn(table, p)) /\ SamePlay(table, AllIn(table, p))
          /\ AllIn(table, p).health = "ok"
      BY <1>1, <2>1, AllInSound, BetPlay
    <3>2. AllInOk(table, p) \in BOOLEAN
      BY DEF AllInOk
    <3> QED
      BY <1>1, <2>1, <2>3, <3>1, <3>2, BetMoves
  <2>4. ASSUME BetThenAdvance(Check(table, p), CheckOk(table, p))
        PROVE  \E s : Reaches(s)
    <3>1. /\ Sound(Check(table, p)) /\ SamePlay(table, Check(table, p))
          /\ CheckOk(table, p) => Check(table, p).health = "ok"
      BY <1>1, <2>1, CheckSound, BetPlay
    <3>2. CheckOk(table, p) \in BOOLEAN
      BY DEF CheckOk
    <3> QED
      BY <1>1, <2>1, <2>4, <3>1, <3>2, BetMoves
  <2> QED
    BY <1>2, <2>2, <2>3, <2>4 DEF Bet
<1>3. CASE FoldHand
  <2> DEFINE p == table.turn
  <2>1. PICK rank \in Ranks[Contenders(table)] :
          /\ IsRunning(table)
          /\ Becomes(ThenAdvance(
               After(State, Fold(table, p, rank), Contenders(table) \ {p}), rank))
    BY <1>3 DEF FoldHand
  <2> DEFINE u == Fold(table, p, rank)
             a == ThenAdvance(After(State, u, Contenders(table) \ {p}), rank)
  <2>2. /\ Sound(u) /\ u.health = "ok" /\ u.round = table.round
        /\ IsRunning(u) => Ring(u) \subseteq Ring(table)
    BY <1>1, <2>1, FoldSound, FoldPlay
  <2>3. Contenders(u) \subseteq Contenders(table)
    BY <1>1, <2>1, ContendersFold
  <2>4. Becomes(a)
    BY <2>1
  <2> HIDE DEF u
  <2>5. StateOK(a) /\ Moves(State, a)
    BY <1>1, <2>1, <2>2, <2>3, TwoCalls
  <2> HIDE DEF a
  <2> QED
    BY <2>4, <2>5 DEF Reaches
<1>4. CASE Draw
  <2>1. PICK discard \in Discards(cards.hand[table.turn]), rank \in Ranks[Contenders(table)] :
          /\ IsRunning(table)
          /\ IF Panics(table.turn, discard)
             THEN Becomes([State EXCEPT !.table.health = "unwrap"])
             ELSE Becomes(ThenAdvance(ReplaceCards(table.turn, discard), rank))
    BY <1>4 DEF Draw
  <2>2. CASE Panics(table.turn, discard)
    <3> DEFINE s == [State EXCEPT !.table.health = "unwrap"]
    <3>1. /\ s.table = [table EXCEPT !.health = "unwrap"] /\ s.cards = cards /\ s.shown = shown
      BY DEF State
    <3> HIDE DEF s
    <3>2. /\ s.table.health = "unwrap" /\ s.table.turn = table.turn /\ s.table.next = table.next
      BY <1>1, <3>1 DEF TableType
    <3>3. Ring(s.table) = Ring(table) /\ IsRunning(s.table)
      BY <2>1, <3>2 DEF Ring, IsRunning
    <3>4. Deals(cards, cards, Ring(table))
      BY <1>1, NoDeal DEF StateOK, State
    <3>5. Plays(State, s)
      BY <1>1, <2>1, <3>1, <3>3, <3>4, RingSeated DEF Plays, State
    <3>6. Becomes(s)
      BY <2>1, <2>2 DEF s
    <3> QED
      BY <3>2, <3>5, <3>6 DEF Reaches, Moves
  <2>3. CASE ~Panics(table.turn, discard)
    <3> DEFINE s == ThenAdvance(ReplaceCards(table.turn, discard), rank)
    <3>1. StateOK(s) /\ Moves(State, s)
      BY <1>1, <2>1, DrawMoves
    <3>2. Becomes(s)
      BY <2>1, <2>3
    <3> HIDE DEF s
    <3> QED
      BY <3>1, <3>2 DEF Reaches
  <2> QED
    BY <2>2, <2>3
<1>5. CASE Start
  <2>1. PICK order \in Orders[table.players] :
          /\ Cardinality(table.players) >= 2 /\ ~IsRunning(table)
          /\ Becomes(After(State, StartGame(table, order), {}))
    BY <1>5 DEF Start
  <2>2. Sound(StartGame(table, order))
    BY <1>1, <2>1, StartGameSound
  <2> QED
    BY <1>1, <2>1, <2>2, CallMoves
<1>6. CASE Expire
  <2> DEFINE p == table.turn
  <2>1. PICK rank \in Ranks[Contenders(table)], order \in Orders[table.players \ {p}] :
          /\ IsRunning(table)
          /\ Becomes(ThenAdvance(
               After(State, Remove(table, p, order, rank), Contenders(table) \ {p}), rank))
    BY <1>6 DEF Expire
  <2> DEFINE u == Remove(table, p, order, rank)
             a == ThenAdvance(After(State, u, Contenders(table) \ {p}), rank)
  <2>2. Sound(u)
    BY <1>1, <2>1, RemoveSound
  <2>3. /\ u.health = "ok" /\ u.round = table.round
        /\ IsRunning(u) => Ring(u) \subseteq Ring(table)
    BY <1>1, <2>1, RemovePlay
  <2>4. Contenders(u) \subseteq Contenders(table)
    BY <1>1, <2>1, ContendersRemove
  <2>5. Becomes(a)
    BY <2>1
  <2> HIDE DEF u
  <2>6. StateOK(a) /\ Moves(State, a)
    BY <1>1, <2>1, <2>2, <2>3, <2>4, TwoCalls
  <2> HIDE DEF a
  <2> QED
    BY <2>5, <2>6 DEF Reaches
<1>7. CASE Purge
  <2>1. PICK order \in Orders[table.confirmed \cap table.players] :
          /\ table.showdown # None
          /\ Becomes(After(State, RemoveUnconfirmed(table, order), {}))
    BY <1>7 DEF Purge
  <2>2. Sound(RemoveUnconfirmed(table, order))
    BY <1>1, <2>1, RemoveUnconfirmedSound
  <2> QED
    BY <1>1, <2>1, <2>2, CallMoves
<1>8. ASSUME NEW p \in Ids, Join(p)
      PROVE  \E s : Reaches(s)
  <2>1. PICK chips \in JoinChips : Becomes(After(State, AddPlayer(table, p, chips), {}))
    BY <1>8 DEF Join
  <2>2. Sound(AddPlayer(table, p, chips)) /\ SamePlay(table, AddPlayer(table, p, chips))
    BY <1>1, AddPlayerSound, JoinPlay DEF Sizes
  <2>3. Ring(AddPlayer(table, p, chips)) = Ring(table)
    BY <2>2, SamePlayRing
  <2> QED
    BY <1>1, <2>1, <2>2, <2>3, CallMoves DEF SamePlay
<1>9. ASSUME NEW p \in Ids, Leave(p)
      PROVE  \E s : Reaches(s)
  <2>1. PICK rank \in Ranks[Contenders(table)], order \in Orders[table.players \ {p}] :
          /\ p \in table.players
          /\ Becomes(After(State, Remove(table, p, order, rank), Contenders(table) \ {p}))
    BY <1>9 DEF Leave
  <2>2. Sound(Remove(table, p, order, rank))
    BY <1>1, <2>1, RemoveSound
  <2>3. LET u == Remove(table, p, order, rank)
        IN u.round = table.round /\ (IsRunning(u) => Ring(u) \subseteq Ring(table))
    BY <1>1, <2>1, RemovePlay
  <2> QED
    BY <1>1, <2>1, <2>2, <2>3, CallMoves
<1>10. ASSUME NEW p \in Ids, Confirm(p)
       PROVE  \E s : Reaches(s)
  <2>1. Becomes(After(State, KeepPlaying(table, p), {})) /\ ~IsRunning(table)
    BY <1>1, <1>10 DEF Confirm
  <2>2. Sound(KeepPlaying(table, p))
    BY <1>1, KeepPlayingSound
  <2> QED
    BY <1>1, <2>1, <2>2, CallMoves
<1> QED
  BY <1>2, <1>3, <1>4, <1>5, <1>6, <1>7, <1>8, <1>9, <1>10 DEF Next

LEMMA SameCardinality ==
  ASSUME NEW S
  PROVE  C!Cardinality(S) = Cardinality(S)
BY DEF Cardinality, C!Cardinality

\* What is reached is a step of Cards.
LEMMA ReachesNext ==
  ASSUME DeckSize \in Nat, StateOK(State), NEW s, Reaches(s)
  PROVE  C!Next
<1>1. /\ table' = s.table /\ cards' = s.cards /\ shown' = s.shown
      /\ seen' = [p \in Ids |-> Visible(s, p) \cup
                    IF Started(table, s.table) THEN {} ELSE seen[p]]
      /\ State.table = table /\ State.cards = cards /\ State.shown = shown
      /\ Moves(State, s)
  BY DEF Reaches, Becomes, State
<1>2. \A p \in Ids : Visible(s, p) = C!Visible(p)'
  BY <1>1 DEF Visible, C!Visible
<1>3. Ring(table)' = Ring(table') /\ (IsRunning(table)' <=> IsRunning(table'))
  BY DEF Ring, IsRunning
<1>4. /\ Sound(table) /\ (~IsRunning(table) => Ring(table) = {})
      /\ IsRunning(table) => Ring(table) # {}
      /\ Ring(table) \subseteq Ids
  BY RingSeated DEF StateOK, State, Sound, TurnOnRing, Ring
<1>5. C!NoCards = NoCards /\ C!Card = Card
  BY DEF C!NoCards, NoCards, C!Card, Card
<1>6. ASSUME NEW c, NEW d, NEW players, Deals(c, d, players),
             cards'.left = d.left, cards'.community = d.community
      PROVE  C!Dealt(c.left, c.hand, d.hand, c.community, players)
  <2>1. C!Taken(c.left) = Gone(c, d)
    BY <1>6 DEF C!Taken, Gone
  <2>2. cards'.left \in 0..c.left
    BY <1>6, CardsFields DEF Deals
  <2>3. d.hand \in [Ids -> SUBSET C!Card]
    BY <1>5, <1>6, CardsFields DEF Deals
  <2> QED
    BY <1>6, <2>1, <2>2, <2>3 DEF C!Dealt, Deals
<1>7. CASE Starts(State, s)
  <2>1. /\ Started(table, s.table) /\ Ring(table) = {} /\ shown' = NoCards
        /\ Deals(NewDeck, cards', Ring(table')) /\ Cardinality(Ring(table')) >= 2
    BY <1>1, <1>4, <1>7 DEF Starts, Started
  <2> DEFINE players == Ring(table')
  <2>2. players \in SUBSET Ids /\ C!Cardinality(players) >= 2
    BY <2>1, SameCardinality DEF Ring
  <2>3. C!Dealt(DeckSize, NoCards, cards'.hand, {}, players)
    <3>1. NewDeck.left = DeckSize /\ NewDeck.hand = NoCards /\ NewDeck.community = {}
      BY DEF NewDeck
    <3>2. C!Dealt(NewDeck.left, NewDeck.hand, cards'.hand, NewDeck.community, players)
      BY <1>6, <2>1
    <3> QED
      BY <3>1, <3>2
  <2>4. cards'.hand \in [Ids -> SUBSET C!Card]
    BY <1>5, <2>1, CardsFields DEF Deals
  <2>5. cards'.faceUp \in SUBSET C!Taken(DeckSize)
    <3>1. NewDeck.left = DeckSize /\ NewDeck.faceUp = {}
      BY DEF NewDeck
    <3> QED
      BY <2>1, <3>1 DEF Deals, Gone, C!Taken
  <2>6. seen' = [p \in Ids |-> C!Visible(p)']
    BY <1>1, <1>2, <2>1
  <2>7. Ring(table)' = players
    BY <1>3
  <2>8. C!Start
    BY <1>5, <2>1, <2>2, <2>3, <2>4, <2>5, <2>6, <2>7 DEF C!Start
  <2> QED
    BY <2>8 DEF C!Next
<1>8. ~Started(table, s.table) => C!Look
  BY <1>1, <1>2 DEF C!Look
<1>9. CASE Plays(State, s)
  <2>1. /\ ~Started(table, s.table) /\ Ring(table) # {} /\ shown' = shown
        /\ Ring(table') \subseteq Ring(table) /\ Ring(table') # {}
        /\ Deals(cards, cards', Ring(table'))
    <3>1. IsRunning(s.table) /\ IsRunning(table)
      BY <1>1, <1>9 DEF Plays
    <3> QED
      BY <1>1, <1>4, <1>9, <3>1 DEF Plays, Started
  <2>2. /\ Ring(table) # {} /\ Ring(table)' \in (SUBSET Ring(table)) \ {{}}
        /\ shown' = shown
    BY <1>3, <2>1
  <2>3. cards'.hand \in [Ids -> SUBSET C!Card] /\ cards'.faceUp \in SUBSET C!Card
    BY <1>5, <2>1, CardsFields DEF Deals
  <2>4. C!Dealt(cards.left, cards.hand, cards'.hand, cards.community, Ring(table'))
    BY <1>6, <2>1
  <2>5. C!TurnUp
    BY <2>1 DEF C!TurnUp, C!Taken, Deals, Gone
  <2>6. C!Look
    BY <1>8, <2>1
  <2>7. C!Play
    BY <1>3, <2>2, <2>3, <2>4, <2>5, <2>6 DEF C!Play
  <2> QED
    BY <2>7 DEF C!Next
<1>10. CASE Ends(State, s)
  <2> DEFINE d == [cards' EXCEPT !.hand = shown']
  <2>1. /\ IsRunning(table) /\ ~IsRunning(table') /\ ~Started(table, s.table)
        /\ Deals(cards, d, Ring(table)) /\ cards'.hand = NoCards
        /\ s.table = table' /\ StateOK(s)
    BY <1>1, <1>10 DEF Ends, Plays, Started, Reaches
  <2>2. Ring(table)' = {} /\ Ring(table) # {} /\ shown' \in [Ids -> SUBSET C!Card]
    BY <1>1, <1>3, <1>4, <1>5, <2>1 DEF StateOK, Sound, TurnOnRing
  <2>3. cards' \in CardsType
    BY <1>1, <2>1 DEF StateOK
  <2>4. /\ d.left = cards'.left /\ d.community = cards'.community /\ d.hand = shown'
        /\ d.faceUp = cards'.faceUp
    BY <2>3 DEF CardsType
  <2> HIDE DEF d
  <2>5. C!Dealt(cards.left, cards.hand, shown', cards.community, Ring(table))
    BY <1>6, <2>1, <2>4
  <2>6. cards'.faceUp \in SUBSET C!Card
    BY <1>5, <2>3, CardsFields
  <2>7. C!TurnUp
    BY <2>1, <2>4 DEF C!TurnUp, C!Taken, Deals, Gone
  <2>8. C!Look
    BY <1>8, <2>1
  <2>9. C!End
    BY <1>5, <2>1, <2>2, <2>5, <2>6, <2>7, <2>8 DEF C!End
  <2> QED
    BY <2>9 DEF C!Next
<1>11. CASE Rests(State, s)
  <2>1. /\ ~IsRunning(table) /\ ~IsRunning(table') /\ ~Started(table, s.table)
        /\ cards' = cards /\ shown' \in {shown, NoCards} /\ s.table = table' /\ StateOK(s)
    BY <1>1, <1>11 DEF Rests, Plays, Started, Reaches
  <2>2. Ring(table) = {} /\ Ring(table)' = {}
    BY <1>3, <1>4, <2>1 DEF StateOK, Sound, TurnOnRing
  <2>3. C!Look
    BY <1>8, <2>1
  <2>4. C!Rest
    BY <1>5, <2>1, <2>2, <2>3 DEF C!Rest
  <2> QED
    BY <2>4 DEF C!Next
<1> QED
  BY <1>1, <1>7, <1>9, <1>10, <1>11 DEF Moves

LEMMA SoundPrimed == Sound(table') => Sound(table)'
BY DEF Sound, RingLinks, TurnOnRing, OneCycle, PointersSeated, SeatLinks, HandOpen, IsRunning,
       Ring, Contenders

LEMMA StepCards ==
  ASSUME Sizes, Inv, [Next]_vars
  PROVE  Inv' /\ [C!Next]_(C!vars)
<1>1. DeckSize \in Nat
  BY DEF Sizes
<1>2. CASE UNCHANGED vars
  <2>1. table' = table /\ cards' = cards /\ shown' = shown /\ seen' = seen
    BY <1>2 DEF vars
  <2>2. Inv'
    <3>1. Sound(table) => Sound(table)'
      BY <2>1, SoundPrimed
    <3>2. IsRunning(table)' <=> IsRunning(table)
      BY <2>1 DEF IsRunning
    <3> QED
      BY <2>1, <3>1, <3>2 DEF Inv, StateOK, State, OffDeck
  <2>3. UNCHANGED C!vars
    BY <2>1 DEF C!vars, Ring
  <2> QED
    BY <2>2, <2>3
<1>3. CASE Next
  <2>1. table.health = "ok" /\ StateOK(State)
    BY <1>3 DEF Inv, Next, Bet, FoldHand, Draw, Start, Expire, Purge, Join, Leave, Confirm,
                Available
  <2>2. PICK s : Reaches(s)
    BY <1>3, <2>1, NextReaches
  <2>3. C!Next
    BY <1>1, <2>1, <2>2, ReachesNext
  <2>4. table' = s.table /\ cards' = s.cards /\ shown' = s.shown
    BY <2>2 DEF Reaches, Becomes
  <2>5. s.table.health = "ok" => StateOK(s)
    BY <2>2 DEF Reaches
  <2>6. Inv'
    <3>1. Sound(table') => Sound(table)'
      BY SoundPrimed
    <3>2. IsRunning(table)' <=> IsRunning(table')
      BY DEF IsRunning
    <3>3. OffDeck(cards)' <=> OffDeck(cards')
      BY DEF OffDeck
    <3> QED
      BY <2>4, <2>5, <3>1, <3>2, <3>3 DEF Inv, StateOK, State
  <2> QED
    BY <2>3, <2>6
<1> QED
  BY <1>2, <1>3

LEMMA InitCards ==
  ASSUME Sizes, Init
  PROVE  Inv /\ C!Init
<1>1. /\ table = NewTable /\ shown = NoCards /\ seen = NoCards
      /\ cards = [left |-> 0, hand |-> NoCards, faceUp |-> {}, community |-> {}]
  BY DEF Init, NewDeck
<1>2. Sound(table) /\ ~IsRunning(table) /\ Ring(table) = {}
  BY <1>1, NewTableSound DEF NewTable, IsRunning, Ring
<1>3. cards \in CardsType
  BY <1>1, NoCardsType DEF CardsType, Sizes
<1>4. Inv
  <2>1. OffDeck(cards)
    BY <1>1, NoHandsOffDeck
  <2> QED
    BY <1>1, <1>2, <1>3, <2>1, NoCardsType DEF Inv, StateOK, State
<1>5. C!Init
  BY <1>1, <1>2 DEF C!Init, C!NoCards, NoCards
<1> QED
  BY <1>4, <1>5

\* The dealing of the three games keeps the promises of module Cards.
DealsCards == C!Spec

\* Every request, with the advance_turn it makes, and every call of the monitor
\* moves the cards in one step of Cards, whatever the round deals, whether the
\* deck runs out, and whether the draw panics (hand.rs, deck.rs, the three games).
THEOREM GamesDealCards ==
  ASSUME Sizes
  PROVE  Spec => DealsCards
<1>1. Init => Inv /\ C!Init
  BY InitCards
<1>2. Inv /\ [Next]_vars => Inv' /\ [C!Next]_(C!vars)
  BY StepCards
<1> QED
  BY <1>1, <1>2, PTL DEF Spec, DealsCards, C!Spec

\* In the games as they are dealt, a card is in one place only.
THEOREM DealtInOnePlace ==
  ASSUME Sizes
  PROVE  Spec => []C!NoCardTwice
<1>1. C!DeckAssumption
  BY DEF C!DeckAssumption, Sizes
<1>2. C!Spec => []C!NoCardTwice
  BY <1>1, C!CardsInOnePlace
<1> QED
  BY <1>2, GamesDealCards DEF DealsCards

\* In the games as they are dealt, no player's pages, taken together since the
\* shuffle, show a card of the deck or a hidden card of another hand.
THEOREM DealtHandsStaySecret ==
  ASSUME Sizes
  PROVE  Spec => []C!Secret
<1>1. C!DeckAssumption
  BY DEF C!DeckAssumption, Sizes
<1>2. C!Spec => []C!Secret
  BY <1>1, C!HandsStaySecret
<1> QED
  BY <1>2, GamesDealCards DEF DealsCards

-----------------------------------------------------------------------------
(* How many cards a round deals.                                            *)

\* A deck that is long enough for all the players of a full table to the last
\* round.  How often players draw is the turn's to say, so there is no such
\* number for five card draw.
LongDeck ==
  /\ Game # "FiveCardDraw"
  /\ MaxPlayers * InHand(EndRound - 1) + OnBoard(EndRound - 1) <= DeckSize

\* The deck has not run out.
Enough(c) == c.left > 0 \/ LongDeck

\* What a full table has been dealt at most once round is dealt.
Spent(round) == MaxPlayers * InHand(round) + OnBoard(round)

\* Each round deals what the rules say.
LEMMA RoundsRule ==
  ASSUME NEW round \in Nat, round < EndRound
  PROVE  /\ InHand(round) \in Nat /\ OnBoard(round) \in Nat
         /\ InHand(round) = Down(round) + Up(round) + IF round = 0 THEN 0 ELSE InHand(round - 1)
         /\ OnBoard(round) = Board(round) + IF round = 0 THEN 0 ELSE OnBoard(round - 1)
<1>1. CASE Game = "FiveCardDraw"
  <2>1. round \in {0, 1, 2}
    BY <1>1 DEF EndRound
  <2> QED
    BY <1>1, <2>1 DEF InHand, OnBoard, Down, Up, Board, FiveCardDrawDown
<1>2. CASE Game = "TexasHoldem"
  <2>1. round \in {0, 1, 2, 3}
    BY <1>2 DEF EndRound
  <2> QED
    BY <1>2, <2>1 DEF InHand, OnBoard, Down, Up, Board, TexasHoldemDown
<1>3. CASE Game = "SevenCardStud"
  <2>1. round \in {0, 1, 2, 3, 4}
    BY <1>3 DEF EndRound
  <2> QED
    BY <1>3, <2>1 DEF InHand, OnBoard, Down, Up, Board, SevenCardStudDown
<1> QED
  BY <1>1, <1>2, <1>3, GameAssumption

\* A long deck has the cards of the next round, for as many players as there are.
LEMMA DeckLasts ==
  ASSUME DeckSize \in Nat, LongDeck, NEW round \in Nat, round < EndRound,
         NEW players \in Nat, players <= MaxPlayers, NEW left \in Nat,
         IF round = 0 THEN left = DeckSize ELSE left + Spent(round - 1) >= DeckSize,
         NEW n, n = (Down(round) + Up(round)) * players + Board(round)
  PROVE  n \in Nat /\ n <= left /\ (left - n) + Spent(round) >= DeckSize
<1>1. MaxPlayers \in Nat
  BY NumberAssumption
<1>2. CASE Game = "TexasHoldem"
  <2>1. round \in {0, 1, 2, 3} /\ EndRound - 1 = 3
    BY <1>2 DEF EndRound
  <2>2. MaxPlayers * 2 + 5 <= DeckSize
    BY <1>2, <2>1 DEF LongDeck, InHand, OnBoard
  <2>3. Spent(round) = MaxPlayers * 2 + IF round = 0 THEN 0 ELSE round + 2
    BY <1>1, <1>2, <2>1 DEF Spent, InHand, OnBoard
  <2>4. round # 0 => Spent(round - 1) = MaxPlayers * 2 + IF round = 1 THEN 0 ELSE round + 1
    BY <1>1, <1>2, <2>1 DEF Spent, InHand, OnBoard
  <2>5. n = IF round = 0 THEN 2 * players ELSE IF round = 1 THEN 3 ELSE 1
    BY <1>2, <2>1 DEF Down, Up, Board, TexasHoldemDown
  <2> QED
    BY <1>1, <2>1, <2>2, <2>3, <2>4, <2>5
<1>3. CASE Game = "SevenCardStud"
  <2>1. round \in {0, 1, 2, 3, 4} /\ EndRound - 1 = 4
    BY <1>3 DEF EndRound
  <2>2. MaxPlayers * 7 <= DeckSize
    BY <1>1, <1>3, <2>1 DEF LongDeck, InHand, OnBoard
  <2>3. /\ round = 0 => Spent(round) = MaxPlayers * 3 /\ n = 3 * players
        /\ round = 1 => Spent(round) = MaxPlayers * 4 /\ n = players
                        /\ Spent(round - 1) = MaxPlayers * 3
        /\ round = 2 => Spent(round) = MaxPlayers * 5 /\ n = players
                        /\ Spent(round - 1) = MaxPlayers * 4
        /\ round = 3 => Spent(round) = MaxPlayers * 6 /\ n = players
                        /\ Spent(round - 1) = MaxPlayers * 5
        /\ round = 4 => Spent(round) = MaxPlayers * 7 /\ n = players
                        /\ Spent(round - 1) = MaxPlayers * 6
    BY <1>1, <1>3 DEF Spent, InHand, OnBoard, Down, Up, Board, SevenCardStudDown
  <2> QED
    BY <1>1, <2>1, <2>2, <2>3
<1> QED
  BY <1>2, <1>3, GameAssumption DEF LongDeck

\* As many cards as are asked for come off a deck that has them.
LEMMA OffCount ==
  ASSUME NEW n \in Nat, NEW first \in Nat, NEW k \in Nat, first + k <= n
  PROVE  IsFiniteSet(Off(n, first, k)) /\ Cardinality(Off(n, first, k)) = k
<1>1. Off(n, first, k) = (n - first - k + 1)..(n - first)
  BY DEF Off
<1>2. n - first - k + 1 \in Int /\ n - first \in Int
  OBVIOUS
<1> QED
  BY <1>1, <1>2, FS_Interval

\* Cards that come to a hand or the board from the deck count.
LEMMA MoreCards ==
  ASSUME NEW S, NEW T, IsFiniteSet(S), IsFiniteSet(T), S \cap T = {}
  PROVE  Cardinality(S \cup T) = Cardinality(S) + Cardinality(T)
<1>1. Cardinality(S) \in Nat /\ Cardinality(T) \in Nat
  BY FS_CardinalityType
<1>2. Cardinality(S \cap T) = 0
  BY FS_EmptySet
<1>3. Cardinality(S \cup T) = Cardinality(S) + Cardinality(T) - Cardinality(S \cap T)
  BY FS_Union, Zenon
<1> QED
  BY <1>1, <1>2, <1>3

LEMMA CardsFinite ==
  ASSUME DeckSize \in Nat, NEW S, S \subseteq Card
  PROVE  IsFiniteSet(S) /\ Cardinality(S) \in Nat
<1>1. IsFiniteSet(Card)
  BY FS_Interval DEF Card
<1> QED
  BY <1>1, FS_Subset, FS_CardinalityType

\* What the rules say of the cards of those in the hand and of the board.
Matches(c, players, round) ==
  /\ Cardinality(c.community) = OnBoard(round)
  /\ \A p \in players : Cardinality(c.hand[p]) = InHand(round)

\* The cards are complete unless the deck ran out, which a long one does not.
Full(c, players, round) ==
  /\ c.community \cap 1..c.left = {}
  /\ LongDeck => c.left + Spent(round) >= DeckSize
  /\ Enough(c) => Matches(c, players, round)

\* A round that deals from the full deck, or to hands that are complete, leaves
\* complete hands.
LEMMA RoundFull ==
  ASSUME DeckSize \in Nat, NEW c \in CardsType, OffDeck(c),
         NEW t, Sound(t), IsRunning(t), Cardinality(Ring(t)) <= MaxPlayers,
         NEW round \in Nat, round < EndRound,
         IF round = 0 THEN c = NewDeck ELSE Full(c, Ring(t), round - 1),
         NEW d, d = DealRound(c, t, round)
  PROVE  Full(d, Ring(t), round)
<1> DEFINE e == Down(round) + Up(round)
           N == Cardinality(Ring(t))
           n == Number(t, round)
           before == IF round = 0 THEN 0 ELSE InHand(round - 1)
           boardBefore == IF round = 0 THEN 0 ELSE OnBoard(round - 1)
<1>1. /\ c.left \in Nat /\ c.left <= DeckSize /\ c.hand \in [Ids -> SUBSET Card]
      /\ c.community \subseteq Card /\ \A p \in Ids : c.hand[p] \subseteq Card
  BY CardsFields
<1>2. /\ N \in Nat /\ t.turn \in Ring(t)
      /\ Place(t, t.turn) \in [Ring(t) -> 0..(N - 1)]
  <2>1. t.turn \in Ring(t)
    BY RingSeated
  <2> QED
    BY <2>1, Places, Zenon
<1>3. e \in 0..5 /\ Board(round) \in Nat
  BY EachRound
<1>4. e * N \in Nat /\ n = e * N + Board(round) /\ n \in Nat
  BY <1>2, <1>3 DEF Number
<1>5. /\ d.left = Max({0, c.left - n})
      /\ \A p \in Ring(t) : d.hand[p] = c.hand[p] \cup Got(c, t, round, p)
      /\ d.community = c.community \cup GotBoard(c, round)
  <2>1. /\ d.left = Max({0, c.left - n}) /\ d.community = c.community \cup GotBoard(c, round)
        /\ d.hand = [p \in Ids |-> IF p \in Ring(t) THEN c.hand[p] \cup Got(c, t, round, p)
                                   ELSE c.hand[p]]
    BY DealRoundFields
  <2>2. Ring(t) \subseteq Ids
    BY DEF Ring
  <2> QED
    BY <2>1, <2>2
<1>6. d.left = IF c.left >= n THEN c.left - n ELSE 0
  <2>1. Max({0, c.left - n}) = IF 0 >= c.left - n THEN 0 ELSE c.left - n
    BY <1>1, <1>4, MaxOfTwo
  <2> QED
    BY <1>1, <1>4, <1>5, <2>1
<1>7. /\ c.community \cap 1..c.left = {}
      /\ Enough(c) => /\ Cardinality(c.community) = boardBefore
                      /\ \A p \in Ring(t) : Cardinality(c.hand[p]) = before
      /\ LongDeck => IF round = 0 THEN c.left = DeckSize ELSE c.left + Spent(round - 1) >= DeckSize
  <2>1. CASE round = 0
    <3>1. NewDeck.left = DeckSize /\ NewDeck.community = {} /\ \A p \in Ids : NewDeck.hand[p] = {}
      BY NoCardsType DEF NewDeck
    <3> QED
      BY <2>1, <3>1, FS_EmptySet DEF Ring
  <2>2. CASE round # 0
    BY <2>2 DEF Full, Matches
  <2> QED
    BY <2>1, <2>2
<1>8. LongDeck => n <= c.left /\ (c.left - n) + Spent(round) >= DeckSize
  BY <1>1, <1>2, <1>4, <1>7, DeckLasts
<1>9. Enough(d) => n <= c.left /\ Enough(c)
  BY <1>1, <1>4, <1>6, <1>8 DEF Enough
<1> HIDE DEF n
<1>10. LongDeck => d.left + Spent(round) >= DeckSize
  BY <1>6, <1>8
<1>11. d.community \cap 1..d.left = {}
  <2>1. \A x \in 1..d.left : x \in 1..c.left
    BY <1>1, <1>4, <1>6
  <2>2. ASSUME NEW x \in GotBoard(c, round), x \in 1..d.left
        PROVE  FALSE
    <3>1. x \in 1..c.left /\ c.left - x <= Board(round) - 1
      BY <1>1, <1>3, <2>2 DEF GotBoard, Off
    <3>2. x <= c.left - n /\ n <= c.left
      BY <1>1, <1>4, <1>6, <2>2
    <3> QED
      BY <1>1, <1>3, <1>4, <3>1, <3>2
  <2> QED
    BY <1>5, <1>7, <2>1, <2>2
<1>12. ASSUME n <= c.left
       PROVE  /\ Cardinality(d.community) = Cardinality(c.community) + Board(round)
              /\ \A p \in Ring(t) : Cardinality(d.hand[p]) = Cardinality(c.hand[p]) + e
  <2>1. 0 + Board(round) <= c.left
    BY <1>1, <1>3, <1>4, <1>12
  <2>2. IsFiniteSet(GotBoard(c, round)) /\ Cardinality(GotBoard(c, round)) = Board(round)
    BY <1>1, <1>3, <2>1, OffCount DEF GotBoard
  <2>3. c.community \cap GotBoard(c, round) = {}
    BY <1>7 DEF GotBoard, Off
  <2>4. Cardinality(d.community) = Cardinality(c.community) + Board(round)
    BY <1>1, <1>5, <2>2, <2>3, MoreCards, CardsFinite
  <2>5. ASSUME NEW p \in Ring(t)
        PROVE  Cardinality(d.hand[p]) = Cardinality(c.hand[p]) + e
    <3> DEFINE first == Place(t, t.turn)[p] * e
    <3>1. Place(t, t.turn)[p] \in Nat /\ Place(t, t.turn)[p] < N
      BY <1>2
    <3>2. first \in Nat /\ first + e <= N * e /\ N * e = e * N
      <4>1. e \in Nat
        BY <1>3
      <4> QED
        BY <1>2, <1>3, <3>1, <4>1, SharesFollow
    <3> HIDE DEF first
    <3>3. first + e <= c.left
      BY <1>1, <1>3, <1>4, <1>12, <3>2
    <3>4. Got(c, t, round, p) = Off(c.left, first, e)
      BY DEF Got, Share, first
    <3>5. IsFiniteSet(Got(c, t, round, p)) /\ Cardinality(Got(c, t, round, p)) = e
      BY <1>1, <1>3, <3>2, <3>3, <3>4, OffCount
    <3>6. c.hand[p] \cap Got(c, t, round, p) = {} /\ p \in Ids
      BY <3>4 DEF OffDeck, Off, Ring
    <3> QED
      BY <1>1, <1>5, <3>5, <3>6, MoreCards, CardsFinite
  <2> QED
    BY <2>4, <2>5
<1>13. InHand(round) = e + before /\ OnBoard(round) = Board(round) + boardBefore
  BY RoundsRule
<1>14. before \in Nat /\ boardBefore \in Nat
  <2>1. round # 0 => round - 1 \in Nat /\ round - 1 < EndRound
    BY EndRoundType
  <2> QED
    BY <2>1, RoundsRule
<1> HIDE DEF e, before, boardBefore
<1>15. Enough(d) => Matches(d, Ring(t), round)
  BY <1>3, <1>7, <1>9, <1>12, <1>13, <1>14 DEF Matches
<1> QED
  BY <1>10, <1>11, <1>15 DEF Full

\* What the calls after a round leave of it: fewer players, the same cards.
LEMMA FewerFull ==
  ASSUME NEW c, NEW d, NEW players, NEW fewer, NEW round, Full(c, players, round),
         fewer \subseteq players, d.left = c.left, d.community = c.community,
         \A p \in fewer : d.hand[p] = c.hand[p]
  PROVE  Full(d, fewer, round)
BY DEF Full, Matches, Enough

\* The rounds that finish_remaining_rounds deals leave complete hands.
LEMMA AllDealtFull ==
  ASSUME DeckSize \in Nat, NEW s, StateOK(s), IsRunning(s.table),
         Cardinality(Ring(s.table)) <= MaxPlayers,
         Full(s.cards, Ring(s.table), s.table.round),
         NEW u, u.round \in Nat, s.table.round <= u.round,
         NEW d, d = AllDealt(s, u)
  PROVE  Full(d, Ring(s.table), IF u.round < EndRound THEN u.round ELSE EndRound - 1)
<1> DEFINE t == s.table
           last == IF u.round < EndRound THEN u.round ELSE EndRound - 1
           first == t.round + 1
           dealt == Dealing(s.cards, t, first, last)
           Good(k) == /\ dealt[k] \in CardsType /\ OffDeck(dealt[k])
                      /\ Full(dealt[k], Ring(t), k)
           Bad == {k \in t.round..last : ~Good(k)}
<1>1. /\ t.round \in Nat /\ t.round < EndRound /\ EndRound \in Nat
      /\ Sound(t) /\ s.cards \in CardsType /\ OffDeck(s.cards)
  BY EndRoundType DEF StateOK, Sound, HandOpen, TableType
<1>2. Min({u.round, EndRound - 1}) = last
  <2> DEFINE S == {u.round, EndRound - 1}
  <2>1. last \in S /\ \A x \in S : last <= x
    BY <1>1
  <2>2. Min(S) \in S /\ \A x \in S : Min(S) <= x
    BY <2>1, Zenon DEF Min
  <2> QED
    BY <1>1, <2>1, <2>2
<1>3. last \in Nat /\ first \in Nat \ {0} /\ first - 1 = t.round /\ t.round <= last /\ last < EndRound
  BY <1>1
<1> HIDE DEF last
<1>4. d = DealRounds(s.cards, t, first, last)
  BY <1>2 DEF AllDealt
<1>5. /\ d = dealt[last] /\ dealt[t.round] = s.cards
      /\ \A k \in first..last : dealt[k] = DealRound(dealt[k - 1], t, k)
  BY <1>3, <1>4, DealingSteps
<1> HIDE DEF dealt
<1>6. ASSUME NEW k \in first..last, Good(k - 1)
      PROVE  Good(k)
  <2>1. k \in Nat /\ k < EndRound /\ k # 0
    BY <1>1, <1>3
  <2>2. dealt[k] = DealRound(dealt[k - 1], t, k)
    BY <1>5
  <2>3. Full(dealt[k], Ring(t), k)
    BY <1>1, <1>6, <2>1, <2>2, RoundFull
  <2>4. dealt[k] \in CardsType /\ Deals(dealt[k - 1], dealt[k], Ring(t))
    BY <1>1, <1>6, <2>2, DealRoundDeals
  <2>5. OffDeck(dealt[k])
    BY <1>6, <2>4, DealsOffDeck
  <2> QED
    BY <2>3, <2>4, <2>5
<1>7. Good(t.round)
  BY <1>1, <1>5
<1> HIDE DEF Good
<1>8. Bad = {}
  <2> SUFFICES ASSUME Bad # {} PROVE FALSE
    OBVIOUS
  <2>1. Bad \subseteq Nat
    BY <1>1, <1>3
  <2>2. PICK k \in Bad : \A j \in Bad : k <= j
    BY <2>1, Least, Zenon
  <2>3. k \in first..last /\ k - 1 \in t.round..last /\ k \in Nat
    BY <1>1, <1>3, <1>7, <2>2
  <2>4. k - 1 \notin Bad
    <3> HIDE DEF Bad
    <3> QED
      BY <2>2, <2>3
  <2> QED
    BY <1>6, <2>2, <2>3, <2>4
<1>9. Good(last)
  BY <1>3, <1>8
<1> QED
  BY <1>5, <1>9 DEF Good, last

-----------------------------------------------------------------------------
(* One call, with the cards counted.                                        *)

\* No more players than seats, and in a hand as many cards as the rules say.
Complete(s) ==
  /\ Cardinality(s.table.players) <= MaxPlayers
  /\ IsRunning(s.table) => Full(s.cards, Ring(s.table), s.table.round)

\* What a showdown after the last round shows of some players, unless the deck
\* ran out.
Final(s, players) ==
  Enough(s.cards) =>
    /\ Cardinality(s.cards.community) = OnBoard(EndRound - 1)
    /\ \A p \in players : Cardinality(s.shown[p]) = InHand(EndRound - 1)

\* A call with which a hand comes to its end by its last round.
Shows(s, u, players) ==
  Ended(s.table, u.table) /\ u.table.round >= EndRound => Final(u, players)

\* There is room for those on the ring.
LEMMA RingFits ==
  ASSUME NEW t, Sound(t), Cardinality(t.players) <= MaxPlayers
  PROVE  Cardinality(Ring(t)) \in Nat /\ Cardinality(Ring(t)) <= MaxPlayers
<1>1. Ring(t) \subseteq t.players /\ t.players \subseteq Ids
  BY RingSeated
<1>2. IsFiniteSet(t.players)
  BY <1>1, IdsAssumption, FS_Subset
<1>3. Cardinality(t.players) \in Nat /\ IsFiniteSet(Ring(t))
      /\ Cardinality(Ring(t)) <= Cardinality(t.players)
  BY <1>1, <1>2, FS_Subset, FS_CardinalityType
<1>4. Cardinality(Ring(t)) \in Nat
  BY <1>3, FS_CardinalityType
<1> QED
  BY <1>3, <1>4, NumberAssumption

\* A call keeps the cards complete when it starts a hand in its first round,
\* goes on with the round or to the next, or ends the hand.
LEMMA AfterFull ==
  ASSUME DeckSize \in Nat, NEW s, StateOK(s), Complete(s), NEW u, Sound(u),
         Cardinality(u.players) <= MaxPlayers, NEW contenders,
         Started(s.table, u) => u.round = 0,
         IsRunning(s.table) /\ IsRunning(u) =>
           Ring(u) \subseteq Ring(s.table) /\ u.round \in {s.table.round, s.table.round + 1},
         Ended(s.table, u) => s.table.round <= u.round,
         NEW a, a = After(s, u, contenders)
  PROVE  a.table = u /\ Complete(a) /\ Shows(s, a, Ring(s.table) \cap contenders)
<1> DEFINE t == s.table
           c == s.cards
<1>1. /\ Sound(t) /\ c \in CardsType /\ OffDeck(c)
      /\ t.round \in Nat /\ u.round \in Nat /\ EndRound \in Nat \ {0}
      /\ IsRunning(t) => t.round < EndRound
      /\ IsRunning(u) => u.round < EndRound
  BY EndRoundType DEF StateOK, Sound, TableType, HandOpen
<1>2. /\ Cardinality(Ring(t)) <= MaxPlayers /\ Cardinality(Ring(u)) <= MaxPlayers
  BY <1>1, RingFits DEF Complete
<1>3. CASE Started(t, u)
  <2>1. ~IsRunning(t) /\ IsRunning(u) /\ u.round = 0
    BY <1>3 DEF Started
  <2> DEFINE d == DealRound(NewDeck, u, 0)
  <2>2. a.table = u /\ a.cards = d
    BY <1>3 DEF After
  <2>3. NewDeck \in CardsType /\ OffDeck(NewDeck)
    <3>1. NewDeck.hand = NoCards
      BY DEF NewDeck
    <3>2. NewDeck \in CardsType
      BY NoCardsType DEF NewDeck, CardsType
    <3> QED
      BY <3>1, <3>2, NoHandsOffDeck
  <2>4. Full(d, Ring(u), 0)
    BY <1>1, <1>2, <2>1, <2>3, RoundFull
  <2> HIDE DEF d
  <2> QED
    BY <2>1, <2>2, <2>4 DEF Complete, Shows, Ended
<1>4. CASE Ended(t, u)
  <2>1. IsRunning(t) /\ ~IsRunning(u) /\ ~Started(t, u)
    BY <1>4 DEF Ended, Started
  <2> DEFINE d == AllDealt(s, u)
             h == HandsOf(d, contenders)
  <2>2. /\ a.table = u /\ a.cards = HandsOf(d, {}) /\ a.shown = h.hand
    BY <1>4, <2>1 DEF After
  <2>3. d \in CardsType
    BY <1>1, <1>4, <2>1, AllDealtDeals
  <2>4. Full(d, Ring(t), IF u.round < EndRound THEN u.round ELSE EndRound - 1)
    BY <1>1, <1>2, <1>4, <2>1, AllDealtFull DEF Complete
  <2> HIDE DEF d
  <2>5. /\ a.cards.left = d.left /\ a.cards.community = d.community
        /\ \A p \in Ids : p \in contenders => a.shown[p] = d.hand[p]
    BY <2>2, <2>3 DEF HandsOf, CardsType
  <2>6. ASSUME u.round >= EndRound, Enough(a.cards)
        PROVE  /\ Cardinality(a.cards.community) = OnBoard(EndRound - 1)
               /\ \A p \in Ring(t) \cap contenders : Cardinality(a.shown[p]) = InHand(EndRound - 1)
    <3>1. Enough(d) /\ ~(u.round < EndRound)
      BY <1>1, <2>5, <2>6 DEF Enough
    <3>2. Matches(d, Ring(t), EndRound - 1)
      BY <2>4, <3>1 DEF Full
    <3> QED
      BY <2>5, <3>2 DEF Matches, Ring
  <2> QED
    BY <2>1, <2>2, <2>6 DEF Complete, Shows, Final
<1>5. CASE ~Started(t, u) /\ ~Ended(t, u)
  <2> DEFINE d == IF IsRunning(u) /\ u.round > t.round THEN DealRound(c, u, u.round) ELSE c
             h == HandsOf(d, u.players)
  <2>1. a.table = u /\ a.cards = h
    BY <1>5 DEF After
  <2>2. ASSUME IsRunning(u)
        PROVE  Full(h, Ring(u), u.round)
    <3>1. IsRunning(t) /\ Ring(u) \subseteq Ring(t) /\ u.round \in {t.round, t.round + 1}
      BY <1>5, <2>2 DEF Started
    <3>2. Full(c, Ring(u), t.round)
      BY <3>1, FewerFull DEF Complete
    <3>3. d \in CardsType /\ Full(d, Ring(u), u.round)
      <4>1. CASE u.round = t.round
        BY <1>1, <3>2, <4>1
      <4>2. CASE u.round = t.round + 1
        <5>1. d = DealRound(c, u, u.round) /\ u.round # 0 /\ u.round - 1 = t.round
          BY <1>1, <2>2, <4>2
        <5> HIDE DEF d
        <5>2. Full(d, Ring(u), u.round)
          BY <1>1, <1>2, <2>2, <3>2, <5>1, RoundFull
        <5>3. d \in CardsType
          BY <1>1, <2>2, <5>1, DealRoundDeals
        <5> QED
          BY <5>2, <5>3
      <4> QED
        BY <3>1, <4>1, <4>2
    <3> HIDE DEF d
    <3>4. /\ h.left = d.left /\ h.community = d.community
          /\ \A p \in Ids : p \in u.players => h.hand[p] = d.hand[p]
      BY <3>3 DEF HandsOf, CardsType
    <3>5. Ring(u) \subseteq u.players /\ Ring(u) \subseteq Ids
      BY RingSeated DEF Ring
    <3> QED
      BY <3>3, <3>4, <3>5, FewerFull
  <2> HIDE DEF h
  <2> QED
    BY <1>5, <2>1, <2>2 DEF Complete, Shows
<1> QED
  BY <1>3, <1>4, <1>5

-----------------------------------------------------------------------------
(* What the calls do to the number of players and the round.                *)

\* A turn that moves on goes on with the round, or to the next.
LEMMA AdvanceRound ==
  ASSUME NEW t \in TableType, NEW rank
  PROVE  LET u == AdvanceTurn(t, rank)
         IN IsRunning(u) /\ u.round < EndRound => u.round \in {t.round, t.round + 1}
<1> DEFINE moved == MarkTurnStarted([t EXCEPT !.turn = NextBettingNode(t, t.turn)])
           last == IF t.round < EndRound THEN EndRound ELSE t.round + 1
           u == AdvanceTurn(t, rank)
<1>1. t.round \in Nat /\ EndRound \in Nat
  BY EndRoundType DEF TableType
<1>2. moved \in TableType /\ moved.round = t.round
  <2>1. NextBettingNode(t, t.turn) \in Pointer
    BY NextBettingNodeOnRing DEF Ring, Pointer
  <2> QED
    BY <2>1 DEF MarkTurnStarted, TableType
<1>3. [t EXCEPT !.health = "selflock"].round = t.round
  BY DEF TableType
<1>4. ASSUME NEW v \in TableType, NEW r \in Nat
      PROVE  [v EXCEPT !.round = r].round = r /\ EndGame([v EXCEPT !.round = r], rank).round = r
  <2> DEFINE w == [v EXCEPT !.round = r]
  <2>1. w \in TableType /\ w.round = r
    BY DEF TableType
  <2> HIDE DEF w
  <2>2. EndGame(w, rank).round = r
    BY <2>1, EndGameRound
  <2> QED
    BY <2>1, <2>2 DEF w
<1> HIDE DEF moved
<1>5. FinishRemainingRounds(t, rank).round = last
  BY <1>1, <1>4 DEF FinishRemainingRounds
<1>6. NextRound(moved, rank).round = t.round + 1
  <2>1. [moved EXCEPT !.round = @ + 1] = [moved EXCEPT !.round = t.round + 1]
    BY <1>2
  <2>2. t.round + 1 \in Nat
    BY <1>1
  <2>3. /\ [moved EXCEPT !.round = t.round + 1].round = t.round + 1
        /\ EndGame([moved EXCEPT !.round = t.round + 1], rank).round = t.round + 1
    BY <1>2, <1>4, <2>2
  <2> QED
    BY <2>1, <2>3 DEF NextRound
<1>7. u \in {t, [t EXCEPT !.health = "selflock"], moved,
             FinishRemainingRounds(t, rank), NextRound(moved, rank)}
  BY DEF AdvanceTurn, moved
<1>8. u.round \in {t.round, t.round + 1, last}
  BY <1>2, <1>3, <1>5, <1>6, <1>7
<1> HIDE DEF u
<1> QED
  BY <1>1, <1>8 DEF u

LEMMA FewerSeated ==
  ASSUME NEW t, t.players \subseteq Ids, NEW u, u.players \subseteq t.players,
         Cardinality(t.players) <= MaxPlayers
  PROVE  Cardinality(u.players) <= MaxPlayers
<1>1. IsFiniteSet(t.players)
  BY IdsAssumption, FS_Subset
<1>2. Cardinality(t.players) \in Nat /\ IsFiniteSet(u.players)
      /\ Cardinality(u.players) <= Cardinality(t.players)
  BY <1>1, FS_Subset, FS_CardinalityType
<1>3. Cardinality(u.players) \in Nat
  BY <1>2, FS_CardinalityType
<1> QED
  BY <1>2, <1>3, NumberAssumption

\* A full table takes nobody.
LEMMA JoinSeats ==
  ASSUME NEW t \in TableType, Cardinality(t.players) <= MaxPlayers, NEW p \in Ids, NEW chips
  PROVE  Cardinality(AddPlayer(t, p, chips).players) <= MaxPlayers
<1> DEFINE u == AddPlayer(t, p, chips)
<1>1. IsFiniteSet(t.players) /\ Cardinality(t.players) \in Nat
  BY IdsAssumption, FS_Subset, FS_CardinalityType DEF TableType
<1>2. \/ u.players = t.players
      \/ u.players = t.players \cup {p} /\ ~(Cardinality(t.players) >= MaxPlayers)
  BY DEF AddPlayer, LinkNode, TableType
<1> HIDE DEF u
<1>3. /\ IsFiniteSet(t.players \cup {p}) /\ Cardinality(t.players \cup {p}) \in Nat
      /\ Cardinality(t.players \cup {p}) <= Cardinality(t.players) + 1
  <2>1. /\ IsFiniteSet(t.players \cup {p})
        /\ Cardinality(t.players \cup {p}) =
             IF p \in t.players THEN Cardinality(t.players) ELSE Cardinality(t.players) + 1
    BY <1>1, FS_AddElement, Zenon
  <2> QED
    BY <1>1, <2>1
<1>4. CASE u.players = t.players
  BY <1>4 DEF u
<1>5. CASE u.players = t.players \cup {p} /\ ~(Cardinality(t.players) >= MaxPlayers)
  <2>1. Cardinality(t.players \cup {p}) <= MaxPlayers
    BY <1>1, <1>3, <1>5, NumberAssumption
  <2> QED
    BY <1>5, <2>1 DEF u
<1> QED
  BY <1>2, <1>4, <1>5

LEMMA BetSeats ==
  ASSUME NEW t \in TableType, NEW p \in Ids, NEW amount
  PROVE  /\ Raise(t, p, amount).players = t.players /\ AllIn(t, p).players = t.players
         /\ Check(t, p).players = t.players /\ KeepPlaying(t, p).players = t.players
<1>1. Raise(t, p, amount).players = t.players
  BY DEF Raise, TableType
<1>2. AllIn(t, p).players = t.players
  BY DEF AllIn, TableType
<1>3. Check(t, p).players = t.players
  BY DEF Check, TableType
<1>4. KeepPlaying(t, p).players = t.players
  BY DEF KeepPlaying, TableType
<1> QED
  BY <1>1, <1>2, <1>3, <1>4

\* A fold seats nobody elsewhere, and the others stay on the ring.
LEMMA FoldLeaves ==
  ASSUME NEW t, Sound(t), NEW p \in t.players, NEW rank \in Ranks[Contenders(t)]
  PROVE  LET f == Fold(t, p, rank)
         IN f.players = t.players /\ (IsRunning(f) => Ring(t) \ {p} \subseteq Ring(f))
<1>1. /\ Folded(t, p) \in TableType /\ Folded(t, p).players = t.players
      /\ Ring(Folded(t, p)) = Ring(t) \ {p}
  <2>1. t \in TableType /\ p \in Ids
    BY DEF Sound, TableType
  <2>2. Folded(t, p) \in TableType /\ Ring(Folded(t, p)) = Ring(t) \ {p}
    BY FoldedRing, Zenon
  <2>3. Folded(t, p).players = t.players
    BY <2>1, FoldedFields, Zenon
  <2> QED
    BY <2>2, <2>3
<1>2. Fold(t, p, rank) \in {Folded(t, p), EndGame(Folded(t, p), rank)}
  BY FoldedRing DEF Fold, Folded
<1>3. EndGame(Folded(t, p), rank).players = t.players
  BY <1>1, EndGameRound
<1>4. EndGame(Folded(t, p), rank) = Folded(t, p) \/ ~IsRunning(EndGame(Folded(t, p), rank))
  BY <1>1, EndGameFields DEF EndGame, IsRunning
<1> QED
  BY <1>1, <1>2, <1>3, <1>4

LEMMA RemoveLeaves ==
  ASSUME NEW t, Sound(t), t.health = "ok", NEW p \in t.players,
         NEW rank \in Ranks[Contenders(t)], NEW order \in Orders[t.players \ {p}]
  PROVE  LET r == Remove(t, p, order, rank)
         IN r.players \subseteq t.players /\ (IsRunning(r) => Ring(t) \ {p} \subseteq Ring(r))
<1>1. Remove(t, p, order, rank).players \subseteq t.players
  BY RemoveFields
<1>2. LET r == Remove(t, p, order, rank) IN r.turn = None \/ r.next = NextWithout(t, p)
  BY RemoveNext
<1>3. ASSUME NEW u, u.next = NextWithout(t, p)
      PROVE  Ring(t) \ {p} \subseteq Ring(u)
  <2>1. ASSUME NEW q \in Ring(t), q # p
        PROVE  u.next[q] # None
    <3>1. q = t.prev[p] => t.next[p] # None
      <4>1. q = t.prev[p] => p = t.next[q] /\ p \in Ring(t)
        BY <2>1 DEF Sound, RingLinks, TurnOnRing, Ring, TableType
      <4> QED
        BY <4>1 DEF Ring
    <3> QED
      BY <1>3, <2>1, <3>1 DEF NextWithout, Ring
  <2> QED
    BY <2>1 DEF Ring
<1> QED
  BY <1>1, <1>2, <1>3 DEF IsRunning

\* A hand starts with its first round, and with everybody at the table.
LEMMA StartSeats ==
  ASSUME NEW t, Sound(t), Cardinality(t.players) >= 2, NEW order \in Orders[t.players]
  PROVE  StartGame(t, order).players = t.players /\ StartGame(t, order).round = 0
<1>1. t \in TableType /\ t.players # {} /\ t.players \subseteq Ids
  <2>1. t \in TableType /\ t.players \subseteq Ids
    BY DEF Sound, TableType
  <2>2. t.players = {} => Cardinality(t.players) = 0
    BY <2>1, OrderType
  <2> QED
    BY <2>1, <2>2
<1> DEFINE s == Rebuild(t, order)
<1>2. s \in TableType /\ s.players = t.players /\ s.blind \in s.players
  BY <1>1, RebuildType, RebuildFields
<1> HIDE DEF s
<1>3. Deal(s).players = t.players /\ Deal(s).round = 0
  BY <1>2, DealFields
<1> QED
  BY <1>1, <1>3 DEF StartGame, s

-----------------------------------------------------------------------------
(* The requests of two calls, counted.                                      *)

\* Those who should be shown if the hand ends between s and u: they were in it,
\* it was not their turn, and they are still at the table.
Remaining(s, u) == {p \in Ring(s.table) \ {s.table.turn} : p \in u.table.players}

LEMMA AdvanceFull ==
  ASSUME DeckSize \in Nat, NEW s, StateOK(s), Complete(s), s.table.health = "ok",
         NEW C0 \in SUBSET Ids, NEW rank \in Ranks[C0], Contenders(s.table) \subseteq C0,
         NEW a, a = ThenAdvance(s, rank)
  PROVE  /\ Complete(a) /\ a.table.players = s.table.players
         /\ Shows(s, a, Ring(s.table))
         /\ ~IsRunning(s.table) => a.table = s.table
<1> DEFINE t == s.table
           u == AdvanceTurn(t, rank)
<1>1. Sound(t) /\ t \in TableType
  BY DEF StateOK, Sound
<1>2. Sound(u)
  BY <1>1, AdvanceTurnSound
<1>3. /\ u.players = t.players /\ u.round \in Nat /\ t.round <= u.round
      /\ IsRunning(u) => Ring(u) = Ring(t)
  BY <1>1, AdvanceTurnPlay, Zenon
<1>4. ~IsRunning(t) => u = t
  BY DEF AdvanceTurn, IsRunning
<1>5. IsRunning(u) => u.round \in {t.round, t.round + 1}
  BY <1>1, <1>2, AdvanceRound DEF Sound, HandOpen
<1>6. a = After(s, u, Contenders(t))
  BY DEF ThenAdvance
<1>7. Ring(t) \cap Contenders(t) = Ring(t)
  BY <1>1, RingSeated
<1> HIDE DEF u
<1>8. a.table = u /\ Complete(a) /\ Shows(s, a, Ring(t) \cap Contenders(t))
  <2>1. Cardinality(u.players) <= MaxPlayers
    BY <1>3 DEF Complete
  <2>2. ~Started(t, u)
    BY <1>4 DEF Started
  <2> QED
    BY <1>2, <1>3, <1>5, <1>6, <2>1, <2>2, AfterFull
<1> QED
  BY <1>3, <1>4, <1>7, <1>8

\* If a hand goes on after the first call, all who should be are still in it;
\* if that call ended it, then before the last round.
LEMMA TwoCallsFull ==
  ASSUME DeckSize \in Nat, NEW s, StateOK(s), Complete(s), IsRunning(s.table),
         NEW u, Sound(u), u.health = "ok", u.round = s.table.round,
         Cardinality(u.players) <= MaxPlayers,
         IsRunning(u) => /\ Ring(u) \subseteq Ring(s.table)
                         /\ Ring(s.table) \ {s.table.turn} \subseteq Ring(u),
         NEW contenders, NEW C0 \in SUBSET Ids, NEW rank \in Ranks[C0], Contenders(u) \subseteq C0,
         NEW a, a = ThenAdvance(After(s, u, contenders), rank)
  PROVE  Complete(a) /\ Shows(s, a, Remaining(s, a))
<1> DEFINE m == After(s, u, contenders)
           t == s.table
<1>1. Sound(t) /\ t.round \in Nat /\ t.round < EndRound /\ EndRound \in Nat
  BY EndRoundType DEF StateOK, Sound, TableType, HandOpen
<1>2. m.table = u /\ StateOK(m)
  BY <1>1, AfterMoves
<1>3. Complete(m)
  <2>1. ~Started(t, u) /\ t.round <= u.round
    BY <1>1 DEF Started
  <2> QED
    BY <2>1, AfterFull
<1>4. a = ThenAdvance(m, rank)
  OBVIOUS
<1> HIDE DEF m
<1>5. /\ Complete(a) /\ Shows(m, a, Ring(u)) /\ (~IsRunning(u) => a.table = u)
  BY <1>2, <1>3, <1>4, AdvanceFull
<1>6. CASE IsRunning(u)
  <2>1. Remaining(s, a) \subseteq Ring(u)
    BY <1>6 DEF Remaining
  <2> QED
    BY <1>2, <1>5, <1>6, <2>1 DEF Shows, Ended, Final
<1>7. CASE ~IsRunning(u)
  BY <1>1, <1>5, <1>7 DEF Shows
<1> QED
  BY <1>6, <1>7

\* Who draws holds as many cards as before, unless the deck runs out.
LEMMA ReplaceFull ==
  ASSUME DeckSize \in Nat, StateOK(State), Complete(State), IsRunning(table), IsDrawRound(table),
         NEW discard \in Discards(cards.hand[table.turn]),
         NEW s, s = ReplaceCards(table.turn, discard)
  PROVE  Complete(s)
<1> DEFINE p == table.turn
           k == Cardinality(discard)
           n == cards.left
           drawn == Off(n, 0, k)
<1>1. /\ Sound(table) /\ cards \in CardsType /\ OffDeck(cards)
      /\ Cardinality(table.players) <= MaxPlayers
      /\ Full(cards, Ring(table), table.round)
  BY DEF StateOK, Complete, State
<1>2. /\ n \in Nat /\ cards.hand \in [Ids -> SUBSET Card] /\ p \in Ids
  BY <1>1, CardsFields, RingSeated
<1>3. discard \subseteq cards.hand[p]
  BY DEF Discards
<1>4. IsFiniteSet(discard) /\ k \in Nat /\ IsFiniteSet(cards.hand[p])
      /\ Cardinality(cards.hand[p]) \in Nat
  <2>1. discard \subseteq Card /\ cards.hand[p] \subseteq Card
    BY <1>2, <1>3
  <2> QED
    BY <2>1, CardsFinite
<1> HIDE DEF k, n
<1>5. /\ s.table = table /\ s.cards.left = Max({0, n - k})
      /\ s.cards.community = cards.community
      /\ s.cards.hand = [cards.hand EXCEPT ![p] = (@ \ discard) \cup drawn]
  BY <1>1 DEF ReplaceCards, State, CardsType, n, k
<1>6. s.cards.left = IF n >= k THEN n - k ELSE 0
  <2>1. Max({0, n - k}) = IF 0 >= n - k THEN 0 ELSE n - k
    BY <1>2, <1>4, MaxOfTwo DEF n
  <2> QED
    BY <1>2, <1>4, <1>5, <2>1 DEF n
<1>7. ~LongDeck
  BY DEF LongDeck, IsDrawRound
<1>8. s.cards.community \cap 1..s.cards.left = {}
  <2>1. cards.community \cap 1..n = {}
    BY <1>1 DEF Full, n
  <2>2. \A x \in 1..s.cards.left : x \in 1..n
    BY <1>2, <1>4, <1>6 DEF n
  <2> QED
    BY <1>5, <2>1, <2>2
<1>9. ASSUME s.cards.left > 0
      PROVE  Matches(s.cards, Ring(table), table.round)
  <2>1. k <= n /\ n > 0
    BY <1>2, <1>4, <1>6, <1>9 DEF n
  <2>2. Matches(cards, Ring(table), table.round)
    BY <1>1, <2>1 DEF Full, Enough, n
  <2>3. IsFiniteSet(drawn) /\ Cardinality(drawn) = k
    BY <1>2, <1>4, <2>1, OffCount DEF n
  <2>4. (cards.hand[p] \ discard) \cap drawn = {}
    BY <1>1, <1>2 DEF OffDeck, Off, n
  <2> HIDE DEF drawn
  <2>5. /\ IsFiniteSet(cards.hand[p] \ discard)
        /\ Cardinality(cards.hand[p] \ discard) = Cardinality(cards.hand[p]) - k
    <3>1. cards.hand[p] \cap discard = discard
      BY <1>3
    <3> QED
      BY <1>4, <3>1, FS_Difference DEF k
  <2>6. Cardinality((cards.hand[p] \ discard) \cup drawn) = Cardinality(cards.hand[p])
    <3>1. Cardinality((cards.hand[p] \ discard) \cup drawn)
            = Cardinality(cards.hand[p] \ discard) + Cardinality(drawn)
      BY <2>3, <2>4, <2>5, MoreCards
    <3> QED
      BY <1>4, <2>3, <2>5, <3>1
  <2>7. \A q \in Ids : Cardinality(s.cards.hand[q]) = Cardinality(cards.hand[q])
    BY <1>2, <1>5, <2>6
  <2> QED
    BY <1>5, <2>2, <2>7 DEF Matches, Ring
<1>10. Full(s.cards, Ring(table), table.round)
  BY <1>7, <1>8, <1>9 DEF Full, Enough
<1> QED
  BY <1>1, <1>5, <1>10 DEF Complete

-----------------------------------------------------------------------------
(* Between two hands nobody's departure starts one.                         *)

\* The seats after the unconfirmed have gone: the turn is nobody's.
LEMMA RemoveUnconfirmedRests ==
  ASSUME NEW t, Sound(t), ~IsRunning(t), NEW order \in Orders[t.confirmed \cap t.players]
  PROVE  ~IsRunning(RemoveUnconfirmed(t, order))
<1> DEFINE out == t.players \ t.confirmed
           Clear(pointer) == IF pointer \in out THEN None ELSE pointer
           cleared == [t EXCEPT !.head = Clear(@), !.bettor = Clear(@), !.blind = Clear(@),
                                !.clock = "off"]
           left == Drop(cleared, out)
<1>1. t \in TableType /\ out \in SUBSET Ids /\ t.turn = None
  BY DEF Sound, TableType, IsRunning
<1>2. Clear(t.head) \in Pointer /\ Clear(t.bettor) \in Pointer /\ Clear(t.blind) \in Pointer
  BY <1>1 DEF TableType, Pointer
<1>3. t.players \ out = t.confirmed \cap t.players
  OBVIOUS
<1>4. RemoveUnconfirmed(t, order) \in {t, Rebuild(left, order)}
  BY Zenon DEF RemoveUnconfirmed, left, cleared, out, Clear
<1> HIDE DEF out, Clear, left
<1>5. cleared \in TableType /\ cleared.players = t.players /\ cleared.turn = None
  BY <1>1, <1>2 DEF TableType
<1> HIDE DEF cleared
<1>6. left \in TableType /\ left.players = t.confirmed \cap t.players /\ left.turn = None
  <2>1. left \in TableType
    BY <1>1, <1>5, DropType DEF left
  <2>2. left.players = cleared.players \ out /\ left.turn = cleared.turn
    BY <1>1, <1>5, DropFields DEF left
  <2> QED
    BY <1>3, <1>5, <2>1, <2>2
<1>7. Rebuild(left, order).turn = None
  <2>1. CASE left.players = {}
    BY <1>6, <2>1 DEF Rebuild, TableType
  <2>2. CASE left.players # {}
    <3>1. order \in Orders[left.players]
      BY <1>6
    <3>2. Rebuild(left, order).turn = left.turn
      BY <1>6, <2>2, <3>1, RebuildFields
    <3> QED
      BY <1>6, <3>2
  <2> QED
    BY <2>1, <2>2
<1> QED
  BY <1>1, <1>4, <1>7 DEF IsRunning

\* The seats after one player has gone.
LEMMA RemoveRests ==
  ASSUME NEW t, Sound(t), t.health = "ok", ~IsRunning(t), NEW p \in t.players,
         NEW rank \in Ranks[Contenders(t)], NEW order \in Orders[t.players \ {p}]
  PROVE  ~IsRunning(Remove(t, p, order, rank))
<1>1. /\ p \notin {t.prev[p], t.next[p]}
      /\ Folded(t, p) \in TableType
      /\ IsRunning(Folded(t, p)) <=> IsRunning(t)
  BY FoldedRing, Zenon
<1>2. Fold(t, p, rank) \in {Folded(t, p), EndGame(Folded(t, p), rank)}
  BY <1>1 DEF Fold, Folded
<1>3. EndGame(Folded(t, p), rank) = Folded(t, p) \/ ~IsRunning(EndGame(Folded(t, p), rank))
  BY <1>1, EndGameFields DEF EndGame, IsRunning
<1>4. LET r == Remove(t, p, order, rank) IN r.turn \in {None, Fold(t, p, rank).turn}
  BY RemoveFields
<1> QED
  BY <1>1, <1>2, <1>3, <1>4 DEF IsRunning

-----------------------------------------------------------------------------
(* Every request keeps the cards complete.                                  *)

\* A request leads to s with its cards complete, and shows complete hands.
Fills(s) == Becomes(s) /\ Complete(s) /\ Shows(State, s, Remaining(State, s))

\* A call of its own: if it ends a hand, then before the last round.
LEMMA CallFills ==
  ASSUME DeckSize \in Nat, StateOK(State), Complete(State), NEW u, Sound(u), NEW contenders,
         Cardinality(u.players) <= MaxPlayers,
         IsRunning(table) => /\ u.round = table.round
                             /\ IsRunning(u) => Ring(u) \subseteq Ring(table),
         ~IsRunning(table) /\ IsRunning(u) => u.round = 0,
         Becomes(After(State, u, contenders))
  PROVE  \E s : Fills(s)
<1> DEFINE s == After(State, u, contenders)
<1>1. State.table = table /\ table.round \in Nat /\ EndRound \in Nat
      /\ (IsRunning(table) => table.round < EndRound)
  BY EndRoundType DEF State, StateOK, Sound, TableType, HandOpen
<1>2. /\ Started(table, u) => u.round = 0
      /\ Ended(table, u) => u.round = table.round
  BY DEF Started, Ended
<1>3. s.table = u /\ Complete(s)
  <2>1. /\ Started(State.table, u) => u.round = 0
        /\ Ended(State.table, u) => State.table.round <= u.round
    BY <1>1, <1>2
  <2>2. IsRunning(State.table) /\ IsRunning(u) =>
          Ring(u) \subseteq Ring(State.table)
          /\ u.round \in {State.table.round, State.table.round + 1}
    BY <1>1
  <2>3. s = After(State, u, contenders)
    OBVIOUS
  <2> HIDE DEF s
  <2>4. s.table = u /\ Complete(s) /\ Shows(State, s, Ring(State.table) \cap contenders)
    BY <2>1, <2>2, <2>3, AfterFull
  <2> QED
    BY <2>4
<1> HIDE DEF s
<1>4. Becomes(s)
  BY DEF s
<1>5. Shows(State, s, Remaining(State, s))
  BY <1>1, <1>2, <1>3 DEF Shows, Ended
<1> QED
  BY <1>3, <1>4, <1>5 DEF Fills

LEMMA BetFills ==
  ASSUME DeckSize \in Nat, StateOK(State), Complete(State), IsRunning(table),
         NEW later, Sound(later), SamePlay(table, later), later.players = table.players,
         NEW isOk \in BOOLEAN, isOk => later.health = "ok", BetThenAdvance(later, isOk)
  PROVE  \E s : Fills(s)
<1>1. State.table = table /\ Ring(later) = Ring(table) /\ IsRunning(later)
      /\ later.round = table.round /\ Cardinality(later.players) <= MaxPlayers
  BY SamePlayRing DEF State, SamePlay, Complete
<1>2. CASE ~isOk /\ Becomes(After(State, later, {}))
  BY <1>1, <1>2, CallFills
<1>3. ASSUME isOk, NEW rank \in Ranks[Contenders(later)],
             Becomes(ThenAdvance(After(State, later, {}), rank))
      PROVE  \E s : Fills(s)
  <2>1. Contenders(later) \in SUBSET Ids
    BY ContendersSubset DEF Sound
  <2> DEFINE s == ThenAdvance(After(State, later, {}), rank)
  <2>2. Complete(s) /\ Shows(State, s, Remaining(State, s))
    BY <1>1, <1>3, <2>1, TwoCallsFull
  <2> QED
    BY <1>3, <2>2 DEF Fills
<1> QED
  BY <1>2, <1>3 DEF BetThenAdvance

LEMMA NextFills ==
  ASSUME Sizes, table.health = "ok", StateOK(State), Complete(State), Next
  PROVE  \E s : Fills(s)
<1>1. /\ DeckSize \in Nat /\ State.table = table /\ Sound(table) /\ table \in TableType
      /\ Contenders(table) \in SUBSET Ids /\ table.players \subseteq Ids
      /\ table.showdown # None => ~IsRunning(table)
      /\ IsRunning(table) => table.turn \in table.players /\ table.turn \in Ids
      /\ Cardinality(table.players) <= MaxPlayers
  BY RingSeated DEF Sizes, State, StateOK, Sound, HandOpen, TableType, Complete
<1>2. CASE Bet
  <2> DEFINE p == table.turn
  <2>1. IsRunning(table) /\ p \in Ids
    BY <1>1, <1>2 DEF Bet
  <2>2. ASSUME NEW amount \in Amounts,
               BetThenAdvance(Raise(table, p, amount), RaiseOk(table, p, amount))
        PROVE  \E s : Fills(s)
    <3>1. amount \in Nat
      BY DEF Sizes
    <3>2. /\ Sound(Raise(table, p, amount)) /\ SamePlay(table, Raise(table, p, amount))
          /\ Raise(table, p, amount).health = "ok"
          /\ Raise(table, p, amount).players = table.players
      BY <1>1, <2>1, <3>1, RaiseSound, BetPlay, BetSeats
    <3>3. RaiseOk(table, p, amount) \in BOOLEAN
      BY DEF RaiseOk
    <3> QED
      BY <1>1, <2>1, <2>2, <3>2, <3>3, BetFills
  <2>3. ASSUME BetThenAdvance(AllIn(table, p), AllInOk(table, p))
        PROVE  \E s : Fills(s)
    <3>1. /\ Sound(AllIn(table, p)) /\ SamePlay(table, AllIn(table, p))
          /\ AllIn(table, p).health = "ok" /\ AllIn(table, p).players = table.players
      BY <1>1, <2>1, AllInSound, BetPlay, BetSeats
    <3>2. AllInOk(table, p) \in BOOLEAN
      BY DEF AllInOk
    <3> QED
      BY <1>1, <2>1, <2>3, <3>1, <3>2, BetFills
  <2>4. ASSUME BetThenAdvance(Check(table, p), CheckOk(table, p))
        PROVE  \E s : Fills(s)
    <3>1. /\ Sound(Check(table, p)) /\ SamePlay(table, Check(table, p))
          /\ CheckOk(table, p) => Check(table, p).health = "ok"
          /\ Check(table, p).players = table.players
      BY <1>1, <2>1, CheckSound, BetPlay, BetSeats
    <3>2. CheckOk(table, p) \in BOOLEAN
      BY DEF CheckOk
    <3> QED
      BY <1>1, <2>1, <2>4, <3>1, <3>2, BetFills
  <2> QED
    BY <1>2, <2>2, <2>3, <2>4 DEF Bet
<1>3. CASE FoldHand
  <2> DEFINE p == table.turn
  <2>1. PICK rank \in Ranks[Contenders(table)] :
          /\ IsRunning(table)
          /\ Becomes(ThenAdvance(
               After(State, Fold(table, p, rank), Contenders(table) \ {p}), rank))
    BY <1>3 DEF FoldHand
  <2> DEFINE u == Fold(table, p, rank)
             a == ThenAdvance(After(State, u, Contenders(table) \ {p}), rank)
  <2>2. /\ Sound(u) /\ u.health = "ok" /\ u.round = table.round
        /\ IsRunning(u) => Ring(u) \subseteq Ring(table)
    BY <1>1, <2>1, FoldSound, FoldPlay
  <2>3. Contenders(u) \subseteq Contenders(table)
    BY <1>1, <2>1, ContendersFold
  <2>4. u.players = table.players /\ (IsRunning(u) => Ring(table) \ {p} \subseteq Ring(u))
    BY <1>1, <2>1, FoldLeaves
  <2>5. Becomes(a)
    BY <2>1
  <2> HIDE DEF u
  <2>6. Complete(a) /\ Shows(State, a, Remaining(State, a))
    BY <1>1, <2>1, <2>2, <2>3, <2>4, TwoCallsFull
  <2> QED
    BY <2>5, <2>6 DEF Fills
<1>4. CASE Draw
  <2>1. PICK discard \in Discards(cards.hand[table.turn]), rank \in Ranks[Contenders(table)] :
          /\ IsRunning(table) /\ IsDrawRound(table)
          /\ IF Panics(table.turn, discard)
             THEN Becomes([State EXCEPT !.table.health = "unwrap"])
             ELSE Becomes(ThenAdvance(ReplaceCards(table.turn, discard), rank))
    BY <1>4 DEF Draw
  <2>2. CASE Panics(table.turn, discard)
    <3> DEFINE s == [State EXCEPT !.table.health = "unwrap"]
    <3>1. /\ s.table = [table EXCEPT !.health = "unwrap"] /\ s.cards = cards
      BY DEF State
    <3>2. Becomes(s)
      BY <2>1, <2>2
    <3> HIDE DEF s
    <3>3. /\ s.table.turn = table.turn /\ s.table.next = table.next
          /\ s.table.players = table.players /\ s.table.round = table.round
      BY <1>1, <3>1 DEF TableType
    <3>4. Ring(s.table) = Ring(table) /\ IsRunning(s.table)
      BY <2>1, <3>3 DEF Ring, IsRunning
    <3>5. Complete(s)
      BY <2>1, <3>1, <3>3, <3>4 DEF Complete, State
    <3>6. Shows(State, s, Remaining(State, s))
      BY <3>4 DEF Shows, Ended
    <3> QED
      BY <3>2, <3>5, <3>6 DEF Fills
  <2>3. CASE ~Panics(table.turn, discard)
    <3> DEFINE s == ReplaceCards(table.turn, discard)
               a == ThenAdvance(s, rank)
    <3>1. s.table = table /\ StateOK(s)
      BY <1>1, <2>1, ReplaceDeals
    <3>2. Complete(s)
      BY <1>1, <2>1, ReplaceFull
    <3>3. Becomes(a)
      BY <2>1, <2>3
    <3> HIDE DEF s
    <3>4. Complete(a) /\ Shows(s, a, Ring(table))
      BY <1>1, <3>1, <3>2, AdvanceFull
    <3>5. Shows(State, a, Remaining(State, a))
      BY <1>1, <3>1, <3>4 DEF Shows, Final, Remaining
    <3> QED
      BY <3>3, <3>4, <3>5 DEF Fills
  <2> QED
    BY <2>2, <2>3
<1>5. CASE Start
  <2>1. PICK order \in Orders[table.players] :
          /\ Cardinality(table.players) >= 2 /\ ~IsRunning(table)
          /\ Becomes(After(State, StartGame(table, order), {}))
    BY <1>5 DEF Start
  <2>2. Sound(StartGame(table, order))
    BY <1>1, <2>1, StartGameSound
  <2>3. StartGame(table, order).players = table.players /\ StartGame(table, order).round = 0
    BY <1>1, <2>1, StartSeats
  <2> QED
    BY <1>1, <2>1, <2>2, <2>3, CallFills
<1>6. CASE Expire
  <2> DEFINE p == table.turn
  <2>1. PICK rank \in Ranks[Contenders(table)], order \in Orders[table.players \ {p}] :
          /\ IsRunning(table)
          /\ Becomes(ThenAdvance(
               After(State, Remove(table, p, order, rank), Contenders(table) \ {p}), rank))
    BY <1>6 DEF Expire
  <2> DEFINE u == Remove(table, p, order, rank)
             a == ThenAdvance(After(State, u, Contenders(table) \ {p}), rank)
  <2>2. Sound(u)
    BY <1>1, <2>1, RemoveSound
  <2>3. /\ u.health = "ok" /\ u.round = table.round
        /\ IsRunning(u) => Ring(u) \subseteq Ring(table)
    BY <1>1, <2>1, RemovePlay
  <2>4. Contenders(u) \subseteq Contenders(table)
    BY <1>1, <2>1, ContendersRemove
  <2>5. /\ u.players \subseteq table.players
        /\ IsRunning(u) => Ring(table) \ {p} \subseteq Ring(u)
    BY <1>1, <2>1, RemoveLeaves
  <2>6. Becomes(a)
    BY <2>1
  <2> HIDE DEF u
  <2>7. Cardinality(u.players) <= MaxPlayers
    BY <1>1, <2>5, FewerSeated
  <2>8. Complete(a) /\ Shows(State, a, Remaining(State, a))
    BY <1>1, <2>1, <2>2, <2>3, <2>4, <2>5, <2>7, TwoCallsFull
  <2> QED
    BY <2>6, <2>8 DEF Fills
<1>7. CASE Purge
  <2>1. PICK order \in Orders[table.confirmed \cap table.players] :
          /\ table.showdown # None
          /\ Becomes(After(State, RemoveUnconfirmed(table, order), {}))
    BY <1>7 DEF Purge
  <2> DEFINE u == RemoveUnconfirmed(table, order)
  <2>2. Sound(u) /\ ~IsRunning(u)
    BY <1>1, <2>1, RemoveUnconfirmedSound, RemoveUnconfirmedRests
  <2>3. u.players \subseteq table.players
    BY <1>1, <2>1, RemoveUnconfirmedWallets
  <2> HIDE DEF u
  <2>4. Cardinality(u.players) <= MaxPlayers
    BY <1>1, <2>3, FewerSeated
  <2>5. Becomes(After(State, u, {}))
    BY <2>1 DEF u
  <2> QED
    BY <1>1, <2>1, <2>2, <2>4, <2>5, CallFills
<1>8. ASSUME NEW p \in Ids, Join(p)
      PROVE  \E s : Fills(s)
  <2>1. PICK chips \in JoinChips : Becomes(After(State, AddPlayer(table, p, chips), {}))
    BY <1>8 DEF Join
  <2> DEFINE u == AddPlayer(table, p, chips)
  <2>2. Sound(u) /\ SamePlay(table, u)
    BY <1>1, AddPlayerSound, JoinPlay DEF Sizes
  <2>3. Cardinality(u.players) <= MaxPlayers
    BY <1>1, JoinSeats
  <2>4. Becomes(After(State, u, {}))
    BY <2>1
  <2> HIDE DEF u
  <2>5. Ring(u) = Ring(table) /\ (IsRunning(u) <=> IsRunning(table)) /\ u.round = table.round
    BY <2>2, SamePlayRing DEF SamePlay
  <2> QED
    BY <1>1, <2>2, <2>3, <2>4, <2>5, CallFills
<1>9. ASSUME NEW p \in Ids, Leave(p)
      PROVE  \E s : Fills(s)
  <2>1. PICK rank \in Ranks[Contenders(table)], order \in Orders[table.players \ {p}] :
          /\ p \in table.players
          /\ Becomes(After(State, Remove(table, p, order, rank), Contenders(table) \ {p}))
    BY <1>9 DEF Leave
  <2> DEFINE u == Remove(table, p, order, rank)
  <2>2. Sound(u)
    BY <1>1, <2>1, RemoveSound
  <2>3. u.round = table.round /\ (IsRunning(u) => Ring(u) \subseteq Ring(table))
    BY <1>1, <2>1, RemovePlay
  <2>4. u.players \subseteq table.players
    BY <1>1, <2>1, RemoveLeaves
  <2> HIDE DEF u
  <2>5. Cardinality(u.players) <= MaxPlayers
    BY <1>1, <2>4, FewerSeated
  <2>6. ~IsRunning(table) => ~IsRunning(u)
    BY <1>1, <2>1, RemoveRests DEF u
  <2>7. Becomes(After(State, u, Contenders(table) \ {p}))
    BY <2>1 DEF u
  <2> QED
    BY <1>1, <2>2, <2>3, <2>5, <2>6, <2>7, CallFills
<1>10. ASSUME NEW p \in Ids, Confirm(p)
       PROVE  \E s : Fills(s)
  <2>1. Becomes(After(State, KeepPlaying(table, p), {})) /\ ~IsRunning(table)
    BY <1>1, <1>10 DEF Confirm
  <2> DEFINE u == KeepPlaying(table, p)
  <2>2. Sound(u) /\ SamePlay(table, u) /\ u.players = table.players
    BY <1>1, KeepPlayingSound, JoinPlay, BetSeats
  <2>3. ~IsRunning(u)
    BY <2>1, <2>2, SamePlayRing
  <2> QED
    BY <1>1, <2>1, <2>2, <2>3, CallFills
<1> QED
  BY <1>2, <1>3, <1>4, <1>5, <1>6, <1>7, <1>8, <1>9, <1>10 DEF Next

-----------------------------------------------------------------------------
(* The cards are complete along every behaviour.                            *)

\* A table without players has no hand to fill.
LEMMA InitComplete ==
  ASSUME Init
  PROVE  Complete(State)
<1>1. table.players = {} /\ ~IsRunning(table)
  BY DEF Init, NewTable, IsRunning
<1>2. Cardinality(table.players) <= MaxPlayers
  BY <1>1, FS_EmptySet, NumberAssumption
<1> QED
  BY <1>1, <1>2 DEF Complete, State

\* A step keeps the cards complete, and shows complete hands when it ends one
\* by its last round.
LEMMA StepComplete ==
  ASSUME Sizes, Inv, Complete(State), [Next]_vars
  PROVE  /\ Complete(State)'
         /\ UNCHANGED vars \/ (Enough(cards') => ShowdownStep)
<1>1. CASE UNCHANGED vars
  <2>1. table' = table /\ cards' = cards
    BY <1>1 DEF vars
  <2>2. IsRunning(table)' <=> IsRunning(table)
    BY <2>1 DEF IsRunning
  <2>3. Full(cards, Ring(table), table.round)' <=> Full(cards, Ring(table), table.round)
    BY <2>1 DEF Full, Matches, Enough, Ring
  <2> QED
    BY <1>1, <2>1, <2>2, <2>3 DEF Complete, State
<1>2. CASE Next
  <2>1. table.health = "ok" /\ StateOK(State)
    BY <1>2 DEF Inv, Next, Bet, FoldHand, Draw, Start, Expire, Purge, Join, Leave, Confirm,
                Available
  <2>2. PICK s : Fills(s)
    BY <1>2, <2>1, NextFills
  <2>3. table' = s.table /\ cards' = s.cards /\ shown' = s.shown
    BY <2>2 DEF Fills, Becomes
  <2>4. Complete(s) /\ Shows(State, s, Remaining(State, s))
    BY <2>2 DEF Fills
  <2>5. Complete(State)'
    <3>1. IsRunning(table)' <=> IsRunning(table')
      BY DEF IsRunning
    <3>2. Full(cards, Ring(table), table.round)' <=> Full(cards', Ring(table'), table'.round)
      BY DEF Full, Matches, Enough, Ring
    <3> QED
      BY <2>3, <2>4, <3>1, <3>2 DEF Complete, State
  <2>6. Enough(cards') => ShowdownStep
    <3>1. State.table = table
      BY DEF State
    <3> QED
      BY <2>3, <2>4, <3>1 DEF Shows, Final, Remaining, ShowdownStep
  <2> QED
    BY <2>5, <2>6
<1> QED
  BY <1>1, <1>2

\* Where the cards are complete, and there were enough, they match the round.
LEMMA CompleteMatches ==
  ASSUME Complete(State)
  PROVE  Enough(cards) => HandsMatchRound
BY DEF Complete, State, Full, Matches, HandsMatchRound

\* Everybody in the hand holds the cards that the rules give for the round, and
\* the board has its cards, however many have folded, left, joined or drawn,
\* while a card is left in the deck or the deck cannot run out
\* (hand.rs:40, :127, the three games).
THEOREM HandsComplete ==
  ASSUME Sizes
  PROVE  Spec => [](cards.left > 0 \/ LongDeck => HandsMatchRound)
<1>1. Init => Inv /\ Complete(State)
  BY InitCards, InitComplete
<1>2. Inv /\ Complete(State) /\ [Next]_vars => Inv' /\ Complete(State)'
  BY StepCards, StepComplete
<1>3. Complete(State) => (cards.left > 0 \/ LongDeck => HandsMatchRound)
  BY CompleteMatches DEF Enough
<1> QED
  BY <1>1, <1>2, <1>3, PTL DEF Spec

\* Everybody who reaches the showdown after the last round, and stays at the
\* table, shows a complete hand to a complete board, with the same exception.
THEOREM ShowdownsComplete ==
  ASSUME Sizes
  PROVE  Spec => [][cards'.left > 0 \/ LongDeck => ShowdownStep]_vars
<1>1. Init => Inv /\ Complete(State)
  BY InitCards, InitComplete
<1>2. Inv /\ Complete(State) /\ [Next]_vars => Inv' /\ Complete(State)'
  BY StepCards, StepComplete
<1>3. Inv /\ Complete(State) /\ [Next]_vars
        => [cards'.left > 0 \/ LongDeck => ShowdownStep]_vars
  BY StepComplete DEF Enough
<1> QED
  BY <1>1, <1>2, <1>3, PTL DEF Spec

\* In hold'em and seven card stud, whose longest hand takes fewer cards than a
\* deck has (5 seats, 52 cards), no hand is ever short of a card.
THEOREM LongDecksSuffice ==
  ASSUME Sizes, LongDeck
  PROVE  Spec => []HandsMatchRound /\ [][ShowdownStep]_vars
<1>1. Init => Inv /\ Complete(State)
  BY InitCards, InitComplete
<1>2. Inv /\ Complete(State) /\ [Next]_vars => Inv' /\ Complete(State)'
  BY StepCards, StepComplete
<1>3. Complete(State) => HandsMatchRound
  BY CompleteMatches DEF Enough
<1>4. Inv /\ Complete(State) /\ [Next]_vars => [ShowdownStep]_vars
  BY StepComplete DEF Enough
<1> QED
  BY <1>1, <1>2, <1>3, <1>4, PTL DEF Spec
=============================================================================
