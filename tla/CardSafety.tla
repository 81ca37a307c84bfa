----------------------------- MODULE CardSafety -----------------------------
(***************************************************************************)
(* The theorems about module Cards, for every set of players and every     *)
(* size of the deck: no card is in two places, and no hidden card is seen. *)
(***************************************************************************)
EXTENDS Cards, FiniteSetTheorems, TLAPS

\* A set of hands and a board without a card in two places, next to a deck of
\* length n.
Apart(h, board, n) ==
  /\ board \cap 1..n = {}
  /\ \A p \in Players :
       /\ h[p] \cap board = {} /\ h[p] \cap 1..n = {}
       /\ \A q \in Players \ {p} : h[p] \cap h[q] = {}

\* Between hands nobody holds a card, and during one no showdown is shown.
EitherOr == dealtIn = {} \/ shown = NoCards

Idle == dealtIn = {} => hand = NoCards

IInv ==
  /\ TypeOK
  /\ Apart(hand, community, left) /\ Apart(shown, community, left)
  /\ EitherOr /\ Idle /\ Secret

\* The positions above m in a Vec of length n.
LEMMA Above ==
  ASSUME NEW m \in Nat, NEW n \in Nat, NEW x \in (m + 1)..n
  PROVE  x \in 1..n /\ x \notin 1..m
<1>1. x \in Int /\ m + 1 <= x /\ x <= n
  OBVIOUS
<1> QED BY <1>1

\* A deal off the end of the deck keeps hands, board and deck apart
\* (deck.rs:31 splits the Vec in two).
LEMMA DealtApart ==
  ASSUME NEW before \in Nat, NEW old \in [Players -> SUBSET Card],
         NEW new, NEW oldBoard, NEW players,
         Apart(old, oldBoard, before), Dealt(before, old, new, oldBoard, players)
  PROVE  Apart(new, community', left')
<1>1. /\ left' \in 0..before /\ left' \in Nat
      /\ new \in [Players -> SUBSET Card]
      /\ community' = oldBoard \cup (Taken(before) \ (UNION {new[p] : p \in Players}))
  BY DEF Dealt
<1>2. Taken(before) \subseteq 1..before /\ Taken(before) \cap 1..left' = {}
  <2>1. ASSUME NEW x \in Taken(before) PROVE x \in 1..before /\ x \notin 1..left'
    <3>1. x \in (left' + 1)..before
      BY DEF Taken
    <3> QED BY <1>1, <3>1, Above
  <2> QED BY <2>1
<1>3. 1..left' \subseteq 1..before
  BY <1>1
<1>4. \A p \in Players : new[p] \ old[p] \subseteq Taken(before)
  BY DEF Dealt
<1>5. ASSUME NEW p \in Players
      PROVE  /\ new[p] \cap community' = {} /\ new[p] \cap 1..left' = {}
             /\ \A q \in Players \ {p} : new[p] \cap new[q] = {}
  <2>1. new[p] \subseteq old[p] \cup Taken(before)
    BY <1>4
  <2>2. old[p] \cap oldBoard = {} /\ old[p] \cap 1..before = {}
    BY DEF Apart
  <2>3. oldBoard \cap 1..before = {}
    BY DEF Apart
  <2>4. new[p] \cap community' = {}
    BY <1>1, <1>2, <2>1, <2>2, <2>3
  <2>5. new[p] \cap 1..left' = {}
    BY <1>2, <1>3, <2>1, <2>2
  <2>6. ASSUME NEW q \in Players \ {p}
        PROVE  new[p] \cap new[q] = {}
    <3>1. (new[p] \ old[p]) \cap (new[q] \ old[q]) = {}
      BY DEF Dealt
    <3>2. old[p] \cap old[q] = {} /\ old[q] \cap 1..before = {}
      BY DEF Apart
    <3>3. new[q] \ old[q] \subseteq Taken(before)
      BY <1>4
    <3> QED BY <1>2, <1>4, <2>2, <3>1, <3>2, <3>3
  <2> QED BY <2>4, <2>5, <2>6
<1>6. community' \cap 1..left' = {}
  BY <1>1, <1>2, <1>3 DEF Apart
<1> QED BY <1>5, <1>6 DEF Apart

\* What is taken off a deck of n cards is cards of the deck.
LEMMA TakenIsOfTheDeck ==
  ASSUME NEW n \in Nat, n <= DeckSize, left' \in 0..n
  PROVE  Taken(n) \subseteq 1..n /\ Taken(n) \subseteq Card /\ left' \in 0..DeckSize
<1>1. left' \in Nat /\ left' <= n /\ DeckSize \in Nat
  BY DeckAssumption
<1>2. ASSUME NEW x \in Taken(n) PROVE x \in 1..n /\ x \in Card
  <2>1. x \in (left' + 1)..n
    BY DEF Taken
  <2>2. x \in 1..n
    BY <1>1, <2>1, Above
  <2> QED BY <1>1, <2>2 DEF Card
<1> QED BY <1>1, <1>2

\* With no card in any hand, only the board and the deck can overlap.
LEMMA NoCardsApart ==
  ASSUME NEW board, NEW n, board \cap 1..n = {}
  PROVE  Apart(NoCards, board, n)
BY DEF Apart, NoCards

\* Visible, of any hands h, board, face-up cards and showdown.
Page(h, board, up, sh, p) ==
  h[p] \cup board
    \cup (UNION {h[q] \cap up : q \in Players})
    \cup (UNION {sh[q] : q \in Players})

\* What a page shows is cards of the deal, and shows nothing that is still in
\* the deck.
LEMMA PageInCard ==
  ASSUME NEW h \in [Players -> SUBSET Card], NEW sh \in [Players -> SUBSET Card],
         NEW board \in SUBSET Card, NEW up, NEW p \in Players
  PROVE  Page(h, board, up, sh, p) \subseteq Card
<1>1. \A q \in Players : h[q] \subseteq Card /\ sh[q] \subseteq Card
  OBVIOUS
<1> SUFFICES ASSUME NEW x \in Page(h, board, up, sh, p) PROVE x \in Card
  OBVIOUS
<1> HIDE DEF Card
<1>2. x \in h[p] \/ x \in board \/ (\E q \in Players : x \in h[q]) \/ \E q \in Players : x \in sh[q]
  BY DEF Page
<1> QED BY <1>1, <1>2

LEMMA PageIsOut ==
  ASSUME NEW h, NEW board, NEW up, NEW sh, NEW n, NEW p \in Players,
         Apart(h, board, n), Apart(sh, board, n)
  PROVE  Page(h, board, up, sh, p) \cap 1..n = {}
<1>1. \A q \in Players : h[q] \cap 1..n = {} /\ sh[q] \cap 1..n = {}
  BY DEF Apart
<1>2. board \cap 1..n = {}
  BY DEF Apart
<1> SUFFICES ASSUME NEW x \in Page(h, board, up, sh, p), x \in 1..n PROVE FALSE
  OBVIOUS
<1>3. x \in h[p] \/ x \in board \/ (\E q \in Players : x \in h[q]) \/ \E q \in Players : x \in sh[q]
  BY DEF Page
<1> QED BY <1>1, <1>2, <1>3

\* During a hand a page shows of another hand only what lies face up.
LEMMA PageIsUp ==
  ASSUME NEW h, NEW board, NEW up, NEW n,
         NEW p \in Players, NEW q \in Players \ {p}, Apart(h, board, n)
  PROVE  Page(h, board, up, NoCards, p) \cap h[q] \subseteq up
<1>1. h[p] \cap h[q] = {} /\ h[q] \cap board = {}
  BY DEF Apart
<1>2. UNION {NoCards[r] : r \in Players} = {}
  BY DEF NoCards
<1> QED BY <1>1, <1>2 DEF Page

\* What the pages have shown is cards.
LEMMA LookType ==
  ASSUME TypeOK, Look,
         hand' \in [Players -> SUBSET Card], shown' \in [Players -> SUBSET Card],
         community' \in SUBSET Card
  PROVE  seen' \in [Players -> SUBSET Card]
<1>1. \A p \in Players : Visible(p)' = Page(hand', community', faceUp', shown', p)
  BY DEF Visible, Page
<1>2. \A p \in Players : Visible(p)' \subseteq Card
  BY <1>1, PageInCard
<1>3. \A p \in Players : seen[p] \subseteq Card
  BY DEF TypeOK
<1> QED BY <1>2, <1>3 DEF Look

\* The server starts with an empty table.
LEMMA InitIInv == Init => IInv
<1> SUFFICES ASSUME Init PROVE IInv
  OBVIOUS
<1>1. hand = NoCards /\ shown = NoCards /\ left = 0 /\ community = {} /\ dealtIn = {}
  BY DEF Init
<1>2. Apart(hand, community, left) /\ Apart(shown, community, left)
  BY <1>1, NoCardsApart
<1>3. TypeOK
  BY <1>1, DeckAssumption DEF TypeOK, Init, NoCards, Card
<1> QED BY <1>1, <1>2, <1>3 DEF IInv, EitherOr, Idle, Secret

\* start_game deals from a new deck to empty hands.
LEMMA StartIInv == IInv /\ Start => IInv'
<1> SUFFICES ASSUME IInv, Start PROVE IInv'
  OBVIOUS
<1>1. PICK players \in SUBSET Players :
        /\ dealtIn = {} /\ Cardinality(players) >= 2 /\ dealtIn' = players
        /\ hand' \in [Players -> SUBSET Card]
        /\ Dealt(DeckSize, NoCards, hand', {}, players)
        /\ faceUp' \in SUBSET Taken(DeckSize) /\ shown' = NoCards
        /\ seen' = [p \in Players |-> Visible(p)']
  BY DEF Start
<1>2. NoCards \in [Players -> SUBSET Card]
  BY DEF NoCards
<1>3. Apart(hand', community', left')
  <2>1. Apart(NoCards, {}, DeckSize)
    BY NoCardsApart
  <2> QED BY <1>1, <1>2, <2>1, DealtApart, DeckAssumption
<1>4. left' \in 0..DeckSize /\ community' \subseteq Card
  BY <1>1, DeckAssumption DEF Dealt, Taken, Card
<1>5. Apart(shown', community', left')
  <2>1. community' \cap 1..left' = {}
    BY <1>3 DEF Apart
  <2> QED BY <1>1, <2>1, NoCardsApart
<1>6. TypeOK'
  <2>1. faceUp' \subseteq Card
    <3>1. Taken(DeckSize) \subseteq Card
      BY <1>4, DeckAssumption, TakenIsOfTheDeck
    <3> QED BY <1>1, <3>1
  <2>2. \A p \in Players : Visible(p)' \subseteq Card
    <3>1. shown' \in [Players -> SUBSET Card]
      BY <1>1, <1>2
    <3>2. \A p \in Players : Visible(p)' = Page(hand', community', faceUp', shown', p)
      BY DEF Visible, Page
    <3> QED BY <1>1, <1>4, <3>1, <3>2, PageInCard
  <2>3. seen' \in [Players -> SUBSET Card]
    BY <1>1, <2>2
  <2> QED BY <1>1, <1>2, <1>4, <2>1, <2>3 DEF TypeOK
<1>7. Secret'
  <2>1. \A p \in Players : seen'[p] = Page(hand', community', faceUp', shown', p)
    BY <1>1 DEF Visible, Page
  <2>2. \A p \in Players : Page(hand', community', faceUp', shown', p) \cap 1..left' = {}
    BY <1>3, <1>5, PageIsOut
  <2>3. \A p \in Players : \A q \in Players \ {p} :
          Page(hand', community', faceUp', NoCards, p) \cap hand'[q] \subseteq faceUp'
    BY <1>3, PageIsUp
  <2> QED BY <1>1, <2>1, <2>2, <2>3 DEF Secret
<1>8. EitherOr' /\ Idle'
  <2>1. players # {}
    BY <1>1, FS_EmptySet
  <2> QED BY <1>1, <2>1 DEF EitherOr, Idle
<1> QED BY <1>3, <1>5, <1>6, <1>7, <1>8 DEF IInv

\* Cards that are turned up during a hand are cards of the deck.
LEMMA TurnUpType ==
  ASSUME TypeOK, TurnUp, left' \in 0..left
  PROVE  faceUp' \subseteq Card
<1>1. left \in Nat /\ left <= DeckSize
  BY DeckAssumption DEF TypeOK
<1>2. Taken(left) \subseteq Card
  BY <1>1, TakenIsOfTheDeck
<1> QED BY <1>2 DEF TurnUp, TypeOK

\* A deal leaves a deck no longer than before, and cards on the board.
LEMMA DealtType ==
  ASSUME TypeOK, NEW new, Dealt(left, hand, new, community, dealtIn')
  PROVE  left' \in 0..DeckSize /\ left' \in 0..left /\ community' \in SUBSET Card
<1>1. left' \in 0..left
  BY DEF Dealt
<1>2. left \in Nat /\ left <= DeckSize
  BY DeckAssumption DEF TypeOK
<1>3. Taken(left) \subseteq Card /\ left' \in 0..DeckSize
  BY <1>1, <1>2, TakenIsOfTheDeck
<1> QED BY <1>1, <1>3 DEF Dealt, TypeOK

\* Folds, leaves, draws and rounds.
LEMMA PlayIInv == IInv /\ Play => IInv'
<1> SUFFICES ASSUME IInv, Play PROVE IInv'
  OBVIOUS
<1>1. /\ dealtIn # {} /\ dealtIn' \in (SUBSET dealtIn) \ {{}}
      /\ hand' \in [Players -> SUBSET Card]
      /\ Dealt(left, hand, hand', community, dealtIn')
      /\ TurnUp /\ shown' = shown /\ Look
  BY DEF Play
<1>2. TypeOK /\ left \in Nat /\ hand \in [Players -> SUBSET Card] /\ shown = NoCards
  BY <1>1, DeckAssumption DEF IInv, TypeOK, EitherOr
<1>3. left' \in 0..DeckSize /\ left' \in 0..left /\ community' \in SUBSET Card
  BY <1>1, <1>2, DealtType
<1>4. Apart(hand', community', left')
  BY <1>1, <1>2, DealtApart DEF IInv
<1>5. Apart(shown', community', left')
  <2>1. community' \cap 1..left' = {}
    BY <1>4 DEF Apart
  <2>2. shown' = NoCards
    BY <1>1, <1>2
  <2> QED BY <2>1, <2>2, NoCardsApart
<1>6. TypeOK'
  <2>1. faceUp' \subseteq Card
    BY <1>1, <1>2, <1>3, TurnUpType
  <2>2. shown' \in [Players -> SUBSET Card]
    BY <1>1, <1>2 DEF NoCards
  <2>3. seen' \in [Players -> SUBSET Card]
    BY <1>1, <1>2, <1>3, <2>2, LookType
  <2> QED BY <1>1, <1>2, <1>3, <2>1, <2>2, <2>3 DEF TypeOK
<1>7. Secret'
  <2>1. ASSUME NEW p \in Players PROVE seen'[p] \cap 1..left' = {}
    <3>1. seen'[p] = seen[p] \cup Page(hand', community', faceUp', shown', p)
      BY <1>1 DEF Look, Visible, Page
    <3>2. Page(hand', community', faceUp', shown', p) \cap 1..left' = {}
      BY <1>4, <1>5, PageIsOut
    <3>3. seen[p] \cap 1..left = {}
      BY <1>1 DEF IInv, Secret
    <3>4. 1..left' \subseteq 1..left
      BY <1>2, <1>3
    <3> QED BY <3>1, <3>2, <3>3, <3>4
  <2>2. ASSUME NEW p \in Players, NEW q \in Players \ {p}
        PROVE  seen'[p] \cap hand'[q] \subseteq faceUp'
    <3>1. seen'[p] = seen[p] \cup Page(hand', community', faceUp', NoCards, p)
      BY <1>1, <1>2 DEF Look, Visible, Page
    <3>2. Page(hand', community', faceUp', NoCards, p) \cap hand'[q] \subseteq faceUp'
      BY <1>4, PageIsUp
    <3>3. seen[p] \cap 1..left = {} /\ seen[p] \cap hand[q] \subseteq faceUp
      BY <1>1 DEF IInv, Secret
    <3>4. hand'[q] \subseteq hand[q] \cup Taken(left)
      BY <1>1 DEF Dealt
    <3>5. Taken(left) \subseteq 1..left
      <4>1. left <= DeckSize
        BY <1>2, DeckAssumption DEF TypeOK
      <4> QED BY <1>2, <1>3, <4>1, TakenIsOfTheDeck
    <3>6. faceUp \subseteq faceUp'
      BY <1>1 DEF TurnUp
    <3>7. ASSUME NEW x \in seen[p], x \in hand'[q] PROVE x \in faceUp'
      BY <3>3, <3>4, <3>5, <3>6, <3>7
    <3> QED BY <3>1, <3>2, <3>7
  <2> QED BY <2>1, <2>2 DEF Secret
<1>8. EitherOr' /\ Idle'
  <2>1. shown' = NoCards
    BY <1>1, <1>2
  <2>2. dealtIn' # {}
    BY <1>1
  <2> QED BY <2>1, <2>2 DEF EitherOr, Idle
<1> QED BY <1>4, <1>5, <1>6, <1>7, <1>8 DEF IInv

\* end_game deals what is still to come and shows the hands.
LEMMA EndIInv == IInv /\ End => IInv'
<1> SUFFICES ASSUME IInv, End PROVE IInv'
  OBVIOUS
<1>1. /\ dealtIn # {} /\ dealtIn' = {}
      /\ shown' \in [Players -> SUBSET Card]
      /\ Dealt(left, hand, shown', community, dealtIn)
      /\ hand' = NoCards /\ TurnUp /\ Look
  BY DEF End
<1>2. TypeOK /\ left \in Nat /\ hand \in [Players -> SUBSET Card]
  BY DeckAssumption DEF IInv, TypeOK
<1>3. left' \in 0..DeckSize /\ left' \in 0..left /\ community' \in SUBSET Card
  <2>1. left \in 0..DeckSize /\ left' \in 0..left
    BY <1>1, <1>2 DEF Dealt, TypeOK
  <2>2. left' \in 0..DeckSize /\ Taken(left) \subseteq Card
    <3>1. left \in Nat /\ left <= DeckSize
      BY <2>1, DeckAssumption
    <3> QED BY <2>1, <3>1, TakenIsOfTheDeck
  <2> QED BY <1>1, <1>2, <2>1, <2>2 DEF Dealt, TypeOK
<1>4. Apart(shown', community', left')
  BY <1>1, <1>2, DealtApart DEF IInv
<1>5. Apart(hand', community', left')
  BY <1>1, <1>4, NoCardsApart DEF Apart
<1>6. TypeOK'
  <2>1. faceUp' \subseteq Card
    BY <1>1, <1>2, <1>3, TurnUpType
  <2>2. hand' \in [Players -> SUBSET Card]
    BY <1>1 DEF NoCards
  <2>3. seen' \in [Players -> SUBSET Card]
    BY <1>1, <1>2, <1>3, <2>2, LookType
  <2> QED BY <1>1, <1>3, <2>1, <2>2, <2>3 DEF TypeOK
<1>7. EitherOr' /\ Idle' /\ Secret'
  BY <1>1 DEF EitherOr, Idle, Secret
<1> QED BY <1>4, <1>5, <1>6, <1>7 DEF IInv

\* Between two hands.
LEMMA RestIInv == IInv /\ Rest => IInv'
<1> SUFFICES ASSUME IInv, Rest PROVE IInv'
  OBVIOUS
<1>1. /\ dealtIn = {} /\ shown' \in {shown, NoCards} /\ Look
      /\ UNCHANGED <<left, hand, faceUp, community, dealtIn>>
  BY DEF Rest
<1>2. Apart(hand', community', left')
  BY <1>1 DEF IInv, Apart
<1>3. Apart(shown', community', left')
  <2>1. CASE shown' = shown
    BY <1>1, <2>1 DEF IInv, Apart
  <2>2. CASE shown' = NoCards
    <3>1. community' \cap 1..left' = {}
      BY <1>2 DEF Apart
    <3> QED BY <2>2, <3>1, NoCardsApart
  <2> QED BY <1>1, <2>1, <2>2
<1>4. TypeOK'
  <2>1. TypeOK /\ shown' \in [Players -> SUBSET Card] /\ hand' \in [Players -> SUBSET Card]
        /\ community' \in SUBSET Card
    BY <1>1 DEF IInv, TypeOK, NoCards
  <2>2. seen' \in [Players -> SUBSET Card]
    BY <1>1, <2>1, LookType
  <2> QED BY <1>1, <2>1, <2>2 DEF TypeOK
<1>5. EitherOr' /\ Idle' /\ Secret'
  BY <1>1 DEF IInv, EitherOr, Idle, Secret
<1> QED BY <1>2, <1>3, <1>4, <1>5 DEF IInv

\* A step that leaves the cards alone.
LEMMA StutterIInv == IInv /\ UNCHANGED vars => IInv'
<1> SUFFICES ASSUME IInv, UNCHANGED vars PROVE IInv'
  OBVIOUS
<1>1. Apart(hand', community', left') /\ Apart(shown', community', left')
  BY DEF IInv, vars, Apart
<1>2. TypeOK' /\ EitherOr' /\ Idle' /\ Secret'
  BY DEF IInv, vars, TypeOK, EitherOr, Idle, Secret
<1> QED BY <1>1, <1>2 DEF IInv

\* The invariant is inductive.
LEMMA Inductive == Spec => []IInv
<1>1. IInv /\ [Next]_vars => IInv'
  BY StartIInv, PlayIInv, EndIInv, RestIInv, StutterIInv DEF Next
<1> QED BY InitIInv, <1>1, PTL DEF Spec

\* The deck, the hands, the board and what the pages have shown keep their
\* types through every deal, draw, fold, leave and showdown.
THEOREM CardTypes == Spec => []TypeOK
<1>1. IInv => TypeOK
  BY DEF IInv
<1> QED BY Inductive, <1>1, PTL

\* A card is in one place only: deck.rs hands out each card of the shuffled
\* deck once, and no operation on hands brings one back.
THEOREM CardsInOnePlace == Spec => []NoCardTwice
<1>1. IInv => NoCardTwice
  BY DEF IInv, Apart, NoCardTwice
<1> QED BY Inductive, <1>1, PTL

\* Nobody's pages, taken together since the shuffle, show a card of the deck
\* or a hidden card of another hand: masking each view (hand.rs:452) is enough.
THEOREM HandsStaySecret == Spec => []Secret
<1>1. IInv => Secret
  BY DEF IInv
<1> QED BY Inductive, <1>1, PTL
=============================================================================
