-------------------------------- MODULE Cards -------------------------------
(***************************************************************************)
(* What dealing promises, whatever the game: a card leaves the shuffled    *)
(* deck once, for one hand or for the board, and no page ever shows a      *)
(* player a card that is still hidden in another hand or in the deck.      *)
(* Module CardTable deals the cards of the three games and implements this.*)
(*                                                                         *)
(* Deck::new shuffles a Vec and Deck::deal splits off its end, so a card   *)
(* is known by its position in the Vec, and the deck is known by its       *)
(* length: the cards 1..left.                                              *)
(***************************************************************************)
EXTENDS Integers, FiniteSets

CONSTANTS
  Players,   \* the player ids that may ever come to the table
  DeckSize   \* the 52 cards of generate_deck!()

ASSUME DeckAssumption == DeckSize \in Nat

VARIABLES
  left,      \* the deck's length
  hand,      \* Player::hand of each player
  faceUp,    \* the cards dealt with the face-up bit
  community, \* TexasHoldem::community_cards
  shown,     \* the hands of the showdown on display
  dealtIn,   \* the players on the hand's ring
  seen       \* history: what each player's page has shown since the shuffle

vars == <<left, hand, faceUp, community, shown, dealtIn, seen>>

Card == 1..DeckSize

NoCards == [p \in Players |-> {}]

-----------------------------------------------------------------------------

\* The cards that a deal takes from a deck of length before leaves it shorter.
Taken(before) == (left' + 1)..before

\* Hands lose cards in many ways, but they and the board gain only what a deal
\* takes off the deck.  Each card taken goes to one of them, and to nobody who
\* is not in the hand.
Dealt(before, old, new, oldBoard, players) ==
  /\ left' \in 0..before
  /\ new \in [Players -> SUBSET Card]
  /\ \A p \in Players :
       /\ new[p] \ old[p] \subseteq Taken(before)
       /\ p \notin players => new[p] \subseteq old[p]
       /\ \A q \in Players \ {p} : (new[p] \ old[p]) \cap (new[q] \ old[q]) = {}
  /\ community' = oldBoard \cup (Taken(before) \ (UNION {new[p] : p \in Players}))

\* Player::to_broadcast and player_view_state: one's own hand, the cards on
\* the board, the face-up cards of everybody, the hands of the showdown.
Visible(p) ==
  hand[p] \cup community
    \cup (UNION {hand[q] \cap faceUp : q \in Players})
    \cup (UNION {shown[q] : q \in Players})

\* Every change is pushed, and the pages load it.
Look == seen' = [p \in Players |-> seen[p] \cup Visible(p)']

-----------------------------------------------------------------------------

Init ==
  /\ left = 0 /\ hand = NoCards /\ faceUp = {} /\ community = {}
  /\ shown = NoCards /\ dealtIn = {} /\ seen = NoCards

\* A new shuffled deck, no card with anybody, and the first cards.
Start ==
  \E players \in SUBSET Players :
    /\ dealtIn = {} /\ Cardinality(players) >= 2
    /\ dealtIn' = players
    /\ hand' \in [Players -> SUBSET Card]
    /\ Dealt(DeckSize, NoCards, hand', {}, players)
    /\ faceUp' \in SUBSET Taken(DeckSize)
    /\ shown' = NoCards
    /\ seen' = [p \in Players |-> Visible(p)']

\* A card is dealt face up or face down, and stays so.
TurnUp == faceUp \subseteq faceUp' /\ faceUp' \ faceUp \subseteq Taken(left)

\* A player folds, leaves with the cards or throws some away, and those who
\* remain in the hand may be dealt cards.
Play ==
  /\ dealtIn # {} /\ dealtIn' \in (SUBSET dealtIn) \ {{}}
  /\ hand' \in [Players -> SUBSET Card]
  /\ Dealt(left, hand, hand', community, dealtIn')
  /\ faceUp' \in SUBSET Card /\ TurnUp
  /\ UNCHANGED shown /\ Look

\* The hand is over: what is still to come is dealt, hands that are left are
\* shown, and nobody holds a card any more.
End ==
  /\ dealtIn # {} /\ dealtIn' = {}
  /\ shown' \in [Players -> SUBSET Card]
  /\ Dealt(left, hand, shown', community, dealtIn)
  /\ hand' = NoCards
  /\ faceUp' \in SUBSET Card /\ TurnUp
  /\ Look

\* The showdown is on display until the table is empty or the next hand starts.
Rest ==
  /\ dealtIn = {} /\ shown' \in {shown, NoCards}
  /\ UNCHANGED <<left, hand, faceUp, community, dealtIn>> /\ Look

Next == Start \/ Play \/ End \/ Rest

Spec == Init /\ [][Next]_vars

-----------------------------------------------------------------------------

TypeOK ==
  /\ left \in 0..DeckSize
  /\ hand \in [Players -> SUBSET Card] /\ shown \in [Players -> SUBSET Card]
  /\ faceUp \subseteq Card /\ community \subseteq Card
  /\ dealtIn \subseteq Players
  /\ seen \in [Players -> SUBSET Card]

\* No card is in two places: a card in a hand is in no other hand, not on the
\* board and no longer in the deck, through deals, draws that meet an empty
\* deck, folds and leaves; and so are the hands of the showdown.
NoCardTwice ==
  /\ community \cap 1..left = {}
  /\ \A p \in Players :
       /\ (hand[p] \cup shown[p]) \cap (community \cup 1..left) = {}
       /\ \A q \in Players \ {p} : hand[p] \cap hand[q] = {} /\ shown[p] \cap shown[q] = {}

\* While a hand is played, whatever a player has seen since the shuffle, own
\* discards included, tells of no card in the deck, and of no card in the hand
\* of somebody else but those dealt face up (hand.rs:452, player.rs:66).
Secret ==
  dealtIn # {} =>
    \A p \in Players :
      /\ seen[p] \cap 1..left = {}
      /\ \A q \in Players \ {p} : seen[p] \cap hand[q] \subseteq faceUp
=============================================================================
