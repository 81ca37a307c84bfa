----------------------------- MODULE HandRules ------------------------------
(***************************************************************************)
(* The hands of TwoHands are dealt: cards go from a deck to one hand and   *)
(* then to another, in every order that the deal allows.                   *)
(***************************************************************************)
EXTENDS TwoHands

CONSTANT
  Deals  \* what may be dealt: a set of cards, how many of them each hand gets,
         \* and in which order of their values (a bound)

ASSUME DealsAssumption ==
  \A d \in Deals : d.deck \subseteq 0..255 /\ d.first \in 1..7 /\ d.second \in 0..7
                   /\ d.order \in {"any", "rising", "falling"}

\* Deck::new makes one card of each suit and value, ace to king.
ASSUME CardsAssumption ==
  \A d \in Deals : \A c \in d.deck :
    /\ Value(c) \in 1..13
    /\ \A e \in d.deck : Value(c) = Value(e) /\ Suit(c) = Suit(e) => c = e

vars == <<deal, hand, other>>

Init == deal \in Deals /\ hand = <<>> /\ other = <<>>

Deck == deal.deck \ (ToSet(hand) \cup ToSet(other))

\* The card may be dealt to these cards.
Follows(card, cards) ==
  LET after(c, d) == Value(c) > Value(d) \/ (Value(c) = Value(d) /\ Suit(c) > Suit(d))
  IN \A d \in ToSet(cards) : CASE deal.order = "rising"  -> after(card, d)
                               [] deal.order = "falling" -> after(d, card)
                               [] deal.order = "any"     -> TRUE

DealHand ==
  \E card \in Deck :
    /\ Len(hand) < deal.first /\ Follows(card, hand)
    /\ hand' = Append(hand, card) /\ UNCHANGED <<deal, other>>

DealOther ==
  \E card \in Deck :
    /\ Len(hand) = deal.first /\ Len(other) < deal.second /\ Follows(card, other)
    /\ other' = Append(other, card) /\ UNCHANGED <<deal, hand>>

Next == DealHand \/ DealOther

Spec == Init /\ [][Next]_vars
=============================================================================
