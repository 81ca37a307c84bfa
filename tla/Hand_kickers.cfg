SPECIFICATION Spec
CONSTANT Deals <- KickerDeals
INVARIANT NeededKickersDecide
CHECK_DEADLOCK FALSE
