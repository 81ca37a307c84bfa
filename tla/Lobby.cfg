\* An owner whose thread panicked or waits for a table's threads may be the last.
SPECIFICATION FairSpec
CONSTANTS
  a = a
  b = b
  g = g
  h = h
  Clients = {a, b}
  Games = {g, h}
  None = None
  Limits <- TwoLimits
CONSTRAINT Stays
INVARIANT ListedIsServed
PROPERTIES Served ListsConverge
CHECK_DEADLOCK FALSE
