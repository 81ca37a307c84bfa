\* A client whose UPDATE nobody answers waits for ever: the system may stop.
SPECIFICATION FairSpec
CONSTANTS
  texasholdem = texasholdem
  Games <- OneGame
  None = None
  Expires = TRUE
  Refuses = TRUE
  MaxInbox = 2
INVARIANTS OneServer Listening
PROPERTY LeaveLeaves
CHECK_DEADLOCK FALSE
