\* Pauses in a host star, pauses flooded over peers, and speeds between peers.
SPECIFICATION FairSpec
CONSTANTS
  Sessions <- Settled
  Rank <- Players123
  MaxRequests = 2
INVARIANTS
  ControlInv
  NoneLeftFrozen
  TakenInTurn
PROPERTIES
  SentInTime
  SettleTogether
CHECK_DEADLOCK FALSE
