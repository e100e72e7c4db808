\* A star whose host drops clients as it likes; and a star and a mesh of three
\* players, some of which may crash, where the grace window outlasts every delay.
SPECIFICATION FairSpec
CONSTANTS
  n1 = n1
  n2 = n2
  n3 = n3
  Node = {n1, n2, n3}
  Player = {n1, n2, n3}
  Idle = idle
  Command = {idle}
  Host = n1
  TimeoutSteps = 1
  Sessions <- Games
INVARIANTS
  DropsInv
  SurvivorsAgree
  NoSurvivorDesync
PROPERTIES
  VotesKept
  StallsResolve
CHECK_DEADLOCK FALSE
