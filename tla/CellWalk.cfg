\* Three bodies in four scenes; the bounds of the ladder are scaled down.
SPECIFICATION CellWalkFairSpec
CONSTANTS
  Width = 3
  Height = 2
  Bodies = {1, 2, 3}
  Scenes <- AllScenes
  SiteCell <- Corner
  SiteSide = "red"
  Goals <- Ends2
  Ranges = {0, 1}
  BlockedWait = 1
  GiveUp = 2
  Growth = 1
  Lookahead = 6
  Penalty = 6
  MaxEvents = 3
INVARIANTS
  WalkInv
  ClaimsMatch
PROPERTIES
  WalksEnd
CHECK_DEADLOCK FALSE
