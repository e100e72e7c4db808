\* Four bodies at a bend, with the constants of the code.
SPECIFICATION CellWalkSpec
CONSTANTS
  Width = 10
  Height = 3
  Bodies = {1, 2, 3, 4}
  Scenes <- Bends
  SiteCell <- Lowest
  SiteSide = "red"
  Goals <- FarEnd
  Ranges = {0}
  BlockedWait = 5
  GiveUp = 8
  Growth = 4
  Lookahead = 6
  Penalty = 6
  MaxEvents = 1
INVARIANTS
  StepsLead
CHECK_DEADLOCK FALSE
