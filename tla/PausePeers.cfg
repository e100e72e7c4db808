\* Two peers whose pauses cross.
SPECIFICATION Spec
CONSTANTS
  Sessions <- Crossing
  Rank <- Players123
  MaxRequests = 2
INVARIANT NoneLeftFrozen
CHECK_DEADLOCK FALSE
