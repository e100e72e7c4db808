\* One trainer that changes into a form that trains nothing.
SPECIFICATION OrdersSpec
CONSTANTS
  Player = {1, 2}
  Entity = {1, 2}
  Topic = {"t1"}
  Form <- Forms
  UnitType = {"grunt", "brute"}
  Does <- Abilities
  Trains <- Trainees
  Becomes <- Decayed
  Terms <- Early
  Squads <- OneCamp
  Stock = 2
  Cap = 2
  DyingTime = 1
  MaxPaid = 2
PROPERTIES
  NoPaidQueueDropped
CHECK_DEADLOCK FALSE
