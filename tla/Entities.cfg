\* Entities under orders, or two carriers at four yards.
SPECIFICATION EntitiesSpec
CONSTANTS
  Player = {1, 2}
  Entity = {1, 2}
  Topic = {"t1", "t2"}
  Form <- Forms
  UnitType = {"grunt", "brute"}
  Does <- Abilities
  Trains <- Trainees
  Becomes <- Grown
  Terms <- Early
  Squads <- Parties
  Stock = 3
  Cap = 2
  DyingTime = 1
  MaxPaid = 2
  Carrier = {1, 2}
  Source = {"vein", "lode", "tree"}
  Storage = {"hall", "camp"}
  Side = {"a", "b"}
  KindOf <- Yields
  Spent <- Ends
  Yards <- AllYards
  RetryPeriod = 1
INVARIANTS
  OrdersInv
  DriversMatch
  ChainIntact
  CrossingHasMove
  OneResearchPerTopic
  SupplyHeld
  HarvestInv
PROPERTIES
  PaidBackOnce
  DyingGoes
  NothingMadeOrLost
  CarriesOn
CHECK_DEADLOCK FALSE
