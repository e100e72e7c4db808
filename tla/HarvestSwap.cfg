\* Two carriers in the open.
SPECIFICATION HarvestSpec
CONSTANTS
  Carrier = {1, 2}
  Source = {"vein", "lode", "tree"}
  Storage = {"hall", "camp"}
  Side = {"a", "b"}
  KindOf <- Yields
  Spent <- Ends
  Yards <- OneYard
  RetryPeriod = 1
PROPERTY
  SwapSticks
CHECK_DEADLOCK FALSE
