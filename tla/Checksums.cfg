\* Three nodes, of whom one may have to wait for the others, in any division
\* into groups of one state at two sampled ticks; and three players, of whom the
\* first records, with two sampled ticks.
SPECIFICATION ChecksumsSpec
CONSTANTS
  Node = {n1, n2, n3}
  Interval = 2
  SyncLatency = 1
  MaxTick = 3
  Slow = {n1}
  MaxAir = 3
  Seats = {"a", "b", "c"}
  Local = "a"
  Conducts = {"spectate", "conclude"}
  Latency = 1
  CheckEvery = 2
  Failing = {"nothing"}
  MaxFails = 1
  MaxPauses = 1
  EndTick = 3
INVARIANTS
  TrackerInv
  ReplayInv
  Retraces
  PlaysTheRecording
PROPERTIES
  PlayedOut
CHECK_DEADLOCK FALSE
