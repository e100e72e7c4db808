\* Lossy datagrams, each side served fairly.
SPECIFICATION FairSpec
CONSTANTS
  n1 = n1
  n2 = n2
  n3 = n3
  p1 = p1
  p2 = p2
  Node = {n1, n2}
  Player = {p1, p2}
  Idle = idle
  Command = {idle}
  NodeOf <- TwoNodes
  Relays = {n1, n2}
  Links <- Mesh
  SyncLatency = 1
  OutFrom <- NobodyOut
  LossyFrom = {n1}
  MaxTick = 3
PROPERTY
  EveryTickExecuted
