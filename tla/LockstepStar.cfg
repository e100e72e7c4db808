\* A host star over TCP: the host n1 watches and relays two remote players,
\* of whom the second is defeated early.
SPECIFICATION StarSpec
CONSTANTS
  n1 = n1
  n2 = n2
  n3 = n3
  p1 = p1
  p2 = p2
  Node = {n1, n2, n3}
  Player = {p1, p2}
  Idle = idle
  Command = {idle}
  NodeOf <- TwoRemote
  Relays = {n1}
  Links <- Star
  SyncLatency = 1
  OutFrom <- SecondOutAt2
  LossyFrom = {}
  MaxTick = 3
PROPERTIES
  EveryTickExecuted
