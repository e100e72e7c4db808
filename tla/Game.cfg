\* A lobby: a host and two clients, in a star or a decentralized mesh.  A game:
\* two players over a lossy, reordering, duplicating mesh, the second defeated.
SPECIFICATION GameSpec
CONSTANTS
  Client = {1, 2}
  Slot = {0, 1}
  Limit = 1
  Mode = {"star", "decentralized"}
  Foreign = {1}
  MaxEdits = 1
  MaxAsks = 1
  n1 = n1
  n2 = n2
  n3 = n3
  p1 = p1
  p2 = p2
  Node = {n1, n2}
  Player = {p1, p2}
  Idle = idle
  Command = {idle, act}
  NodeOf <- TwoNodes
  Relays = {n1, n2}
  Links <- Mesh
  SyncLatency = 1
  OutFrom <- SecondOutAt2
  LossyFrom = {n1}
  MaxTick = 3
INVARIANTS
  LobbyInv
  MirrorsAgree
  StartsTogether
  MeshForms
  TypeOK
  InputImmutable
  ExecutedAgree
  SpreadBound
PROPERTIES
  PlaceKept
  Refinement
CHECK_DEADLOCK FALSE
