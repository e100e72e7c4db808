--------------------------- MODULE MCControlPlane ---------------------------
(***************************************************************************)
(* Sessions of ControlPlane for TLC: pauses are 0 and 1, speeds 1 to 3.   *)
(***************************************************************************)
EXTENDS ControlPlane, TLC

Mesh(nodes) == {l \in nodes \X nodes : l[1] # l[2]}

\* Node 1 is the host; the others are connected to it alone.
Star(nodes) == {l \in Mesh(nodes) : 1 \in {l[1], l[2]}}

\* The proposers in the order of their players.
Players123 == [n \in 1 .. 3 |-> n]

\* Pauses of a host and two clients: one socket carries both channels.
PauseStar ==
  [nodes |-> 1 .. 3, players |-> 1 .. 3, host |-> 1, authority |-> "host", links |-> Star(1 .. 3),
   paced |-> TRUE, values |-> {0, 1}, initial |-> 0, freezing |-> {1}, latency |-> 1,
   hasty |-> TRUE, last |-> 3]

\* Pauses and resumes asked for one at a time, flooded over three peers.
PauseResume ==
  [PauseStar EXCEPT !.authority = "peers", !.links = Mesh(1 .. 3), !.hasty = FALSE]

\* Speeds between two peers whose requests cross.
SpeedPeers ==
  [PauseStar EXCEPT !.nodes = 1 .. 2, !.players = 1 .. 2, !.authority = "peers",
                    !.links = Mesh(1 .. 2), !.values = 1 .. 3, !.initial = 1, !.freezing = {},
                    !.latency = 2, !.last = 5]

\* Two peers whose pauses cross.
PausePeers == [SpeedPeers EXCEPT !.values = {0, 1}, !.initial = 0, !.freezing = {1}]

Settled == {PauseStar, PauseResume, SpeedPeers}
Crossing == {PausePeers}
=============================================================================
