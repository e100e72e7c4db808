------------------------------ MODULE MCDrops ------------------------------
(***************************************************************************)
(* Sessions of Drops for TLC, a host star (SessionMode::HostStar) and a    *)
(* mesh of peers (MeshDecentralized).                                      *)
(***************************************************************************)
EXTENDS Drops, TLC

CONSTANTS n1, n2, n3

Mesh == {l \in Node \X Node : l[1] # l[2]}

\* n1 is the host; the others are connected to it alone.
Star == {l \in Mesh : n1 \in {l[1], l[2]}}

\* Of the datagrams, those sent to n3 are lost.
CutOff == {l \in Mesh : l[2] # n3}

\* A host star whose second client may crash; the host's game approves of
\* drops as it likes, of clients that play too.
HostStar ==
  [authority |-> "host", policy |-> "manual", relays |-> {n1}, gameLinks |-> Star,
   controlLinks |-> Star, shared |-> TRUE, latency |-> 2, checksums |-> {}, mayCrash |-> {n3},
   patient |-> FALSE, inFlight |-> 1, last |-> 3]

\* Its host or a client may crash; the grace window outlasts every delay.
PatientStar ==
  [HostStar EXCEPT !.policy = "automatic", !.latency = 1, !.mayCrash = {n1, n3},
                   !.patient = TRUE, !.last = 2]

\* Three peers that decide by consensus, one of which hears no datagram and may
\* crash; the grace window outlasts every delay.
PatientPeers ==
  [PatientStar EXCEPT !.authority = "peers", !.relays = Node, !.gameLinks = CutOff,
                      !.controlLinks = Mesh, !.shared = FALSE, !.checksums = {2},
                      !.mayCrash = {n3}, !.inFlight = 2]

Games == {HostStar, PatientStar, PatientPeers}
=============================================================================
