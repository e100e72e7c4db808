----------------------------- MODULE MCLockstep -----------------------------
(***************************************************************************)
(* Instances of Lockstep for TLC: who runs which player, and how the nodes *)
(* are linked, in the session modes of ferrets-network.                    *)
(***************************************************************************)
EXTENDS Lockstep, FiniteSets, TLC

CONSTANTS n1, n2, n3, p1, p2

\* Two players on two nodes.
TwoNodes == p1 :> n1 @@ p2 :> n2

\* Two players on the two clients of a host that only watches.
TwoRemote == p1 :> n2 @@ p2 :> n3

\* A player is never eliminated within the bound.
NobodyOut == [p \in Player |-> MaxTick + SyncLatency + 2]

\* The simulation eliminates p2 early.
SecondOutAt2 == p1 :> MaxTick + SyncLatency + 2 @@ p2 :> 2

\* Every node hears every other (the UDP mesh).
Mesh == {l \in Node \X Node : l[1] # l[2]}

\* n1 is the host, the others only hear it and it hears them.
Star == {l \in Node \X Node : l[1] # l[2] /\ n1 \in {l[1], l[2]}}

\* Over connections every datagram stays until it is received.
StarSpec == Init /\ [][Next /\ net \subseteq net']_vars /\ Fairness
=============================================================================
