---------------------------- MODULE MCChecksums ----------------------------
(***************************************************************************)
(* The two readers of the simulation's checksums for TLC.  A session plays *)
(* over the network, and compares its checksums with those of its peers;   *)
(* or it plays a recording back, and compares them with the recorded ones. *)
(***************************************************************************)
EXTENDS DesyncTracker, Replay

CONSTANTS
  Slow,     \* the nodes that may have to wait for input
  MaxAir    \* bound: how many checksums are on their way at a time

VARIABLE source   \* where the input of the session comes from

allVars == <<source, vars, replayVars>>

\* What the session does not use is as in the smallest game.
ChecksumsInit ==
  /\ Init /\ ReplayInit
  /\ \/ source = "network" /\ live.conduct = "conclude"
     \/ source = "replay" /\ groups = [t \in Sampled |-> {Node}]

Watches == source = "replay" /\ PlayStep /\ UNCHANGED <<source, vars>>

\* How the network is bounded.
Bounded ==
  /\ \A n \in Node : blocked'[n] => n \in Slow
  /\ MapThenSumSet(LAMBDA n : Cardinality(air'[n]), Node) <= MaxAir

ChecksumsNext ==
  /\ \/ source = "network" /\ Next /\ Bounded /\ UNCHANGED replayVars
     \/ source = "replay" /\ ReplayNext /\ UNCHANGED vars
  /\ UNCHANGED source

ChecksumsSpec == ChecksumsInit /\ [][ChecksumsNext]_allVars /\ WF_allVars(Watches)
=============================================================================
