---------------------------- MODULE InputFrames ----------------------------
(***************************************************************************)
(* The input queue of ferrets-simulation (input.rs): the frames one node   *)
(* holds, keyed by player and target tick.  A store is a set of            *)
(* PlayerFrames; what the commands of a frame say never matters here, only *)
(* whether two frames carry the same ones.                                 *)
(***************************************************************************)
EXTENDS Naturals

CONSTANTS
  Player,   \* the occupied slots of the session
  Command   \* the command lists a frame may carry, Idle among them

CONSTANT Idle   \* the empty command list: "the player did nothing this tick"

ASSUME IdleAssumption == Idle \in Command

PlayerFrame == [player : Player, tick : Nat, commands : Command]

Frame(p, t, c) == [player |-> p, tick |-> t, commands |-> c]

SameKey(f, g) == f.player = g.player /\ f.tick = g.tick

HasFrame(store, p, t) == \E f \in store : f.player = p /\ f.tick = t

\* What the debug_assert of InputFrame::record rejects: a repeat for a
\* recorded slot that differs from what was recorded.
Conflicts(store, f) == \E g \in store : SameKey(f, g) /\ f.commands # g.commands

\* push_frame over a whole received batch: the first frame recorded for a
\* player and tick wins and a repeat is a no-op.  A batch read from one node's
\* store never names a player and tick twice.
PushFrames(store, batch) ==
  store \cup {f \in batch : ~HasFrame(store, f.player, f.tick)}

FramesInRange(store, from, to) == {f \in store : from <= f.tick /\ f.tick <= to}

\* A tick nobody recorded a frame for is not ready even if it requires none.
IsReady(store, t, players) ==
  /\ \E f \in store : f.tick = t
  /\ \A p \in players : HasFrame(store, p, t)

\* ready_commands: what each of the players contributed for the tick; only
\* meaningful once IsReady holds.
ReadyCommands(store, t, players) ==
  [p \in players |-> (CHOOSE f \in store : f.player = p /\ f.tick = t).commands]
=============================================================================
