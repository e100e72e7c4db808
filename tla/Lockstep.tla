------------------------------ MODULE Lockstep ------------------------------
(***************************************************************************)
(* The lockstep input pipeline of a networked match: flush_input,          *)
(* net_broadcast, net_receive and command_executor of every node, over the *)
(* gameplay channel.  Nobody is dropped here (module Drops); a player may  *)
(* be defeated, which every node derives from the simulation itself.       *)
(*                                                                         *)
(* One FixedStep is one run of the FixedUpdate schedule of one node, whose *)
(* systems run back to back on that node.  Receiving a datagram is an      *)
(* action of its own: what has arrived when a node steps is arbitrary.     *)
(***************************************************************************)
EXTENDS InputFrames, Sequences

CONSTANTS
  Node,         \* the processes of the match: players' nodes and watchers'
  NodeOf,       \* the node that sources each player's frames (the roster)
  Relays,       \* nodes whose role forwards other players' frames
  Links,        \* <<a, b>>: what a broadcasts on the gameplay channel reaches b
  SyncLatency,  \* SYNC_LATENCY, how many ticks ahead input is committed
  OutFrom,      \* the tick from which the simulation eliminates each player
  LossyFrom,    \* nodes whose datagrams may be lost (UDP; none of a TCP star)
  MaxTick       \* bound: no input is committed for this tick or a later one

ASSUME LockstepAssumption ==
  /\ NodeOf \in [Player -> Node]
  /\ Relays \subseteq Node
  /\ Links \subseteq Node \X Node
  /\ SyncLatency \in Nat
  /\ OutFrom \in [Player -> Nat]
  /\ LossyFrom \subseteq Node
  /\ MaxTick \in Nat

VARIABLES
  tick,      \* GameSession::tick of each node
  state,     \* "running" or "blocked": SessionState while the match lasts
  frames,    \* the InputFrames of each node
  net,       \* the datagrams in flight
  executed,  \* the inputs each node's simulation has consumed, tick by tick
  conflict   \* some node was offered two different frames for one slot and tick

vars == <<tick, state, frames, net, executed, conflict>>

Datagram == [from : Node, frames : SUBSET PlayerFrame]

-----------------------------------------------------------------------------
\* GameSession::is_player_required and is_player_live as node n answers them.
\* The elimination is marked by the tick before it takes effect, so a node
\* knows of it exactly from that tick on.
KnowsOut(n, p) == OutFrom[p] <= tick[n]

IsPlayerRequired(n, p, t) == ~(KnowsOut(n, p) /\ OutFrom[p] <= t)

IsPlayerLive(n, p) == ~KnowsOut(n, p)

\* (mutant) Runs the tick without the players whose frames have not arrived.
RequiredPlayers_Present(n) == {p \in Player : HasFrame(frames[n], p, tick[n])}

RequiredPlayers(n) == {p \in Player : IsPlayerRequired(n, p, tick[n])}

Sourced(n) == {p \in Player : NodeOf[p] = n}

\* Ticks below SyncLatency can never be targeted by a flush.
WarmupFrames == {Frame(p, t, Idle) : p \in Player, t \in 0 .. (SyncLatency - 1)}

Init ==
  /\ tick = [n \in Node |-> 0]
  /\ state = [n \in Node |-> "running"]
  /\ frames = [n \in Node |-> WarmupFrames]
  /\ net = {}
  /\ executed = [n \in Node |-> <<>>]
  /\ conflict = FALSE

-----------------------------------------------------------------------------
\* (mutant) A blocked node commits again.
Flushed_EveryStep(n, choice) ==
  {Frame(p, tick[n] + SyncLatency, choice[p]) :
     p \in {q \in Sourced(n) : /\ tick[n] + SyncLatency < MaxTick
                               /\ IsPlayerLive(n, q)}}

\* (mutant) Every frame drains what all the node's players had pending.
Flushed_WholeBuffer(n, choice) ==
  {Frame(p, tick[n] + SyncLatency, choice) :
     p \in {q \in Sourced(n) : /\ tick[n] + SyncLatency < MaxTick
                               /\ IsPlayerLive(n, q)
                               /\ ~HasFrame(frames[n], q, tick[n] + SyncLatency)}}

\* flush_input: the frames the node's own players commit this step, one per
\* live player whose target tick has none yet.  choice is what the players
\* had pending.
Flushed(n, choice) ==
  LET target == tick[n] + SyncLatency
  IN {Frame(p, target, choice[p]) :
        p \in {q \in Sourced(n) : /\ target < MaxTick
                                  /\ IsPlayerLive(n, q)
                                  /\ ~HasFrame(frames[n], q, target)}}

\* (mutant) The host forgets to relay.
Window_NoRelay(n, store) ==
  {f \in store : /\ f.tick <= tick[n] + SyncLatency
                 /\ tick[n] <= f.tick + SyncLatency
                 /\ IsPlayerRequired(n, f.player, f.tick)
                 /\ f.player \in Sourced(n)}

\* net_broadcast: the window of frames around the node's tick that belongs on
\* the wire, read from the store after the flush.
Window(n, store) ==
  {f \in FramesInRange(store,
                       IF tick[n] < SyncLatency THEN 0 ELSE tick[n] - SyncLatency,
                       tick[n] + SyncLatency) :
     /\ IsPlayerRequired(n, f.player, f.tick)
     /\ n \in Relays \/ f.player \in Sourced(n)}

\* An empty window is not sent.
Broadcast(n, window) ==
  net' = net \cup (IF window = {} THEN {} ELSE {[from |-> n, frames |-> window]})

\* command_executor and, when it ran the tick, the simulation and the tick
\* counter behind it; otherwise the session blocks on the missing frames.
Execute(n, store) ==
  IF IsReady(store, tick[n], RequiredPlayers(n))
  THEN /\ executed' = [executed EXCEPT ![n] =
                         Append(@, ReadyCommands(store, tick[n], RequiredPlayers(n)))]
       /\ tick' = [tick EXCEPT ![n] = @ + 1]
       /\ state' = [state EXCEPT ![n] = "running"]
  ELSE /\ state' = [state EXCEPT ![n] = "blocked"]
       /\ UNCHANGED <<executed, tick>>

\* One FixedUpdate of node n.
FixedStep(n) ==
  \E choice \in [Sourced(n) -> Command] :
    LET fresh == Flushed(n, choice)
        store == PushFrames(frames[n], fresh)
    IN /\ frames' = [frames EXCEPT ![n] = store]
       /\ conflict' = (conflict \/ \E f \in fresh : Conflicts(frames[n], f))
       /\ Broadcast(n, Window(n, store))
       /\ Execute(n, store)

\* net_receive: a datagram another node broadcast is recorded.  Datagrams may
\* be duplicated and reordered, so one stays in flight until it is lost.
Receive(n, d) ==
  /\ <<d.from, n>> \in Links
  /\ frames' = [frames EXCEPT ![n] = PushFrames(@, d.frames)]
  /\ conflict' = (conflict \/ \E f \in d.frames : Conflicts(frames[n], f))
  /\ UNCHANGED <<tick, state, net, executed>>

\* The network loses a datagram (to everybody it has not reached yet).
Lose(d) ==
  /\ d.from \in LossyFrom
  /\ net' = net \ {d}
  /\ UNCHANGED <<tick, state, frames, executed, conflict>>

Next ==
  \/ \E n \in Node : FixedStep(n)
  \/ \E n \in Node : \E d \in net : Receive(n, d)
  \/ \E d \in net : Lose(d)

Spec == Init /\ [][Next]_vars

-----------------------------------------------------------------------------
Input == UNION {[S -> Command] : S \in SUBSET Player}

\* Every variable keeps the shape of the resource it stands for.
TypeOK ==
  /\ tick \in [Node -> Nat]
  /\ state \in [Node -> {"running", "blocked"}]
  /\ frames \in [Node -> SUBSET PlayerFrame]
  /\ net \subseteq Datagram
  /\ executed \in [Node -> Seq(Input)]
  /\ conflict \in BOOLEAN

\* Input is immutable once recorded: wherever two copies of the frame of one
\* player and tick meet - relayed, resent, received late - they agree, so the
\* debug_assert of InputFrame::record never fires (input.rs).
InputImmutable == ~conflict

\* Determinism of the match: any two nodes that both executed a tick executed
\* it with the same commands of the same players, however the frames
\* travelled (command_executor over required_players).
ExecutedAgree ==
  \A m, n \in Node : \A i \in 1 .. Len(executed[m]) :
    i <= Len(executed[n]) => executed[m][i] = executed[n][i]

\* How far a node can run ahead of a player's node that its ticks wait for:
\* the player committed input up to SyncLatency ahead, and the node that
\* executed all of it stands one tick further.
SpreadBound ==
  \A m \in Node, p \in Player :
    tick[m] <= OutFrom[p] => tick[m] <= tick[NodeOf[p]] + SyncLatency + 1

\* The inductive invariant behind the four.  A frame exists nowhere before its
\* player's own node recorded it, and that node records one per tick.
Genuine(f) == f \in frames[NodeOf[f.player]]

FramesGenuine ==
  /\ \A n \in Node : \A f \in frames[n] : Genuine(f)
  /\ \A d \in net : \A f \in d.frames : Genuine(f)

FramesUnique ==
  \A n \in Node : \A f, g \in frames[n] : SameKey(f, g) => f = g

\* Input is committed at most SyncLatency ahead of the node that commits it.
FramesNear ==
  \A n \in Node : \A f \in frames[n] :
    f.tick <= tick[NodeOf[f.player]] + SyncLatency

\* Tick i of every node ran the genuine frames of exactly the players that had
\* not been eliminated by then.
ExecutedGenuine ==
  \A n \in Node :
    /\ Len(executed[n]) = tick[n]
    /\ \A i \in 1 .. Len(executed[n]) :
         /\ DOMAIN executed[n][i] = {p \in Player : i <= OutFrom[p]}
         /\ \A p \in DOMAIN executed[n][i] :
              Frame(p, i - 1, executed[n][i][p]) \in frames[NodeOf[p]]

LockstepInv ==
  /\ TypeOK
  /\ InputImmutable
  /\ FramesGenuine
  /\ FramesUnique
  /\ FramesNear
  /\ ExecutedGenuine
  /\ SpreadBound

\* The pipeline implements the abstract promise.
Abstract == INSTANCE ReplicatedInput WITH history <- executed

Refinement == Abstract!Spec

-----------------------------------------------------------------------------
\* Fairness: each node's loop keeps running its fixed schedule, and traffic of
\* one sender that is available again and again is received in the end.  On a
\* socket that loses nothing that delivers every datagram.
ReceiveFrom(n, m) == \E d \in net : d.from = m /\ Receive(n, d)

Fairness ==
  /\ \A n \in Node : WF_vars(FixedStep(n))
  /\ \A n, m \in Node : SF_vars(ReceiveFrom(n, m))

FairSpec == Spec /\ Fairness

\* No node is stranded: each executes every tick of the match.
EveryTickExecuted == \A n \in Node : <>(tick[n] = MaxTick)
=============================================================================
