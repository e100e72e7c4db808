------------------------------- MODULE Drops -------------------------------
(***************************************************************************)
(* Resolving a player that stopped sending: the stall detector, the        *)
(* host's DropAt announcement, the peers' StallVote consensus, the loss of *)
(* control links and the checksum exchange, on top of the input pipeline.  *)
(*                                                                         *)
(* A FixedStep threads the record of one node through the systems of the   *)
(* FixedUpdate schedule in their order; each system is an operator on that *)
(* record.  Every seat is a human's, so a player is named by its node; a   *)
(* node outside Player watches.  Nobody is defeated, and the commands of a *)
(* frame do not matter: what a tick runs with is the set of its players.   *)
(***************************************************************************)
EXTENDS InputFrames, SequencesExt

CONSTANTS
  Node,          \* the processes; the player seated at node n is called n
  Host,          \* the node that opened the lobby (HOST_PEER)
  TimeoutSteps,  \* DropConfig::timeout_steps
  Sessions       \* the sessions a run is about, each a record:
                 \*   authority     "host" or "peers"
                 \*   policy        "automatic" or "manual": the DropPolicy
                 \*   relays        nodes whose role forwards other players' frames
                 \*   gameLinks     <<a, b>>: b hears what a broadcasts as gameplay
                 \*   controlLinks  <<a, b>>: a holds a control connection to b
                 \*   shared        one TCP socket carries both channels (the host star)
                 \*   latency       SYNC_LATENCY
                 \*   checksums     the multiples of CHECKSUM_INTERVAL
                 \*   mayCrash      nodes that may stop at any moment
                 \*   patient       the grace window outlasts every delay (see Settled)
                 \*   inFlight      bound: newest datagrams a sender has in flight
                 \*   last          bound: this tick is not executed, nor is input
                 \*                 committed for it

ASSUME DropsAssumption ==
  /\ IsFiniteSet(Node)
  /\ Player \subseteq Node
  /\ Host \in Node
  /\ TimeoutSteps \in Nat \ {0}
  /\ \A s \in Sessions :
       /\ s.authority \in {"host", "peers"}
       /\ s.policy \in {"automatic", "manual"}
       /\ s.relays \cup s.mayCrash \subseteq Node
       /\ s.gameLinks \cup s.controlLinks \subseteq {l \in Node \X Node : l[1] # l[2]}
       /\ {s.shared, s.patient} \subseteq BOOLEAN
       /\ s.shared => s.gameLinks = s.controlLinks
       /\ s.checksums \cup {s.latency, s.last} \subseteq Nat
       /\ s.inFlight \in Nat \ {0}

VARIABLES
  session,  \* which session this is
  node,   \* what each node holds, a record of NodeState
  up,     \* the nodes that have not crashed or left
  wire,   \* the unread messages of each connection, in order
  air     \* the gameplay datagrams each node has in flight (not if Shared)

vars == <<session, node, up, wire, air>>

Authority == session.authority
Policy == session.policy
Relays == session.relays
GameLinks == session.gameLinks
ControlLinks == session.controlLinks
Shared == session.shared
SyncLatency == session.latency
ChecksumTicks == session.checksums
MayCrash == session.mayCrash
Patient == session.patient
InFlight == session.inFlight
MaxTick == session.last

Never == MaxTick + SyncLatency + 1   \* "no tick": later than any that occurs

Vote == [voter : Player, tick : Nat, missing : SUBSET Player]

Sum == [player : Player, tick : Nat, hash : Seq(SUBSET Player)]

NodeState ==
  [tick : Nat,
   state : {"running", "blocked", "finished"},
   result : {"none", "aborted", "desync"},
   frames : SUBSET PlayerFrame,
   dropped : [Player -> Nat],            \* the drop ticks decided, or Never
   votes : SUBSET Vote,                  \* StallVotes
   lost : SUBSET Player,                 \* ControlLinks::lost
   streak : [tick : Nat, steps : Nat],   \* BlockedStreak
   local : SUBSET Nat,                   \* DesyncTracker: ticks hashed here
   heard : SUBSET Sum,                   \* DesyncTracker: hashes of the peers
   ran : Seq(SUBSET Player)]             \* whose input each executed tick used

NoStreak == [tick |-> Never, steps |-> 0]

InitialState ==
  [tick |-> 0, state |-> "running", result |-> "none",
   frames |-> {Frame(p, t, Idle) : p \in Player, t \in 0 .. (SyncLatency - 1)},
   dropped |-> [p \in Player |-> Never], votes |-> {}, lost |-> {},
   streak |-> NoStreak, local |-> {}, heard |-> {}, ran |-> <<>>]

Init ==
  /\ session \in Sessions
  /\ node = [n \in Node |-> InitialState]
  /\ up = Node
  /\ wire = [l \in ControlLinks |-> <<>>]
  /\ air = [n \in Node |-> <<>>]

-----------------------------------------------------------------------------
\* The GameSession of one node.
IsActive(s) == s.state \in {"running", "blocked"}

\* (mutant) Only a running session can finish.
Finish_OnlyRunning(s, result) ==
  IF s.state # "running" THEN s ELSE [s EXCEPT !.state = "finished", !.result = result]

Finish(s, result) ==
  IF s.state = "finished" THEN s ELSE [s EXCEPT !.state = "finished", !.result = result]

DropPlayers(s, players, from) ==
  [s EXCEPT !.dropped = [p \in Player |-> IF p \in players THEN from ELSE @[p]]]

\* (mutant) A decided drop takes effect at once.
IsPlayerRequired_AtOnce(s, p, t) == s.dropped[p] = Never

IsPlayerRequired(s, p, t) == t < s.dropped[p]

\* (mutant) A tick runs without the players whose frames have not arrived.
RequiredPlayers_Present(s, t) == {p \in Player : HasFrame(s.frames, p, t)}

RequiredPlayers(s, t) == {p \in Player : IsPlayerRequired(s, p, t)}

IsPlayerOut(s, p) == s.dropped[p] <= s.tick

\* awaits_frames: no drop of the player is decided, not even one for a tick
\* still ahead.
AwaitsFrames(s, p) == s.dropped[p] = Never

-----------------------------------------------------------------------------
\* net_receive.  A node keeps the last hash of each player and tick.
NetReceive(s, msg) ==
  CASE msg.kind = "frames" ->
         [s EXCEPT !.frames = PushFrames(@, msg.frames)]
    [] msg.kind = "sum" ->
         [s EXCEPT !.heard = {h \in @ : <<h.player, h.tick>> # <<msg.sum.player, msg.sum.tick>>}
                               \cup {msg.sum}]

\* The observation known of a voter is replaced, never joined.
Cast(votes, vote) == {v \in votes : v.voter # vote.voter} \cup {vote}

\* (mutant) The drop takes effect from the node's own tick.
HandleDropAt_OwnTick(s, from, msg) ==
  IF Authority # "host" \/ from # Host \/ s.dropped[msg.player] # Never THEN s
  ELSE [DropPlayers(s, {msg.player}, s.tick) EXCEPT !.streak = NoStreak]

\* net_control on a DropAt: the authoritative drop, from the host's node only.
\* A drop behind the node's own tick ends the game.
HandleDropAt(s, from, msg) ==
  IF Authority # "host" \/ from # Host \/ s.dropped[msg.player] # Never THEN s
  ELSE IF msg.tick < s.tick THEN Finish(s, "desync")
  ELSE [DropPlayers(s, {msg.player}, msg.tick) EXCEPT !.streak = NoStreak]

\* net_control on a StallVote: whether node n learns from it.  A relayed copy
\* counts only for a voter the node does not hear directly.
LearnsVote(n, s, from, vote) ==
  /\ vote.voter # n
  /\ vote.voter = from \/ <<n, vote.voter>> \notin ControlLinks \/ vote.voter \in s.lost
  /\ vote \notin s.votes

\* net_control on one message; acc carries the node's state and what it
\* forwards.  A player whose connection went down is lost; a watcher is nobody.
HandleControl(n, acc, from, msg) ==
  CASE msg.kind = "closed" ->
         [acc EXCEPT !.s.lost = @ \cup ({from} \cap Player)]
    [] msg.kind = "drop" ->
         [acc EXCEPT !.s = HandleDropAt(@, from, msg)]
    [] msg.kind = "vote" /\ LearnsVote(n, acc.s, from, msg.vote) ->
         [s |-> [acc.s EXCEPT !.votes = Cast(@, msg.vote)],
          out |-> acc.out \o IF Authority = "peers" THEN <<msg>> ELSE <<>>]
    [] OTHER -> acc

\* The session cannot be steered without its host, or without any peer.
Unsteerable(n, s) ==
  \/ /\ Authority = "host" /\ n # Host
     /\ Host \in s.lost
  \/ /\ Authority = "peers"
     /\ LET others == {p \in Player \ {n} : ~IsPlayerOut(s, p)}
        IN others # {} /\ others \subseteq s.lost

Steer(n, s) == IF Unsteerable(n, s) THEN Finish(s, "aborted") ELSE s

\* flush_input.
FlushInput(n, s) ==
  IF n \in Player /\ ~IsPlayerOut(s, n) /\ s.tick + SyncLatency < MaxTick
  THEN [s EXCEPT !.frames = PushFrames(@, {Frame(n, s.tick + SyncLatency, Idle)})]
  ELSE s

-----------------------------------------------------------------------------
\* detect_drops.  expired: the grace window is over; approved: the game has
\* approved dropping every missing player.
Missing(s, others) == {p \in others : ~HasFrame(s.frames, p, s.tick)}

\* (mutant) Every vote received so far counts as stale.
CountStep_Fresh(s) ==
  IF s.streak.tick = s.tick
  THEN [s EXCEPT !.streak.steps = IF @ < TimeoutSteps THEN @ + 1 ELSE @]
  ELSE [s EXCEPT !.streak = [tick |-> s.tick, steps |-> 1], !.votes = {}]

CountStep(s) ==
  IF s.streak.tick = s.tick
  THEN [s EXCEPT !.streak.steps = IF @ < TimeoutSteps THEN @ + 1 ELSE @]
  ELSE [s EXCEPT !.streak = [tick |-> s.tick, steps |-> 1],
                 !.votes = {v \in @ : v.tick = s.tick}]

\* The players whose vote a commit at node n needs: the live ones outside the
\* missing set, and its own.
Voters(n, others, missing) == (others \ missing) \cup ({n} \cap Player)

Unanimous(s, voters, missing) ==
  \A p \in voters : [voter |-> p, tick |-> s.tick, missing |-> missing] \in s.votes

\* The host announces and applies its decision.
HostDecides(s, missing, decided) ==
  IF ~decided THEN [s |-> s, out |-> <<>>]
  ELSE [s |-> [DropPlayers(s, missing, s.tick) EXCEPT !.streak = NoStreak],
        out |-> LET order == SetToSeq(missing)
                IN [i \in DOMAIN order |->
                      [kind |-> "drop", player |-> order[i], tick |-> s.tick]]]

\* Each player's node casts what it sees, once, and commits on unanimity.
PeersDecide(n, s, others, missing, decided) ==
  LET mine == [voter |-> n, tick |-> s.tick, missing |-> missing]
      casts == decided /\ n \in Player /\ mine \notin s.votes
      voted == IF casts THEN [s EXCEPT !.votes = Cast(@, mine)] ELSE s
  IN [s |-> IF Unanimous(voted, Voters(n, others, missing), missing)
            THEN [DropPlayers(voted, missing, s.tick) EXCEPT !.streak = NoStreak,
                                                             !.votes = {}]
            ELSE voted,
      out |-> IF casts THEN <<[kind |-> "vote", vote |-> mine]>> ELSE <<>>]

DetectDrops(n, s, expired, approved) ==
  IF s.state # "blocked"
  THEN [s |-> [s EXCEPT !.streak = NoStreak, !.votes = {}], out |-> <<>>]
  ELSE
    LET counted == CountStep(s)
        others == {p \in Player \ {n} : AwaitsFrames(s, p)}
        missing == Missing(s, others)
        grace == counted.streak.steps >= TimeoutSteps /\ expired
        decided == IF Policy = "automatic" THEN grace ELSE approved
        aborted == [Finish(counted, "aborted") EXCEPT !.streak = NoStreak]
        end(when) == [s |-> IF when THEN aborted ELSE counted, out |-> <<>>]
    IN CASE missing = {} -> end(FALSE)
         [] missing # {} /\ missing = others -> end(grace)
         [] missing \notin {{}, others} /\ Authority = "host" /\ n = Host ->
              HostDecides(counted, missing, decided)
         [] missing \notin {{}, others} /\ Authority = "host" /\ n # Host ->
              end(grace /\ Host \in missing)
         [] missing \notin {{}, others} /\ Authority = "peers" ->
              PeersDecide(n, counted, others, missing, decided)

-----------------------------------------------------------------------------
\* net_broadcast: the window around the node's tick that belongs on the wire.
Window(n, s) ==
  {f \in FramesInRange(s.frames,
                       IF s.tick < SyncLatency THEN 0 ELSE s.tick - SyncLatency,
                       s.tick + SyncLatency) :
     IsPlayerRequired(s, f.player, f.tick) /\ (n \in Relays \/ f.player = n)}

\* net_checksum: the hash of the state entering a tick stands for the inputs
\* that led to it.
Mismatch(s) ==
  \E h \in s.heard : h.tick \in s.local /\ h.hash # SubSeq(s.ran, 1, h.tick)

Latest(ticks) == CHOOSE t \in ticks : \A u \in ticks : u <= t

PruneCompared(s) ==
  LET heard == {h.tick : h \in s.heard}
  IN IF s.local = {} \/ heard = {} THEN s
     ELSE LET compared == IF Latest(s.local) < Latest(heard) THEN Latest(s.local)
                                                             ELSE Latest(heard)
          IN [s EXCEPT !.local = {t \in @ : t > compared},
                       !.heard = {h \in @ : h.tick > compared}]

Hashes(s) == s.state = "running" /\ s.tick \in ChecksumTicks

NetChecksum(s) ==
  LET hashed == IF Hashes(s) THEN [s EXCEPT !.local = @ \cup {s.tick}] ELSE s
  IN IF s.state # "running" THEN s
     ELSE IF Mismatch(hashed) THEN Finish(hashed, "desync") ELSE PruneCompared(hashed)

\* command_executor and the tick counter.
Execute(s) ==
  IF ~IsActive(s) \/ s.tick = MaxTick THEN s
  ELSE IF IsReady(s.frames, s.tick, RequiredPlayers(s, s.tick))
  THEN [s EXCEPT !.ran = Append(@, RequiredPlayers(s, s.tick)),
                 !.tick = @ + 1, !.state = "running"]
  ELSE [s EXCEPT !.state = "blocked"]

-----------------------------------------------------------------------------
IsGameplay(msg) == msg.kind \in {"frames", "sum"}

\* Messages join the queue of a connection.  A window sent behind one that is
\* still unread counts as one with it: to read only the first is to read before
\* the second is sent.
Enqueue(q, msgs) ==
  IF q # <<>> /\ msgs # <<>> /\ Last(q).kind = "frames" /\ Head(msgs).kind = "frames"
  THEN [q EXCEPT ![Len(q)].frames = @ \cup Head(msgs).frames] \o Tail(msgs)
  ELSE q \o msgs

CanStep(n) == n \in up /\ IsActive(node[n])

\* Node n sends messages on all its connections; what nobody will read is not
\* queued.
Sent(n, msgs) ==
  [l \in ControlLinks |->
     IF l[1] = n /\ CanStep(l[2]) THEN Enqueue(wire[l], msgs) ELSE wire[l]]

\* A datagram is sent, if there is one; a sender's newest are in flight, each once.
Newest(q, msgs) ==
  LET all == q \o msgs
  IN IF msgs = <<>> \/ Head(msgs) \in Range(q) THEN q
     ELSE SubSeq(all, IF Len(all) > InFlight THEN Len(all) - InFlight + 1 ELSE 1, Len(all))

Handle(n, a, msg) ==
  IF IsGameplay(msg)
  THEN [s |-> NetReceive(node[n], msg), out |-> <<>>]
  ELSE HandleControl(n, [s |-> node[n], out |-> <<>>], a, msg)

\* One message of a connection reaches node n and the system that drains it.
\* What arrives between two steps is handled by the second, and nothing else
\* reads or writes there what the handlers do, so it is handled on arrival.
\* Control may overtake gameplay on a shared socket: the gameplay view is
\* drained first, the control view then drains the socket again, and gameplay
\* that came meanwhile waits in its inbox.
Arrive(n, a) ==
  /\ CanStep(n)
  /\ <<a, n>> \in ControlLinks
  /\ \E i \in DOMAIN wire[<<a, n>>] :
       /\ \A k \in 1 .. (i - 1) : IsGameplay(wire[<<a, n>>][k])
       /\ IsGameplay(wire[<<a, n>>][i]) => i = 1
       /\ \E after \in {Handle(n, a, wire[<<a, n>>][i])} :
            /\ node' = [node EXCEPT ![n] = after.s]
            /\ wire' = [Sent(n, after.out) EXCEPT ![<<a, n>>] = RemoveAt(@, i)]
  /\ UNCHANGED <<up, air>>

\* net_broadcast.
Broadcast(n, s) ==
  IF IsActive(s) /\ Window(n, s) # {}
  THEN <<[kind |-> "frames", frames |-> Window(n, s)]>> ELSE <<>>

\* The sending half of net_checksum.
Checksum(n, s) ==
  IF Hashes(s) /\ n \in Player
  THEN <<[kind |-> "sum", sum |-> [player |-> n, tick |-> s.tick, hash |-> s.ran]]>>
  ELSE <<>>

\* The systems of one FixedUpdate of node n in their order; each runs only
\* while the session is active.
Step(n, expired, approved) ==
  /\ CanStep(n)
  /\ \E control \in {Steer(n, node[n])} :
     \E detected \in {IF IsActive(control)
                      THEN DetectDrops(n, FlushInput(n, control), expired, approved)
                      ELSE [s |-> control, out |-> <<>>]} :
     \E frames \in {Broadcast(n, detected.s)}, sum \in {Checksum(n, detected.s)} :
       /\ node' = [node EXCEPT ![n] = Execute(NetChecksum(detected.s))]
       /\ wire' = Sent(n, detected.out \o IF Shared THEN frames \o sum ELSE <<>>)
       /\ air' = IF Shared THEN air
                 ELSE [air EXCEPT ![n] = Newest(Newest(@, frames), sum)]
  /\ UNCHANGED up

\* Everybody is stuck at its tick and knows it, and no frame that is on its way or that a
\* neighbour would send again is news to a node that is up.  The comment on
\* detect_drops assumes that the grace window lasts until then ("well inside
\* the grace window").
Settled ==
  \A n \in up : IsActive(node[n]) =>
    LET s == node[n]
        Known(msg) == msg.kind = "frames" => PushFrames(s.frames, msg.frames) = s.frames
    IN /\ \/ s.tick = MaxTick
          \/ s.state = "blocked" /\ ~IsReady(s.frames, s.tick, RequiredPlayers(s, s.tick))
       /\ \A l \in ControlLinks : l[2] = n =>
            \A i \in DOMAIN wire[l] : Known(wire[l][i])
       /\ \A l \in GameLinks : l[2] = n =>
            /\ \A i \in DOMAIN air[l[1]] : Known(air[l[1]][i])
            /\ CanStep(l[1]) =>
                 PushFrames(s.frames, Window(l[1], node[l[1]])) = s.frames

FixedStep(n) ==
  \E approved \in IF Policy = "manual" THEN BOOLEAN ELSE {FALSE} :
    Step(n, Patient => Settled, approved)

\* net_receive of one datagram; it may be received again or never.
Receive(n, a, msg) ==
  /\ CanStep(n)
  /\ <<a, n>> \in GameLinks
  /\ node' = [node EXCEPT ![n] = NetReceive(@, msg)]
  /\ UNCHANGED <<up, wire, air>>

\* A node crashes, or leaves a finished match: its connections go down.  Of a
\* crashed node's last messages those to some nodes may be lost.
Stop(n) ==
  /\ n \in up
  /\ n \in MayCrash \/ node[n].state = "finished"
  /\ \E keep \in IF node[n].state = "finished" THEN {Node} ELSE SUBSET {l[2] : l \in ControlLinks} :
       wire' = [l \in ControlLinks |->
                  IF l[2] = n THEN <<>>
                  ELSE IF l[1] = n /\ l[2] \in up
                  THEN (IF l[2] \in keep THEN wire[l] ELSE <<>>) \o <<[kind |-> "closed"]>>
                  ELSE wire[l]]
  /\ up' = up \ {n}
  /\ UNCHANGED <<node, air>>

Next ==
  /\ \/ \E n \in Node : FixedStep(n)
     \/ \E n, a \in Node : Arrive(n, a)
     \/ \E n, a \in Node : \E i \in DOMAIN air[a] : Receive(n, a, air[a][i])
     \/ \E n \in Node : Stop(n)
  /\ UNCHANGED session

Spec == Init /\ [][Next]_vars

-----------------------------------------------------------------------------
\* Every resource keeps its shape: the votes are a map, a finished session has
\* a result, and the tick counts what was executed.
TypeOK ==
  /\ node \in [Node -> NodeState]
  /\ up \subseteq Node
  /\ \A n \in Node :
       /\ \A v, w \in node[n].votes : v.voter = w.voter => v = w
       /\ node[n].state = "finished" <=> node[n].result # "none"
       /\ Len(node[n].ran) = node[n].tick

\* The players' nodes no one dropped, and the watchers: those that play on.
PlaysOn(n) == \A m \in Node : n \in Player => node[m].dropped[n] = Never

\* "All survivors ... drop as of the same tick": two nodes that decided to drop
\* a player name the same tick.
DropsAgree ==
  \A m, n \in Node, p \in Player :
    node[m].dropped[p] # Never /\ node[n].dropped[p] # Never
      => node[m].dropped[p] = node[n].dropped[p]

\* The two above, as one invariant: every node's state is sound, and its drops are
\* those of the others (detect_drops, net_control).
DropsInv == TypeOK /\ DropsAgree

\* "Ticks before B executed its real frames everywhere and ticks from B on
\* ignore it everywhere" (detect_drops): the nodes that play on executed every
\* common tick with the input of the same players.
SurvivorsAgree ==
  \A m, n \in Node : PlaysOn(m) /\ PlaysOn(n) =>
    \A i \in 1 .. Len(node[m].ran) :
      i <= Len(node[n].ran) => node[m].ran[i] = node[n].ran[i]

\* No node that plays on ends the match as desynchronized, neither over a late
\* DropAt (net_control) nor over a checksum (net_checksum).
NoSurvivorDesync ==
  \A n \in Node : PlaysOn(n) => node[n].result # "desync"

\* A peer's vote "for *this* tick may already have arrived ...  dropping it would
\* strand the consensus" (detect_drops, network.rs): a node that stays at a tick
\* and drops nobody keeps what the others voted there.
VotesKept ==
  [][\A n \in Player : \A v \in node[n].votes :
       (/\ v.voter # n /\ v.tick = node[n].tick
        /\ node'[n].state = "blocked" /\ node'[n].tick = v.tick
        /\ node'[n].dropped = node[n].dropped
        /\ FixedStep(n)) => v \in node'[n].votes]_vars

\* Fairness, which only a grace window that outlasts every delay calls for: a
\* node keeps running its schedule, reads every socket that always has gameplay
\* to read, and receives what a sender keeps in flight.
Sources == IF Shared THEN {{a} : a \in Node} ELSE {Node}

Works(n) == Patient /\ Step(n, Settled, Policy = "manual") /\ UNCHANGED session
Reads(n, S) ==
  /\ Patient /\ S \in Sources
  /\ \E a \in S : Arrive(n, a)
  /\ UNCHANGED session
Hears(n) ==
  /\ Patient
  /\ \E a \in Node : \E i \in DOMAIN air[a] : Receive(n, a, air[a][i])
  /\ UNCHANGED session

FairSpec ==
  /\ Spec
  /\ \A n \in Node : WF_vars(Works(n))
  /\ \A n \in Node : \A S \in {{a} : a \in Node} \cup {Node} : WF_vars(Reads(n, S))
  /\ \A n \in Node : SF_vars(Hears(n))

\* With such a grace window no stall lasts (detect_drops): every node that stays up reaches the end of the match or is
\* told that the match is over; where peers decide, the survivors of a crash
\* play on to the end.
StallsResolve ==
  Patient => <>(\A n \in Node :
       \/ node[n].tick = MaxTick
       \/ /\ n \notin up \/ node[n].state = "finished"
          /\ Authority = "host" \/ n \in MayCrash)
=============================================================================
