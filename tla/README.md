# Ferrets: a TLA+ verification of the multiplayer core

Ferrets is a deterministic real-time-strategy engine in Rust. A match runs the same simulation on
every node; only player input, control messages and checksums travel between nodes. Everything the
players see depends on one promise: *every node feeds its simulation the same input, in the same
order, under the same settings*. This directory models the code that keeps the promise, checks it
with TLC on small instances and proves most of what the checks show with TLAPS, for all instances.

Paths below are relative to `src/crates/`. `network.rs` is `ferrets-bevy-plugin/src/network.rs`,
the file where most of the distributed logic lives.

## 1. Inventory

| Component | Source | State | Operations | What makes it correct |
|---|---|---|---|---|
| Input buffers | `ferrets-simulation/src/input.rs` | `InputFrames`: per tick, one command list per player | record, push, range, ready | a frame never changes once recorded; a tick is ready exactly when every required player's frame is there |
| Lockstep pipeline | `systems/flush_input.rs`, `network.rs` (receive, broadcast), `systems/command_executor.rs`, `ferrets-network/src/driver.rs` | tick and status of the session, buffers, the window sent again each step | flush, broadcast, receive, execute | all nodes execute the same input; nodes stay near each other; nobody is stranded |
| Drops and the end of a session | `network.rs` (`detect_drops`, `net_control`), `session/mod.rs` | blocked streak, votes, lost links, drop ticks, result | `DropAt`, `DropVote`, `DropPlayer`, abort, finish | survivors drop a player as of the same tick, and a stall always ends |
| Pause and speed | `network.rs` (`PendingChange`, `route_request`, `receive_change`, `net_control`) | pending changes, paused flag, speed | request, propose, flood, claim | every tick runs under one setting everywhere; a pause lifts for everybody |
| Desync detection | `network.rs` (`DesyncTracker`, `net_checksum`), `checksum.rs` | local and peer hashes | sample, send, compare, prune | a node alone in its state does not play on with others |
| Control channel and sockets | `ferrets-network/src/{control,demux,session,role,roster}.rs`, `transport/` | per-link queues; the two halves of a shared socket | send, poll, demultiplex, relay | order per link; a lost link is told once |
| Pacing and throttle | `ferrets-bevy-plugin/src/tick.rs`, `network.rs` (capacity, margins) | capacity of each peer, margin windows | report, throttle | speed only changes how often steps run |
| Lobby | `ferrets-network/src/lobby/`, `bootstrap.rs` | slots, watchers, connections | join, seat, observe, play, configure, start | a peer holds one place; all start from one roster |
| Replay | `ferrets-replay/`, `ferrets-bevy-plugin/src/replay/` | log of ticks, playback position | record, supply, verify | playback repeats the match |
| Orders | `components/order_queue.rs`, `game_loop/orders.rs`, `game_loop/executor.rs` | queue and work in hand of each entity | issue, mark, flush, prepare, suspend, watch, process | no work charged and lost, none paid back twice |
| Work | `game_loop/{train,research,morph,build,repair,cast}.rs`, `resources.rs`, `supply.rs` | stock, supply, research in flight, change of form | charge, advance, land, refund | a price is paid back at most once, supply is never overrun |
| Harvesting | `game_loop/{harvest,crew,work,pending_reveal}.rs`, `components/resource.rs` | the trip of a carrier, the crew of a source, what is left and in hand | take up, work, transfer, deliver, wait, come back | a crew is who works there, nobody is left inside, no load is made or lost |
| Movement | `game_loop/movement.rs`, `movement_model.rs`, `make_way.rs`, `landing.rs` | claim plane, crossings, paths, patience | plan, step, trade places, ask aside, give up, settle | one body per cell, every walk ends |
| Carrying, combat, fields, visibility | `ferrets-simulation/src/game_loop/` | the ECS world | one system per tick phase | deterministic within a tick |
| Content, script, pathfinder, geometry, math, physics, random | their crates | tables, Lua state, grids | pure or I/O | deterministic |

### How they interact

Each node runs the `FixedUpdate` schedule of `lib.rs` in sets: *Receive* (`net_receive`,
`net_control`), *Sources*, *Commit* (`flush_input`), *Decide* (`detect_drops`), *Broadcast*
(`net_broadcast`, `net_checksum`), *Execute* (`command_executor`), *Simulate*. The systems of one
node run back to back; nodes run independently and talk over two channels:

* **gameplay**: frames and checksums. Over UDP in a mesh, where datagrams may be lost, repeated and
  reordered, and over the star's single TCP socket otherwise.
* **control**: ordered messages per link (pause, speed, drops, votes, lost links).

There are three session modes. `HostStar`: one TCP socket per client carries both channels, split by
`demux.rs`, and the host relays. `MeshHosted`: UDP between all, control through the host.
`MeshDecentralized`: UDP between all and a TCP control mesh, where decisions are by consensus
(votes) or by rank (changes).

### What is hard about it

* *Interleaving and order*: a blocked node runs its step again and again; windows arrive late,
  repeated and relayed; control and gameplay overtake each other on a mesh; changes proposed by two
  nodes cross.
* *Failure*: nodes crash between two steps and their last messages reach only some; links go down;
  datagrams are lost; a player may be dropped while it is alive.
* *Timeouts*: the grace window races late frames, and a vote is a claim about a moment that passes.
* *Boundaries*: warm-up ticks, the tick of a defeat, the tick a drop takes effect from, the margin
  of `CONTROL_DELAY` (4) over `SYNC_LATENCY` (2).
* *Liveness*: everybody can be waiting for everybody.
* *Order within a tick*: the simulation is sequential, but the entities of one tick take their turns
  one by one, and what one does (a death, a capture, a source mined out, a cell taken) falls between
  the turns of the others, in the middle of what they have in hand.

`PROJECT.json` lists these hazards at their lines, with the properties that watch them.

## 2. Modules

| Module | Models | Built on |
|---|---|---|
| `InputFrames` | `input.rs` as operators on sets of frames | - |
| `Lockstep` | the input pipeline, all nodes | `InputFrames` |
| `ReplicatedInput` | abstract: every node consumes one common sequence of input | - |
| `Drops` | stalls, drops, votes, host loss, checksums, crashes | `InputFrames` |
| `ControlPlane` | pause and speed changes | - |
| `DesyncTracker` | sampling, exchange and pruning of checksums | - |
| `Lobby` | a host, its clients and the start of the game | - |
| `Replay` | a recording and its playback | - |
| `OrderQueue` | the order queue of one entity | - |
| `Orders` | orders and paid work over the phases of a tick | `OrderQueue` |
| `Harvest` | carriers, sources, crews and storages | - |
| `CellWalk` | walks of the cell model | `OrderQueue` |
| `GameProofs` | theorems about the two halves of a network game | `Lockstep`, `Lobby`, `NaturalFacts` |
| `DropsProofs`, `ControlProofs`, `OrdersProofs`, `HarvestProofs`, `CellWalkProofs` | theorems about the module they name | that module, `NaturalFacts` |
| `ChecksumProofs` | theorems about the two readers of checksums | `DesyncTracker`, `Replay`, `NaturalFacts` |
| `NaturalFacts` | lemmas: least and greatest elements, bounded induction and recursion | - |
| `MCLockstep`, `MCDrops`, `MCControlPlane`, `MCOrders`, `MCHarvest`, `MCCellWalk` | instances for TLC | the module they name |
| `MCGame` | a network game: in its lobby (`Lobby`) or playing (`Lockstep`) | `MCLockstep`, `Lobby` |
| `MCChecksums` | the two readers of checksums: a session (`DesyncTracker`) or a playback (`Replay`) | both |
| `MCEntities` | two kinds of squad: under orders (`Orders`) or at work (`Harvest`) | `MCOrders`, `MCHarvest` |

The last three put two machines that do not act on each other behind one variable that says which of
them runs; the other stays as it began. They share a run, not a state space: nothing is shown of the
two at once.

### How state and actions correspond to the code

**Lockstep.** `tick`, `state` and `frames` are `GameSession::tick`, `SessionState` and
`InputFrames`; `net` holds the datagrams in flight; `executed` is history, the input each simulation
consumed; `conflict` records what `debug_assert` of `InputFrame::record` would catch. `FixedStep(n)`
is one run of the schedule (flush, broadcast, execute) and `Receive` one datagram of `net_receive`.
A datagram stays in `net` until `Lose`, so it may be received any number of times in any order.
`OutFrom` fixes the tick at which the simulation defeats each player, which every node computes for
itself.

**Drops.** `session` is the record of one session's terms (authority, policy, topology, latency, who
may crash), fixed at the start and taken from the constant `Sessions`. `node[n]` gathers the resources of one node (session status and drops, buffers, streak,
votes, `ControlLinks::lost`, `DesyncTracker`); `wire` is the FIFO of each control link, `air` the
newest datagrams of each sender. `Step` composes `net_control`'s steering, `flush_input`,
`detect_drops`, `net_broadcast`, `net_checksum` and `command_executor` in schedule order. With
`shared` both channels use `wire`, as `demux.rs` splits one socket. `Stop` is a crash, or the
exit of a finished match; of a crashed node's unread messages any subset of links is lost. `manual`
policy means the game approves whenever it likes.

**ControlPlane.** One store at a time, of the `session` chosen from `Sessions`: pauses are the values
0 and 1 (`freezing = {1}`), speeds are 1 to 3. `Propose`, `Accepts` and `Claimed` are `PendingChange::propose` and `claim_due`; `Step` is
`net_control`'s request routing and claiming with the gate on execution; `Arrive` is one control
message with its flood under peer authority. Of the input pipeline there remains only how far each
player has committed, so the pace of the nodes is that of `Lockstep`.

**DesyncTracker.** `groups` says of each sampled tick which nodes enter it in one state; it is any
division of the nodes whose groups split as ticks go by and never come together, as states once apart
stay apart. `Hash(n, t)` is the group of the node, so two hashes are equal exactly when the states
are, and two nodes gone astray alike agree with each other. `air` holds the unread checksum
datagrams.

**Lobby.** `lobby` is the host's `LobbyState`, `up` and `down` the TCP stream of each client with the
end of the link behind what is in it, `client` what a client's node holds (mirror, seat, where it
is), `knocks` who has dialed which control listener. `Moved` is what an event at the host makes of the
places (`LobbyHost::apply`) and `News` whether the clients hear of it. `HostPoll` and `ClientPoll`
drain one stream as `LobbyHost::poll` and `LobbyClient::poll` do; `CycleKind` and `HostMoves` are the host's menu
(`ferrets-demo/src/lobby.rs`), `HostStarts` the roster and the start, `Meshed` the dials of a node
that starts, down the list of the start up to the first that is refused, `Accept` and `GiveUp` the
mesh that forms behind them.

**Replay.** `live` is the recorded game, `file` the chunks on disk, `view` the playback. `Record`
writes a tick's chunk and may fail, `PlayStep` is one step of the playback schedule: supply, apply
drops and falls, execute. The state of a game is the history of what its ticks ran with, so
"plays back the same" is equality of histories.

**Orders.** `unit[e]` gathers the components of one entity: its queue, `drivers` (the driver
components its orders insert), what is paid for, crossing, outage, change of form and life. A tick
goes through the stages of the schedule: commands, `process_dying`, `prepare`, `watch`, then the
entities by id, one `Process` each. Between two turns `Outside` brings a death, a capture, a holder or
a cast that takes an entity away. Kinds of order that the queue does not tell apart share one.

**Harvest.** `worker[c]` gathers the components of one carrier: life, owner, `body` (on the map,
`inside` a source, `waiting` off the map for a cell, or hidden for good), the place it stands at, the
load in hand and the `HarvestComponent` as `job`. `crew` is `UnderHarvestComponent::carriers`, `left`
what sources still hold. `yard` fixes the terms of a game: presence, banking, capacity, drain, time
and crew limits. `AdvanceHarvest` is `harvest.rs`'s `advance` with its early returns; the pathfinder
is the set `shut` of places no walk leads to, the search for a free cell the flag `crowded`, and both
may change at any time. A walk takes one tick. Carriers seated in berths are left out.

**CellWalk.** `claimed` is the claim plane, `at` and `crossing` the bodies' positions, `walk[b]` the
`MoveComponent`. `Resolve` is the ladder of `resolve_blocked_crossing`: trade places, arrive beside,
ask aside, detour, wait, plan again, give up. The map is one cluster, so a plan has no corridor; a
search returns *any* of the cheapest routes. Each step costs the same, diagonal or not, as in the
isometric projection; a claimed cell costs a detour `Penalty` steps more (`CLAIM_PENALTY`, 60, is six
steps of 10). The bias that separates opposing flows (`lane_bias`) is left out, distances are counted
in king's moves, bodies cover one cell and share one layer. `Detours` finds the cheapest among the
shortest routes over each set of claims it might cross. `Routes` builds those routes from `Balls`, the cells within n steps of a
target, and `Descents`, the ways down from ball to ball. `WalkInv` says that a path leads on from
where its body is (`PathsLead`), that only the front of a queue is started (`OnlyFrontRuns`), and that
a body walks exactly when that is a move (`DriverMatchesQueue`). `site` is a building whose footprint spreads and shrinks under the walkers.

## 3. Runs

| Run | Instance | Shows |
|---|---|---|
| `game` | a lobby of a host, two clients (one may be of another build), two slots, one watcher's place, star or decentralized mesh; or two players on a lossy mesh, the second defeated at tick 2 | `LobbyInv`, `MirrorsAgree`, `StartsTogether`, `MeshForms`, `PlaceKept`; `TypeOK`, `InputImmutable`, `ExecutedAgree`, `SpreadBound`, `Refinement` of `ReplicatedInput` |
| `lockstep_star` | a watching host relays two players over connections (`StarSpec`: every datagram stays until it is received) | `EveryTickExecuted` under fairness |
| `lockstep_loss` | 2 players, loss; *violation* | `EveryTickExecuted` fails: a lost datagram is not sent again once the window has moved on |
| `drops` | `HostStar`: clients dropped at any time, dead or alive; `PatientStar`: host and client may crash; `PatientPeers`: three peers, one hears nothing and may crash | `DropsInv`, `SurvivorsAgree`, `NoSurvivorDesync`, `VotesKept`; `StallsResolve` under fairness where the grace window is patient |
| `control` | pauses of a host and two clients that cross, pauses flooded over three peers, colliding speeds of two | `ControlInv`, `NoneLeftFrozen`, `TakenInTurn`, `SentInTime`; `SettleTogether` under fairness |
| `pause_peers` | two peers, crossing; *violation* | `NoneLeftFrozen` fails: a resume that arrives before the freeze is ranked against the pause |
| `checksums` | three nodes, one of which may wait for the others, parted into groups of one state in any way; or three recorded players, drops, falls, failing writes, a stream cut anywhere | `TrackerInv`, `ReplayInv`, `Retraces`, `PlaysTheRecording`; `PlayedOut` under fairness |
| `entities` | a walker, a lair, or two camps of two players; or two carriers at four yards | `OrdersInv`, `DriversMatch`, `ChainIntact`, `CrossingHasMove`, `OneResearchPerTopic`, `SupplyHeld`, `PaidBackOnce`, `HarvestInv`, `NothingMadeOrLost`; `DyingGoes`, `CarriesOn` under fairness |
| `morph_train` | a trainer that changes its form; *violation* | `NoPaidQueueDropped` fails: a change of form and a unit queued in one frame |
| `harvest_swap` | a carrier in the open whose source is moved; *violation* | `SwapSticks` fails: the trip in progress outranks the replacement it settled on |
| `cell_walk` | three bodies in the open, round one that stays or is another side's, and in a corridor | `WalkInv`, `ClaimsMatch`; `WalksEnd` under fairness |
| `walk_detour` | a row of three settled bodies and one that walks past them, at a bend, on a map of ten by three cells, with the constants of the code; *violation* | `StepsLead` fails: a detour that comes back through the cell behind the one it rejoins the path at leaves, when the path is cut to where the body has got to, a step to the cell it stands on, and `NavGrid::can_step` asserts that a step goes to another (`nav_grid.rs:214`) |

Every property of a passing run is broken by a mutant of the model named `<definition>_<bug>` beside
the definition it would replace: a missing relay, a dropped guard, a drop in force at once, a vote
thrown away, a margin too short, a place given twice, a refund repeated, a claim not moved with its
body, a load kept after it is banked.

### Bounds, and why they are enough

* `MaxTick` (2 to 6): the pipeline is uniform in the tick. In `Lockstep` it leaves
  the warm-up tick and two that need committed input, the second from the tick of a defeat. In
  `Drops` (`last`) it leaves one tick that needs real frames, which is where the stall, the votes and
  the drop happen, and a survivor may already stand behind it; a second such tick multiplies the
  states by more than twenty. The speeds of `control` reach a change's tick, `ControlDelay` ahead, and
  go past it; `checksums` samples two ticks, with intervals scaled down from the code's (`Interval` 2,
  `SyncLatency` 1): a hash of the first may come after one of the second. No node passes its last tick, in step or in input. A
  finished session and a bounded match stop, so only the runs of `Lockstep` alone are checked for
  deadlock.
* Two nodes suffice where a property relates two, three where a third can relay, vote, or be told
  apart from the missing one.
* `SyncLatency` is 1 where three nodes make 2 too large. `ControlDelay` stays twice the latency, as
  in the code (4 and 2).
* `TimeoutSteps` is 1: the grace window is one step or, with `patient`, lasts until nothing on its
  way could end the stall.
* `inFlight` (1 or 2) bounds the datagrams of one sender that can still arrive; the others are lost.
* `MaxRequests` is 2: a change and the one that crosses it.
* `Slow` (one of three nodes) says who may be blocked at a tick, `MaxAir` (3) how many checksums are on
  their way at a time (`checksums`): the two others then run on, and what one of them reports may
  prune what the slow one has sent, or has still to send. The theorems have no such bound.
* `Command` is `{idle}` in `Drops`: what matters there is *whose* input a tick ran with.
* `MaxEdits` and `MaxAsks` (1 each, `Lobby`) on top of the joins, departures and the start, which are
  not bounded: one change of the host and one request that cross.
* `MaxFails`, `MaxPauses` 1, `EndTick` 3 (`Replay`): two of the ticks are sampled, one has a drop.
* `deeds` (3, `Orders`) counts commands and what befalls entities; `MaxPaid` 2 and `Stock` 3 let a
  queue hold two units and a refund be seen. Three are a walk, what interrupts it and what ends it, or
  a change of form, a unit and a cancel that meet. A lair's change is committed, a camp's is refunded.
  Everything costs one.
* `mishaps` (1 or 2, `Harvest`) counts commands and what befalls carriers, sources, storages and ways:
  a source that goes while its carrier is off the map without a cell takes two, which the yard banked
  on the spot has. `RetryPeriod` is 1 in
  place of 8. Sources hold up to 3, a load is 1 or 2, so that a source is mined out within a few trips.
* `MaxEvents` 3 (`CellWalk`), a map of three by two cells, and the ladder scaled down (`BlockedWait`
  1, `GiveUp` 2, `Growth` 1): two bodies that cross or trade places and a third in their way, with
  every rung reached. `walk_detour` has the code's own (5, 8 and 4, with `Lookahead` and `Penalty` 6),
  and one command (`MaxEvents` 1).

### Assumptions a run makes

* `patient` (`Drops`): a grace window longer than every delay (`Settled`), which the code has in mind
  with `timeout_steps` (80) and the comment "well inside the grace window" on `detect_drops`.
  `HostStar` does without it. Peers need it: a vote to drop is not withdrawn when a late frame
  unblocks its voter (`network.rs:1036`), and survivors then drop different players.
* `paced` (`ControlPlane`): gameplay does not overtake control. True on a shared socket, where
  `demux.rs` keeps the order; on a mesh it is luck. Without it `ControlInv` does not hold: a peer with
  the input to pass a change's tick does so before it hears of the change, and `receive_change` then
  discards it.
* `hasty` (`ControlPlane`): users ask again before the last change is in force everywhere.
* `LossyFrom` (`Lockstep`): which senders lose datagrams.
* `Failing = {"nothing"}` (`Replay`): a write that fails leaves nothing behind; see below for a torn one.
* `drain >= capacity` (`NothingMadeOrLost`): a trip takes from the source what it gives, which all
  yards of the run have. A kind with a smaller drain makes resources by design.

### Fairness

`FixedStep` and `Step` are weakly fair for each node, because Bevy keeps running the fixed schedule of
a live node. What is received from one sender is strongly fair in `Lockstep` (`ReceiveFrom`): a
sender repeats its window each step, so a channel that is not cut delivers sometimes; a TCP socket
delivers everything. In `Drops` each socket is read fairly (`Sources`), and fairness is asked of the
patient sessions alone. `Arrive` is weakly fair: control links are TCP. `PlayStep` is: the playback
runs its schedule. In `Orders`, `Harvest` and `CellWalk` the schedule of one tick follows that of the
one before: the stage, the pass or the turn changes again and again (`[]<><<TRUE>>_<<stage, turn>>`,
which is weak fairness of the tick, as some turn can always be taken). Nothing is assumed fair about
crashes, losses, user requests, commands, approvals, or what befalls entities.

### What the checks found about the code

Beside the five violations, these limits were met while the instances were chosen, and the runs stay
within them:

* The spread of two nodes is at most `SYNC_LATENCY + 1`, not `SYNC_LATENCY` as the comment on
  `CONTROL_DELAY` has it (`network.rs:37`); `SpreadBound` states the real bound, and
  `CONTROL_DELAY` still covers it.
* A host that only watches is waited for by nobody, so `SentInTime` does not hold for it
  (`network.rs:43`); clients also ignore its capacity reports, and those of a dropped client persist
  for about 200 ticks (`network.rs:269`, `network.rs:786`).
* Checksums of a player dropped while alive are still compared (`network.rs:865`), and with them
  `NoSurvivorDesync` does not hold; `HostStar` therefore samples none.
* The vote of a player whose control link is down is still waited for until that player's frames are
  missing as well (`network.rs:1031`).
* A node that is not blocked clears every vote (`network.rs:912`), also one for the tick it is about to
  block at, and its voter does not send it again. A grace window that outlasts every delay rules that
  out, and `VotesKept` holds in `PatientPeers`; in the same session on the full mesh without `patient`
  TLC refutes it in eight states, under either policy (no run of its own). What holds in every session
  is `VotesHeld`, of a node already blocked.
* One peer's report prunes the local hash that another peer is still to be compared with
  (`network.rs:432`), and that pair is not compared. Where nodes have gone astray alike this can go
  unnoticed for good: of four nodes two enter a tick in one state and two in another, each has the
  report of the one it agrees with first, prunes the tick, and forgets the other pair's hashes unseen
  when they come and a later tick is compared; they play on in two states. The comments say that
  "only ticks awaiting a counterpart need to be retained" (`network.rs:426`) and that `net_checksum`
  "ends the game if a peer's hash for any tick disagrees with ours" (`network.rs:1098`). This is
  `NoneAstrayTogether`, which has no run of its own: over `Spec` with four nodes, `Interval` 2,
  `SyncLatency` 1, `MaxTick` 1 and at most four checksums in the air TLC refutes it within a minute.
  `NoneAloneTogether` is what holds for any number of nodes, and up to three the two say the same
  (`ThreeToldApart`).
* *Lobby.* A client without a place, or not polled yet, still starts, in the seat it last took itself
  to have, by default the host's (`ferrets-demo/src/lobby.rs:474`). In a decentralized start a client
  that reads the start and the end of its link in one batch takes the host to be lost and goes back to
  the menu (`lobby/client.rs:175`), placed or not, while `start_host` has it that the star "has served
  its purpose". A start therefore does not take everyone along, and `StartsTogether` does not say so:
  it says that whoever plays has the host's list, and that nobody is left waiting in a lobby without a
  host. The mesh of the others fails when such a client had a place (`MeshForms` counts it as one who
  has left). Control messages behind the start in one batch are discarded. A
  mesh start while a join is unread fails and loses the lobby. A client without a place also dials the
  placed ones above it, and one of those that still waits for a link fails on a peer it does not
  expect (`transport/tcp.rs:255`): the endpoint table has the placed only (`session.rs:378`), where its
  comment says "every connected client's — watching or playing". That takes a third client, since the
  host dials first; `MeshForms` is about the sessions in which all who play have a place. A watcher left over is not seated when a
  slot opens again. Changes of the session mode while clients are there are left out.
* *Replay.* A chunk torn by a failed write is written again behind the torn one, and nothing behind it
  can be read (`format.rs:75`, `recorder.rs:40`); with `Failing = {"torn"}` the recording is not
  readable to its end. A seek puts back the pause it found, over one asked for meanwhile.
* *Orders.* The refund of a change of form begun before a capture goes to the new owner. Entries a
  new form may not train are dropped unrefunded, which `morph_train` reaches.
* *Movement.* A walk that was told to stop while it was held up plans a route anew, to the goal it was
  told to give up (`movement.rs:715`; the comment on `winding_down`, `components/movement.rs:35`, has
  it that it finds no new one). It ends all the same, which `WalksEnd` includes.
* *Harvest.* An ordered storage that no way leads to is waited for, even when another is open
  (`harvest.rs:711`, `resolve_storage` looks at the ordered one before it asks for a way).

## 4. Proofs

Each theorem holds for every value of the constants that the named assumptions of its module allow:
any number of nodes, players, bodies or carriers, any latency, window, interval, map or yard. Every
assumption is one TLC evaluates in a run. A theorem about some sessions only names them in its
statement, as a condition on the session and not as an assumption.

| Module | Theorem | Statement |
|---|---|---|
| `GameProofs` | `TypeCorrect`, `InvariantHolds` | `Spec => []TypeOK`, `Spec => []LockstepInv` |
| | `ImmutableInput`, `BoundedSpread` | `Spec => []InputImmutable`, `Spec => []SpreadBound` |
| | `Agreement` | `Spec => []ExecutedAgree` |
| | `Implements` | `Spec => Refinement` |
| | `LobbyInvariant` | `LobbySpec => []LobbyIInv` |
| | `PlacesHold` | `LobbySpec => []LobbyInv` |
| | `MirrorsCatchUp` | `LobbySpec => []MirrorsAgree` |
| | `AllStartAlike` | `LobbySpec => []StartsTogether` |
| | `MeshHolds` | `LobbySpec => []MeshForms` |
| | `PlacesKept` | `LobbySpec => PlaceKept` |
| `DropsProofs` | `Typed` | `Spec => []TypeOK` |
| | `HostDropsAgree` | `Spec => [](Authority = "host" => DropsInv)` |
| | `StarSurvivorsAgree` | `Spec => [](HostStar => SurvivorsAgree)` |
| | `StarDropsInTime` | `Spec => [](HostStar /\ ChecksumTicks = {} => NoSurvivorDesync)` |
| | `VotesHeld` | `Spec => VotesHeldWhileBlocked` |
| `ControlProofs` | `StoresAreSound` | `Spec => []TypeOK` |
| | `HostLedSettingsAgree` | `Spec => [](HostLed => ControlInv)` |
| | `HostLedNoneLeftFrozen` | `Spec => [](HostLed => NoneLeftFrozen)` |
| | `HostLedSentInTime` | `Spec /\ HostLed => SentInTime` |
| | `ToggledTakenInTurn` | `Spec => [](Toggled => TakenInTurn)` |
| `ChecksumProofs` | `NoneMissed` | `Spec => []TrackerInv` |
| | `ThreeToldApart` | `Cardinality(Node) <= 3 /\ Spec => []NoneAstrayTogether` |
| | `RecordingIsWhole` | `ReplaySpec => []ReplayInv` |
| | `PlaybackIsTrue` | `ReplaySpec => []Retraces` |
| | `PlaybackIsComplete` | `ReplaySpec => []PlaysTheRecording` |
| `OrdersProofs` | `OrdersHold` | `OrdersSpec => []OrdersInv` |
| | `DriversOnly` | `OrdersSpec => []DriversMatch` |
| | `ChainUnbroken` | `OrdersSpec => []ChainIntact` |
| | `CrossingSettled` | `OrdersSpec => []CrossingHasMove` |
| | `ResearchedOnce` | `OrdersSpec => []OneResearchPerTopic` |
| | `SupplySuffices` | `OrdersSpec => []SupplyHeld` |
| | `PaidOnce` | `OrdersSpec => PaidBackOnce` |
| `HarvestProofs` | `CrewsHold` | `HarvestSpec => []HarvestInv` |
| | `NothingIsLost` | `HarvestSpec => NothingMadeOrLost` |
| `CellWalkProofs` | `WalksLead` | `CellWalkSpec => []WalkInv` |
| | `OneClaimEach` | `CellWalkSpec => []ClaimsMatch` |

### The arguments

**Lockstep.** `ExecutedAgree` alone is not inductive: it says nothing of the frames a node is going to
execute. `LockstepInv` adds where they come from. *FramesGenuine*: a frame in any buffer or datagram
is in the buffer of its player's own node. *FramesUnique*: that buffer has one frame per player and
tick. *FramesNear*: it commits at most `SyncLatency` ahead. *ExecutedGenuine*: what a node executed at
tick i are the genuine frames of exactly the players not defeated by then. Two nodes then executed the
same frames, since both copies are the one the owner recorded; that gives `Agreement` and, with the
length of the histories, the step of `ReplicatedInput` for `Implements`. A flush keeps
*FramesUnique* because its guard looks for a frame of the target tick first (`flush_input.rs:39`), and
`BoundedSpread` follows from *FramesNear* and readiness.

**Drops.** `Sound` is what holds of one node in every session; `RanOn` ties its history to the drops it
knows today. Where the host decides, `Follows` says what a client took over from it, and `Fits` what
can be on a connection: no drop the host did not decide. That two nodes name the same tick for a drop
needs nothing more (`HostDropsAgree`, on meshes too). That they executed the same input does: in a
star all frames pass through the host, so every frame anyone holds is one the host holds (`Known`) and
not the one for whose absence it dropped the player (`Due`). A client that has not heard of the drop
can then not have run past its tick. No grace window is assumed, and any node may crash at any moment.
`StarDropsInTime` asks that no checksums are sampled: those of a player dropped while alive may end the
game of a survivor, as section 3 says. `VotesHeld` needs of `Sound`
only that ticks end before `Never`: then a commit always drops somebody, so a blocked node that drops
nobody has not cleared its votes, and its own ballot replaces only its own (`HeldDetecting`).

**ControlPlane.** `HostLed` names the sessions: a host that fields a player decides, it has a link to
every other node, and gameplay does not overtake it (`Paced`: the shared socket). A store
and the messages on their way to it make a list of *calls*: ticks and the value called for there, the
least for each tick, as a host only overrules itself by a smaller one. `Rules` says which value a list
of calls gives a tick. The invariant `Led`: each client's calls are the host's for all ticks still
ahead of both, and what a client ran, or by its calls will run, is what the host ran or will
(`Follows`); the messages on a link overrule one another in order and were sent before the input of the
tick they are about, but for a resume behind its own pause (`Falling`); the host commits no further
than the margin, and is frozen by a change it still holds (`Margin`). One lemma for each thing that can
happen to two views so tied (the host claims, executes, proposes; the client claims, executes, reads)
shows that they stay tied. `HostLedSentInTime` then is arithmetic: nobody passes the host's committed
input, and `CONTROL_DELAY` is ahead of that. For a resume, nobody passes a tick the host is frozen at.
`Toggled` names the sessions of `TakenInTurn`: the setting has two values, each is asked for after the
last has settled, and under a host each client has a link to it. Who decides then does not matter.
Everything under way, in stores, messages and requests, `Means` the value last asked for, and that value
is `Carried`: some node has it or holds an unclaimed change to it, or a request for it is on its way to
the host. A request is dropped only where its value waits already or has been set (`RefusedHas`). Once nothing is
under way and the nodes agree, they agree on that value.

**Lobby.** `LobbyIInv` holds for any number of clients, slots, watchers, edits and requests. Who has a
place is settled by the host alone, one event at a time: `MovedKeeps` states for each kind of event who
may gain or lose a place, that nobody gets two, and that the slots stay as they were but for one player;
`OnePlace` and `PlacesKept` follow. An event must be its client's own, with *connected* first and
*lost* last (`Upward`), or a place could be given to who has one; and who has gone has no place, or its
loss is the last event unread (`Whereabouts`). That mirrors agree is not inductive, because most of the
time they do not: `Streams` says instead that the last list of places on the way to a client, or its
mirror when none is, is the host's (`Latest`), that the start and the end come after every list
(`Endings`), and that who has been sent no list has a join unread or a refusal to read (`Asked`). A poll
may stop at any message, and what it has then read keeps all three. Everyone who plays therefore holds
the host's places and the same table (`Playing`). The mesh is `Dialed`: nobody dials before it plays or
twice, and who waits for a link waits for every lower peer that has not dialed it, so that whoever knocks is
expected and whoever is expected knocks or has left.

**DesyncTracker.** `TrackerIInv` is the type invariant with `KeepsOwn` and `KeepsHeard`, which speak of
nodes that are `Alone` in their state. Such a node differs from every other at that tick and at all
later ones, as groups only split, so no comparison it makes is without a mismatch. The pruning forgets a
hash only when one of that tick or a later one has come from another node, and what is forgotten was
compared or will be by a later pair: so there is always a pair left to be compared, whichever node reports
first, and once all is read it has ended the session (`AloneFoundOut`). Of three nodes two that differ
cannot each have a companion (`OneOfThreeAlone`), which is `ThreeToldApart`. With four the argument
fails, and so does the claim (section 3).

**Replay.** The recorded session is `Regular` (drops and falls only grow, and lie within the game), the
stream is `InOrder`: the records of the first ticks, and of nothing written later than what failed. The
playback is `Retraced`, a session that the recorded one `Extends`; its frames are what the game ran
with (`FramesTrue`) and it has those of every recorded tick within the latency (`Fed`). That a
checksum never differs follows from equal histories.

**Harvest.** `HarvestInv` is inductive with the types of the stores (`Stores`). Each carrier's part is
stated by `Sound`: in no crew but that of the source it works, inside only there, joined only a crew that takes it.
Every handler either changes one carrier, or lets go of some set of them at once
(`Lets`: a death, a capture, a source gone), and one lemma of each kind carries the crews.

`NothingMadeOrLost` is about three sums: what the sources, the hands and the accounts hold of a kind.
Every step moves at most one term of each, a transfer from a source to a hand (or, where yards bank at
once, to an account) and a delivery from a hand to an account; whatever else a term loses it loses to
`Destroyed` or `Wasted`, term by term. `AmountsMove` says how a sum follows when one of its terms is
`Shifted`, and `Books` adds the three up, the shifts cancelling. Most steps move nothing (`QuietBooks`):
what is left to show is that ending a trip, changing sides, coming back to the map or standing up again
keeps the load (`HandKept`). The sums are folds of the community modules; what the proof needs of
them comes from the definition of the fold, by going through the subsets of the index set one element
at a time (`AllSubsets`, `SumExists`). Of the constants `HarvestAssumption` asks for finitely many
carriers, sources and sides, and that no kind of resource is called "none", what empty hands hold.

**Orders.** None of the invariants is inductive alone, and most say too little of one entity to be.
`Fit` is what a unit is between two turns. Its queue is `Linked` (who is suspended stands behind a
sub-order that ranks below it, and the two are cancelled together) and `Swept` (of the orders on foot
the earlier are cancelled no less than the later, and there is one Train): without the first a cancel
could strike out a sub-order under the order that waits for it, without the second the refund of one
Train could be another's. Its drivers are those its queue has started (`Driven`), and the living, the
dying and the gone have queues of their kind. Everything goes through the flush, which drops entries
while it walks over them and may kill the unit on the way. It is followed entry by entry: up to
entry i it has been `Calm`, and what it changed is stated in terms of the first i entries, or it was
`Fatal`, which only a change of form in front can be. What it leaves is then `Flushed` or `Killed`,
and commands, preparation, the watch, the turns and the deaths are built on these two. `UnitsInv` adds
that who has been prepared is ready to advance (`Poised`).

What relates several units follows in a second round. A step either `Lightens` (one unit takes nothing
up: no new topic, nothing more paid for, and what its owner gets it no longer holds) or is `Traded`, a
command whose price is paid. Topics stay `Apart` because only a command adds one, and none comes along
with a capture: `ChangeOwner` drops every order of the captured unit but a change of form under way.
Supply holds because only training uses it. What is paid for needs `CleanInv` as well, that no unit
still ahead in the tick has an order that is cancelled for good: a topic cancelled with force is paid
back no more, and must be off its queue before its turn could finish it. `Wealth` and `Reserved` are
sums over players and over entities, `Total` and `EntityTotal`, recursive functions that exist by
`RecursionExists`; all the proofs need of them is what they are when every term is 0, and how they
move when one term does (`TotalNone`, `TotalIs`, `TotalMoves`, by `StaysIn` over how far the sum has
come). Of the constants `OrdersAssumption` asks that entities and players are numbered from 1, as ids
are dealt out, and that the kinds of order are told apart.

**CellWalk.** `WalkInv` and `ClaimsMatch` are proved together (`Inv`), since a path is cut where its body
is and a body goes where its path leads. `Suits` is what walks, queues, cells and crossings have
to do with each other; each rung of the ladder is shown to keep it, and to leave the claims as they were,
to move one, or to exchange two. What the search returns is proved of its definition: `Balls` and
`Descents` are recursive functions over a bounded range, which exist by `RecursionExists`
(`NaturalFacts`), and every route leads on from its cell to a target.

### What stays with TLC

* Liveness (`EveryTickExecuted`, `StallsResolve`, `SettleTogether`, `PlayedOut`, `DyingGoes`,
  `CarriesOn`, `WalksEnd`): the prover handles neither `ENABLED` nor fairness.
* Sessions among peers. `SurvivorsAgree` rests there on the grace window being longer than every delay
  (`patient`), and `ControlInv` on requests that do not cross in the wrong order; `pause_peers` is what
  happens otherwise. `TakenInTurn` is proved there too, since it is about asking one at a time; for a
  setting of more than two values it says nothing.
* `VotesKept`, the only other property without a theorem, rests on the same window and is false without
  it (section 3): the step that blocks a node clears what was voted before. `VotesHeld` states the part
  of it that rests on no window.


## 5. Not modelled

* Building, repair, casts, carrying (transports, garrisons, tunnels, berths), combat, buffs, fields
  and visibility: sequential systems over the world of one tick. `Lockstep` treats them as one step
  that consumes input; `Orders` and `Harvest` know them as what befalls an entity from outside.
* Movement beside the cell model of one cluster: the continuous model with its pushing, turning on
  the spot, larger bodies, layers and corridors over several clusters.
* Content tables, script engine and demo game, more than a quarter of the code: parsing and
  validation of data, bindings to a Lua interpreter, rendering and user interface. They have no
  state machine to check, which also bounds the share of the code the modules can stand for.
* Pathfinder, geometry, physics, math and random numbers: pure. `CellWalk` states what it needs of a
  search.
* Sockets, framing and encoding: the channels are modelled by what they deliver.
* Pacing: how often a step runs is left free in every module, which covers any pace.

## 6. Plan

Done, in this order: `InputFrames`, `Lockstep` with `ReplicatedInput` and its proofs, `Drops`,
`ControlPlane`, `DesyncTracker`, `OrderQueue` and `Orders`, `Lobby`, `Replay`, `CellWalk`, `Harvest`.

Proved, in this order: `Lockstep`, `DesyncTracker`, `Harvest` (crews), `Drops` (host authority, and votes under either),
`Replay`, `CellWalk`, `ControlPlane` (host authority), `Lobby`, `Orders` (every safety property),
`Harvest` (what the loads add up to).

Next:

1. `VotesKept` and `SurvivorsAgree` of `Drops` where peers are patient.
2. Building and repair beside `Harvest`, which share crews, presence and the return to the map;
   berths as a presence of their own.
3. Boarding, leaving and the death of a holder beside `Orders`.
4. Pacing and throttle, with capacity reports of peers that come and go.
