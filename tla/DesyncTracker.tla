--------------------------- MODULE DesyncTracker ---------------------------
(***************************************************************************)
(* The exchange of state checksums: net_checksum, the checksums of         *)
(* net_receive, and the store between them.  A hash is sent once, in a     *)
(* datagram of its own, and datagrams overtake each other.                 *)
(*                                                                         *)
(* Simulations that go apart part the nodes into groups, each in a state   *)
(* of its own, and states once apart stay apart.  A hash stands for the    *)
(* group of its node: it is equal to that of another iff their states are. *)
(***************************************************************************)
EXTENDS Naturals, FiniteSets

CONSTANTS
  Node,         \* every node, each with its player
  Interval,     \* CHECKSUM_INTERVAL
  SyncLatency,  \* SYNC_LATENCY
  MaxTick       \* bound: this tick is entered and not executed

ASSUME DesyncTrackerAssumption ==
  /\ IsFiniteSet(Node)
  /\ Interval \in Nat \ {0}
  /\ SyncLatency \in Nat
  /\ MaxTick \in Nat /\ MaxTick % Interval # 0

VARIABLES
  groups,   \* the nodes that enter each sampled tick in one state, group by group
  tick,     \* GameSession::tick
  blocked,  \* whether the session waits for input at its tick
  local,    \* DesyncTracker::local: the ticks hashed; the hash is Hash(n, t)
  peer,     \* DesyncTracker::peer, at most one hash for each player and tick
  air,      \* the checksums on their way to a node
  ended     \* the tick the session ended over, or Running

vars == <<groups, tick, blocked, local, peer, air, ended>>

Running == MaxTick + 1

Sampled == {t \in 0 .. MaxTick : t % Interval = 0}

Divides(division) ==
  /\ UNION division = Node /\ {} \notin division
  /\ \A g, h \in division : g # h => g \cap h = {}

\* How the nodes may part: groups split, and never come together.
Partings ==
  {parting \in [Sampled -> {division \in SUBSET SUBSET Node : Divides(division)}] :
     \A t, u \in Sampled : t <= u =>
       \A g \in parting[u] : \E h \in parting[t] : g \subseteq h}

Hash(n, t) == CHOOSE g \in groups[t] : n \in g

Init ==
  /\ groups \in Partings
  /\ tick = [n \in Node |-> 0]
  /\ blocked = [n \in Node |-> FALSE]
  /\ local = [n \in Node |-> {}]
  /\ peer = [n \in Node |-> {}]
  /\ air = [n \in Node |-> {}]
  /\ ended = [n \in Node |-> Running]

Active(n) == ended[n] = Running

\* first_mismatch: the ticks at which some peer's hash disagrees.
Mismatches(n, hashed) ==
  {h.tick : h \in {h \in peer[n] : h.tick \in hashed /\ h.hash # Hash(n, h.tick)}}

Latest(ticks) == CHOOSE t \in ticks : \A u \in ticks : u <= t

Earliest(ticks) == CHOOSE t \in ticks : \A u \in ticks : t <= u

\* (mutant) A hash is forgotten before its counterpart has come.
Compared_Newest(hashed, heard) ==
  IF Latest(hashed) < Latest(heard) THEN Latest(heard) ELSE Latest(hashed)

\* prune_compared: the last tick both sides have reported.
Compared(hashed, heard) ==
  IF Latest(hashed) < Latest(heard) THEN Latest(hashed) ELSE Latest(heard)

\* net_checksum, which runs unless the session is blocked.
Checksum(n) ==
  LET samples == tick[n] % Interval = 0
      hashed == local[n] \cup (IF samples THEN {tick[n]} ELSE {})
      bad == Mismatches(n, hashed)
      heard == {h.tick : h \in peer[n]}
      Kept(t) == hashed = {} \/ heard = {} \/ t > Compared(hashed, heard)
      sum == [player |-> n, tick |-> tick[n], hash |-> Hash(n, tick[n])]
  IN /\ air' = IF samples
               THEN [m \in Node |-> IF m # n /\ Active(m) THEN air[m] \cup {sum} ELSE air[m]]
               ELSE air
     /\ IF bad # {}
        THEN /\ ended' = [ended EXCEPT ![n] = Earliest(bad)]
             /\ local' = [local EXCEPT ![n] = hashed]
             /\ UNCHANGED peer
        ELSE /\ local' = [local EXCEPT ![n] = {t \in hashed : Kept(t)}]
             /\ peer' = [peer EXCEPT ![n] = {h \in @ : Kept(h.tick)}]
             /\ UNCHANGED ended

\* Every node's input for the tick has been sent; a session that ended is
\* dropped.
Sent(n) == \A m \in Node : Active(m) => tick[n] <= tick[m] + SyncLatency

\* command_executor: ready says whether the input has arrived.
Execute(n, ready) ==
  IF ended'[n] # Running \/ tick[n] = MaxTick THEN UNCHANGED <<tick, blocked>>
  ELSE /\ ready => Sent(n)
       /\ tick' = IF ready THEN [tick EXCEPT ![n] = @ + 1] ELSE tick
       /\ blocked' = [blocked EXCEPT ![n] = ~ready]

\* One FixedUpdate of node n.
Step(n, ready) ==
  /\ Active(n)
  /\ IF blocked[n] THEN UNCHANGED <<local, peer, air, ended>> ELSE Checksum(n)
  /\ Execute(n, ready)
  /\ UNCHANGED groups

\* net_receive of a checksum.
Receive(n, sum) ==
  /\ Active(n)
  /\ air' = [air EXCEPT ![n] = @ \ {sum}]
  /\ peer' = [peer EXCEPT ![n] =
                {h \in @ : <<h.player, h.tick>> # <<sum.player, sum.tick>>} \cup {sum}]
  /\ UNCHANGED <<groups, tick, blocked, local, ended>>

Next ==
  \/ \E n \in Node, ready \in BOOLEAN : Step(n, ready)
  \/ \E n \in Node : \E sum \in air[n] : Receive(n, sum)

Spec == Init /\ [][Next]_vars

-----------------------------------------------------------------------------
\* The stores hold one hash for each player and tick, and a session ends over
\* a tick it hashed.
Report == [player : Node, tick : Sampled, hash : SUBSET Node]

TypeOK ==
  /\ groups \in Partings
  /\ tick \in [Node -> 0 .. MaxTick]
  /\ blocked \in [Node -> BOOLEAN]
  /\ local \in [Node -> SUBSET Sampled]
  /\ {peer, air} \subseteq [Node -> SUBSET Report]
  /\ ended \in [Node -> Sampled \cup {Running}]
  /\ \A n \in Node :
       /\ \A t \in local[n] : t <= tick[n]
       /\ \A h \in peer[n] \cup air[n] : h.player # n /\ h.hash = Hash(h.player, h.tick)
       /\ \A g, h \in peer[n] : g.player = h.player /\ g.tick = h.tick => g = h
       /\ ended[n] \in local[n] \cup {Running}

\* The last steps have been taken and the last datagram read.
AtRest ==
  \A n \in Node : Active(n) =>
    /\ tick[n] = MaxTick
    /\ air[n] = {}
    /\ Mismatches(n, local[n]) = {}

\* "ends the game if a peer's hash for any tick disagrees with ours"
\* (net_checksum, network.rs): no two nodes play on in different states.  Among
\* four nodes it does not hold: two that agree prune the tick (prune_compared)
\* before the hashes of the two others have come, and so do these.
NoneAstrayTogether ==
  AtRest => \A m, n \in Node : Active(m) /\ Active(n) =>
              \A t \in Sampled : Hash(m, t) = Hash(n, t)

\* What is left of it: nobody whose state is nobody else's plays on with another,
\* in whatever order the hashes arrive.
Alone(n, t) == Hash(n, t) = {n}

NoneAloneTogether ==
  AtRest => \A n \in Node : Active(n) /\ (\E t \in Sampled : Alone(n, t)) =>
              \A m \in Node : Active(m) => m = n

\* What the pruning may forget (prune_compared).  The ticks node n has hashed:
HashedBy(n) == {t \in Sampled : t < tick[n] \/ (t = tick[n] /\ blocked[n])}

\* A node alone in its state keeps its hash of a tick until a hash of a later
\* tick than any of its own has come, which it will compare when it gets there.
KeepsOwn ==
  \A n \in Node : Active(n) =>
    \A t \in HashedBy(n) : Alone(n, t) =>
      t \in local[n] \/ \E h \in peer[n] : \A u \in HashedBy(n) : u < h.tick

\* It keeps what it has been sent as long as it keeps its own.
KeepsHeard ==
  \A n \in Node : Active(n) => \A m \in Node \ {n} :
    \A t \in HashedBy(m) : Alone(n, t) =>
      \/ \E h \in air[n] \cup peer[n] : h.player = m /\ h.tick = t
      \/ t \in HashedBy(n) \ local[n]

\* All together: the trackers hold what was sampled and sent, forget nothing a
\* node alone in its state still has to compare, and let none such play on with
\* others (DesyncTracker, net_checksum).
TrackerInv == TypeOK /\ KeepsOwn /\ KeepsHeard /\ NoneAloneTogether
=============================================================================
