---------------------------- MODULE ControlPlane ----------------------------
(***************************************************************************)
(* Tick-aligned session changes: net_control, its PendingChange store,     *)
(* route_request and receive_change.  The code has two stores of one type, *)
(* pauses and speeds; the module models one kind of change at a time, with *)
(* its values as numbers (false is 0).                                     *)
(*                                                                         *)
(* Of the input pipeline only its pace remains: a node executes a tick at  *)
(* some moment after every player has committed input for it.  Nobody is   *)
(* dropped while changes are discussed (module Drops).                     *)
(***************************************************************************)
EXTENDS Naturals, Sequences, SequencesExt

CONSTANTS
  Sessions,      \* the sessions a run is about, each a record:
                 \*   nodes, players   the nodes, and those that field a player
                 \*   host             the node that opened the lobby
                 \*   authority        "host" or "peers"
                 \*   links            <<a, b>>: a holds a control connection to b
                 \*   paced            gameplay never overtakes a node's control messages
                 \*   values, initial  the values of the setting, in their order
                 \*   freezing         the values that freeze the tick: a pause, no speed
                 \*   latency          SYNC_LATENCY
                 \*   hasty            users ask again before a change is in force
                 \*   last             bound: this tick is not executed
  Rank,          \* the order of the nodes' Proposer stamps
  MaxRequests    \* bound: how many changes the users ask for

ASSUME ControlPlaneAssumption ==
  /\ \A s \in Sessions :
       /\ s.players \subseteq s.nodes /\ s.host \in s.nodes
       /\ s.authority \in {"host", "peers"}
       /\ s.links \subseteq s.nodes \X s.nodes
       /\ {s.paced, s.hasty} \subseteq BOOLEAN
       /\ s.values \subseteq Nat /\ s.freezing \subseteq s.values
       /\ s.initial \in s.values \ s.freezing
       /\ s.freezing = {} \/ (s.values = {0, 1} /\ s.freezing = {1})
       /\ s.latency \in Nat \ {0} /\ s.last \in Nat
       /\ \A m, n \in s.nodes : Rank[m] \in Nat /\ (Rank[m] = Rank[n] => m = n)
  /\ MaxRequests \in Nat

VARIABLES
  session,    \* which session this is
  tick,       \* GameSession::tick of each node
  setting,    \* the paused flag, or the speed, of each node's session
  pending,    \* the PendingChange store of each node
  asked,      \* requests a node has received and not yet decided
  committed,  \* the latest tick each player has sent its input for
  wire,       \* the unread messages of each connection
  ran,        \* the setting each node executed each tick under
  requests    \* how many changes users have asked for

vars == <<session, tick, setting, pending, asked, committed, wire, ran, requests>>

Node == session.nodes
Player == session.players
Host == session.host
Authority == session.authority
Links == session.links
Paced == session.paced
Value == session.values
Freezing == session.freezing
SyncLatency == session.latency
Hasty == session.hasty
MaxTick == session.last

Scheduled == [proposer : Node, tick : Nat, value : Value, claimed : BOOLEAN]

\* (mutant) No margin beyond the one of the input.
ControlDelay_Short == SyncLatency

ControlDelay == SyncLatency * 2

Init ==
  /\ session \in Sessions
  /\ tick = [n \in Node |-> 0]
  /\ setting = [n \in Node |-> session.initial]
  /\ pending = [n \in Node |-> {}]
  /\ asked = [n \in Node |-> <<>>]
  /\ committed = [n \in Player |-> SyncLatency - 1]
  /\ wire = [l \in Links |-> <<>>]
  /\ ran = [n \in Node |-> <<>>]
  /\ requests = 0

-----------------------------------------------------------------------------
\* PendingChange.  The derived order of a proposal: proposer, then value.
Before(p, q) ==
  \/ Rank[p.proposer] < Rank[q.proposer]
  \/ p.proposer = q.proposer /\ p.value < q.value

\* (mutant) The smaller proposal wins even over one already handed out.
Accepts_Ranked(store, p) == \A held \in store : held.tick = p.tick => Before(p, held)

\* (mutant) The proposal that arrives first wins.
Accepts_First(store, p) == \A held \in store : held.tick # p.tick

\* Whether a proposal changes what is pending: against one for the same tick
\* it must be smaller, or merely different once that one was handed out.
Accepts(store, p) ==
  \A held \in store : held.tick = p.tick =>
    IF held.claimed THEN <<p.proposer, p.value>> # <<held.proposer, held.value>>
                    ELSE Before(p, held)

Propose(store, p) ==
  IF Accepts(store, p)
  THEN {held \in store : held.tick # p.tick}
         \cup {[proposer |-> p.proposer, tick |-> p.tick, value |-> p.value, claimed |-> FALSE]}
  ELSE store

\* claim_due: the newest change whose tick has arrived, unless handed out
\* before; the changes behind the tick are forgotten.
Due(store, t) ==
  {e \in store : /\ e.tick <= t /\ ~e.claimed
                 /\ \A f \in store : f.tick <= t => f.tick <= e.tick}

Claimed(store, t) ==
  {IF e \in Due(store, t) THEN [e EXCEPT !.claimed = TRUE] ELSE e :
     e \in {e \in store : e.tick >= t}}

-----------------------------------------------------------------------------
Frozen(n) == setting[n] \in Freezing

Decides(n) == Authority = "peers" \/ n = Host

\* A message notes the input its sender had sent by then.
Message(n, kind, p) ==
  [kind |-> kind, change |-> p, upto |-> IF n \in Player THEN committed[n] ELSE 0]

SendAll(n, msgs) == [l \in Links |-> IF l[1] = n THEN wire[l] \o msgs ELSE wire[l]]

\* A change is due a margin ahead, a resume at the frozen tick.
Change(n, value) ==
  [proposer |-> n, tick |-> IF Frozen(n) THEN tick[n] ELSE tick[n] + ControlDelay,
   value |-> value]

\* route_request for one request at node n.
RouteRequest(n, acc, value) ==
  LET p == Change(n, value)
  IN IF ~Decides(n)
     THEN [acc EXCEPT !.out = Append(@, Message(n, "request", p))]
     ELSE IF Accepts(acc.store, p)
     THEN [store |-> Propose(acc.store, p), out |-> Append(acc.out, Message(n, "at", p))]
     ELSE acc

\* What all the requests of a step make of the store, and the messages they send.
Routed(n, values) ==
  LET acc[i \in 0 .. Len(values)] ==
        IF i = 0 THEN [store |-> pending[n], out |-> <<>>]
        ELSE RouteRequest(n, acc[i - 1], values[i])
  IN acc[Len(values)]

\* receive_change: whom node n believes, and what it has no use for.
Admits(n, from, p) ==
  /\ Authority = "host" => from = Host
  /\ p.proposer # n
  /\ p.tick >= tick[n]

\* One message of a connection reaches node n and net_control reads it.
Arrive(n, a) ==
  /\ <<a, n>> \in Links
  /\ wire[<<a, n>>] # <<>>
  /\ LET msg == Head(wire[<<a, n>>])
         learns == /\ msg.kind = "at" /\ Admits(n, a, msg.change)
                   /\ Accepts(pending[n], msg.change)
         forwards == IF learns /\ Authority = "peers"
                     THEN <<Message(n, "at", msg.change)>> ELSE <<>>
     IN /\ pending' = IF learns THEN [pending EXCEPT ![n] = Propose(@, msg.change)]
                                ELSE pending
        /\ asked' = IF msg.kind = "request" /\ Authority = "host" /\ n = Host
                    THEN [asked EXCEPT ![n] = Append(@, msg.change.value)] ELSE asked
        /\ wire' = [SendAll(n, forwards) EXCEPT ![<<a, n>>] = Tail(@)]
  /\ UNCHANGED <<tick, setting, committed, ran, requests>>

\* What node n has committed once it has flushed its input, unless frozen.
Commit(n, value) ==
  IF n \in Player /\ value \notin Freezing
  THEN [committed EXCEPT ![n] = tick[n] + SyncLatency] ELSE committed

\* The input of a tick can have reached node n.  If gameplay is paced, what a
\* player sent after a message is not here before the message is read.
CanHold(n, sent, t) ==
  \A m \in Player :
    /\ sent[m] >= t
    /\ (Paced /\ <<m, n>> \in Links) =>
         \A i \in DOMAIN wire[<<m, n>>] : t <= wire[<<m, n>>][i].upto

\* One FixedUpdate of node n: the rest of net_control, then the pipeline,
\* which executes the tick if its input has arrived.
Step(n, intent, ready) ==
  LET routed == Routed(n, intent \o asked[n])
      due == Due(routed.store, tick[n])
      value == IF due = {} THEN setting[n] ELSE (CHOOSE e \in due : TRUE).value
      sent == Commit(n, value)
      executes == /\ ready /\ value \notin Freezing /\ tick[n] < MaxTick
                  /\ CanHold(n, sent, tick[n])
  IN /\ pending' = [pending EXCEPT ![n] = Claimed(routed.store, tick[n])]
     /\ setting' = [setting EXCEPT ![n] = value]
     /\ asked' = [asked EXCEPT ![n] = <<>>]
     /\ committed' = sent
     /\ wire' = SendAll(n, routed.out)
     /\ tick' = IF executes THEN [tick EXCEPT ![n] = @ + 1] ELSE tick
     /\ ran' = IF executes THEN [ran EXCEPT ![n] = Append(@, value)] ELSE ran

\* Every change made so far is in force on every node.
InForce ==
  /\ \A l \in Links : wire[l] = <<>>
  /\ \A n \in Node : asked[n] = <<>> /\ \A e \in pending[n] : e.claimed
  /\ \A m, n \in Node : setting[m] = setting[n]

\* The user of node n asks for another value, or for nothing.
FixedStep(n) ==
  \E ready \in BOOLEAN :
    \/ /\ Step(n, <<>>, ready)
       /\ UNCHANGED requests
    \/ /\ requests < MaxRequests /\ tick[n] < MaxTick
       /\ Hasty \/ InForce
       /\ \E value \in Value \ {setting[n]} : Step(n, <<value>>, ready)
       /\ requests' = requests + 1

Next ==
  /\ \/ \E n \in Node : FixedStep(n)
     \/ \E n, a \in Node : Arrive(n, a)
  /\ UNCHANGED session

Spec == Init /\ [][Next]_vars

-----------------------------------------------------------------------------
\* Every store keeps its shape: one change per tick, handed out only once its
\* tick is there and forgotten once the tick is over.
TypeOK ==
  /\ tick \in [Node -> Nat]
  /\ setting \in [Node -> Value]
  /\ \A n \in Node :
       /\ pending[n] \subseteq Scheduled
       /\ \A e, f \in pending[n] : e.tick = f.tick => e = f
       /\ \A e \in pending[n] : tick[n] <= e.tick + 1 /\ (e.claimed => e.tick <= tick[n])
       /\ asked[n] \in Seq(Value)
       /\ ran[n] \in Seq(Value \ Freezing) /\ Len(ran[n]) = tick[n]
  /\ committed \in [Player -> Nat]

\* "Every node reaches it and applies the change there" (CONTROL_DELAY,
\* network.rs): two nodes execute a tick under the same setting.
SettingsAgree ==
  \A m, n \in Node : \A i \in 1 .. Len(ran[m]) :
    i <= Len(ran[n]) => ran[m][i] = ran[n][i]

\* Both together: the stores are sound, and what they hand out agrees
\* (PendingChange, net_control).
ControlInv == TypeOK /\ SettingsAgree

\* "The resume must be taken whoever sends it" (network_tests.rs): once every
\* message is read, no node stays frozen at a tick others have left.
NoneLeftFrozen ==
  (/\ \A l \in Links : wire[l] = <<>>
   /\ \A n \in Node : asked[n] = <<>>)
    => \A n \in Node : Frozen(n) /\ Due(pending[n], tick[n]) = {}
         => \A m \in Node : tick[m] <= tick[n]

\* A pause lifts for whoever asks, and no pause lifts twice: of changes asked
\* for one at a time between two values, each has had its effect.
TakenInTurn ==
  (~Hasty /\ InForce) => \A n \in Node : setting[n] = (session.initial + requests) % 2

\* "No node has already passed that tick when the authoritative message is
\* sent" (CONTROL_DELAY, network.rs).
SentInTime ==
  [][\A l \in Links : Len(wire'[l]) > Len(wire[l]) =>
       LET msg == Last(wire'[l])
       IN (msg.kind = "at" /\ msg.change.proposer = l[1])
            => \A n \in Node : tick[n] <= msg.change.tick]_vars

\* Fairness: nodes keep running their schedule and read their sockets, and
\* input that has been sent arrives.  It is asked only of the sessions that
\* SettleTogether is about: crossing proposals of peers may tear a pause.
Anyone == UNION {s.nodes : s \in Sessions}
Works(n) ==
  Authority = "host" /\ n \in Node /\ Step(n, <<>>, TRUE) /\ UNCHANGED <<requests, session>>
Reads(n, a) ==
  Authority = "host" /\ {n, a} \subseteq Node /\ Arrive(n, a) /\ UNCHANGED session
FairSpec ==
  /\ Spec
  /\ \A n \in Anyone : WF_vars(Works(n))
  /\ \A n, a \in Anyone : WF_vars(Reads(n, a))

\* Where a host decides, the nodes end up under one setting, however their
\* requests crossed.
SettleTogether ==
  Authority = "host" => <>[](\A m, n \in Node : setting[m] = setting[n])
=============================================================================
