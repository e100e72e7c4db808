---------------------------- MODULE DropsProofs ----------------------------
(***************************************************************************)
(* Proofs about Drops, for every set of nodes and players and every        *)
(* session: each node's state is sound; a blocked node keeps the votes for *)
(* its tick; where the host decides, all nodes name the same tick for a    *)
(* drop; and in a star around the host the nodes that play on execute      *)
(* every tick with the input of the same players.                          *)
(***************************************************************************)
EXTENDS Drops, FiniteSetTheorems, TLAPS

-----------------------------------------------------------------------------
(***************************************************************************)
(* What the nodes and the messages are like.                               *)
(***************************************************************************)

Message ==
  [kind : {"frames"}, frames : SUBSET PlayerFrame]
    \cup [kind : {"sum"}, sum : Sum]
    \cup [kind : {"drop"}, player : Player, tick : Nat]
    \cup [kind : {"vote"}, vote : Vote]
    \cup [kind : {"closed"}]

\* Every tick was executed with the input of the players that no drop known
\* today has out of it, and theirs had arrived.
RanOn(s) ==
  \A i \in 1 .. s.tick :
    /\ s.ran[i] = {p \in Player : i - 1 < s.dropped[p]}
    /\ \A p \in s.ran[i] : HasFrame(s.frames, p, i - 1)

\* The state of a node, whatever session it is in.
Sound(s) ==
  /\ s \in NodeState
  /\ \A v, w \in s.votes : v.voter = w.voter => v = w
  /\ s.state = "finished" <=> s.result # "none"
  /\ Len(s.ran) = s.tick /\ s.tick <= MaxTick
  /\ s.local \subseteq ChecksumTicks
  /\ RanOn(s)

\* The host is a party to every connection (SessionMode::HostStar).
HostStar ==
  Authority = "host" /\ \A l \in GameLinks \cup ControlLinks : Host \in {l[1], l[2]}

\* The tick as of which the host of nodes nd dropped p.
Decided(nd, p) == nd[Host].dropped[p]

\* The host holds the frame.
Known(nd, f) == HasFrame(nd[Host].frames, f.player, f.tick)

\* It is not the frame whose absence the host dropped the player for.
Due(nd, f) == Decided(nd, f.player) # Never => f.tick # Decided(nd, f.player)

\* The frames node a sends in a star: the host's own store without what it has
\* given up on; what a client did not commit itself it has from the host.
Sends(nd, a, f) ==
  /\ a = Host \/ f.player # a => Known(nd, f)
  /\ a = Host => Due(nd, f)

\* What may be on its way from node a: where the host decides, no drop but one
\* it decided.
Fits(nd, a, m) ==
  Authority = "host" =>
    /\ m.kind = "drop" => a = Host /\ m.tick # Never /\ m.tick = Decided(nd, m.player)
    /\ m.kind = "frames" /\ HostStar => \A f \in m.frames : Sends(nd, a, f)

Mail(nd, a) == {m \in Message : Fits(nd, a, m)}

Datagrams(nd, a) == {m \in Mail(nd, a) : IsGameplay(m)}

\* What node n took over from the host, and how far it ran without.
Follows(nd, n) ==
  /\ \A p \in Player : nd[n].dropped[p] \in {Never, Decided(nd, p)}
  /\ n = Host /\ Host \in Player => Decided(nd, Host) = Never
  /\ HostStar /\ n # Host =>
       /\ \A f \in nd[n].frames : f.player # n => Known(nd, f) /\ Due(nd, f)
       /\ \A p \in Player \ {n} :
            nd[n].dropped[p] = Never /\ Decided(nd, p) # Never
              => nd[n].tick <= Decided(nd, p)
  /\ HostStar /\ ChecksumTicks = {} /\ nd[n].result = "desync" =>
       n \in Player /\ Decided(nd, n) # Never

\* The inductive invariant, of the nodes, the connections and the datagrams.
Fine(nd, w, a) ==
  /\ nd \in [Node -> {s \in NodeState : Sound(s)}]
  /\ Authority = "host" => \A n \in Node : Follows(nd, n)
  /\ DOMAIN w = ControlLinks /\ \A l \in ControlLinks : w[l] \in Seq(Mail(nd, l[1]))
  /\ DOMAIN a = Node /\ \A n \in Node : a[n] \in Seq(Datagrams(nd, n))

Inv ==
  /\ session \in Sessions
  /\ up \subseteq Node
  /\ Fine(node, wire, air)

-----------------------------------------------------------------------------
(***************************************************************************)
(* The systems of a node, one by one.                                      *)
(***************************************************************************)

LEMMA SessionTyped ==
  ASSUME session \in Sessions
  PROVE  /\ MaxTick \in Nat /\ SyncLatency \in Nat /\ Never \in Nat /\ MaxTick < Never
         /\ InFlight \in Nat /\ 1 <= InFlight /\ ChecksumTicks \subseteq Nat
         /\ ControlLinks \subseteq Node \X Node /\ GameLinks \subseteq Node \X Node
         /\ \A l \in GameLinks \cup ControlLinks : l[1] # l[2]
         /\ Authority \in {"host", "peers"} /\ Policy \in {"automatic", "manual"}
  BY DropsAssumption DEF MaxTick, SyncLatency, Never, InFlight, ChecksumTicks,
     ControlLinks, GameLinks, Authority, Policy

\* A node learns and decides: its tick and what it executed stay, and a drop it
\* decides is not behind it.
Edit(s, t) ==
  /\ t \in NodeState
  /\ t.tick = s.tick /\ t.ran = s.ran /\ t.local \subseteq s.local \cup ChecksumTicks
  /\ s.frames \subseteq t.frames
  /\ \A p \in Player :
       \/ t.dropped[p] = s.dropped[p]
       \/ s.dropped[p] = Never /\ s.tick <= t.dropped[p]

LEMMA EditTwice ==
  ASSUME NEW s, NEW t, NEW u, s \in NodeState, Edit(s, t), Edit(t, u)
  PROVE  Edit(s, u)
  BY DEF Edit, NodeState

LEMMA SoundEdit ==
  ASSUME session \in Sessions, NEW s, Sound(s), NEW t, Edit(s, t),
         \A v, w \in t.votes : v.voter = w.voter => v = w,
         t.state = "finished" <=> t.result # "none"
  PROVE  Sound(t)
  <1>1. s \in NodeState /\ s.tick \in Nat /\ s.dropped \in [Player -> Nat]
        /\ t.dropped \in [Player -> Nat]
    BY DEF Sound, Edit, NodeState
  <1>2. ASSUME NEW i \in 1 .. t.tick
        PROVE  /\ t.ran[i] = {p \in Player : i - 1 < t.dropped[p]}
               /\ \A p \in t.ran[i] : HasFrame(t.frames, p, i - 1)
    <2>1. i \in 1 .. s.tick /\ t.ran[i] = s.ran[i] /\ i - 1 < s.tick /\ i - 1 \in Nat
      BY <1>1 DEF Edit
    <2>2. /\ s.ran[i] = {p \in Player : i - 1 < s.dropped[p]}
          /\ \A p \in s.ran[i] : HasFrame(s.frames, p, i - 1)
      BY <2>1 DEF Sound, RanOn
    <2>3. ASSUME NEW p \in Player PROVE i - 1 < s.dropped[p] <=> i - 1 < t.dropped[p]
      <3>1. s.tick <= MaxTick
        BY DEF Sound
      <3> QED
        BY <2>1, <3>1, <1>1, SessionTyped DEF Edit
    <2> QED
      BY <2>1, <2>2, <2>3 DEF Edit, HasFrame
  <1> QED
    BY <1>2 DEF Sound, Edit, RanOn

LEMMA SoundFinish ==
  ASSUME session \in Sessions, NEW s, Sound(s), NEW r \in {"aborted", "desync"}
  PROVE  /\ Sound(Finish(s, r)) /\ Edit(s, Finish(s, r))
         /\ Finish(s, r).dropped = s.dropped /\ Finish(s, r).frames = s.frames
         /\ Finish(s, r).votes = s.votes /\ Finish(s, r).streak = s.streak
         /\ Finish(s, r).result \in {s.result, r}
         /\ Finish(s, r).state = "finished"
  <1>1. Edit(s, Finish(s, r))
    BY DEF Edit, Finish, Sound, NodeState
  <1>2. /\ Finish(s, r).dropped = s.dropped /\ Finish(s, r).frames = s.frames
        /\ Finish(s, r).votes = s.votes /\ Finish(s, r).streak = s.streak
        /\ Finish(s, r).result \in {s.result, r}
        /\ Finish(s, r).state = "finished" /\ Finish(s, r).result # "none"
    BY DEF Finish, Sound, NodeState
  <1>3. \A v, w \in s.votes : v.voter = w.voter => v = w
    BY DEF Sound
  <1> QED
    BY <1>1, <1>2, <1>3, SoundEdit

LEMMA SoundDrop ==
  ASSUME session \in Sessions, NEW s, Sound(s), NEW from \in Nat, s.tick <= from,
         NEW players \in SUBSET Player, \A p \in players : s.dropped[p] = Never,
         NEW t, t = DropPlayers(s, players, from)
  PROVE  /\ Sound(t) /\ Edit(s, t) /\ t.frames = s.frames /\ t.result = s.result
         /\ \A p \in Player : t.dropped[p] = IF p \in players THEN from ELSE s.dropped[p]
  <1> DEFINE d == [p \in Player |-> IF p \in players THEN from ELSE s.dropped[p]]
  <1>1. t = [s EXCEPT !.dropped = d]
    BY DEF DropPlayers
  <1>2. s \in NodeState /\ s.dropped \in [Player -> Nat]
    BY DEF Sound, NodeState
  <1>3. d \in [Player -> Nat] /\ \A p \in Player : d[p] = IF p \in players THEN from ELSE s.dropped[p]
    BY <1>2
  <1> HIDE DEF d
  <1>4. /\ t \in NodeState /\ t.dropped = d /\ t.tick = s.tick /\ t.ran = s.ran
        /\ t.frames = s.frames /\ t.local = s.local /\ t.votes = s.votes
        /\ t.state = s.state /\ t.result = s.result
    BY <1>1, <1>2, <1>3 DEF NodeState
  <1>5. Edit(s, t)
    BY <1>3, <1>4 DEF Edit
  <1>6. Sound(t)
    BY <1>4, <1>5, SoundEdit DEF Sound
  <1> QED
    BY <1>3, <1>4, <1>5, <1>6

\* Another streak; other votes; players dropped, which ends the stall.
Restreak(s, k) == [s EXCEPT !.streak = k]
Revote(s, vs) == [s EXCEPT !.votes = vs]
Commit(s, players, from) == Restreak(DropPlayers(s, players, from), NoStreak)

LEMMA Restreaked ==
  ASSUME session \in Sessions, NEW s, Sound(s), NEW k \in [tick : Nat, steps : Nat], NEW t,
         t = Restreak(s, k)
  PROVE  /\ Sound(t) /\ Edit(s, t) /\ t.votes = s.votes /\ t.streak = k
         /\ t.dropped = s.dropped /\ t.frames = s.frames
         /\ t.state = s.state /\ t.result = s.result
  <1>1. s \in NodeState
    BY DEF Sound
  <1>2. /\ t \in NodeState /\ t.votes = s.votes /\ t.streak = k
        /\ t.state = s.state /\ t.result = s.result
        /\ t.tick = s.tick /\ t.ran = s.ran /\ t.local = s.local
        /\ t.dropped = s.dropped /\ t.frames = s.frames
    BY <1>1 DEF NodeState, Restreak
  <1>3. Edit(s, t)
    BY <1>2 DEF Edit
  <1> QED
    BY <1>2, <1>3, SoundEdit DEF Sound

LEMMA SoundSteer ==
  ASSUME session \in Sessions, NEW n \in Node, NEW s, Sound(s)
  PROVE  /\ Sound(Steer(n, s)) /\ Edit(s, Steer(n, s))
         /\ Steer(n, s).dropped = s.dropped /\ Steer(n, s).frames = s.frames
         /\ Steer(n, s).result \in {s.result, "aborted"}
         /\ Steer(n, s) \in {s, Finish(s, "aborted")}
  <1>1. Edit(s, s)
    BY DEF Edit, Sound
  <1> QED
    BY <1>1, SoundFinish DEF Steer

\* A frame of the node's own, for a tick the session reaches.
LEMMA SoundFlushInput ==
  ASSUME session \in Sessions, NEW n \in Node, NEW s, Sound(s)
  PROVE  /\ Sound(FlushInput(n, s)) /\ Edit(s, FlushInput(n, s))
         /\ FlushInput(n, s).dropped = s.dropped
         /\ FlushInput(n, s).result = s.result /\ FlushInput(n, s).state = s.state
         /\ \A f \in FlushInput(n, s).frames : f \in s.frames \/ f.player = n
  <1> DEFINE f == Frame(n, s.tick + SyncLatency, Idle)
             t == [s EXCEPT !.frames = PushFrames(s.frames, {f})]
  <1>1. FlushInput(n, s) = IF n \in Player /\ ~IsPlayerOut(s, n) /\ s.tick + SyncLatency < MaxTick
                           THEN t ELSE s
    BY DEF FlushInput
  <1>2. s \in NodeState /\ Edit(s, s)
    BY DEF Sound, Edit
  <1>3. ASSUME n \in Player
        PROVE  /\ PushFrames(s.frames, {f}) \in SUBSET PlayerFrame
               /\ s.frames \subseteq PushFrames(s.frames, {f})
               /\ \A g \in PushFrames(s.frames, {f}) : g \in s.frames \/ g = f
               /\ f.player = n
    BY <1>2, <1>3, SessionTyped, IdleAssumption DEF PushFrames, PlayerFrame, Frame, NodeState
  <1> HIDE DEF f
  <1>4. ASSUME n \in Player
        PROVE  /\ t \in NodeState /\ Edit(s, t) /\ t.dropped = s.dropped /\ t.votes = s.votes
               /\ t.result = s.result /\ t.state = s.state
               /\ t.frames = PushFrames(s.frames, {f})
    BY <1>2, <1>3, <1>4 DEF Edit, NodeState
  <1> HIDE DEF t
  <1>5. n \in Player => Sound(t)
    BY <1>4, SoundEdit DEF Sound
  <1> QED
    BY <1>1, <1>2, <1>3, <1>4, <1>5

LEMMA FewerVotes ==
  ASSUME session \in Sessions, NEW s, Sound(s), NEW vs, vs \subseteq s.votes, NEW t,
         t = Revote(s, vs)
  PROVE  /\ Sound(t) /\ Edit(s, t) /\ t.votes = vs /\ t.streak = s.streak
         /\ t.dropped = s.dropped /\ t.frames = s.frames
         /\ t.state = s.state /\ t.result = s.result
  <1>1. s \in NodeState /\ vs \in SUBSET Vote
    BY DEF Sound, NodeState
  <1>2. /\ t \in NodeState /\ t.votes = vs /\ t.streak = s.streak
        /\ t.state = s.state /\ t.result = s.result
        /\ t.tick = s.tick /\ t.ran = s.ran /\ t.local = s.local
        /\ t.dropped = s.dropped /\ t.frames = s.frames
    BY <1>1 DEF NodeState, Revote
  <1>3. Edit(s, t)
    BY <1>2 DEF Edit
  <1> QED
    BY <1>2, <1>3, SoundEdit DEF Sound

\* A step of the stall detector; the votes it keeps are some of the old ones.
LEMMA SoundCountStep ==
  ASSUME session \in Sessions, NEW s, Sound(s)
  PROVE  /\ Sound(CountStep(s)) /\ Edit(s, CountStep(s))
         /\ CountStep(s).dropped = s.dropped /\ CountStep(s).frames = s.frames
         /\ CountStep(s).result = s.result
  <1> DEFINE t == CountStep(s)
             k == IF s.streak.tick = s.tick
                  THEN [s.streak EXCEPT !.steps = IF @ < TimeoutSteps THEN @ + 1 ELSE @]
                  ELSE [tick |-> s.tick, steps |-> 1]
             vs == IF s.streak.tick = s.tick THEN s.votes ELSE {v \in s.votes : v.tick = s.tick}
  <1>1. s \in NodeState
    BY DEF Sound
  <1>2. /\ s.tick \in Nat /\ s.votes \in SUBSET Vote
        /\ s.streak \in [tick : Nat, steps : Nat] /\ s.streak.steps \in Nat
    BY <1>1 DEF NodeState
  <1>3. k \in [tick : Nat, steps : Nat] /\ vs \subseteq s.votes
    BY <1>2
  <1>4. CASE s.streak.tick = s.tick
    <2>1. t = Restreak(s, k)
      BY <1>1, <1>4 DEF CountStep, NodeState, Restreak
    <2> HIDE DEF t, k, vs
    <2>2. Sound(t) /\ Edit(s, t) /\ t.dropped = s.dropped /\ t.frames = s.frames
          /\ t.result = s.result
      BY <1>3, <2>1, Restreaked
    <2> QED
      BY <2>2 DEF t
  <1>5. CASE s.streak.tick # s.tick
    <2> DEFINE z == Restreak(s, k)
    <2>1. t = Revote(z, vs)
      BY <1>5 DEF CountStep, Restreak, Revote
    <2> HIDE DEF t, k, vs, z
    <2>3. /\ Sound(z) /\ Edit(s, z) /\ z.votes = s.votes /\ z.dropped = s.dropped
          /\ z.frames = s.frames /\ z.result = s.result
      BY <1>3, Restreaked DEF z
    <2>2. Sound(t) /\ Edit(s, t) /\ t.dropped = s.dropped /\ t.frames = s.frames
          /\ t.result = s.result
      BY <1>1, <1>3, <2>1, <2>3, FewerVotes, EditTwice
    <2> QED
      BY <2>2 DEF t
  <1> QED
    BY <1>4, <1>5

LEMMA Recast ==
  ASSUME session \in Sessions, NEW s, Sound(s), NEW vote \in Vote, NEW t,
         t = Revote(s, Cast(s.votes, vote))
  PROVE  /\ Sound(t) /\ Edit(s, t)
         /\ t.dropped = s.dropped /\ t.frames = s.frames /\ t.result = s.result
  <1>1. s \in NodeState /\ s.votes \in SUBSET Vote
    BY DEF Sound, NodeState
  <1>2. /\ Cast(s.votes, vote) \in SUBSET Vote
        /\ \A v, w \in Cast(s.votes, vote) : v.voter = w.voter => v = w
    BY <1>1 DEF Cast, Sound
  <1>3. /\ t \in NodeState /\ t.votes = Cast(s.votes, vote)
        /\ t.state = s.state /\ t.result = s.result
        /\ t.tick = s.tick /\ t.ran = s.ran /\ t.local = s.local
        /\ t.dropped = s.dropped /\ t.frames = s.frames
    BY <1>1, <1>2 DEF NodeState, Revote
  <1>4. Edit(s, t)
    BY <1>3 DEF Edit
  <1>5. t.state = "finished" <=> t.result # "none"
    BY <1>3 DEF Sound
  <1> QED
    BY <1>2, <1>3, <1>4, <1>5, SoundEdit

LEMMA NoStreakTyped ==
  ASSUME session \in Sessions
  PROVE  NoStreak \in [tick : Nat, steps : Nat]
  BY SessionTyped DEF NoStreak

LEMMA PlayersFinite ==
  ASSUME NEW players \in SUBSET Player
  PROVE  IsFiniteSet(players)
  BY FS_Subset, DropsAssumption

\* The announcements name the players, each of them some of the missing.
LEMMA Listed ==
  ASSUME NEW players \in SUBSET Player
  PROVE  /\ DOMAIN SetToSeq(players) = 1 .. Cardinality(players)
         /\ Cardinality(players) \in Nat
         /\ \A i \in DOMAIN SetToSeq(players) : SetToSeq(players)[i] \in players
  <1>1. /\ Cardinality(players) \in Nat
        /\ ExistsBijection(1 .. Cardinality(players), players)
    BY PlayersFinite, FS_CardinalityType
  <1>2. \E f \in [1 .. Cardinality(players) -> players] : IsInjective(f)
    BY <1>1 DEF ExistsBijection, Bijection, Injection
  <1>3. SetToSeq(players) \in [1 .. Cardinality(players) -> players]
    BY <1>2 DEF SetToSeq
  <1> QED
    BY <1>1, <1>3

LEMMA Row ==
  ASSUME NEW S, NEW n \in Nat, NEW f \in [1 .. n -> S]
  PROVE  f \in Seq(S)
  OBVIOUS

\* A drop takes effect, and the stall is over.
LEMMA SoundCommit ==
  ASSUME session \in Sessions, NEW s, Sound(s), NEW from \in Nat, s.tick <= from,
         NEW players \in SUBSET Player, \A p \in players : s.dropped[p] = Never,
         NEW t, t = Commit(s, players, from)
  PROVE  /\ Sound(t) /\ Edit(s, t) /\ t.frames = s.frames /\ t.result = s.result
         /\ \A p \in Player : t.dropped[p] = IF p \in players THEN from ELSE s.dropped[p]
  <1> DEFINE u == DropPlayers(s, players, from)
  <1>1. /\ Sound(u) /\ Edit(s, u) /\ u.frames = s.frames /\ u.result = s.result
        /\ \A p \in Player : u.dropped[p] = IF p \in players THEN from ELSE s.dropped[p]
    BY SoundDrop
  <1>2. t = Restreak(u, NoStreak)
    BY DEF Commit
  <1> HIDE DEF u
  <1>3. /\ Sound(t) /\ Edit(u, t) /\ t.dropped = u.dropped /\ t.frames = u.frames
        /\ t.result = u.result
    BY <1>1, <1>2, NoStreakTyped, Restreaked
  <1>4. s \in NodeState
    BY DEF Sound
  <1> QED
    BY <1>1, <1>3, <1>4, EditTwice

\* Announcements of drops as of a tick that took effect in state t; votes.
Announcements(tick, t) ==
  {m \in Message : m.kind = "drop" /\ m.tick = tick /\ t.dropped[m.player] = tick}

Ballots == {m \in Message : m.kind = "vote"}

\* The host drops, as of its tick, players whose frames for it are missing.
LEMMA SoundHostDecides ==
  ASSUME session \in Sessions, NEW s, Sound(s), NEW decided,
         NEW missing \in SUBSET Player,
         \A p \in missing : AwaitsFrames(s, p) /\ ~HasFrame(s.frames, p, s.tick)
  PROVE  LET r == HostDecides(s, missing, decided)
         IN /\ Sound(r.s) /\ Edit(s, r.s) /\ r.s.frames = s.frames /\ r.s.result = s.result
            /\ \A p \in Player :
                 \/ r.s.dropped[p] = s.dropped[p]
                 \/ p \in missing /\ r.s.dropped[p] = s.tick
            /\ r.out \in Seq(Announcements(s.tick, r.s))
  <1> DEFINE r == HostDecides(s, missing, decided)
             t == Commit(s, missing, s.tick)
             k == Cardinality(missing)
             order == SetToSeq(missing)
             out == [i \in DOMAIN order |-> [kind |-> "drop", player |-> order[i], tick |-> s.tick]]
  <1>1. s.tick \in Nat /\ s.tick <= s.tick /\ s \in NodeState
    BY DEF Sound, NodeState
  <1>2. \A p \in missing : s.dropped[p] = Never
    BY DEF AwaitsFrames
  <1>3. CASE ~decided
    <2>1. r = [s |-> s, out |-> <<>>]
      BY <1>3, Zenon DEF HostDecides
    <2>2. Edit(s, s)
      BY <1>1 DEF Edit
    <2>3. r.s = s /\ r.out = <<>> /\ r.out \in Seq(Announcements(s.tick, r.s))
      BY <2>1
    <2> QED
      BY <2>2, <2>3
  <1>4. CASE decided
    <2>1. r = [s |-> t, out |-> out]
      BY <1>4, Zenon DEF HostDecides, Commit, Restreak
    <2>2. /\ Sound(t) /\ Edit(s, t) /\ t.frames = s.frames /\ t.result = s.result
          /\ \A p \in Player : t.dropped[p] = IF p \in missing THEN s.tick ELSE s.dropped[p]
      BY <1>1, <1>2, SoundCommit
    <2> HIDE DEF t
    <2>3. DOMAIN order = 1 .. k /\ k \in Nat /\ \A i \in 1 .. k : order[i] \in missing
      BY Listed
    <2> HIDE DEF order, k
    <2>4. \A i \in 1 .. k : [kind |-> "drop", player |-> order[i], tick |-> s.tick] \in Announcements(s.tick, t)
      BY <1>1, <2>2, <2>3 DEF Message, Announcements
    <2>5. out = [i \in 1 .. k |-> [kind |-> "drop", player |-> order[i], tick |-> s.tick]]
      BY <2>3
    <2> DEFINE DD == Announcements(s.tick, t)
    <2> HIDE DEF DD
    <2>6. out \in [1 .. k -> DD]
      BY <2>4, <2>5 DEF DD
    <2> HIDE DEF out
    <2>7. out \in Seq(Announcements(s.tick, t))
      BY <2>3, <2>6, Row DEF DD
    <2>8. r.s = t /\ r.out = out
      BY <2>1
    <2> HIDE DEF r
    <2>9. /\ Sound(r.s) /\ Edit(s, r.s) /\ r.s.frames = s.frames /\ r.s.result = s.result
          /\ \A p \in Player : \/ r.s.dropped[p] = s.dropped[p]
                               \/ p \in missing /\ r.s.dropped[p] = s.tick
          /\ r.out \in Seq(Announcements(s.tick, r.s))
      BY <2>2, <2>7, <2>8
    <2> QED
      BY <2>9 DEF r
  <1> QED
    BY <1>3, <1>4

\* A peer votes, and drops the missing players at its tick once it may.
LEMMA SoundPeersDecide ==
  ASSUME session \in Sessions, NEW n \in Node, NEW s, Sound(s), NEW others, NEW decided,
         NEW missing \in SUBSET Player, \A p \in missing : AwaitsFrames(s, p)
  PROVE  LET r == PeersDecide(n, s, others, missing, decided)
         IN /\ Sound(r.s) /\ Edit(s, r.s) /\ r.s.frames = s.frames /\ r.s.result = s.result
            /\ r.out \in Seq(Ballots)
  <1> DEFINE r == PeersDecide(n, s, others, missing, decided)
             mine == [voter |-> n, tick |-> s.tick, missing |-> missing]
             casts == decided /\ n \in Player /\ mine \notin s.votes
             cast == Revote(s, Cast(s.votes, mine))
             voted == IF casts THEN cast ELSE s
             z == Commit(voted, missing, s.tick)
             t == Revote(z, {})
             all == Unanimous(voted, Voters(n, others, missing), missing)
             msg == [kind |-> "vote", vote |-> mine]
             out == IF casts THEN <<msg>> ELSE <<>>
  <1>1. s.tick \in Nat /\ s.tick <= s.tick /\ s \in NodeState
    BY DEF Sound, NodeState
  <1>2. casts => mine \in Vote
    BY <1>1 DEF Vote
  <1>3. casts => msg \in Ballots
    <2> HIDE DEF mine, casts
    <2> QED
      BY <1>2 DEF Message, Ballots
  <1>4. r = [s |-> IF all THEN t ELSE voted, out |-> out]
    BY Zenon DEF PeersDecide, Commit, Restreak, Revote
  <1>5. casts => /\ Sound(cast) /\ Edit(s, cast) /\ cast.frames = s.frames
                 /\ cast.result = s.result /\ cast.dropped = s.dropped
    <2>1. cast = Revote(s, Cast(s.votes, mine))
      OBVIOUS
    <2> HIDE DEF mine, cast, casts
    <2> QED
      BY <1>2, <2>1, Recast
  <1>6. Edit(s, s)
    BY <1>1 DEF Edit
  <1> HIDE DEF casts, cast, msg
  <1>7. out \in Seq(Ballots)
    BY <1>3
  <1>8. /\ Sound(voted) /\ Edit(s, voted) /\ voted.frames = s.frames
        /\ voted.result = s.result /\ voted.dropped = s.dropped
    BY <1>5, <1>6
  <1>9. (\A p \in missing : voted.dropped[p] = Never) /\ voted.tick <= s.tick
    BY <1>1, <1>8 DEF AwaitsFrames, Edit
  <1> HIDE DEF voted, all, out
  <1>10. Sound(z) /\ Edit(voted, z) /\ z.frames = voted.frames /\ z.result = voted.result
    BY <1>1, <1>8, <1>9, SoundCommit
  <1> HIDE DEF z
  <1>11. t = Revote(z, {})
    OBVIOUS
  <1> HIDE DEF t
  <1>12. Sound(t) /\ Edit(z, t) /\ t.frames = z.frames /\ t.result = z.result
    BY <1>10, <1>11, FewerVotes
  <1>13. Edit(s, t)
    <2>1. voted \in NodeState /\ z \in NodeState
      BY <1>8, <1>10 DEF Edit
    <2>2. Edit(voted, t)
      BY <1>10, <1>12, <2>1, EditTwice
    <2> QED
      BY <1>1, <1>8, <2>1, <2>2, EditTwice
  <1>14. r.s \in {t, voted} /\ r.out = out
    BY <1>4
  <1> HIDE DEF r
  <1>15. /\ Sound(r.s) /\ Edit(s, r.s) /\ r.s.frames = s.frames /\ r.s.result = s.result
         /\ r.out \in Seq(Ballots)
    BY <1>7, <1>8, <1>10, <1>12, <1>13, <1>14
  <1> QED
    BY <1>15 DEF r
\* What the stall detector of node n does to state s: where the host decides, it
\* alone drops, as of its tick, players whose frame for it it lacks, never
\* itself, and what it announces is what it did.
Detected(n, s, r) ==
  /\ Sound(r.s) /\ Edit(s, r.s) /\ r.s.frames = s.frames
  /\ r.s.result \in {s.result, "aborted"}
  /\ r.out \in Seq(Message)
  /\ Authority = "host" =>
       /\ r.out = <<>> \/ (n = Host /\ r.out \in Seq(Announcements(s.tick, r.s)))
       /\ \A p \in Player :
            \/ r.s.dropped[p] = s.dropped[p]
            \/ /\ n = Host /\ p # Host
               /\ r.s.dropped[p] = s.tick /\ ~HasFrame(s.frames, p, s.tick)

LEMMA DetectedQuiet ==
  ASSUME session \in Sessions, NEW n \in Node, NEW s, NEW t, Sound(t), Edit(s, t),
         t.frames = s.frames, t.result \in {s.result, "aborted"}, t.dropped = s.dropped,
         NEW r, r.s = t, r.out = <<>>
  PROVE  Detected(n, s, r)
  BY DEF Detected

LEMMA SoundDetectDrops ==
  ASSUME session \in Sessions, NEW n \in Node, NEW s, Sound(s), NEW expired, NEW approved
  PROVE  Detected(n, s, DetectDrops(n, s, expired, approved))
  <1> DEFINE r == DetectDrops(n, s, expired, approved)
             counted == CountStep(s)
             others == {p \in Player \ {n} : AwaitsFrames(s, p)}
             missing == Missing(s, others)
             grace == counted.streak.steps >= TimeoutSteps /\ expired
             decided == IF Policy = "automatic" THEN grace ELSE approved
             aborted == Restreak(Finish(counted, "aborted"), NoStreak)
             ended(when) == [s |-> IF when THEN aborted ELSE counted, out |-> <<>>]
  <1>1. s \in NodeState
    BY DEF Sound
  <1>2. /\ Sound(counted) /\ Edit(s, counted) /\ counted.dropped = s.dropped
        /\ counted.frames = s.frames /\ counted.result = s.result /\ counted.tick = s.tick
    BY SoundCountStep DEF Edit
  <1>3. CASE s.state # "blocked"
    <2> DEFINE z == Restreak(s, NoStreak)
               t == Revote(z, {})
    <2>1. r = [s |-> t, out |-> <<>>]
      BY <1>3 DEF DetectDrops, Restreak, Revote
    <2>2. /\ Sound(z) /\ Edit(s, z) /\ z.dropped = s.dropped /\ z.frames = s.frames
          /\ z.result = s.result
      BY Restreaked, NoStreakTyped
    <2> HIDE DEF z
    <2>3. /\ Sound(t) /\ Edit(z, t) /\ t.dropped = z.dropped /\ t.frames = z.frames
          /\ t.result = z.result
      BY <2>2, FewerVotes
    <2>4. Edit(s, t)
      BY <1>1, <2>2, <2>3, EditTwice
    <2> HIDE DEF t
    <2>5. r.s = t /\ r.out = <<>>
      BY <2>1
    <2> HIDE DEF r
    <2>6. Detected(n, s, r)
      BY <2>2, <2>3, <2>4, <2>5, DetectedQuiet
    <2> QED
      BY <2>6 DEF r
  <1>4. ASSUME NEW when, r = ended(when) PROVE Detected(n, s, r)
    <2> DEFINE f == Finish(counted, "aborted")
    <2>1. /\ Sound(f) /\ Edit(counted, f) /\ f.dropped = counted.dropped
          /\ f.frames = counted.frames /\ f.result \in {counted.result, "aborted"}
      BY <1>2, SoundFinish
    <2> HIDE DEF f
    <2>2. /\ Sound(aborted) /\ Edit(f, aborted) /\ aborted.dropped = f.dropped
          /\ aborted.frames = f.frames /\ aborted.result = f.result
      BY <2>1, Restreaked, NoStreakTyped DEF f
    <2> HIDE DEF aborted
    <2>3. counted \in NodeState
      BY <1>2 DEF Edit
    <2>4. Edit(s, aborted)
      BY <1>1, <1>2, <2>1, <2>2, <2>3, EditTwice
    <2>5. r.s \in {aborted, counted} /\ r.out = <<>>
      BY <1>4
    <2> HIDE DEF r, counted
    <2> QED
      BY <1>2, <2>1, <2>2, <2>4, <2>5, DetectedQuiet
  <1>5. CASE s.state = "blocked"
    <2> DEFINE host == HostDecides(counted, missing, decided)
               peers == PeersDecide(n, counted, others, missing, decided)
    <2>1. \/ r = ended(FALSE) \/ r = ended(grace) \/ r = ended(grace /\ Host \in missing)
          \/ r = host /\ Authority = "host" /\ n = Host
          \/ r = peers /\ Authority = "peers"
      <3>1. r = CASE missing = {} -> ended(FALSE)
                  [] missing # {} /\ missing = others -> ended(grace)
                  [] missing \notin {{}, others} /\ Authority = "host" /\ n = Host -> host
                  [] missing \notin {{}, others} /\ Authority = "host" /\ n # Host ->
                       ended(grace /\ Host \in missing)
                  [] missing \notin {{}, others} /\ Authority = "peers" -> peers
        BY <1>5 DEF DetectDrops, Restreak
      <3> HIDE DEF r, missing, others, ended, grace, host, peers
      <3>2. Authority \in {"host", "peers"}
        BY SessionTyped
      <3> QED
        BY <3>1, <3>2
    <2>2. missing \in SUBSET Player
      BY DEF Missing
    <2>3. \A p \in missing : /\ AwaitsFrames(counted, p) /\ p # n
                             /\ ~HasFrame(counted.frames, p, counted.tick)
      BY <1>2 DEF Missing, AwaitsFrames
    <2>4. CASE r = host /\ Authority = "host" /\ n = Host
      <3> HIDE DEF counted, missing, decided
      <3>1. /\ Sound(host.s) /\ Edit(counted, host.s) /\ host.s.frames = counted.frames
            /\ host.s.result = counted.result
            /\ \A p \in Player : \/ host.s.dropped[p] = counted.dropped[p]
                                 \/ p \in missing /\ host.s.dropped[p] = counted.tick
            /\ host.out \in Seq(Announcements(counted.tick, host.s))
        BY <1>2, <2>2, <2>3, SoundHostDecides
      <3> HIDE DEF host, r
      <3>2. r = host
        BY <2>4
      <3>3. Edit(s, r.s)
        BY <1>1, <1>2, <3>1, <3>2, EditTwice DEF Edit
      <3>4. r.out \in Seq(Announcements(s.tick, r.s))
        BY <1>2, <2>4, <3>1, <3>2
      <3>5. r.out \in Seq(Message)
        <4>1. Announcements(s.tick, r.s) \subseteq Message
          BY DEF Announcements
        <4> QED
          BY <3>4, <4>1
      <3>6. Detected(n, s, r)
        BY <1>2, <2>3, <2>4, <3>1, <3>2, <3>3, <3>4, <3>5 DEF Detected
      <3> QED
        BY <3>6 DEF r
    <2>5. CASE r = peers /\ Authority = "peers"
      <3> HIDE DEF counted, missing, decided, others
      <3>1. /\ Sound(peers.s) /\ Edit(counted, peers.s) /\ peers.s.frames = counted.frames
            /\ peers.s.result = counted.result
            /\ peers.out \in Seq(Ballots)
        BY <1>2, <2>2, <2>3, SoundPeersDecide
      <3> HIDE DEF peers, r
      <3>2. r = peers /\ Authority # "host"
        BY <2>5
      <3>3. Edit(s, r.s)
        BY <1>1, <1>2, <3>1, <3>2, EditTwice DEF Edit
      <3>4. r.out \in Seq(Message)
        <4>1. Ballots \subseteq Message
          BY DEF Ballots
        <4> QED
          BY <3>1, <3>2, <4>1
      <3>5. Detected(n, s, r)
        BY <1>2, <3>1, <3>2, <3>3, <3>4 DEF Detected
      <3> QED
        BY <3>5 DEF r
    <2> HIDE DEF r, ended, host, peers
    <2> QED
      BY <1>4, <2>1, <2>4, <2>5 DEF r
  <1> QED
    BY <1>3, <1>5
Rehash(s, ticks) == [s EXCEPT !.local = ticks]
Rehear(s, sums) == [s EXCEPT !.heard = sums]

LEMMA Rehashed ==
  ASSUME session \in Sessions, NEW s, Sound(s), NEW ticks, ticks \subseteq ChecksumTicks,
         NEW t, t = Rehash(s, ticks)
  PROVE  /\ Sound(t) /\ Edit(s, t) /\ t.frames = s.frames /\ t.dropped = s.dropped
         /\ t.result = s.result /\ t.state = s.state /\ t.local = ticks /\ t.heard = s.heard
  <1>1. s \in NodeState /\ ticks \in SUBSET Nat
    BY SessionTyped DEF Sound
  <1>2. /\ t \in NodeState /\ t.tick = s.tick /\ t.ran = s.ran /\ t.local = ticks
        /\ t.frames = s.frames /\ t.dropped = s.dropped /\ t.votes = s.votes
        /\ t.result = s.result /\ t.state = s.state /\ t.heard = s.heard
    BY <1>1 DEF NodeState, Rehash
  <1>3. Edit(s, t)
    BY <1>2 DEF Edit
  <1> QED
    BY <1>2, <1>3, SoundEdit DEF Sound

LEMMA Reheard ==
  ASSUME session \in Sessions, NEW s, Sound(s), NEW sums \in SUBSET Sum,
         NEW t, t = Rehear(s, sums)
  PROVE  /\ Sound(t) /\ Edit(s, t) /\ t.frames = s.frames /\ t.dropped = s.dropped
         /\ t.result = s.result /\ t.state = s.state
  <1>1. s \in NodeState
    BY DEF Sound
  <1>2. /\ t \in NodeState /\ t.tick = s.tick /\ t.ran = s.ran /\ t.local = s.local
        /\ t.frames = s.frames /\ t.dropped = s.dropped /\ t.votes = s.votes
        /\ t.result = s.result /\ t.state = s.state
    BY <1>1 DEF NodeState, Rehear
  <1>3. Edit(s, t)
    BY <1>2 DEF Edit
  <1> QED
    BY <1>2, <1>3, SoundEdit DEF Sound

LEMMA SoundPruneCompared ==
  ASSUME session \in Sessions, NEW s, Sound(s)
  PROVE  /\ Sound(PruneCompared(s)) /\ Edit(s, PruneCompared(s))
         /\ PruneCompared(s).frames = s.frames /\ PruneCompared(s).dropped = s.dropped
         /\ PruneCompared(s).result = s.result
  <1> DEFINE heard == {h.tick : h \in s.heard}
             compared == IF Latest(s.local) < Latest(heard) THEN Latest(s.local)
                                                             ELSE Latest(heard)
             ticks == {t \in s.local : t > compared}
             sums == {h \in s.heard : h.tick > compared}
             z == Rehash(s, ticks)
             t == Rehear(z, sums)
  <1>1. s \in NodeState /\ s.local \subseteq ChecksumTicks
    BY DEF Sound
  <1>2. ticks \subseteq ChecksumTicks /\ sums \in SUBSET Sum
    BY <1>1 DEF NodeState
  <1>3. PruneCompared(s) = IF s.local = {} \/ heard = {} THEN s ELSE t
    BY DEF PruneCompared, Rehash, Rehear
  <1> HIDE DEF ticks, sums, heard
  <1>4. /\ Sound(z) /\ Edit(s, z) /\ z.frames = s.frames /\ z.dropped = s.dropped
        /\ z.result = s.result
    BY <1>2, Rehashed
  <1> HIDE DEF z
  <1>5. /\ Sound(t) /\ Edit(z, t) /\ t.frames = z.frames /\ t.dropped = z.dropped
        /\ t.result = z.result
    BY <1>2, <1>4, Reheard
  <1>6. Edit(s, s) /\ Edit(s, t)
    <2>1. Edit(s, s)
      BY <1>1 DEF Edit
    <2> HIDE DEF t
    <2> QED
      BY <2>1, <1>1, <1>4, <1>5, EditTwice
  <1> HIDE DEF t
  <1> QED
    BY <1>3, <1>4, <1>5, <1>6

\* Without checksums no match ends over one.
LEMMA SoundNetChecksum ==
  ASSUME session \in Sessions, NEW s, Sound(s)
  PROVE  LET t == NetChecksum(s)
         IN /\ Sound(t) /\ Edit(s, t) /\ t.frames = s.frames /\ t.dropped = s.dropped
            /\ t.result \in {s.result, "desync"}
            /\ ChecksumTicks = {} => t.result = s.result
  <1> DEFINE t == NetChecksum(s)
             ticks == s.local \cup {s.tick}
             hashed == IF Hashes(s) THEN Rehash(s, ticks) ELSE s
  <1>1. s \in NodeState /\ s.local \subseteq ChecksumTicks /\ Edit(s, s)
    BY DEF Sound, Edit
  <1>2. t = IF s.state # "running" THEN s
            ELSE IF Mismatch(hashed) THEN Finish(hashed, "desync") ELSE PruneCompared(hashed)
    BY DEF NetChecksum, Rehash
  <1>3. Hashes(s) => ticks \subseteq ChecksumTicks
    BY <1>1 DEF Hashes
  <1> HIDE DEF ticks
  <1>4. Hashes(s) => LET r == Rehash(s, ticks)
                     IN /\ Sound(r) /\ Edit(s, r) /\ r.frames = s.frames
                        /\ r.dropped = s.dropped /\ r.result = s.result
    BY <1>3, Rehashed
  <1>5. /\ Sound(hashed) /\ Edit(s, hashed) /\ hashed.frames = s.frames
        /\ hashed.dropped = s.dropped /\ hashed.result = s.result
    BY <1>1, <1>4
  <1> HIDE DEF hashed
  <1>6. ChecksumTicks = {} => ~Mismatch(hashed)
    <2>1. hashed.local \subseteq ChecksumTicks
      BY <1>5 DEF Sound
    <2> QED
      BY <2>1 DEF Mismatch
  <1>7. hashed \in NodeState
    BY <1>5 DEF Edit
  <1> DEFINE f == Finish(hashed, "desync")
             u == PruneCompared(hashed)
  <1>8. /\ Sound(f) /\ Edit(hashed, f) /\ f.frames = hashed.frames
        /\ f.dropped = hashed.dropped /\ f.result \in {hashed.result, "desync"}
    BY <1>5, SoundFinish
  <1>9. /\ Sound(u) /\ Edit(hashed, u) /\ u.frames = hashed.frames
        /\ u.dropped = hashed.dropped /\ u.result = hashed.result
    BY <1>5, SoundPruneCompared
  <1> HIDE DEF f, u
  <1>10. Edit(s, f) /\ Edit(s, u)
    BY <1>1, <1>5, <1>7, <1>8, <1>9, EditTwice
  <1>11. t \in {s, f, u} /\ (t = f => t \in {s, u} \/ Mismatch(hashed))
    BY <1>2 DEF f, u
  <1> HIDE DEF t
  <1>12. /\ Sound(t) /\ Edit(s, t) /\ t.frames = s.frames /\ t.dropped = s.dropped
         /\ t.result \in {s.result, "desync"}
         /\ ChecksumTicks = {} => t.result = s.result
    BY <1>1, <1>5, <1>6, <1>8, <1>9, <1>10, <1>11
  <1> QED
    BY <1>12 DEF t

\* A tick runs with the players that no drop known has out of it, whose frames
\* are all there.
LEMMA SoundExecute ==
  ASSUME session \in Sessions, NEW s, Sound(s)
  PROVE  LET t == Execute(s)
         IN /\ Sound(t) /\ t.frames = s.frames /\ t.dropped = s.dropped /\ t.result = s.result
            /\ \/ t.tick = s.tick
               \/ /\ t.tick = s.tick + 1
                  /\ \A p \in Player : s.tick < s.dropped[p] => HasFrame(s.frames, p, s.tick)
  <1> DEFINE t == Execute(s)
             required == RequiredPlayers(s, s.tick)
             ran == Append(s.ran, required)
             z == [s EXCEPT !.ran = ran, !.tick = @ + 1, !.state = "running"]
             b == [s EXCEPT !.state = "blocked"]
             ready == IsReady(s.frames, s.tick, required)
  <1>1. /\ s \in NodeState /\ s.tick \in Nat /\ s.ran \in Seq(SUBSET Player)
        /\ s.dropped \in [Player -> Nat] /\ Len(s.ran) = s.tick /\ s.tick <= MaxTick
    BY DEF Sound, NodeState
  <1>2. t = IF ~IsActive(s) \/ s.tick = MaxTick THEN s ELSE IF ready THEN z ELSE b
    BY DEF Execute
  <1>3. required = {p \in Player : s.tick < s.dropped[p]}
    BY DEF RequiredPlayers, IsPlayerRequired
  <1>4. ready => \A p \in Player : s.tick < s.dropped[p] => HasFrame(s.frames, p, s.tick)
    BY <1>3 DEF IsReady
  <1>5. ASSUME IsActive(s)
        PROVE  Sound(b) /\ b.frames = s.frames /\ b.dropped = s.dropped /\ b.result = s.result
               /\ b.tick = s.tick
    <2>1. /\ b \in NodeState /\ b.frames = s.frames /\ b.dropped = s.dropped
          /\ b.result = s.result /\ b.tick = s.tick /\ b.ran = s.ran /\ b.local = s.local
          /\ b.votes = s.votes /\ b.state = "blocked"
      BY <1>1 DEF NodeState
    <2>2. s.state # "finished"
      BY <1>5 DEF IsActive
    <2>3. Edit(s, b)
      BY <2>1 DEF Edit
    <2> HIDE DEF b
    <2> QED
      BY <2>1, <2>2, <2>3, SoundEdit DEF Sound
  <1>6. ASSUME IsActive(s), s.tick # MaxTick, ready
        PROVE  Sound(z) /\ z.frames = s.frames /\ z.dropped = s.dropped /\ z.result = s.result
               /\ z.tick = s.tick + 1
    <2>0. required \in SUBSET Player
      BY <1>3
    <2> HIDE DEF required
    <2>1. /\ ran \in Seq(SUBSET Player) /\ Len(ran) = s.tick + 1
          /\ \A i \in 1 .. s.tick : ran[i] = s.ran[i]
          /\ ran[s.tick + 1] = required
      BY <1>1, <2>0
    <2> HIDE DEF ran
    <2> DEFINE z1 == [s EXCEPT !.ran = ran]
               next == s.tick + 1
             z2 == [z1 EXCEPT !.tick = next]
    <2>a. /\ z1 \in NodeState /\ z1.frames = s.frames /\ z1.dropped = s.dropped
          /\ z1.result = s.result /\ z1.ran = ran /\ z1.local = s.local
          /\ z1.votes = s.votes
      BY <1>1, <2>1 DEF NodeState
    <2>b. z = [z2 EXCEPT !.state = "running"] /\ next \in Nat
      BY <1>1
    <2> HIDE DEF z1, z, next
    <2>c. /\ z2 \in NodeState /\ z2.frames = s.frames /\ z2.dropped = s.dropped
          /\ z2.result = s.result /\ z2.tick = next /\ z2.ran = ran
          /\ z2.local = s.local /\ z2.votes = s.votes
      BY <2>a, <2>b DEF NodeState
    <2> HIDE DEF z2
    <2>2. /\ z \in NodeState /\ z.frames = s.frames /\ z.dropped = s.dropped
          /\ z.result = s.result /\ z.tick = s.tick + 1 /\ z.ran = ran /\ z.local = s.local
          /\ z.votes = s.votes /\ z.state = "running"
      BY <2>b, <2>c DEF NodeState, next
    <2>3. s.state # "finished" /\ s.tick + 1 <= MaxTick
      BY <1>1, <1>6, SessionTyped DEF IsActive
    <2>4. ASSUME NEW i \in 1 .. (s.tick + 1)
          PROVE  /\ ran[i] = {p \in Player : i - 1 < s.dropped[p]}
                 /\ \A p \in ran[i] : HasFrame(s.frames, p, i - 1)
      <3>1. CASE i \in 1 .. s.tick
        BY <2>1, <3>1 DEF Sound, RanOn
      <3>2. CASE i = s.tick + 1
        <4>1. i - 1 = s.tick
          BY <1>1, <3>2
        <4> QED
          BY <4>1, <2>1, <3>2, <1>3, <1>4, <1>6
      <3> QED
        BY <1>1, <3>1, <3>2
    <2>5. RanOn(z)
      BY <2>2, <2>4 DEF RanOn
    <2>6. /\ \A v, w \in s.votes : v.voter = w.voter => v = w
          /\ s.result = "none" /\ s.local \subseteq ChecksumTicks
      BY <2>3 DEF Sound
    <2> QED
      BY <2>1, <2>2, <2>3, <2>5, <2>6 DEF Sound
  <1> HIDE DEF z, b, ready
  <1>7. \/ t = s
        \/ t = z /\ IsActive(s) /\ s.tick # MaxTick /\ ready
        \/ t = b /\ IsActive(s)
    BY <1>2
  <1> HIDE DEF t
  <1>8. /\ Sound(t) /\ t.frames = s.frames /\ t.dropped = s.dropped /\ t.result = s.result
        /\ \/ t.tick = s.tick
           \/ /\ t.tick = s.tick + 1
              /\ \A p \in Player : s.tick < s.dropped[p] => HasFrame(s.frames, p, s.tick)
    BY <1>4, <1>5, <1>6, <1>7
  <1> QED
    BY <1>8 DEF t
\* What a message from node a does to state s: frames of the message join the
\* store, a drop counts if none is known of the player, and the match ends over
\* one that is behind the node.
Handled(s, a, msg, r) ==
  /\ Sound(r.s) /\ Edit(s, r.s) /\ r.out \in Seq(Message)
  /\ \A f \in r.s.frames : f \in s.frames \/ (msg.kind = "frames" /\ f \in msg.frames)
  /\ Authority = "host" => r.out = <<>>
  /\ \A p \in Player :
       \/ r.s.dropped[p] = s.dropped[p]
       \/ msg.kind = "drop" /\ p = msg.player /\ r.s.dropped[p] = msg.tick
  /\ \/ r.s.result = s.result
     \/ /\ msg.kind = "drop" /\ s.dropped[msg.player] = Never /\ msg.tick < s.tick

LEMMA SoundNetReceive ==
  ASSUME session \in Sessions, NEW s, Sound(s), NEW msg \in Message, IsGameplay(msg), NEW a,
         NEW r, r.s = NetReceive(s, msg), r.out = <<>>
  PROVE  Handled(s, a, msg, r)
  <1> DEFINE t == NetReceive(s, msg)
  <1>1. s \in NodeState
    BY DEF Sound
  <1>2. CASE msg.kind = "frames"
    <2> DEFINE fs == PushFrames(s.frames, msg.frames)
    <2>1. t = [s EXCEPT !.frames = fs]
      BY <1>2 DEF NetReceive
    <2>2. msg.frames \in SUBSET PlayerFrame
      BY <1>2 DEF Message
    <2>3. fs \in SUBSET PlayerFrame /\ s.frames \subseteq fs
          /\ \A f \in fs : f \in s.frames \/ f \in msg.frames
      BY <1>1, <2>2 DEF PushFrames, NodeState
    <2> HIDE DEF t, fs
    <2>4. /\ t \in NodeState /\ t.tick = s.tick /\ t.ran = s.ran /\ t.local = s.local
          /\ t.frames = fs /\ t.dropped = s.dropped /\ t.votes = s.votes
          /\ t.result = s.result /\ t.state = s.state
      BY <1>1, <2>1, <2>3 DEF NodeState
    <2>5. Edit(s, t)
      BY <2>3, <2>4 DEF Edit
    <2>6. Sound(t)
      BY <2>4, <2>5, SoundEdit DEF Sound
    <2>7. r.s = t
      BY DEF t
    <2> QED
      BY <1>2, <2>3, <2>4, <2>5, <2>6, <2>7 DEF Handled
  <1>3. CASE msg.kind = "sum"
    <2> DEFINE sums == {h \in s.heard : <<h.player, h.tick>> # <<msg.sum.player, msg.sum.tick>>}
                         \cup {msg.sum}
    <2>1. t = Rehear(s, sums)
      BY <1>3 DEF NetReceive, Rehear
    <2>2. sums \in SUBSET Sum
      BY <1>1, <1>3 DEF Message, NodeState
    <2> HIDE DEF t, sums
    <2>3. /\ Sound(t) /\ Edit(s, t) /\ t.frames = s.frames /\ t.dropped = s.dropped
          /\ t.result = s.result
      BY <2>1, <2>2, Reheard
    <2>4. r.s = t
      BY DEF t
    <2> QED
      BY <2>3, <2>4 DEF Handled
  <1> QED
    BY <1>2, <1>3 DEF IsGameplay

LEMMA SoundHandleDropAt ==
  ASSUME session \in Sessions, NEW s, Sound(s), NEW a, NEW msg \in Message, msg.kind = "drop",
         NEW r, r.s = HandleDropAt(s, a, msg), r.out = <<>>
  PROVE  Handled(s, a, msg, r)
  <1> DEFINE t == HandleDropAt(s, a, msg)
             f == Finish(s, "desync")
             u == Commit(s, {msg.player}, msg.tick)
  <1>1. s \in NodeState /\ s.tick \in Nat /\ msg.player \in Player /\ msg.tick \in Nat
    BY DEF Sound, NodeState, Message
  <1>2. \/ t = s
        \/ t = f /\ s.dropped[msg.player] = Never /\ msg.tick < s.tick
        \/ t = u /\ s.dropped[msg.player] = Never /\ s.tick <= msg.tick
    BY <1>1 DEF HandleDropAt, Commit, Restreak
  <1>3. Edit(s, s)
    BY <1>1 DEF Edit
  <1>4. Sound(f) /\ Edit(s, f) /\ f.dropped = s.dropped /\ f.frames = s.frames
    BY SoundFinish
  <1>5. ASSUME s.dropped[msg.player] = Never, s.tick <= msg.tick
        PROVE  /\ Sound(u) /\ Edit(s, u) /\ u.frames = s.frames /\ u.result = s.result
               /\ \A p \in Player : u.dropped[p] = IF p = msg.player THEN msg.tick ELSE s.dropped[p]
    <2>1. {msg.player} \in SUBSET Player /\ \A p \in {msg.player} : s.dropped[p] = Never
      BY <1>1, <1>5
    <2> HIDE DEF u
    <2>2. /\ Sound(u) /\ Edit(s, u) /\ u.frames = s.frames /\ u.result = s.result
          /\ \A p \in Player : u.dropped[p] = IF p \in {msg.player} THEN msg.tick ELSE s.dropped[p]
      BY <1>1, <1>5, <2>1, SoundCommit DEF u
    <2> QED
      BY <2>2
  <1>6. r.s = t
    OBVIOUS
  <1> HIDE DEF t, f, u
  <1> QED
    BY <1>2, <1>3, <1>4, <1>5, <1>6 DEF Handled

LEMMA SoundHandleControl ==
  ASSUME session \in Sessions, NEW n \in Node, NEW s, Sound(s), NEW a \in Node,
         NEW msg \in Message, ~IsGameplay(msg)
  PROVE  Handled(s, a, msg, HandleControl(n, [s |-> s, out |-> <<>>], a, msg))
  <1> DEFINE acc == [s |-> s, out |-> <<>>]
             r == HandleControl(n, acc, a, msg)
  <1>1. s \in NodeState /\ Edit(s, s)
    BY DEF Sound, Edit
  <1>2. msg.kind \in {"closed", "drop", "vote"}
    BY DEF Message, IsGameplay
  <1>3. ASSUME r = acc PROVE Handled(s, a, msg, r)
    <2>1. r.s = s /\ r.out = <<>>
      BY <1>3
    <2> HIDE DEF r
    <2> QED
      BY <1>1, <2>1 DEF Handled
  <1>4. CASE msg.kind = "closed"
    <2> DEFINE lost == s.lost \cup ({a} \cap Player)
               t == [s EXCEPT !.lost = lost]
    <2>1. r = [acc EXCEPT !.s.lost = @ \cup ({a} \cap Player)]
      BY <1>4 DEF HandleControl
    <2>2. r.s = t /\ r.out = <<>>
      BY <2>1, <1>1 DEF NodeState
    <2>3. lost \in SUBSET Player
      BY <1>1 DEF NodeState
    <2> HIDE DEF lost, r
    <2>4. /\ t \in NodeState /\ t.tick = s.tick /\ t.ran = s.ran /\ t.local = s.local
          /\ t.frames = s.frames /\ t.dropped = s.dropped /\ t.votes = s.votes
          /\ t.result = s.result /\ t.state = s.state
      BY <1>1, <2>3 DEF NodeState
    <2> HIDE DEF t
    <2>5. Edit(s, t)
      BY <2>4 DEF Edit
    <2>6. Sound(t)
      BY <2>4, <2>5, SoundEdit DEF Sound
    <2>7. Handled(s, a, msg, r)
      BY <2>2, <2>4, <2>5, <2>6 DEF Handled
    <2> QED
      BY <2>7 DEF r
  <1>5. CASE msg.kind = "drop"
    <2>1. r = [acc EXCEPT !.s = HandleDropAt(s, a, msg)]
      BY <1>5 DEF HandleControl
    <2>2. r.s = HandleDropAt(s, a, msg) /\ r.out = <<>>
      BY <2>1
    <2> HIDE DEF r
    <2>3. Handled(s, a, msg, r)
      BY <1>5, <2>2, SoundHandleDropAt
    <2> QED
      BY <2>3 DEF r
  <1>6. CASE msg.kind = "vote"
    <2> DEFINE t == Revote(s, Cast(s.votes, msg.vote))
               out == IF Authority = "peers" THEN <<msg>> ELSE <<>>
    <2>1. r = acc \/ r = [s |-> t, out |-> <<>> \o out]
      BY <1>6 DEF HandleControl, Revote
    <2>2. msg.vote \in Vote
      BY <1>6 DEF Message
    <2>3. Sound(t) /\ Edit(s, t) /\ t.dropped = s.dropped /\ t.frames = s.frames
          /\ t.result = s.result
      BY <2>2, Recast
    <2> HIDE DEF t
    <2>4. out \in Seq(Message) /\ <<>> \o out = out /\ (Authority = "host" => out = <<>>)
      OBVIOUS
    <2> HIDE DEF out
    <2>5. r = acc \/ (r.s = t /\ r.out = out)
      BY <2>1, <2>4
    <2> HIDE DEF r, acc
    <2>6. ASSUME r.s = t, r.out = out PROVE Handled(s, a, msg, r)
      BY <2>3, <2>4, <2>6 DEF Handled
    <2> QED
      BY <1>3, <2>5, <2>6 DEF r, acc
  <1> HIDE DEF r
  <1> QED
    BY <1>2, <1>4, <1>5, <1>6 DEF r

LEMMA SoundHandle ==
  ASSUME session \in Sessions, NEW n \in Node, Sound(node[n]), NEW a \in Node,
         NEW msg \in Message
  PROVE  Handled(node[n], a, msg, Handle(n, a, msg))
  <1>1. CASE IsGameplay(msg)
    <2> DEFINE r == Handle(n, a, msg)
    <2>1. r.s = NetReceive(node[n], msg) /\ r.out = <<>>
      BY <1>1 DEF Handle
    <2> HIDE DEF r
    <2>2. Handled(node[n], a, msg, r)
      BY <1>1, <2>1, SoundNetReceive
    <2> QED
      BY <2>2 DEF r
  <1>2. CASE ~IsGameplay(msg)
    BY <1>2, SoundHandleControl DEF Handle
  <1> QED
    BY <1>1, <1>2
-----------------------------------------------------------------------------
(***************************************************************************)
(* What is on its way.                                                     *)
(***************************************************************************)

\* Two windows counted as one.
Joint(m, k) == [m EXCEPT !.frames = m.frames \cup k.frames]

LEMMA SeqSubset ==
  ASSUME NEW A, NEW B, A \subseteq B, NEW q \in Seq(A)
  PROVE  q \in Seq(B)
  OBVIOUS

LEMMA MailJoint ==
  ASSUME NEW nd, NEW a, NEW m \in Mail(nd, a), NEW k \in Mail(nd, a),
         m.kind = "frames", k.kind = "frames"
  PROVE  Joint(m, k) \in Mail(nd, a)
  <1>1. /\ m \in [kind : {"frames"}, frames : SUBSET PlayerFrame]
        /\ k \in [kind : {"frames"}, frames : SUBSET PlayerFrame]
    BY DEF Mail, Message
  <1>2. /\ Joint(m, k) \in [kind : {"frames"}, frames : SUBSET PlayerFrame]
        /\ Joint(m, k).frames = m.frames \cup k.frames /\ Joint(m, k).kind = "frames"
    BY <1>1 DEF Joint
  <1>3. Fits(nd, a, Joint(m, k))
    BY <1>2 DEF Mail, Fits
  <1> QED
    BY <1>2, <1>3 DEF Mail, Message

LEMMA MailQueue ==
  ASSUME NEW nd, NEW a, NEW q \in Seq(Mail(nd, a)), NEW msgs \in Seq(Mail(nd, a))
  PROVE  Enqueue(q, msgs) \in Seq(Mail(nd, a))
  <1> DEFINE S == Mail(nd, a)
             m == q[Len(q)]
             k == Head(msgs)
             j == Joint(m, k)
             p == [q EXCEPT ![Len(q)] = j]
             joins == q # <<>> /\ msgs # <<>> /\ m.kind = "frames" /\ k.kind = "frames"
  <1>1. Enqueue(q, msgs) = IF joins THEN p \o Tail(msgs) ELSE q \o msgs
    BY DEF Enqueue, Last, Joint
  <1>2. joins => m \in S /\ k \in S
    OBVIOUS
  <1>3. joins => j \in S
    BY <1>2, MailJoint
  <1> HIDE DEF S, j
  <1>4. joins => p \in Seq(S)
    BY <1>3 DEF S
  <1> HIDE DEF p
  <1>5. (joins => p \o Tail(msgs) \in Seq(S)) /\ q \o msgs \in Seq(S)
    BY <1>4 DEF S
  <1> HIDE DEF joins
  <1> QED
    BY <1>1, <1>5 DEF S

LEMMA Removed ==
  ASSUME NEW S, NEW q \in Seq(S), NEW i \in DOMAIN q
  PROVE  RemoveAt(q, i) \in Seq(S)
  BY DEF RemoveAt

LEMMA Element ==
  ASSUME NEW S, NEW q \in Seq(S), NEW i \in DOMAIN q
  PROVE  q[i] \in S
  OBVIOUS

LEMMA NewestTyped ==
  ASSUME session \in Sessions, NEW S, NEW q \in Seq(S), NEW msgs \in Seq(S)
  PROVE  Newest(q, msgs) \in Seq(S)
  <1> DEFINE all == q \o msgs
             from == IF Len(all) > InFlight THEN Len(all) - InFlight + 1 ELSE 1
  <1>1. all \in Seq(S) /\ Len(all) \in Nat
    OBVIOUS
  <1>2. from \in Nat /\ 1 <= from
    BY <1>1, SessionTyped
  <1>3. Newest(q, msgs) \in {q, SubSeq(all, from, Len(all))}
    BY DEF Newest
  <1> HIDE DEF all, from
  <1>4. SubSeq(all, from, Len(all)) \in Seq(S)
    BY <1>1, <1>2
  <1> QED
    BY <1>3, <1>4

-----------------------------------------------------------------------------
(***************************************************************************)
(* How the others see a step of one node.                                  *)
(***************************************************************************)

\* The host's store grows; its decisions stay, and a new one is for a player
\* whose frame it had not got.
Grows(nd, md) ==
  /\ nd[Host].frames \subseteq md[Host].frames
  /\ \A p \in Player :
       \/ Decided(md, p) = Decided(nd, p)
       \/ /\ Decided(nd, p) = Never
          /\ ~HasFrame(nd[Host].frames, p, Decided(md, p))

LEMMA KnownGrows ==
  ASSUME NEW nd, NEW md, Grows(nd, md), NEW f \in PlayerFrame, Known(nd, f)
  PROVE  Known(md, f) /\ (Due(nd, f) => Due(md, f))
  <1>1. f.player \in Player
    BY DEF PlayerFrame
  <1>2. Known(md, f)
    BY DEF Grows, Known, HasFrame
  <1>3. Due(nd, f) => Due(md, f)
    BY <1>1 DEF Grows, Known, Due
  <1> QED
    BY <1>2, <1>3

LEMMA MailGrows ==
  ASSUME NEW nd, NEW md, Grows(nd, md), NEW a
  PROVE  Mail(nd, a) \subseteq Mail(md, a)
  <1> SUFFICES ASSUME NEW m \in Mail(nd, a) PROVE Fits(md, a, m)
    BY DEF Mail
  <1>1. m \in Message /\ Fits(nd, a, m)
    BY DEF Mail
  <1>2. ASSUME m.kind = "drop", Authority = "host"
        PROVE  m.tick = Decided(md, m.player)
    <2>1. m.player \in Player /\ m.tick # Never /\ m.tick = Decided(nd, m.player)
      BY <1>1, <1>2 DEF Message, Fits
    <2> QED
      BY <2>1 DEF Grows
  <1>3. ASSUME m.kind = "frames", HostStar, NEW f \in m.frames, Authority = "host"
        PROVE  Sends(md, a, f)
    <2>1. f \in PlayerFrame /\ Sends(nd, a, f)
      BY <1>1, <1>3 DEF Message, Fits
    <2> QED
      BY <2>1, KnownGrows DEF Sends
  <1> QED
    BY <1>1, <1>2, <1>3 DEF Fits

\* What a tick ran with had arrived.
LEMMA RanWith ==
  ASSUME NEW s, Sound(s), NEW i \in 1 .. s.tick, NEW p \in Player, i - 1 < s.dropped[p]
  PROVE  HasFrame(s.frames, p, i - 1)
  BY DEF Sound, RanOn

LEMMA FollowsGrows ==
  ASSUME session \in Sessions, NEW nd \in [Node -> {s \in NodeState : Sound(s)}],
         NEW md \in [Node -> NodeState], Grows(nd, md), NEW n \in Node, md[n] = nd[n],
         n # Host, Follows(nd, n), Authority = "host"
  PROVE  Follows(md, n)
  <1>0. Sound(nd[n]) /\ nd[n] \in NodeState
    OBVIOUS
  <1>1. ASSUME NEW p \in Player PROVE md[n].dropped[p] \in {Never, Decided(md, p)}
    <2>1. nd[n].dropped[p] \in {Never, Decided(nd, p)}
      BY DEF Follows
    <2>2. Decided(md, p) = Decided(nd, p) \/ Decided(nd, p) = Never
      BY DEF Grows
    <2> QED
      BY <2>1, <2>2
  <1>2. ASSUME HostStar, NEW f \in md[n].frames, f.player # n
        PROVE  Known(md, f) /\ Due(md, f)
    <2>1. f \in PlayerFrame /\ f \in nd[n].frames
      BY <1>0, <1>2 DEF NodeState
    <2>2. Known(nd, f) /\ Due(nd, f)
      BY <1>2, <2>1 DEF Follows
    <2> QED
      BY <2>1, <2>2, KnownGrows
  <1>3. ASSUME HostStar, NEW p \in Player \ {n}, md[n].dropped[p] = Never, Decided(md, p) # Never
        PROVE  md[n].tick <= Decided(md, p)
    <2>0. Decided(md, p) \in Nat
      BY <1>3, DropsAssumption DEF Decided, NodeState
    <2>1. CASE Decided(md, p) = Decided(nd, p)
      BY <1>3, <2>1 DEF Follows
    <2>2. CASE ~HasFrame(nd[Host].frames, p, Decided(md, p))
      <3> SUFFICES ASSUME Decided(md, p) < nd[n].tick PROVE FALSE
        BY <1>0, <1>3, <2>0 DEF NodeState
      <3> DEFINE d == Decided(md, p)
      <3>1. d + 1 \in 1 .. nd[n].tick /\ d < Never /\ nd[n].tick \in Nat
        BY <1>0, <1>3, <2>0, SessionTyped DEF Sound, NodeState
      <3>2. (d + 1) - 1 = d /\ nd[n].dropped[p] = Never
        BY <1>3, <2>0
      <3>3. HasFrame(nd[n].frames, p, d)
        BY <1>0, <3>1, <3>2, RanWith
      <3>4. PICK f \in nd[n].frames : f.player = p /\ f.tick = d
        BY <3>3 DEF HasFrame
      <3>5. Known(nd, f)
        BY <1>3, <3>4 DEF Follows
      <3> QED
        BY <2>2, <3>4, <3>5 DEF Known
    <2> QED
      BY <2>1, <2>2 DEF Grows
  <1>4. HostStar /\ ChecksumTicks = {} /\ md[n].result = "desync" =>
          n \in Player /\ Decided(md, n) # Never
    BY DEF Follows, Grows
  <1> QED
    BY <1>1, <1>2, <1>3, <1>4 DEF Follows
\* The nodes part of Fine.
NodesFine(nd) ==
  /\ nd \in [Node -> {s \in NodeState : Sound(s)}]
  /\ Authority = "host" => \A n \in Node : Follows(nd, n)

LEMMA NodesMove ==
  ASSUME session \in Sessions, NEW nd, NodesFine(nd), NEW n \in Node, NEW t, Sound(t),
         NEW md, md = [nd EXCEPT ![n] = t],
         Authority = "host" => Grows(nd, md) /\ Follows(md, n)
  PROVE  /\ NodesFine(md)
         /\ \A a \in Node : /\ Mail(nd, a) \subseteq Mail(md, a)
                            /\ Datagrams(nd, a) \subseteq Datagrams(md, a)
  <1>1. /\ nd \in [Node -> {s \in NodeState : Sound(s)}] /\ t \in NodeState
        /\ Host \in Node
    BY DropsAssumption DEF NodesFine, Sound
  <1>2. md \in [Node -> {s \in NodeState : Sound(s)}]
    BY <1>1
  <1>3. ASSUME Authority = "host", NEW k \in Node PROVE Follows(md, k)
    <2>1. CASE k = n
      BY <1>3, <2>1
    <2>2. CASE k # n /\ k # Host
      <3>1. md[k] = nd[k] /\ md \in [Node -> NodeState] /\ Follows(nd, k)
        BY <1>1, <1>2, <1>3, <2>2 DEF NodesFine
      <3> QED
        BY <1>1, <1>3, <2>2, <3>1, FollowsGrows
    <2>3. CASE k # n /\ k = Host
      <3>1. md[Host] = nd[Host] /\ Follows(nd, Host)
        BY <1>1, <1>3, <2>3 DEF NodesFine
      <3>2. \A p : Decided(md, p) = Decided(nd, p)
        BY <3>1 DEF Decided
      <3> QED
        BY <2>3, <3>1, <3>2 DEF Follows
    <2> QED
      BY <2>1, <2>2, <2>3
  <1>4. ASSUME Authority # "host", NEW a \in Node PROVE Mail(nd, a) \subseteq Mail(md, a)
    BY <1>4 DEF Mail, Fits
  <1>5. ASSUME Authority = "host", NEW a \in Node PROVE Mail(nd, a) \subseteq Mail(md, a)
    BY <1>5, MailGrows
  <1> QED
    BY <1>2, <1>3, <1>4, <1>5 DEF NodesFine, Datagrams

\* A message that fits its sender leaves the receiver in line.
LEMMA HandledFits ==
  ASSUME session \in Sessions, NEW nd, NodesFine(nd), NEW n \in Node, NEW a \in Node,
         HostStar => Host \in {a, n}, NEW msg \in Mail(nd, a),
         NEW r, Handled(nd[n], a, msg, r), NEW md, md = [nd EXCEPT ![n] = r.s],
         Authority = "host"
  PROVE  Grows(nd, md) /\ Follows(md, n)
  <1> DEFINE s == nd[n]
             t == r.s
  <1>1. /\ s \in NodeState /\ Sound(s) /\ Follows(nd, n) /\ Host \in Node
        /\ nd \in [Node -> {x \in NodeState : Sound(x)}]
    BY DropsAssumption DEF NodesFine
  <1>2. md[n] = t /\ (n # Host => md[Host] = nd[Host])
    BY <1>1
  <1>3. msg.kind = "drop" =>
          /\ msg.player \in Player /\ msg.tick \in Nat
          /\ a = Host /\ msg.tick # Never /\ msg.tick = Decided(nd, msg.player)
    BY DEF Mail, Message, Fits
  <1>4. ASSUME msg.kind = "frames", HostStar, NEW f \in msg.frames PROVE Sends(nd, a, f)
    BY <1>4 DEF Mail, Fits
  <1>5. /\ t \in NodeState /\ t.tick = s.tick /\ s.frames \subseteq t.frames
        /\ \A p \in Player : t.dropped[p] = s.dropped[p] \/ s.dropped[p] = Never
        /\ \A p \in Player :
             \/ t.dropped[p] = s.dropped[p]
             \/ msg.kind = "drop" /\ p = msg.player /\ t.dropped[p] = msg.tick
        /\ \A f \in t.frames : f \in s.frames \/ (msg.kind = "frames" /\ f \in msg.frames)
        /\ \/ t.result = s.result
           \/ msg.kind = "drop" /\ s.dropped[msg.player] = Never /\ msg.tick < s.tick
    BY DEF Handled, Edit
  <1> HIDE DEF t
  <1>6. CASE n = Host
    <2>1. ASSUME NEW p \in Player PROVE Decided(md, p) = Decided(nd, p)
      <3>1. CASE t.dropped[p] = s.dropped[p]
        BY <1>2, <1>6, <3>1 DEF Decided
      <3>2. CASE msg.kind = "drop" /\ p = msg.player /\ t.dropped[p] = msg.tick
        BY <1>2, <1>3, <1>6, <3>2 DEF Decided
      <3> QED
        BY <1>5, <3>1, <3>2
    <2>2. \A p \in Player : Decided(md, p) = Decided(nd, p)
      BY <2>1, Zenon
    <2>3. Grows(nd, md)
      BY <1>2, <1>5, <1>6, <2>2 DEF Grows
    <2>4. t.result = s.result
      BY <1>3, <1>5, <1>6 DEF Decided
    <2>5. \A p \in Player : md[n].dropped[p] = Decided(md, p)
      BY <1>6 DEF Decided
    <2> QED
      BY <1>1, <1>2, <1>6, <2>2, <2>3, <2>4, <2>5 DEF Follows
  <1>7. CASE n # Host
    <2>1. /\ \A p : Decided(md, p) = Decided(nd, p)
          /\ \A f : (Known(md, f) <=> Known(nd, f)) /\ (Due(md, f) <=> Due(nd, f))
      BY <1>2, <1>7 DEF Decided, Known, Due
    <2>2. Grows(nd, md)
      BY <1>2, <1>7, <2>1 DEF Grows
    <2>3. ASSUME NEW p \in Player PROVE t.dropped[p] \in {Never, Decided(md, p)}
      BY <1>1, <1>3, <1>5, <2>1 DEF Follows
    <2>4. ASSUME HostStar, NEW f \in t.frames, f.player # n PROVE Known(md, f) /\ Due(md, f)
      <3>1. CASE f \in s.frames
        BY <1>1, <1>7, <2>1, <2>4, <3>1 DEF Follows
      <3>2. CASE msg.kind = "frames" /\ f \in msg.frames
        <4>1. Sends(nd, Host, f)
          BY <1>4, <1>7, <2>4, <3>2
        <4> QED
          BY <2>1, <4>1 DEF Sends
      <3> QED
        BY <1>5, <3>1, <3>2
    <2>5. ASSUME HostStar, NEW p \in Player \ {n}, t.dropped[p] = Never, Decided(md, p) # Never
          PROVE  t.tick <= Decided(md, p)
      <3>1. s.dropped[p] = Never /\ Decided(nd, p) # Never
        BY <1>5, <2>1, <2>5
      <3> QED
        BY <1>1, <1>5, <1>7, <2>1, <2>5, <3>1 DEF Follows
    <2>6. ASSUME HostStar, ChecksumTicks = {}, t.result = "desync"
          PROVE  n \in Player /\ Decided(md, n) # Never
      <3>1. CASE t.result = s.result
        BY <1>1, <2>1, <2>6, <3>1 DEF Follows
      <3>2. CASE msg.kind = "drop" /\ s.dropped[msg.player] = Never /\ msg.tick < s.tick
        <4>1. /\ msg.player \in Player /\ Decided(nd, msg.player) # Never
              /\ Decided(nd, msg.player) = msg.tick /\ msg.tick \in Nat /\ s.tick \in Nat
          BY <1>1, <1>3, <3>2 DEF NodeState
        <4>2. msg.player = n
          BY <1>1, <1>7, <2>6, <3>2, <4>1 DEF Follows
        <4> QED
          BY <2>1, <4>1, <4>2
      <3> QED
        BY <1>5, <3>1, <3>2
    <2>7. Follows(md, n)
      BY <1>2, <1>7, <2>3, <2>4, <2>5, <2>6 DEF Follows
    <2> QED
      BY <2>2, <2>7
  <1> QED
    BY <1>6, <1>7
\* What the systems of one FixedUpdate of node n make of its state s: d is what
\* the stall detector left, t is where the node ends up.
Stepped(n, s, d, t) ==
  /\ Sound(d.s) /\ Sound(t)
  /\ t.frames = d.s.frames /\ t.dropped = d.s.dropped /\ d.s.tick = s.tick
  /\ s.frames \subseteq t.frames /\ \A f \in t.frames : f \in s.frames \/ f.player = n
  /\ d.out \in Seq(Message)
  /\ Authority = "host" =>
       /\ d.out = <<>> \/ (n = Host /\ d.out \in Seq(Announcements(s.tick, d.s)))
       /\ \A p \in Player :
            \/ t.dropped[p] = s.dropped[p]
            \/ /\ n = Host /\ p # Host /\ s.dropped[p] = Never
               /\ t.dropped[p] = s.tick /\ ~HasFrame(s.frames, p, s.tick)
  /\ \/ t.tick = s.tick
     \/ /\ t.tick = s.tick + 1
        /\ \A p \in Player : s.tick < t.dropped[p] => HasFrame(t.frames, p, s.tick)
  /\ ChecksumTicks = {} => t.result \in {s.result, "aborted"}

LEMMA SoundStep ==
  ASSUME session \in Sessions, NEW n \in Node, NEW s, Sound(s), NEW expired, NEW approved,
         NEW d,
         d = IF IsActive(Steer(n, s))
             THEN DetectDrops(n, FlushInput(n, Steer(n, s)), expired, approved)
             ELSE [s |-> Steer(n, s), out |-> <<>>]
  PROVE  Stepped(n, s, d, Execute(NetChecksum(d.s)))
  <1> DEFINE control == Steer(n, s)
             flushed == FlushInput(n, control)
             hashed == NetChecksum(d.s)
             t == Execute(hashed)
  <1>1. /\ Sound(control) /\ Edit(s, control) /\ control.dropped = s.dropped
        /\ control.frames = s.frames /\ control.result \in {s.result, "aborted"}
    BY SoundSteer
  <1>2. /\ Sound(flushed) /\ Edit(control, flushed) /\ flushed.dropped = control.dropped
        /\ flushed.result = control.result
        /\ \A f \in flushed.frames : f \in control.frames \/ f.player = n
    BY <1>1, SoundFlushInput
  <1>3. s \in NodeState /\ control \in NodeState /\ flushed \in NodeState
    BY <1>1, <1>2 DEF Sound
  <1> HIDE DEF control, flushed
  <1>4. /\ Sound(d.s) /\ d.s.tick = s.tick /\ s.frames \subseteq d.s.frames
        /\ \A f \in d.s.frames : f \in s.frames \/ f.player = n
        /\ d.s.result \in {s.result, "aborted"}
        /\ d.out \in Seq(Message)
        /\ Authority = "host" =>
             /\ d.out = <<>> \/ (n = Host /\ d.out \in Seq(Announcements(s.tick, d.s)))
             /\ \A p \in Player :
                  \/ d.s.dropped[p] = s.dropped[p]
                  \/ /\ n = Host /\ p # Host /\ s.dropped[p] = Never
                     /\ d.s.dropped[p] = s.tick /\ ~HasFrame(s.frames, p, s.tick)
    <2>1. CASE IsActive(control)
      <3>1. Detected(n, flushed, d)
        BY <1>2, <2>1, SoundDetectDrops DEF control, flushed
      <3>2. flushed.tick = s.tick
        BY <1>1, <1>2 DEF Edit
      <3>3. ASSUME NEW p \in Player
            PROVE  d.s.dropped[p] = flushed.dropped[p] \/ flushed.dropped[p] = Never
        <4>1. Edit(flushed, d.s)
          BY <3>1 DEF Detected
        <4> QED
          BY <4>1 DEF Edit
      <3>4. \A p : HasFrame(s.frames, p, s.tick) => HasFrame(flushed.frames, p, s.tick)
        BY <1>1, <1>2 DEF Edit, HasFrame
      <3>5. /\ Sound(d.s) /\ d.s.tick = s.tick /\ d.s.frames = flushed.frames
            /\ d.s.result \in {flushed.result, "aborted"} /\ d.out \in Seq(Message)
        BY <3>1, <3>2 DEF Detected, Edit
      <3>6. s.frames \subseteq d.s.frames
        BY <1>1, <1>2, <3>5 DEF Edit
      <3>7. ASSUME Authority = "host", NEW p \in Player
            PROVE  \/ d.s.dropped[p] = s.dropped[p]
                   \/ /\ n = Host /\ p # Host /\ s.dropped[p] = Never
                      /\ d.s.dropped[p] = s.tick /\ ~HasFrame(s.frames, p, s.tick)
        <4>1. \/ d.s.dropped[p] = flushed.dropped[p]
              \/ /\ n = Host /\ p # Host
                 /\ d.s.dropped[p] = flushed.tick
                 /\ ~HasFrame(flushed.frames, p, flushed.tick)
          BY <3>1, <3>7 DEF Detected
        <4> QED
          BY <4>1, <1>1, <1>2, <3>2, <3>3, <3>4
      <3>8. Authority = "host" =>
              d.out = <<>> \/ (n = Host /\ d.out \in Seq(Announcements(s.tick, d.s)))
        BY <3>1, <3>2 DEF Detected
      <3> QED
        BY <1>1, <1>2, <3>5, <3>6, <3>7, <3>8
    <2>2. CASE ~IsActive(control)
      <3>1. d = [s |-> control, out |-> <<>>]
        BY <2>2 DEF control
      <3>2. d.s = control /\ d.out = <<>>
        BY <3>1
      <3>3. control.tick = s.tick
        BY <1>1 DEF Edit
      <3>4. /\ Sound(d.s) /\ d.s.tick = s.tick /\ d.s.frames = s.frames
            /\ d.s.dropped = s.dropped /\ d.s.result \in {s.result, "aborted"}
        BY <1>1, <3>2, <3>3
      <3>5. <<>> \in Seq(Message)
        OBVIOUS
      <3>6. d.out = <<>> /\ d.out \in Seq(Message)
        BY <3>2, <3>5, Zenon
      <3> QED
        BY <3>4, <3>6, Zenon
    <2> QED
      BY <2>1, <2>2
  <1>5. /\ Sound(hashed) /\ Edit(d.s, hashed) /\ hashed.frames = d.s.frames
        /\ hashed.dropped = d.s.dropped
        /\ ChecksumTicks = {} => hashed.result = d.s.result
    BY <1>4, SoundNetChecksum
  <1> HIDE DEF hashed
  <1>6. /\ Sound(t) /\ t.frames = hashed.frames /\ t.dropped = hashed.dropped
        /\ t.result = hashed.result
        /\ \/ t.tick = hashed.tick
           \/ /\ t.tick = hashed.tick + 1
              /\ \A p \in Player : hashed.tick < hashed.dropped[p] =>
                   HasFrame(hashed.frames, p, hashed.tick)
    BY <1>5, SoundExecute
  <1>7. hashed.tick = s.tick
    BY <1>4, <1>5 DEF Edit
  <1> HIDE DEF t
  <1>8. Stepped(n, s, d, t)
    BY <1>4, <1>5, <1>6, <1>7 DEF Stepped
  <1> QED
    BY <1>8 DEF t, hashed

\* A step of its own leaves a node in line.
LEMMA SteppedFits ==
  ASSUME session \in Sessions, NEW nd, NodesFine(nd), NEW n \in Node, NEW d, NEW t,
         Stepped(n, nd[n], d, t), NEW md, md = [nd EXCEPT ![n] = t],
         Authority = "host"
  PROVE  Grows(nd, md) /\ Follows(md, n)
  <1> DEFINE s == nd[n]
  <1>1. /\ s \in NodeState /\ Sound(s) /\ Follows(nd, n) /\ Host \in Node
        /\ nd \in [Node -> {x \in NodeState : Sound(x)}]
    BY DropsAssumption DEF NodesFine
  <1>2. md[n] = t /\ (n # Host => md[Host] = nd[Host])
    BY <1>1
  <1>3. s.tick \in Nat /\ s.frames \subseteq t.frames
    BY <1>1 DEF NodeState, Stepped
  <1>4. ASSUME NEW p \in Player
        PROVE  \/ t.dropped[p] = s.dropped[p]
               \/ /\ n = Host /\ p # Host /\ s.dropped[p] = Never
                  /\ t.dropped[p] = s.tick /\ ~HasFrame(s.frames, p, s.tick)
    BY DEF Stepped
  <1>5. ChecksumTicks = {} /\ t.result = "desync" => s.result = "desync"
    BY DEF Stepped
  <1>6. CASE n = Host
    <2>1. ASSUME NEW p \in Player
          PROVE  \/ Decided(md, p) = Decided(nd, p)
                 \/ /\ Decided(nd, p) = Never /\ p # Host
                    /\ ~HasFrame(nd[Host].frames, p, Decided(md, p))
      BY <1>2, <1>4, <1>6 DEF Decided
    <2>2. Grows(nd, md)
      BY <1>2, <1>3, <1>6, <2>1 DEF Grows
    <2>3. Host \in Player => Decided(nd, Host) = Never /\ Decided(md, Host) = Never
      BY <1>1, <1>6, <2>1 DEF Follows
    <2>4. HostStar /\ ChecksumTicks = {} => t.result # "desync"
      BY <1>1, <1>5, <1>6, <2>3 DEF Follows
    <2>5. \A p \in Player : md[n].dropped[p] \in {Never, Decided(md, p)}
      BY <1>6 DEF Decided
    <2> QED
      BY <1>2, <1>6, <2>2, <2>3, <2>4, <2>5 DEF Follows
  <1>7. CASE n # Host
    <2>1. /\ \A p : Decided(md, p) = Decided(nd, p)
          /\ \A f : (Known(md, f) <=> Known(nd, f)) /\ (Due(md, f) <=> Due(nd, f))
      BY <1>2, <1>7 DEF Decided, Known, Due
    <2>2. Grows(nd, md)
      BY <1>2, <1>7, <2>1 DEF Grows
    <2>3. ASSUME NEW p \in Player PROVE t.dropped[p] \in {Never, Decided(md, p)}
      BY <1>1, <1>4, <1>7, <2>1 DEF Follows
    <2>4. ASSUME HostStar, NEW f \in t.frames, f.player # n PROVE Known(md, f) /\ Due(md, f)
      <3>1. f \in s.frames
        BY <2>4 DEF Stepped
      <3> QED
        BY <1>1, <1>7, <2>1, <2>4, <3>1 DEF Follows
    <2>5. ASSUME HostStar, NEW p \in Player \ {n}, t.dropped[p] = Never, Decided(md, p) # Never
          PROVE  t.tick <= Decided(md, p)
      <3>1. s.dropped[p] = Never /\ Decided(nd, p) # Never /\ Decided(nd, p) \in Nat
        BY <1>1, <1>4, <1>7, <2>1, <2>5 DEF Decided, NodeState
      <3>2. s.tick <= Decided(nd, p)
        BY <1>1, <1>7, <2>5, <3>1 DEF Follows
      <3>3. CASE t.tick = s.tick
        BY <2>1, <3>2, <3>3
      <3>4. CASE /\ t.tick = s.tick + 1
                 /\ \A q \in Player : s.tick < t.dropped[q] => HasFrame(t.frames, q, s.tick)
        <4>1. s.tick < t.dropped[p]
          BY <1>1, <1>3, <2>5, SessionTyped DEF Sound
        <4>2. PICK f \in t.frames : f.player = p /\ f.tick = s.tick
          BY <3>4, <4>1 DEF HasFrame
        <4>3. f.tick # Decided(md, p)
          BY <2>4, <2>5, <4>2 DEF Due
        <4>4. s.tick # Decided(nd, p) /\ t.tick = s.tick + 1 /\ Decided(md, p) = Decided(nd, p)
          BY <2>1, <3>4, <4>2, <4>3
        <4>5. s.tick + 1 <= Decided(nd, p)
          BY <1>3, <3>1, <3>2, <4>4
        <4> QED
          BY <4>4, <4>5
      <3> QED
        BY <3>3, <3>4 DEF Stepped
    <2>6. HostStar /\ ChecksumTicks = {} /\ t.result = "desync" =>
            n \in Player /\ Decided(md, n) # Never
      BY <1>1, <1>5, <2>1 DEF Follows
    <2>7. Follows(md, n)
      BY <1>2, <1>7, <2>3, <2>4, <2>5, <2>6 DEF Follows
    <2> QED
      BY <2>2, <2>7
  <1> QED
    BY <1>6, <1>7
-----------------------------------------------------------------------------
(***************************************************************************)
(* What the steps send.                                                    *)
(***************************************************************************)

LEMMA BroadcastFits ==
  ASSUME session \in Sessions, NEW md, NodesFine(md), NEW n \in Node, NEW d, Sound(d),
         d.frames = md[n].frames, d.dropped = md[n].dropped
  PROVE  Broadcast(n, d) \in Seq(Datagrams(md, n))
  <1> DEFINE m == [kind |-> "frames", frames |-> Window(n, d)]
  <1>1. /\ Window(n, d) \subseteq d.frames
        /\ \A f \in Window(n, d) : f.tick < d.dropped[f.player]
    BY DEF Window, FramesInRange, IsPlayerRequired
  <1>2. d.frames \in SUBSET PlayerFrame
    BY DEF Sound, NodeState
  <1>3. m \in Message /\ m.kind = "frames" /\ m.frames = Window(n, d)
    BY <1>1, <1>2 DEF Message
  <1>4. ASSUME HostStar, NEW f \in m.frames, Authority = "host" PROVE Sends(md, n, f)
    <2>1. /\ f \in md[n].frames /\ f \in PlayerFrame /\ f.tick < md[n].dropped[f.player]
          /\ f.tick \in Nat
      BY <1>1, <1>2, <1>3, <1>4 DEF PlayerFrame
    <2>2. CASE n = Host
      <3>1. Known(md, f)
        BY <2>1, <2>2 DEF Known, HasFrame
      <3>2. Due(md, f)
        BY <2>1, <2>2 DEF Due, Decided
      <3> QED
        BY <3>1, <3>2 DEF Sends
    <2>3. CASE n # Host
      <3>1. Follows(md, n)
        BY <1>4 DEF NodesFine
      <3> QED
        BY <1>4, <2>1, <2>3, <3>1 DEF Follows, Sends
    <2> QED
      BY <2>2, <2>3
  <1>5. Fits(md, n, m)
    BY <1>3, <1>4 DEF Fits
  <1>6. m \in Datagrams(md, n)
    BY <1>3, <1>5 DEF Mail, Datagrams, IsGameplay
  <1>7. Broadcast(n, d) \in {<<m>>, <<>>}
    BY DEF Broadcast
  <1> HIDE DEF m
  <1>8. <<m>> \in Seq(Datagrams(md, n)) /\ <<>> \in Seq(Datagrams(md, n))
    BY <1>6
  <1> QED
    BY <1>7, <1>8, Zenon

LEMMA ChecksumFits ==
  ASSUME NEW md, NEW n \in Node, NEW d, Sound(d)
  PROVE  Checksum(n, d) \in Seq(Datagrams(md, n))
  <1> DEFINE sum == [player |-> n, tick |-> d.tick, hash |-> d.ran]
             m == [kind |-> "sum", sum |-> sum]
  <1>1. d.tick \in Nat /\ d.ran \in Seq(SUBSET Player)
    BY DEF Sound, NodeState
  <1>2. n \in Player => sum \in Sum
    BY <1>1 DEF Sum
  <1>3. n \in Player => m \in Message /\ m.kind = "sum"
    BY <1>2 DEF Message
  <1>4. n \in Player => m \in Datagrams(md, n)
    BY <1>3 DEF Mail, Fits, Datagrams, IsGameplay
  <1>5. Checksum(n, d) = <<>> \/ (n \in Player /\ Checksum(n, d) = <<m>>)
    BY DEF Checksum
  <1> HIDE DEF m
  <1>6. (n \in Player => <<m>> \in Seq(Datagrams(md, n))) /\ <<>> \in Seq(Datagrams(md, n))
    BY <1>4
  <1> QED
    BY <1>5, <1>6, Zenon

LEMMA AnnouncementFits ==
  ASSUME session \in Sessions, NEW nd, NodesFine(nd), NEW n \in Node, NEW d, NEW t,
         Stepped(n, nd[n], d, t), NEW md, md = [nd EXCEPT ![n] = t]
  PROVE  d.out \in Seq(Mail(md, n))
  <1>1. CASE Authority # "host"
    <2>1. Mail(md, n) = Message
      BY <1>1 DEF Mail, Fits
    <2> QED
      BY <2>1 DEF Stepped
  <1>2. CASE Authority = "host"
    <2>1. d.out = <<>> \/ (n = Host /\ d.out \in Seq(Announcements(nd[n].tick, d.s)))
      BY <1>2 DEF Stepped
    <2>2. ASSUME n = Host, NEW m \in Announcements(nd[n].tick, d.s) PROVE m \in Mail(md, n)
      <3>1. /\ m \in Message /\ m.kind = "drop" /\ m.tick = nd[n].tick
            /\ d.s.dropped[m.player] = nd[n].tick
        BY DEF Announcements
      <3>2. md[n] = t /\ t.dropped = d.s.dropped
        BY DEF NodesFine, Stepped
      <3>3. Decided(md, m.player) = m.tick
        BY <2>2, <3>1, <3>2 DEF Decided
      <3>4. Sound(nd[n]) /\ nd[n] \in NodeState
        BY DEF NodesFine
      <3>5. nd[n].tick # Never
        BY <3>4, SessionTyped DEF Sound, NodeState
      <3> QED
        BY <2>2, <3>1, <3>3, <3>5 DEF Mail, Fits
    <2>3. n = Host => Announcements(nd[n].tick, d.s) \subseteq Mail(md, n)
      BY <2>2
    <2>4. <<>> \in Seq(Mail(md, n))
      OBVIOUS
    <2> QED
      BY <2>1, <2>3, <2>4, SeqSubset
  <1> QED
    BY <1>1, <1>2

LEMMA SentFits ==
  ASSUME NEW md, \A l \in ControlLinks : wire[l] \in Seq(Mail(md, l[1])),
         NEW n, NEW msgs \in Seq(Mail(md, n))
  PROVE  /\ DOMAIN Sent(n, msgs) = ControlLinks
         /\ \A l \in ControlLinks : Sent(n, msgs)[l] \in Seq(Mail(md, l[1]))
         /\ Sent(n, msgs) = [l \in ControlLinks |-> Sent(n, msgs)[l]]
  <1>1. ASSUME NEW l \in ControlLinks PROVE Sent(n, msgs)[l] \in Seq(Mail(md, l[1]))
    <2>1. Sent(n, msgs)[l] = IF l[1] = n /\ CanStep(l[2]) THEN Enqueue(wire[l], msgs) ELSE wire[l]
      BY DEF Sent
    <2>2. l[1] = n => Enqueue(wire[l], msgs) \in Seq(Mail(md, l[1]))
      BY MailQueue
    <2> QED
      BY <2>1, <2>2
  <1> QED
    BY <1>1 DEF Sent

LEMMA FineStep ==
  ASSUME Inv, NEW n \in Node, NEW expired, NEW approved, Step(n, expired, approved)
  PROVE  Fine(node', wire', air')
  <1> DEFINE control == Steer(n, node[n])
             d == IF IsActive(control)
                  THEN DetectDrops(n, FlushInput(n, control), expired, approved)
                  ELSE [s |-> control, out |-> <<>>]
             frames == Broadcast(n, d.s)
             sum == Checksum(n, d.s)
             t == Execute(NetChecksum(d.s))
             msgs == d.out \o IF Shared THEN frames \o sum ELSE <<>>
  <1>1. /\ session \in Sessions /\ NodesFine(node) /\ DOMAIN wire = ControlLinks
        /\ \A l \in ControlLinks : wire[l] \in Seq(Mail(node, l[1]))
        /\ DOMAIN air = Node /\ \A a \in Node : air[a] \in Seq(Datagrams(node, a))
    BY DEF Inv, Fine, NodesFine
  <1>2. /\ node' = [node EXCEPT ![n] = t]
        /\ wire' = Sent(n, msgs)
        /\ air' = IF Shared THEN air
                  ELSE [air EXCEPT ![n] = Newest(Newest(air[n], frames), sum)]
    BY DEF Step
  <1>3. Sound(node[n])
    BY <1>1 DEF NodesFine
  <1>4. Stepped(n, node[n], d, t)
    BY <1>1, <1>3, SoundStep
  <1> HIDE DEF d, t
  <1>5. Sound(t) /\ Sound(d.s) /\ t.frames = d.s.frames /\ t.dropped = d.s.dropped
    BY <1>4 DEF Stepped
  <1>6. Authority = "host" => Grows(node, node') /\ Follows(node', n)
    BY <1>1, <1>2, <1>4, SteppedFits
  <1>7. /\ NodesFine(node')
        /\ \A a \in Node : /\ Mail(node, a) \subseteq Mail(node', a)
                            /\ Datagrams(node, a) \subseteq Datagrams(node', a)
    BY <1>1, <1>2, <1>5, <1>6, NodesMove
  <1>8. node'[n] = t
    BY <1>1, <1>2 DEF NodesFine
  <1>9. /\ frames \in Seq(Datagrams(node', n)) /\ sum \in Seq(Datagrams(node', n))
        /\ d.out \in Seq(Mail(node', n))
    <2>1. frames \in Seq(Datagrams(node', n))
      BY <1>1, <1>5, <1>7, <1>8, BroadcastFits
    <2>2. sum \in Seq(Datagrams(node', n))
      BY <1>5, ChecksumFits
    <2>3. d.out \in Seq(Mail(node', n))
      BY <1>1, <1>2, <1>4, AnnouncementFits
    <2> QED
      BY <2>1, <2>2, <2>3
  <1> HIDE DEF frames, sum
  <1>10. msgs \in Seq(Mail(node', n))
    <2>1. Datagrams(node', n) \subseteq Mail(node', n)
      BY DEF Datagrams
    <2>2. frames \in Seq(Mail(node', n)) /\ sum \in Seq(Mail(node', n))
      BY <1>9, <2>1, SeqSubset
    <2> QED
      BY <1>9, <2>2
  <1>11. ASSUME NEW l \in ControlLinks PROVE wire[l] \in Seq(Mail(node', l[1]))
    <2>1. l[1] \in Node
      BY <1>1, SessionTyped
    <2> QED
      BY <1>1, <1>7, <2>1, SeqSubset
  <1>12. ASSUME NEW a \in Node PROVE air[a] \in Seq(Datagrams(node', a))
    BY <1>1, <1>7, SeqSubset
  <1> HIDE DEF msgs
  <1>13. DOMAIN wire' = ControlLinks /\ \A l \in ControlLinks : wire'[l] \in Seq(Mail(node', l[1]))
    BY <1>2, <1>10, <1>11, SentFits
  <1>14. Newest(Newest(air[n], frames), sum) \in Seq(Datagrams(node', n))
    <2>1. Newest(air[n], frames) \in Seq(Datagrams(node', n))
      BY <1>1, <1>9, <1>12, NewestTyped
    <2> QED
      BY <1>1, <1>9, <2>1, NewestTyped
  <1>15. DOMAIN air' = Node /\ \A a \in Node : air'[a] \in Seq(Datagrams(node', a))
    <2> DEFINE q == Newest(Newest(air[n], frames), sum)
    <2> HIDE DEF q
    <2>1. air' \in {air, [air EXCEPT ![n] = q]}
      BY <1>2 DEF q
    <2> QED
      BY <1>1, <1>12, <1>14, <2>1 DEF q
  <1> QED
    BY <1>7, <1>13, <1>15 DEF Fine, NodesFine

LEMMA FineArrive ==
  ASSUME Inv, NEW n \in Node, NEW a \in Node, Arrive(n, a)
  PROVE  Fine(node', wire', air')
  <1> DEFINE l0 == <<a, n>>
             q == wire[l0]
  <1>1. /\ session \in Sessions /\ NodesFine(node) /\ DOMAIN wire = ControlLinks
        /\ \A l \in ControlLinks : wire[l] \in Seq(Mail(node, l[1]))
        /\ DOMAIN air = Node /\ \A k \in Node : air[k] \in Seq(Datagrams(node, k))
    BY DEF Inv, Fine, NodesFine
  <1>2. l0 \in ControlLinks /\ UNCHANGED air
    BY DEF Arrive
  <1>3. PICK i \in DOMAIN q :
          \E after \in {Handle(n, a, q[i])} :
            /\ node' = [node EXCEPT ![n] = after.s]
            /\ wire' = [Sent(n, after.out) EXCEPT ![l0] = RemoveAt(@, i)]
    BY DEF Arrive
  <1> DEFINE msg == q[i]
             r == Handle(n, a, msg)
             sent == Sent(n, r.out)
  <1>4. /\ node' = [node EXCEPT ![n] = r.s]
        /\ wire' = [sent EXCEPT ![l0] = RemoveAt(sent[l0], i)]
    BY <1>3
  <1>5. msg \in Mail(node, a) /\ msg \in Message
    <2>1. l0[1] = a
      OBVIOUS
    <2>2. q \in Seq(Mail(node, a))
      BY <1>1, <1>2, <2>1
    <2>3. msg \in Mail(node, a)
      BY <2>2, Element
    <2>4. Mail(node, a) \subseteq Message
      BY DEF Mail
    <2> QED
      BY <2>3, <2>4
  <1>6. Sound(node[n])
    BY <1>1 DEF NodesFine
  <1>7. Handled(node[n], a, msg, r)
    BY <1>1, <1>5, <1>6, SoundHandle
  <1>8. HostStar => Host \in {a, n}
    BY <1>2 DEF HostStar
  <1> HIDE DEF msg, r
  <1>9. Authority = "host" => Grows(node, node') /\ Follows(node', n)
    BY <1>1, <1>4, <1>5, <1>7, <1>8, HandledFits
  <1>10. Sound(r.s) /\ r.out \in Seq(Message) /\ (Authority = "host" => r.out = <<>>)
    BY <1>7 DEF Handled
  <1>11. /\ NodesFine(node')
         /\ \A k \in Node : /\ Mail(node, k) \subseteq Mail(node', k)
                            /\ Datagrams(node, k) \subseteq Datagrams(node', k)
    <2> DEFINE t == r.s
    <2>1. Sound(t) /\ node' = [node EXCEPT ![n] = t]
      BY <1>4, <1>10
    <2> HIDE DEF t
    <2> QED
      BY <1>1, <1>9, <2>1, NodesMove
  <1>12. r.out \in Seq(Mail(node', n))
    <2>1. CASE Authority = "host"
      BY <1>10, <2>1
    <2>2. CASE Authority # "host"
      <3>1. Mail(node', n) = Message
        BY <2>2 DEF Mail, Fits
      <3> QED
        BY <1>10, <3>1
    <2> QED
      BY <2>1, <2>2
  <1>13. ASSUME NEW l \in ControlLinks PROVE wire[l] \in Seq(Mail(node', l[1]))
    <2>1. l[1] \in Node
      BY <1>1, SessionTyped
    <2> QED
      BY <1>1, <1>11, <2>1, SeqSubset
  <1>14. /\ DOMAIN sent = ControlLinks
         /\ \A l \in ControlLinks : sent[l] \in Seq(Mail(node', l[1]))
         /\ sent = [l \in ControlLinks |-> sent[l]]
    BY <1>12, <1>13, SentFits
  <1>15. RemoveAt(sent[l0], i) \in Seq(Mail(node', a))
    <2>1. l0[1] = a /\ sent[l0] \in Seq(Mail(node', a))
      BY <1>2, <1>14
    <2>2. i \in DOMAIN sent[l0]
      <3>1. q \in Seq(Mail(node, a)) /\ i \in 1 .. Len(q)
        BY <1>1, <1>2
      <3>2. a # n
        BY <1>1, <1>2, SessionTyped
      <3>3. sent[l0] = q
        BY <1>2, <3>2 DEF Sent
      <3> QED
        BY <3>1, <3>3
    <2> QED
      BY <2>1, <2>2, Removed
  <1> HIDE DEF sent, q
  <1> DEFINE rest == RemoveAt(sent[l0], i)
  <1>16. /\ DOMAIN wire' = ControlLinks
         /\ \A l \in ControlLinks : wire'[l] \in Seq(Mail(node', l[1]))
    <2> HIDE DEF rest
    <2>1. wire' = [sent EXCEPT ![l0] = rest] /\ rest \in Seq(Mail(node', a)) /\ l0[1] = a
      BY <1>4, <1>15 DEF rest
    <2> QED
      BY <1>14, <2>1
  <1>17. ASSUME NEW k \in Node PROVE air'[k] \in Seq(Datagrams(node', k))
    BY <1>1, <1>2, <1>11, SeqSubset
  <1> QED
    BY <1>1, <1>2, <1>11, <1>16, <1>17 DEF Fine, NodesFine

LEMMA FineReceive ==
  ASSUME Inv, NEW n \in Node, NEW a \in Node, NEW i \in DOMAIN air[a],
         Receive(n, a, air[a][i])
  PROVE  Fine(node', wire', air')
  <1> DEFINE msg == air[a][i]
             r == [s |-> NetReceive(node[n], msg), out |-> <<>>]
  <1>1. /\ session \in Sessions /\ NodesFine(node) /\ DOMAIN wire = ControlLinks
        /\ \A l \in ControlLinks : wire[l] \in Seq(Mail(node, l[1]))
        /\ DOMAIN air = Node /\ \A k \in Node : air[k] \in Seq(Datagrams(node, k))
    BY DEF Inv, Fine, NodesFine
  <1>2. /\ <<a, n>> \in GameLinks /\ UNCHANGED <<wire, air>>
        /\ node' = [node EXCEPT ![n] = NetReceive(node[n], msg)]
    BY DEF Receive
  <1>3. msg \in Mail(node, a) /\ msg \in Message /\ IsGameplay(msg)
    <2>1. air[a] \in Seq(Datagrams(node, a))
      BY <1>1
    <2>2. msg \in Datagrams(node, a)
      BY <2>1, Element
    <2> QED
      BY <2>2 DEF Mail, Datagrams
  <1>4. Sound(node[n])
    BY <1>1 DEF NodesFine
  <1>5. HostStar => Host \in {a, n}
    BY <1>2 DEF HostStar
  <1>6. r.s = NetReceive(node[n], msg) /\ r.out = <<>>
    OBVIOUS
  <1> HIDE DEF msg, r
  <1>7. Handled(node[n], a, msg, r)
    BY <1>1, <1>3, <1>4, <1>6, SoundNetReceive
  <1>8. node' = [node EXCEPT ![n] = r.s]
    BY <1>2, <1>6
  <1>9. Authority = "host" => Grows(node, node') /\ Follows(node', n)
    BY <1>1, <1>3, <1>5, <1>7, <1>8, HandledFits
  <1>10. Sound(r.s)
    BY <1>7 DEF Handled
  <1>11. /\ NodesFine(node')
         /\ \A k \in Node : /\ Mail(node, k) \subseteq Mail(node', k)
                            /\ Datagrams(node, k) \subseteq Datagrams(node', k)
    <2> DEFINE t == r.s
    <2>1. Sound(t) /\ node' = [node EXCEPT ![n] = t]
      BY <1>8, <1>10
    <2> HIDE DEF t
    <2> QED
      BY <1>1, <1>9, <2>1, NodesMove
  <1>12. ASSUME NEW l \in ControlLinks PROVE wire'[l] \in Seq(Mail(node', l[1]))
    <2>1. l[1] \in Node /\ wire' = wire
      BY <1>1, <1>2, SessionTyped
    <2>2. wire[l] \in Seq(Mail(node', l[1]))
      BY <1>1, <1>11, <2>1, SeqSubset
    <2> QED
      BY <2>1, <2>2
  <1>13. ASSUME NEW k \in Node PROVE air'[k] \in Seq(Datagrams(node', k))
    BY <1>1, <1>2, <1>11, SeqSubset
  <1> QED
    BY <1>1, <1>2, <1>11, <1>12, <1>13 DEF Fine, NodesFine

LEMMA FineStop ==
  ASSUME Inv, NEW n \in Node, Stop(n)
  PROVE  Fine(node', wire', air')
  <1>1. /\ NodesFine(node) /\ DOMAIN wire = ControlLinks
        /\ \A l \in ControlLinks : wire[l] \in Seq(Mail(node, l[1]))
        /\ DOMAIN air = Node /\ \A k \in Node : air[k] \in Seq(Datagrams(node, k))
    BY DEF Inv, Fine, NodesFine
  <1>2. node' = node /\ air' = air
    BY DEF Stop
  <1> DEFINE closed == <<[kind |-> "closed"]>>
  <1>3. PICK keep \in IF node[n].state = "finished" THEN {Node} ELSE SUBSET {l[2] : l \in ControlLinks} :
          wire' = [l \in ControlLinks |->
                     IF l[2] = n THEN <<>>
                     ELSE IF l[1] = n /\ l[2] \in up
                     THEN (IF l[2] \in keep THEN wire[l] ELSE <<>>) \o closed
                     ELSE wire[l]]
    BY DEF Stop
  <1>4. ASSUME NEW k PROVE closed \in Seq(Mail(node, k))
    BY DEF Mail, Message, Fits
  <1> HIDE DEF closed
  <1>5. ASSUME NEW l \in ControlLinks PROVE wire'[l] \in Seq(Mail(node, l[1]))
    <2> DEFINE S == Mail(node, l[1])
    <2>1. wire[l] \in Seq(S) /\ closed \in Seq(S) /\ <<>> \in Seq(S)
      BY <1>1, <1>4
    <2> HIDE DEF S
    <2>2. wire'[l] \in Seq(S)
      BY <1>3, <2>1
    <2> QED
      BY <2>2 DEF S
  <1>6. DOMAIN wire' = ControlLinks
    BY <1>3
  <1> QED
    BY <1>1, <1>2, <1>5, <1>6 DEF Fine, NodesFine

LEMMA FineInit ==
  ASSUME Init
  PROVE  Inv
  <1>1. /\ session \in Sessions /\ up = Node
        /\ node = [n \in Node |-> InitialState]
        /\ wire = [l \in ControlLinks |-> <<>>] /\ air = [n \in Node |-> <<>>]
    BY DEF Init
  <1> DEFINE fs == {Frame(p, t, Idle) : p \in Player, t \in 0 .. (SyncLatency - 1)}
  <1>2. fs \in SUBSET PlayerFrame
    BY <1>1, SessionTyped, IdleAssumption DEF Frame, PlayerFrame
  <1> HIDE DEF fs
  <1> DEFINE d == [p \in Player |-> Never]
  <1>3. d \in [Player -> Nat] /\ \A p \in Player : d[p] = Never
    BY <1>1, SessionTyped
  <1> HIDE DEF d
  <1>4. NoStreak \in [tick : Nat, steps : Nat]
    BY <1>1, SessionTyped DEF NoStreak
  <1>5. InitialState = [tick |-> 0, state |-> "running", result |-> "none", frames |-> fs,
                        dropped |-> d, votes |-> {}, lost |-> {}, streak |-> NoStreak,
                        local |-> {}, heard |-> {}, ran |-> <<>>]
    BY DEF InitialState, fs, d
  <1>6. /\ InitialState \in NodeState /\ InitialState.frames = fs /\ InitialState.dropped = d
        /\ InitialState.tick = 0 /\ InitialState.votes = {} /\ InitialState.ran = <<>>
        /\ InitialState.state = "running" /\ InitialState.result = "none"
        /\ InitialState.local = {}
    <2> DEFINE k == NoStreak
    <2>1. k \in [tick : Nat, steps : Nat]
      BY <1>4
    <2>2. InitialState = [tick |-> 0, state |-> "running", result |-> "none", frames |-> fs,
                          dropped |-> d, votes |-> {}, lost |-> {}, streak |-> k,
                          local |-> {}, heard |-> {}, ran |-> <<>>]
      BY <1>5
    <2> HIDE DEF k
    <2> QED
      BY <1>2, <1>3, <2>1, <2>2 DEF NodeState
  <1>7. Sound(InitialState)
    BY <1>1, <1>6, SessionTyped DEF Sound, RanOn
  <1>8. Host \in Node /\ \A n \in Node : node[n] = InitialState
    BY <1>1, DropsAssumption
  <1>9. ASSUME NEW n \in Node PROVE Follows(node, n)
    <2> DEFINE s == InitialState
    <2>1. node[n] = s /\ node[Host] = s
      BY <1>8
    <2>2. \A f \in fs : f.player \in Player
      BY <1>2 DEF PlayerFrame
    <2>3. /\ s.frames = fs /\ s.dropped = d /\ s.result = "none"
      BY <1>6
    <2> HIDE DEF s
    <2>4. ASSUME NEW p \in Player PROVE Decided(node, p) = Never
      BY <1>3, <2>1, <2>3 DEF Decided
    <2>5. \A f \in node[n].frames : Known(node, f) /\ Due(node, f)
      BY <2>1, <2>2, <2>3, <2>4 DEF Known, Due, HasFrame
    <2> QED
      BY <1>3, <2>1, <2>3, <2>4, <2>5 DEF Follows
  <1>10. node \in [Node -> {s \in NodeState : Sound(s)}]
    BY <1>1, <1>6, <1>7
  <1>11. Fine(node, wire, air)
    BY <1>1, <1>9, <1>10 DEF Fine
  <1> QED
    BY <1>1, <1>11 DEF Inv

LEMMA FineNext ==
  ASSUME Inv, Next
  PROVE  Fine(node', wire', air') /\ up' \subseteq Node /\ UNCHANGED session
  <1>1. UNCHANGED session
    BY DEF Next
  <1>2. CASE \E n \in Node : FixedStep(n)
    <2>1. PICK n \in Node, approved \in BOOLEAN : Step(n, Patient => Settled, approved)
      BY <1>2 DEF FixedStep
    <2>2. Fine(node', wire', air')
      BY <2>1, FineStep
    <2>3. up' = up
      BY <2>1 DEF Step
    <2> QED
      BY <1>1, <2>2, <2>3 DEF Inv
  <1>3. CASE \E n, a \in Node : Arrive(n, a)
    <2>1. PICK n \in Node, a \in Node : Arrive(n, a)
      BY <1>3
    <2>2. Fine(node', wire', air')
      BY <2>1, FineArrive
    <2>3. up' = up
      BY <2>1 DEF Arrive
    <2> QED
      BY <1>1, <2>2, <2>3 DEF Inv
  <1>4. CASE \E n, a \in Node : \E i \in DOMAIN air[a] : Receive(n, a, air[a][i])
    <2>1. PICK n \in Node, a \in Node : \E i \in DOMAIN air[a] : Receive(n, a, air[a][i])
      BY <1>4
    <2>2. PICK i \in DOMAIN air[a] : Receive(n, a, air[a][i])
      BY <2>1
    <2>3. Fine(node', wire', air')
      BY <2>2, FineReceive
    <2>4. up' = up
      BY <2>2 DEF Receive
    <2> QED
      BY <1>1, <2>3, <2>4 DEF Inv
  <1>5. CASE \E n \in Node : Stop(n)
    <2>1. PICK n \in Node : Stop(n)
      BY <1>5
    <2>2. Fine(node', wire', air')
      BY <2>1, FineStop
    <2>3. up' \subseteq up
      BY <2>1 DEF Stop
    <2> QED
      BY <1>1, <2>2, <2>3 DEF Inv
  <1> QED
    BY <1>2, <1>3, <1>4, <1>5 DEF Next
\* The session of a match stays what it is.
LEMMA SameSession ==
  ASSUME UNCHANGED session
  PROVE  /\ Authority' = Authority /\ ControlLinks' = ControlLinks /\ GameLinks' = GameLinks
         /\ MaxTick' = MaxTick /\ Never' = Never /\ ChecksumTicks' = ChecksumTicks
         /\ (HostStar <=> HostStar')
  BY DEF Authority, ControlLinks, GameLinks, MaxTick, Never, SyncLatency, ChecksumTicks, HostStar

LEMMA FinePrimed ==
  ASSUME UNCHANGED session, Fine(node', wire', air')
  PROVE  Fine(node, wire, air)'
  <1> USE SameSession
  <1>1. ASSUME NEW s, Sound(s) PROVE Sound(s)'
    BY <1>1 DEF Sound, RanOn
  <1>2. ASSUME NEW n, Follows(node', n) PROVE Follows(node, n)'
    BY <1>2 DEF Follows, Decided, Known, Due
  <1>3. ASSUME NEW n PROVE Mail(node', n) = Mail(node, n)'
    BY DEF Mail, Fits, Sends, Decided, Known, Due
  <1>4. ASSUME NEW n PROVE Datagrams(node', n) = Datagrams(node, n)'
    BY <1>3 DEF Datagrams
  <1> QED
    BY <1>1, <1>2, <1>3, <1>4 DEF Fine

LEMMA InvHolds == Spec => []Inv
  <1>1. Init => Inv
    BY FineInit
  <1>2. Inv /\ [Next]_vars => Inv'
    <2> SUFFICES ASSUME Inv, [Next]_vars PROVE Inv'
      OBVIOUS
    <2>1. CASE Next
      BY <2>1, FineNext, FinePrimed DEF Inv
    <2>2. CASE UNCHANGED vars
      <3>1. /\ session' = session /\ up' = up
            /\ node' = node /\ wire' = wire /\ air' = air
        BY <2>2 DEF vars
      <3>2. Fine(node', wire', air')
        BY <3>1 DEF Inv
      <3> QED
        BY <3>1, <3>2, FinePrimed DEF Inv
    <2> QED
      BY <2>1, <2>2
  <1> QED
    BY <1>1, <1>2, PTL DEF Spec

-----------------------------------------------------------------------------
(***************************************************************************)
(* The votes a blocked node holds.                                         *)
(***************************************************************************)

\* A blocked node that steps and drops nobody keeps what the others voted at its
\* tick.  Unlike VotesKept this is not about the step that blocks it.
VotesHeldWhileBlocked ==
  [][\A n \in Node : \A v \in node[n].votes :
       (/\ v.voter # n /\ v.tick = node[n].tick /\ node[n].state = "blocked"
        /\ node'[n].dropped = node[n].dropped
        /\ FixedStep(n)) => v \in node'[n].votes]_vars

\* Vote v of another player, at the tick of s, is still there in t, unless t drops
\* somebody.
Holds(n, v, s, t) ==
  v \in s.votes /\ v.voter # n /\ v.tick = s.tick
    => t.dropped # s.dropped \/ v \in t.votes

LEMMA HeldSteered ==
  ASSUME NEW n, NEW s \in NodeState
  PROVE  Steer(n, s).votes = s.votes /\ Steer(n, s).state \in {s.state, "finished"}
  BY DEF Steer, Finish, NodeState

LEMMA HeldFlushed ==
  ASSUME NEW n, NEW s \in NodeState
  PROVE  FlushInput(n, s).votes = s.votes
  BY DEF FlushInput, NodeState

LEMMA HeldHashed ==
  ASSUME session \in Sessions, NEW s \in NodeState
  PROVE  NetChecksum(s).votes = s.votes
  <1> DEFINE h == IF Hashes(s) THEN [s EXCEPT !.local = @ \cup {s.tick}] ELSE s
  <1>1. h \in NodeState /\ h.votes = s.votes
    BY DEF NodeState
  <1>2. NetChecksum(s) = IF s.state # "running" THEN s
                         ELSE IF Mismatch(h) THEN Finish(h, "desync") ELSE PruneCompared(h)
    BY Zenon DEF NetChecksum
  <1> HIDE DEF h
  <1>3. Finish(h, "desync").votes = h.votes
    BY <1>1 DEF Finish, NodeState
  <1>4. PruneCompared(h).votes = h.votes
    <2> DEFINE ticks(c) == {t \in h.local : t > c}
               sums(c) == {m \in h.heard : m.tick > c}
    <2>1. \/ PruneCompared(h) = h
          \/ \E c : PruneCompared(h) = [h EXCEPT !.local = ticks(c), !.heard = sums(c)]
      BY Zenon DEF PruneCompared
    <2> HIDE DEF ticks, sums
    <2> QED
      BY <1>1, <2>1 DEF NodeState
  <1> QED
    BY <1>1, <1>2, <1>3, <1>4

LEMMA HeldExecuted ==
  ASSUME NEW s \in NodeState
  PROVE  Execute(s).votes = s.votes
  BY DEF Execute, NodeState

LEMMA HeldCounted ==
  ASSUME NEW n, NEW v, NEW s \in NodeState
  PROVE  Holds(n, v, s, CountStep(s)) /\ CountStep(s).dropped = s.dropped
  BY DEF Holds, CountStep, NodeState

\* A commit is no stutter: the players it drops were awaited.
LEMMA CommitDrops ==
  ASSUME session \in Sessions, NEW s, Sound(s), NEW missing \in SUBSET Player, missing # {},
         \A p \in missing : AwaitsFrames(s, p)
  PROVE  DropPlayers(s, missing, s.tick).dropped # s.dropped
  <1>1. PICK p \in missing : TRUE
    OBVIOUS
  <1>2. s \in NodeState /\ s.tick # Never /\ s.dropped[p] = Never
    BY SessionTyped DEF Sound, NodeState, AwaitsFrames
  <1>3. DropPlayers(s, missing, s.tick).dropped[p] = s.tick
    BY <1>2 DEF DropPlayers, NodeState
  <1> QED
    BY <1>2, <1>3

LEMMA HeldAtHost ==
  ASSUME session \in Sessions, NEW n, NEW v, NEW s, Sound(s), NEW decided,
         NEW missing \in SUBSET Player, missing # {}, \A p \in missing : AwaitsFrames(s, p)
  PROVE  Holds(n, v, s, HostDecides(s, missing, decided).s)
  <1> DEFINE t == [DropPlayers(s, missing, s.tick) EXCEPT !.streak = NoStreak]
  <1>1. HostDecides(s, missing, decided).s = IF decided THEN t ELSE s
    BY DEF HostDecides
  <1>2. t.dropped = DropPlayers(s, missing, s.tick).dropped
    BY DEF Sound, NodeState, DropPlayers
  <1> HIDE DEF t
  <1> QED
    BY <1>1, <1>2, CommitDrops DEF Holds

\* A node's own vote takes nobody else's place.
LEMMA HeldAmongPeers ==
  ASSUME session \in Sessions, NEW n \in Node, NEW v, NEW s, Sound(s), NEW others, NEW decided,
         NEW missing \in SUBSET Player, missing # {}, \A p \in missing : AwaitsFrames(s, p)
  PROVE  Holds(n, v, s, PeersDecide(n, s, others, missing, decided).s)
  <1> DEFINE mine == [voter |-> n, tick |-> s.tick, missing |-> missing]
             casts == decided /\ n \in Player /\ mine \notin s.votes
             voted == IF casts THEN [s EXCEPT !.votes = Cast(@, mine)] ELSE s
             all == Unanimous(voted, Voters(n, others, missing), missing)
             t == [DropPlayers(voted, missing, s.tick) EXCEPT !.streak = NoStreak, !.votes = {}]
  <1>1. PeersDecide(n, s, others, missing, decided).s = IF all THEN t ELSE voted
    BY Zenon DEF PeersDecide
  <1>2. s \in NodeState
    BY DEF Sound
  <1>3. voted.dropped = s.dropped /\ (v \in s.votes /\ v.voter # n => v \in voted.votes)
    BY <1>2 DEF Cast, NodeState
  <1>4. t.dropped = DropPlayers(s, missing, s.tick).dropped
    BY <1>2 DEF NodeState, DropPlayers
  <1> HIDE DEF t, voted, all
  <1> QED
    BY <1>1, <1>3, <1>4, CommitDrops DEF Holds

LEMMA HeldDetecting ==
  ASSUME session \in Sessions, NEW n \in Node, NEW v, NEW s, Sound(s), s.state = "blocked",
         NEW expired, NEW approved
  PROVE  Holds(n, v, s, DetectDrops(n, s, expired, approved).s)
  <1> DEFINE r == DetectDrops(n, s, expired, approved)
             counted == CountStep(s)
             others == {p \in Player \ {n} : AwaitsFrames(s, p)}
             missing == Missing(s, others)
             grace == counted.streak.steps >= TimeoutSteps /\ expired
             decided == IF Policy = "automatic" THEN grace ELSE approved
             aborted == [Finish(counted, "aborted") EXCEPT !.streak = NoStreak]
             ended(when) == [s |-> IF when THEN aborted ELSE counted, out |-> <<>>]
             host == HostDecides(counted, missing, decided)
             peers == PeersDecide(n, counted, others, missing, decided)
  <1>1. /\ Sound(counted) /\ counted \in NodeState /\ counted.tick = s.tick
        /\ counted.dropped = s.dropped /\ Holds(n, v, s, counted)
    BY SoundCountStep, HeldCounted DEF Edit, Sound
  <1>2. r \in {ended(FALSE), ended(grace), ended(grace /\ Host \in missing)}
          \/ (missing # {} /\ r \in {host, peers})
    <2>1. r = CASE missing = {} -> ended(FALSE)
                [] missing # {} /\ missing = others -> ended(grace)
                [] missing \notin {{}, others} /\ Authority = "host" /\ n = Host -> host
                [] missing \notin {{}, others} /\ Authority = "host" /\ n # Host ->
                     ended(grace /\ Host \in missing)
                [] missing \notin {{}, others} /\ Authority = "peers" -> peers
      BY DEF DetectDrops
    <2> HIDE DEF r, missing, others, ended, grace, host, peers
    <2>2. Authority \in {"host", "peers"}
      BY SessionTyped
    <2> QED
      BY <2>1, <2>2
  <1>3. missing \in SUBSET Player /\ \A p \in missing : AwaitsFrames(counted, p)
    BY <1>1 DEF Missing, AwaitsFrames
  <1> HIDE DEF counted, missing, others, decided
  <1>4. aborted.votes = counted.votes /\ aborted.dropped = counted.dropped
    BY <1>1 DEF Finish, NodeState
  <1>5. missing # {} => Holds(n, v, counted, host.s) /\ Holds(n, v, counted, peers.s)
    BY <1>1, <1>3, HeldAtHost, HeldAmongPeers
  <1>6. \A when : ended(when).s \in {aborted, counted}
    OBVIOUS
  <1> HIDE DEF host, peers, aborted, ended, grace
  <1>7. Holds(n, v, s, r.s)
    <2> HIDE DEF r
    <2> QED
      BY <1>1, <1>2, <1>4, <1>5, <1>6 DEF Holds
  <1> QED
    BY <1>7

\* The whole step of a blocked node.
LEMMA HeldStepping ==
  ASSUME session \in Sessions, NEW n \in Node, NEW v, NEW expired, NEW approved,
         Sound(node[n]), node \in [Node -> {s \in NodeState : Sound(s)}],
         node[n].state = "blocked", Step(n, expired, approved)
  PROVE  Holds(n, v, node[n], node'[n])
  <1> DEFINE s == node[n]
             control == Steer(n, s)
             flushed == FlushInput(n, control)
  <1>1. PICK d \in {IF IsActive(control) THEN DetectDrops(n, flushed, expired, approved)
                    ELSE [s |-> control, out |-> <<>>]} :
          node' = [node EXCEPT ![n] = Execute(NetChecksum(d.s))]
    BY Zenon DEF Step
  <1>2. node'[n] = Execute(NetChecksum(d.s))
    BY <1>1
  <1> HIDE DEF s
  <1>3. /\ Sound(s) /\ s \in NodeState /\ s.state = "blocked"
    BY DEF s, Sound
  <1>4. /\ Sound(control) /\ control \in NodeState /\ control.tick = s.tick
        /\ control.dropped = s.dropped /\ control.votes = s.votes
        /\ control.state \in {"blocked", "finished"}
    BY <1>3, SoundSteer, HeldSteered DEF Edit
  <1> HIDE DEF control
  <1>5. /\ Sound(flushed) /\ flushed.tick = s.tick /\ flushed.dropped = s.dropped
        /\ flushed.votes = s.votes /\ flushed.state = control.state
    BY <1>4, SoundFlushInput, HeldFlushed DEF Edit
  <1> HIDE DEF flushed
  <1>6. Sound(d.s) /\ Holds(n, v, s, d.s)
    <2>1. CASE IsActive(control)
      <3>1. d = DetectDrops(n, flushed, expired, approved) /\ flushed.state = "blocked"
        BY <1>1, <1>4, <1>5, <2>1 DEF IsActive
      <3>2. Sound(d.s) /\ Holds(n, v, flushed, d.s)
        BY <1>5, <3>1, SoundDetectDrops, HeldDetecting DEF Detected
      <3> QED
        BY <1>5, <3>2 DEF Holds
    <2>2. CASE ~IsActive(control)
      <3>1. d.s = control
        BY <1>1, <2>2
      <3> QED
        BY <1>4, <3>1 DEF Holds
    <2> QED
      BY <2>1, <2>2
  <1> DEFINE h == NetChecksum(d.s)
  <1>7. /\ h \in NodeState /\ h.votes = d.s.votes /\ h.dropped = d.s.dropped /\ Sound(h)
    BY <1>6, SoundNetChecksum, HeldHashed DEF Sound
  <1> HIDE DEF h
  <1>8. Execute(h).votes = h.votes /\ Execute(h).dropped = h.dropped
    BY <1>7, HeldExecuted, SoundExecute
  <1>9. node'[n] = Execute(h)
    BY <1>2 DEF h
  <1>10. Holds(n, v, s, node'[n])
    BY <1>6, <1>7, <1>8, <1>9 DEF Holds
  <1> QED
    BY <1>10 DEF s

LEMMA VotesStay ==
  ASSUME Inv, NEW n \in Node, NEW v \in node[n].votes, v.voter # n, v.tick = node[n].tick,
         node[n].state = "blocked", node'[n].dropped = node[n].dropped, FixedStep(n)
  PROVE  v \in node'[n].votes
  <1>1. PICK approved \in BOOLEAN : Step(n, Patient => Settled, approved)
    BY DEF FixedStep
  <1>2. session \in Sessions /\ node \in [Node -> {s \in NodeState : Sound(s)}]
    BY DEF Inv, Fine
  <1>3. Holds(n, v, node[n], node'[n])
    BY <1>1, <1>2, HeldStepping
  <1> QED
    BY <1>3 DEF Holds

-----------------------------------------------------------------------------
(***************************************************************************)
(* What follows from it.                                                   *)
(***************************************************************************)

LEMMA NodesTyped ==
  ASSUME Inv
  PROVE  TypeOK
  BY DEF Inv, Fine, Sound, TypeOK

LEMMA DropsMatch ==
  ASSUME Inv, Authority = "host"
  PROVE  DropsAgree
  BY DEF Inv, Fine, Follows, DropsAgree

\* Two nodes that play on executed a tick with the same players: a player that only
\* one of them knows to be dropped is dropped as of a later tick.
LEMMA SurvivorsMatch ==
  ASSUME Inv, HostStar
  PROVE  SurvivorsAgree
  <1>1. session \in Sessions /\ Authority = "host"
    BY DEF Inv, HostStar
  <1>2. ASSUME NEW n \in Node
        PROVE  /\ Sound(node[n]) /\ Follows(node, n)
               /\ node[n].tick \in Nat /\ node[n].dropped \in [Player -> Nat]
    BY <1>1 DEF Inv, Fine, Sound, NodeState
  <1>3. Host \in Node
    BY DropsAssumption
  <1>4. ASSUME NEW n \in Node, PlaysOn(n), NEW i \in 1 .. node[n].tick, NEW p \in Player
        PROVE  i - 1 < node[n].dropped[p] <=> i - 1 < Decided(node, p)
    <2>1. /\ i \in Nat /\ i <= node[n].tick /\ node[n].tick \in Nat
          /\ node[n].tick <= MaxTick /\ MaxTick < Never /\ MaxTick \in Nat /\ Never \in Nat
          /\ node[n].dropped[p] \in Nat /\ Decided(node, p) \in Nat
      BY <1>1, <1>2, <1>3, SessionTyped DEF Sound, Decided
    <2>2. node[n].dropped[p] \in {Never, Decided(node, p)}
      BY <1>2 DEF Follows
    <2>3. node[n].dropped[p] = Never /\ Decided(node, p) # Never
            => node[n].tick <= Decided(node, p)
      <3>1. CASE n = Host
        BY <3>1 DEF Decided
      <3>2. CASE n # Host /\ p # n
        BY <1>2, <3>2 DEF Follows
      <3>3. CASE n # Host /\ p = n
        BY <1>3, <1>4, <3>3 DEF PlaysOn, Decided
      <3> QED
        BY <3>1, <3>2, <3>3
    <2> QED
      BY <2>1, <2>2, <2>3
  <1>5. ASSUME NEW n \in Node, PlaysOn(n), NEW i \in 1 .. node[n].tick
        PROVE  node[n].ran[i] = {p \in Player : i - 1 < Decided(node, p)}
    BY <1>2, <1>4, <1>5 DEF Sound, RanOn
  <1>6. ASSUME NEW m \in Node, NEW n \in Node, PlaysOn(m), PlaysOn(n),
               NEW i \in 1 .. Len(node[m].ran), i <= Len(node[n].ran)
        PROVE  node[m].ran[i] = node[n].ran[i]
    <2>1. i \in 1 .. node[m].tick /\ i \in 1 .. node[n].tick
      BY <1>2, <1>6 DEF Sound
    <2> QED
      BY <1>5, <1>6, <2>1
  <1> QED
    BY <1>6 DEF SurvivorsAgree

LEMMA NoneDesynced ==
  ASSUME Inv, HostStar, ChecksumTicks = {}
  PROVE  NoSurvivorDesync
  <1>1. Host \in Node
    BY DropsAssumption
  <1> QED
    BY <1>1 DEF Inv, Fine, Follows, HostStar, NoSurvivorDesync, PlaysOn, Decided

\* Every node's state keeps its shape, whatever arrives and whoever is dropped
\* (the handlers of network.rs).
THEOREM Typed == Spec => []TypeOK
  <1>1. Inv => TypeOK
    BY NodesTyped
  <1> QED
    BY <1>1, InvHolds, PTL

\* Where the host decides, whatever the links and the timing: all nodes that know
\* of a player's drop name the same tick for it (detect_drops, net_control).
THEOREM HostDropsAgree == Spec => [](Authority = "host" => DropsInv)
  <1>1. Inv => (Authority = "host" => DropsInv)
    BY NodesTyped, DropsMatch DEF DropsInv
  <1> QED
    BY <1>1, InvHolds, PTL

\* In a star around the host, without any assumption on the grace window: the
\* nodes that play on executed every common tick with the input of the same players
\* ("ticks before B executed its real frames everywhere", detect_drops).
THEOREM StarSurvivorsAgree == Spec => [](HostStar => SurvivorsAgree)
  <1>1. Inv => (HostStar => SurvivorsAgree)
    BY SurvivorsMatch
  <1> QED
    BY <1>1, InvHolds, PTL

\* Nor does a drop that the host announces come too late for a node that plays on
\* (net_control: a DropAt behind the node's tick ends its game).
THEOREM StarDropsInTime ==
  Spec => [](HostStar /\ ChecksumTicks = {} => NoSurvivorDesync)
  <1>1. Inv => (HostStar /\ ChecksumTicks = {} => NoSurvivorDesync)
    BY NoneDesynced
  <1> QED
    BY <1>1, InvHolds, PTL

\* However long the grace window is: a blocked node keeps the votes of the others
\* for its tick until it drops somebody, as nobody sends a vote a second time
\* (detect_drops: "it re-sends only on change").
THEOREM VotesHeld == Spec => VotesHeldWhileBlocked
  <1> DEFINE A == \A n \in Node : \A v \in node[n].votes :
                    (/\ v.voter # n /\ v.tick = node[n].tick /\ node[n].state = "blocked"
                     /\ node'[n].dropped = node[n].dropped
                     /\ FixedStep(n)) => v \in node'[n].votes
  <1>1. Inv => A
    BY VotesStay
  <1> HIDE DEF A
  <1>2. Spec => [][A]_vars
    BY <1>1, InvHolds, PTL
  <1> QED
    BY <1>2 DEF VotesHeldWhileBlocked, A
=============================================================================
