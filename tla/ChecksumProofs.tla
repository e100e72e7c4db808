--------------------------- MODULE ChecksumProofs ---------------------------
(***************************************************************************)
(* Proofs about the two readers of the simulation's checksums.             *)
(*                                                                         *)
(* Replay, for every set of players, latency and interval, wherever writes *)
(* fail and the stream ends: what can be read back are the first ticks of  *)
(* the game, and the playback retraces them, all of them and nothing else. *)
(*                                                                         *)
(* DesyncTracker, for every number of nodes, every interval between        *)
(* samples and every latency: whatever the order in which hashes arrive,   *)
(* nobody plays on with others in a state that is nobody else's; of three  *)
(* nodes, no two play on in different states.                              *)
(***************************************************************************)
EXTENDS DesyncTracker, Replay, FiniteSetTheorems, NaturalFacts, SequenceTheorems, TLAPS

-----------------------------------------------------------------------------
(***************************************************************************)
(* What sessions, streams and playbacks are like.                          *)
(***************************************************************************)

Session ==
  [tick : Nat, result : {"none", "over", "defeat"}, dropped : [Seats -> Nat],
   fallen : [Seats -> Nat], history : Seq(UNION {[P -> Commands] : P \in SUBSET Seats})]

\* A tick ran with the commands of the players it required, and its falls are on record.
Ran(s, t) ==
  /\ DOMAIN s.history[t + 1] = Required(s, t)
  /\ \A p \in Seats : s.fallen[p] = t + 1 <=> p \in Required(s, t) /\ s.history[t + 1][p] = "fall"

Regular(s) ==
  /\ s \in Session /\ Len(s.history) = s.tick /\ s.tick <= EndTick
  /\ \A p \in Seats : s.dropped[p] <= Unset /\ (s.fallen[p] \in 1 .. s.tick \/ s.fallen[p] = Unset)
  /\ \A t \in 0 .. s.tick - 1 : Ran(s, t)

\* Those whom the check of tick t leaves in the game.
LeftAt(s, t) == {p \in Seats : t < s.dropped[p] /\ t + 1 < s.fallen[p]}

\* The game is over as of the first tick that leaves one side.
Judged(s) ==
  /\ s.result = "over" => s.tick > 0
  /\ \A t \in 0 .. s.tick - 1 :
       Cardinality(LeftAt(s, t)) <= 1 <=> t = s.tick - 1 /\ s.result = "over"

\* The first ticks were seeded idle.
SeededIdle(s) ==
  \A t \in 0 .. s.tick - 1 : t < Latency =>
    \A p \in Required(s, t) : s.history[t + 1][p] = "idle"

\* Session u has run the ticks of session s, with the same players in and out.
Extends(s, u) ==
  /\ s.tick <= u.tick
  /\ \A t \in 0 .. s.tick - 1 :
       /\ u.history[t + 1] = s.history[t + 1]
       /\ Required(u, t) = Required(s, t) /\ DroppedAt(u, t) = DroppedAt(s, t)
       /\ LeftAt(u, t) = LeftAt(s, t)

\* The record of tick t, with or without the checksum of the state behind it.
RecordFor(s, t, sum) ==
  [kind |-> "record", tick |-> t,
   inputs |-> {<<p, s.history[t + 1][p]>> : p \in {q \in Required(s, t) :
                                                     s.history[t + 1][q] # "idle"}},
   dropped |-> DroppedAt(s, t), checksum |-> sum]

RecordsAt(s, t) == {RecordFor(s, t, <<>>), RecordFor(s, t, <<SubSeq(s.history, 1, t + 1)>>)}

Chunks(s) == {Torn} \cup UNION {RecordsAt(s, t) : t \in 0 .. s.tick - 1}

\* A stream q behind which tick n is recorded next.
InOrder(q, n) ==
  LET records == {i \in DOMAIN q : q[i].kind = "record"}
  IN /\ {q[i].tick : i \in records} = 0 .. n - 1
     /\ \A i, j \in records : i < j => q[i].tick < q[j].tick

Recorded(s, q, n) ==
  /\ n \in 0 .. s.tick
  /\ q \in Seq(Chunks(s))
  /\ InOrder(q, n)

LiveInv ==
  /\ live = [session |-> live.session, next |-> live.next, at |-> live.at, conduct |-> live.conduct]
  /\ Regular(live.session) /\ Judged(live.session) /\ SeededIdle(live.session)
  /\ Recorded(live.session, file, live.next)

Seeds == {[player |-> p, tick |-> t, command |-> "idle"] : p \in Seats, t \in 0 .. Latency - 1}

\* A frame says what the recorded game ran with.
FramesTrue(frames) ==
  \A f \in frames :
    f.tick < Len(view.log) /\ f.player \in Required(live.session, f.tick)
      => f.command = live.session.history[f.tick + 1][f.player]

Has(frames, p, t) == \E f \in frames : f.player = p /\ f.tick = t

\* The players still in the game have a frame for every recorded tick within the latency.
Fed(s, frames) ==
  \A t \in s.tick .. s.tick + Latency - 1 :
    t < Len(view.log) => \A p \in Seats : ~OutOf(s, p) => Has(frames, p, t)

\* A session of the playback.
Retraced(s) ==
  /\ Regular(s) /\ Judged(s) /\ s.result \in {"none", "over"}
  /\ Extends(s, live.session)
  /\ \A p \in Seats : s.dropped[p] \in {Unset, live.session.dropped[p]}

Playing ==
  /\ live.at = "ended"
  /\ view.log \in Seq(Chunks(live.session)) /\ Len(view.log) <= live.session.tick
  /\ \A i \in 1 .. Len(view.log) : view.log[i] \in RecordsAt(live.session, i - 1)
  /\ Retraced(view.session) /\ view.session.tick <= Len(view.log)
  /\ FramesTrue(view.frames) /\ Fed(view.session, view.frames)
  /\ view.done => view.session.tick = Len(view.log)
  /\ view.blocked => view.done
  /\ ~view.mismatch

ViewFields == [session |-> view.session, at |-> view.at, log |-> view.log, blocked |-> view.blocked,
               paused |-> view.paused, done |-> view.done, mismatch |-> view.mismatch,
               verified |-> view.verified, frames |-> view.frames]

ViewInv ==
  /\ view = ViewFields /\ view.at \in {"closed", "playing", "refused"}
  /\ view.at # "playing" => /\ view.session = Session0 /\ view.log = <<>> /\ view.frames = Seeds
                            /\ ~view.blocked /\ ~view.done /\ ~view.mismatch
  /\ view.at = "playing" => Playing

Inv == LiveInv /\ ViewInv

-----------------------------------------------------------------------------
(***************************************************************************)
(* A session and its records.                                              *)
(***************************************************************************)

LEMMA SamePrefix ==
  ASSUME NEW S, NEW T, NEW a \in Seq(S), NEW b \in Seq(T), NEW n \in Nat, n <= Len(a), n <= Len(b),
         \A i \in 1 .. n : a[i] = b[i]
  PROVE  SubSeq(a, 1, n) = SubSeq(b, 1, n)
  <1>1. /\ SubSeq(a, 1, n) = [i \in 1 .. n |-> a[i]]
        /\ SubSeq(b, 1, n) = [i \in 1 .. n |-> b[i]]
    OBVIOUS
  <1>2. [i \in 1 .. n |-> a[i]] = [i \in 1 .. n |-> b[i]]
    OBVIOUS
  <1> QED
    BY <1>1, <1>2

LEMMA TableSeq ==
  ASSUME NEW S, NEW n \in Nat, NEW f \in [1 .. n -> S]
  PROVE  f \in Seq(S) /\ Len(f) = n
  BY SeqDef, LenProperties

LEMMA JoinSeq ==
  ASSUME NEW S, NEW q \in Seq(S), NEW r \in Seq(S)
  PROVE  /\ q \o r \in Seq(S) /\ DOMAIN (q \o r) = 1 .. Len(q) + Len(r)
         /\ \A i \in 1 .. Len(q) : (q \o r)[i] = q[i]
         /\ \A i \in 1 .. Len(r) : (q \o r)[Len(q) + i] = r[i]
  <1>1. q \o r \in Seq(S) /\ Len(q \o r) = Len(q) + Len(r)
    OBVIOUS
  <1>2. DOMAIN (q \o r) = 1 .. Len(q \o r)
    BY <1>1
  <1>3. \A i \in 1 .. Len(q) + Len(r) :
          (q \o r)[i] = IF i <= Len(q) THEN q[i] ELSE r[i - Len(q)]
    BY ConcatProperties
  <1>4. ASSUME NEW i \in 1 .. Len(q) PROVE (q \o r)[i] = q[i]
    BY <1>3
  <1>5. ASSUME NEW i \in 1 .. Len(r) PROVE (q \o r)[Len(q) + i] = r[i]
    <2>1. Len(q) \in Nat /\ Len(r) \in Nat
      OBVIOUS
    <2>2. Len(q) + i \in 1 .. Len(q) + Len(r) /\ ~(Len(q) + i <= Len(q)) /\ Len(q) + i - Len(q) = i
      BY <2>1
    <2> QED
      BY <1>3, <2>2
  <1> QED
    BY <1>1, <1>2, <1>4, <1>5

LEMMA BoundsTyped ==
  /\ Latency \in Nat /\ EndTick \in Nat /\ Unset \in Nat /\ EndTick < Unset
  /\ CheckEvery \in Nat /\ CheckEvery # 0 /\ "nobody" \notin Seats
  BY ReplayAssumption DEF Unset

\* What a session extends has the same records.
LEMMA SameRecords ==
  ASSUME NEW s, NEW u, Regular(s), Regular(u), Extends(s, u), NEW t \in 0 .. s.tick - 1
  PROVE  /\ t \in 0 .. u.tick - 1
         /\ RecordsAt(s, t) = RecordsAt(u, t)
  <1>1. s.tick \in Nat /\ u.tick \in Nat /\ s.tick <= u.tick
    BY DEF Regular, Session, Extends
  <1>2. /\ u.history[t + 1] = s.history[t + 1]
        /\ Required(u, t) = Required(s, t) /\ DroppedAt(u, t) = DroppedAt(s, t)
    BY DEF Extends
  <1>3. \A i \in 1 .. t + 1 : s.history[i] = u.history[i]
    <2> TAKE i \in 1 .. t + 1
    <2>1. i - 1 \in 0 .. s.tick - 1 /\ (i - 1) + 1 = i
      BY <1>1
    <2> QED
      BY <2>1 DEF Extends
  <1>4. SubSeq(s.history, 1, t + 1) = SubSeq(u.history, 1, t + 1)
    BY <1>1, <1>3, SamePrefix DEF Regular, Session
  <1>5. ASSUME NEW sum PROVE RecordFor(s, t, sum) = RecordFor(u, t, sum)
    BY <1>2 DEF RecordFor
  <1>6. t \in 0 .. u.tick - 1
    BY <1>1
  <1>7. RecordsAt(s, t) = RecordsAt(u, t)
    BY <1>4, <1>5, Zenon DEF RecordsAt
  <1> QED
    BY <1>6, <1>7

LEMMA ChunksStay ==
  ASSUME NEW s, NEW u, Regular(s), Regular(u), Extends(s, u)
  PROVE  Chunks(s) \subseteq Chunks(u)
  BY SameRecords DEF Chunks

LEMMA RecordedStays ==
  ASSUME NEW s, NEW u, Regular(s), Regular(u), Extends(s, u), NEW q, NEW n, Recorded(s, q, n)
  PROVE  Recorded(u, q, n)
  <1>1. s.tick \in Nat /\ u.tick \in Nat /\ s.tick <= u.tick
    BY DEF Regular, Session, Extends
  <1>2. q \in Seq(Chunks(u))
    <2>1. q \in Seq(Chunks(s)) /\ Chunks(s) \subseteq Chunks(u)
      BY ChunksStay DEF Recorded
    <2> HIDE DEF Recorded
    <2> QED
      BY <2>1
  <1> QED
    BY <1>1, <1>2 DEF Recorded

LEMMA RecordOfTick ==
  ASSUME NEW s, Regular(s), NEW t \in 0 .. s.tick - 1
  PROVE  RecordOf(s, t) \in RecordsAt(s, t) /\ RecordOf(s, t).kind = "record"
         /\ RecordOf(s, t).tick = t
  <1>1. s.tick \in Nat /\ Len(s.history) = s.tick /\ s.history \in Seq(UNION {[P -> Commands] : P \in SUBSET Seats})
    BY DEF Regular, Session
  <1>2. t = s.tick - 1 => s.history = SubSeq(s.history, 1, t + 1)
    BY <1>1
  <1> DEFINE sum == IF t = s.tick - 1 /\ t % CheckEvery = 0 THEN <<s.history>> ELSE <<>>
  <1>3. RecordOf(s, t) = RecordFor(s, t, sum)
    BY DEF RecordOf, RecordFor
  <1>4. sum \in {<<>>, <<SubSeq(s.history, 1, t + 1)>>}
    BY <1>2
  <1> HIDE DEF sum
  <1>5. RecordFor(s, t, sum) \in RecordsAt(s, t)
    BY <1>4, Zenon DEF RecordsAt
  <1>6. RecordFor(s, t, sum).kind = "record" /\ RecordFor(s, t, sum).tick = t
    BY DEF RecordFor
  <1> QED
    BY <1>3, <1>5, <1>6

LEMMA RecordFields ==
  ASSUME NEW s, NEW t, NEW c \in RecordsAt(s, t)
  PROVE  /\ c.kind = "record" /\ c.tick = t /\ c.dropped = DroppedAt(s, t)
         /\ c.inputs = {<<p, s.history[t + 1][p]>> :
                          p \in {q \in Required(s, t) : s.history[t + 1][q] # "idle"}}
         /\ c.checksum \in {<<>>, <<SubSeq(s.history, 1, t + 1)>>}
  BY DEF RecordsAt, RecordFor

LEMMA RecordsAppended ==
  ASSUME NEW s, Regular(s), NEW q, NEW n, Recorded(s, q, n), NEW k \in 0 .. s.tick - n,
         NEW added, added = [i \in 1 .. k |-> RecordOf(s, n + i - 1)]
  PROVE  Recorded(s, q \o added, n + k)
  <1>1. s.tick \in Nat /\ n \in Nat /\ k \in Nat /\ n + k \in 0 .. s.tick
    BY DEF Regular, Session, Recorded
  <1>2. ASSUME NEW i \in 1 .. k
        PROVE  /\ added[i] \in Chunks(s) /\ added[i].kind = "record" /\ added[i].tick = n + i - 1
    <2> DEFINE t == n + i - 1
    <2>1. t \in 0 .. s.tick - 1 /\ added[i] = RecordOf(s, t)
      BY <1>1
    <2> HIDE DEF t
    <2>2. added[i] \in RecordsAt(s, t) /\ added[i].kind = "record" /\ added[i].tick = t
      BY <2>1, RecordOfTick
    <2>3. added[i] \in Chunks(s)
      BY <2>1, <2>2 DEF Chunks
    <2> QED
      BY <2>2, <2>3 DEF t
  <1>3. added \in Seq(Chunks(s)) /\ Len(added) = k
    <2> DEFINE S == Chunks(s)
    <2>1. added \in [1 .. k -> S]
      BY <1>2
    <2> HIDE DEF S
    <2>2. added \in Seq(S) /\ Len(added) = k
      BY <1>1, <2>1, TableSeq
    <2> QED
      BY <2>2 DEF S
  <1> DEFINE z == q \o added
             len == Len(q)
             old == {i \in 1 .. len : q[i].kind = "record"}
             new == {i \in 1 .. len + k : z[i].kind = "record"}
  <1>4. q \in Seq(Chunks(s)) /\ len \in Nat /\ DOMAIN q = 1 .. len
    BY DEF Recorded
  <1>5. /\ z \in Seq(Chunks(s)) /\ DOMAIN z = 1 .. len + k
        /\ \A i \in 1 .. len : z[i] = q[i]
        /\ \A i \in 1 .. k : z[len + i] = added[i]
    BY <1>1, <1>3, <1>4, JoinSeq
  <1>6. /\ {q[i].tick : i \in old} = 0 .. n - 1
        /\ \A i, j \in old : i < j => q[i].tick < q[j].tick
    BY <1>4 DEF Recorded, InOrder
  <1> HIDE DEF z, len
  <1>7. ASSUME NEW i \in old
        PROVE  i \in new /\ i \in 1 .. len /\ z[i] = q[i] /\ z[i].tick \in 0 .. n - 1
    BY <1>1, <1>4, <1>5, <1>6
  <1>8. ASSUME NEW i \in 1 .. k
        PROVE  len + i \in new /\ z[len + i].tick = n + i - 1
    <2>1. z[len + i].kind = "record" /\ z[len + i].tick = n + i - 1
      BY <1>2, <1>5
    <2> QED
      BY <1>1, <1>4, <2>1
  <1>9. ASSUME NEW i \in new PROVE i \in old \/ \E m \in 1 .. k : i = len + m
    <2>1. CASE i <= len
      BY <1>4, <1>5, <2>1
    <2>2. CASE ~(i <= len)
      <3>1. i - len \in 1 .. k /\ i = len + (i - len)
        BY <1>1, <1>4, <2>2
      <3> QED
        BY <3>1
    <2> QED
      BY <2>1, <2>2
  <1> HIDE DEF old, new
  <1>10. {z[i].tick : i \in new} = 0 .. (n + k) - 1
    <2>1. ASSUME NEW i \in new PROVE z[i].tick \in 0 .. (n + k) - 1
      <3>1. CASE i \in old
        <4>1. z[i].tick \in 0 .. n - 1
          BY <1>7, <3>1
        <4>2. \A x \in 0 .. n - 1 : x \in 0 .. (n + k) - 1
          BY <1>1
        <4> QED
          BY <4>1, <4>2
      <3>2. CASE i \notin old
        <4>1. PICK m \in 1 .. k : i = len + m
          BY <1>9, <3>2
        <4>2. z[i].tick = n + m - 1
          BY <1>8, <4>1
        <4>3. n + m - 1 \in 0 .. (n + k) - 1
          BY <1>1
        <4> QED
          BY <4>2, <4>3
      <3> QED
        BY <3>1, <3>2
    <2>2. ASSUME NEW t \in 0 .. (n + k) - 1 PROVE \E i \in new : z[i].tick = t
      <3>1. CASE t < n
        <4>3. t \in 0 .. n - 1
          BY <1>1, <3>1
        <4>1. t \in {q[i].tick : i \in old}
          BY <1>6, <4>3
        <4>2. PICK i \in old : q[i].tick = t
          BY <4>1
        <4> QED
          BY <1>7, <4>2
      <3>2. CASE n <= t
        <4> DEFINE m == t - n + 1
        <4>1. m \in 1 .. k /\ n + m - 1 = t
          BY <1>1, <3>2
        <4> HIDE DEF m
        <4> QED
          BY <1>8, <4>1
      <3> QED
        BY <1>1, <3>1, <3>2
    <2> QED
      BY <2>1, <2>2
  <1>11. ASSUME NEW i \in new, NEW j \in new, i < j PROVE z[i].tick < z[j].tick
    <2>1. CASE j \in old
      <3>1. i \in old
        <4>1. ASSUME NEW m \in 1 .. k, i = len + m PROVE FALSE
          BY <1>4, <1>7, <1>11, <2>1, <4>1
        <4> QED
          BY <1>9, <4>1
      <3> QED
        BY <1>6, <1>7, <1>11, <2>1, <3>1
    <2>2. CASE j \notin old
      <3>1. PICK m \in 1 .. k : j = len + m
        BY <1>9, <2>2
      <3>2. z[j].tick = n + m - 1
        BY <1>8, <3>1
      <3>3. CASE i \in old
        <4>1. z[i].tick \in 0 .. n - 1
          BY <1>7, <3>3
        <4>2. \A x \in 0 .. n - 1 : x < n + m - 1
          BY <1>1
        <4> QED
          BY <3>2, <4>1, <4>2
      <3>4. CASE i \notin old
        <4>1. PICK l \in 1 .. k : i = len + l
          BY <1>9, <3>4
        <4>2. z[i].tick = n + l - 1
          BY <1>8, <4>1
        <4> QED
          BY <1>1, <1>4, <1>11, <3>1, <3>2, <4>1, <4>2
      <3> QED
        BY <3>3, <3>4
    <2> QED
      BY <2>1, <2>2
  <1>12. InOrder(z, n + k)
    <2>1. {i \in DOMAIN z : z[i].kind = "record"} = new
      BY <1>5 DEF new
    <2> QED
      BY <1>10, <1>11, <2>1, Zenon DEF InOrder
  <1> QED
    BY <1>1, <1>5, <1>12 DEF Recorded, z

LEMMA TornAppended ==
  ASSUME NEW s, Regular(s), NEW q, NEW n, Recorded(s, q, n)
  PROVE  Recorded(s, q \o <<Torn>>, n)
  <1> DEFINE z == q \o <<Torn>>
             old == {i \in DOMAIN q : q[i].kind = "record"}
             new == {i \in DOMAIN z : z[i].kind = "record"}
  <1>1. q \in Seq(Chunks(s)) /\ Len(q) \in Nat /\ Torn \in Chunks(s) /\ Torn.kind # "record"
    BY DEF Recorded, Chunks, Torn
  <1>2. /\ z \in Seq(Chunks(s)) /\ DOMAIN z = 1 .. Len(q) + 1
        /\ \A i \in 1 .. Len(q) : z[i] = q[i]
        /\ z[Len(q) + 1] = Torn
    BY <1>1
  <1> HIDE DEF z
  <1>3. new = old /\ \A i \in new : z[i] = q[i]
    BY <1>1, <1>2
  <1>4. InOrder(z, n)
    <2>1. {q[i].tick : i \in old} = 0 .. n - 1 /\ \A i, j \in old : i < j => q[i].tick < q[j].tick
      BY DEF Recorded, InOrder
    <2>2. {z[i].tick : i \in new} = {q[i].tick : i \in old}
      BY <1>3
    <2> QED
      BY <1>3, <2>1, <2>2 DEF InOrder
  <1> QED
    BY <1>2, <1>4 DEF Recorded, z

-----------------------------------------------------------------------------
(***************************************************************************)
(* A session executes a tick, and a player is dropped.                     *)
(***************************************************************************)

\* Those whom the commands of a tick leave in the game.
Left(s, c) ==
  {p \in Seats : s.tick < s.dropped[p] /\ s.fallen[p] = Unset
                  /\ ~(p \in Required(s, s.tick) /\ c[p] = "fall")}

\* What a tick makes of a session, field by field.
LEMMA AdvanceFields ==
  ASSUME NEW s, Regular(s), s.tick < EndTick, NEW mine,
         NEW c \in [Required(s, s.tick) -> Commands], NEW a, a = Advance(s, mine, c)
  PROVE  /\ a \in Session /\ a.tick = s.tick + 1 /\ a.dropped = s.dropped
         /\ a.history = Append(s.history, c)
         /\ \A p \in Seats :
              a.fallen[p] = IF p \in Required(s, s.tick) /\ c[p] = "fall" THEN s.tick + 1
                            ELSE s.fallen[p]
         /\ mine \notin Seats => a.result \in {"none", "over"}
         /\ a.result = "over" <=> Cardinality(Left(s, c)) <= 1
  <1> DEFINE h == Append(s.history, c)
             ran == [s EXCEPT !.history = h]
             fell == {p \in DOMAIN c : c[p] = "fall"} \cup {p \in Seats : s.fallen[p] # Unset}
             gone == [p \in Seats |-> IF p \in fell /\ ~OutOf(ran, p) THEN ran.tick + 1 ELSE ran.fallen[p]]
             marked == [ran EXCEPT !.fallen = gone]
             left == {p \in Seats \ fell : ~OutOf(ran, p) /\ ran.fallen[p] = Unset}
             lost == mine \in Seats /\ ran.dropped[mine] > ran.tick /\ mine \notin left
             res == IF Cardinality(left) <= 1 THEN "over"
                    ELSE IF lost /\ live.conduct = "conclude" THEN "defeat" ELSE "none"
             judged == [marked EXCEPT !.result = res]
             next == s.tick + 1
             req == Required(s, s.tick)
             out == Left(s, c)
  <1>1. /\ s \in Session /\ s.tick \in Nat /\ s.dropped \in [Seats -> Nat] /\ s.fallen \in [Seats -> Nat]
        /\ \A p \in Seats : s.fallen[p] \in 1 .. s.tick \/ s.fallen[p] = Unset
        /\ s.history \in Seq(UNION {[P -> Commands] : P \in SUBSET Seats})
        /\ s.tick < Unset /\ Unset \in Nat
    BY BoundsTyped DEF Regular, Session
  <1>2. /\ \A p \in Seats : p \in req <=> s.tick < s.dropped[p] /\ s.tick < s.fallen[p]
        /\ req \in SUBSET Seats
    BY DEF Required
  <1>3. c \in UNION {[P -> Commands] : P \in SUBSET Seats} /\ DOMAIN c = req
    BY <1>2
  <1> HIDE DEF req
  <1>4. h \in Seq(UNION {[P -> Commands] : P \in SUBSET Seats})
    BY <1>1, <1>3
  <1> HIDE DEF h
  <1>5. /\ ran \in Session /\ ran.history = h /\ ran.tick = s.tick
        /\ ran.dropped = s.dropped /\ ran.fallen = s.fallen
    BY <1>1, <1>4 DEF Session
  <1>6. a = [Checked(ran, mine, fell) EXCEPT !.tick = @ + 1]
    BY Zenon DEF Advance, h
  <1> HIDE DEF ran, fell
  <1>7. Checked(ran, mine, fell) = judged
    BY Zenon DEF Checked
  <1>8. gone \in [Seats -> Nat]
    BY <1>1, <1>5
  <1>9. gone = [p \in Seats |-> gone[p]]
    OBVIOUS
  <1>10. ASSUME NEW p \in Seats
         PROVE  gone[p] = IF p \in req /\ c[p] = "fall" THEN s.tick + 1 ELSE s.fallen[p]
    <2>1. OutOf(ran, p) <=> p \notin req
      BY <1>1, <1>2, <1>5 DEF OutOf
    <2>2. p \in fell <=> (p \in req /\ c[p] = "fall") \/ s.fallen[p] # Unset
      BY <1>3 DEF fell
    <2>3. p \in req => s.fallen[p] = Unset
      BY <1>1, <1>2
    <2> QED
      BY <1>5, <2>1, <2>2, <2>3
  <1>11. left = out
    <2>1. ASSUME NEW p \in Seats PROVE p \in left <=> p \in out
      <3>1. OutOf(ran, p) <=> s.dropped[p] <= s.tick \/ s.fallen[p] <= s.tick
        BY <1>5 DEF OutOf
      <3>2. p \in fell <=> (p \in req /\ c[p] = "fall") \/ s.fallen[p] # Unset
        BY <1>3 DEF fell
      <3> QED
        BY <1>1, <1>5, <3>1, <3>2 DEF Left, req
    <2> QED
      BY <2>1 DEF Left
  <1>12. res \in {"none", "over", "defeat"} /\ (mine \notin Seats => res \in {"none", "over"})
         /\ (res = "over" <=> Cardinality(left) <= 1)
    OBVIOUS
  <1> HIDE DEF gone, left, out, res
  <1>13. /\ marked \in Session /\ marked.history = h /\ marked.tick = s.tick
         /\ marked.dropped = s.dropped /\ marked.fallen = gone
    BY <1>5, <1>8 DEF Session
  <1> HIDE DEF marked
  <1>14. /\ judged \in Session /\ judged.history = h /\ judged.tick = s.tick
         /\ judged.dropped = s.dropped /\ judged.fallen = gone /\ judged.result = res
    BY <1>12, <1>13 DEF Session
  <1> HIDE DEF judged
  <1>15. a = [judged EXCEPT !.tick = next]
    BY <1>6, <1>7, <1>14
  <1>16. next \in Nat
    BY <1>1
  <1> HIDE DEF next
  <1>17. /\ a \in Session /\ a.history = h /\ a.tick = next
         /\ a.dropped = s.dropped /\ a.fallen = gone /\ a.result = res
    BY <1>14, <1>15, <1>16 DEF Session
  <1>18. a.result = "over" <=> Cardinality(out) <= 1
    BY <1>11, <1>12, <1>17
  <1> QED
    BY <1>10, <1>12, <1>17, <1>18 DEF next, h, out, req

LEMMA Advanced ==
  ASSUME NEW s, Regular(s), Judged(s), s.result = "none", s.tick < EndTick, NEW mine,
         NEW c \in [Required(s, s.tick) -> Commands], NEW a, a = Advance(s, mine, c)
  PROVE  /\ Regular(a) /\ Judged(a) /\ Extends(s, a)
         /\ a.tick = s.tick + 1 /\ a.dropped = s.dropped /\ a.history[a.tick] = c
         /\ Required(a, s.tick) = Required(s, s.tick)
         /\ mine \notin Seats => a.result \in {"none", "over"}
  <1> DEFINE n == s.tick
             out == Left(s, c)
  <1>1. /\ a \in Session /\ a.tick = n + 1 /\ a.dropped = s.dropped /\ a.history = Append(s.history, c)
        /\ mine \notin Seats => a.result \in {"none", "over"}
        /\ a.result = "over" <=> Cardinality(out) <= 1
    BY AdvanceFields
  <1>2. \A p \in Seats :
          a.fallen[p] = IF p \in Required(s, n) /\ c[p] = "fall" THEN n + 1 ELSE s.fallen[p]
    BY AdvanceFields
  <1>3. /\ n \in Nat /\ s.dropped \in [Seats -> Nat] /\ s.fallen \in [Seats -> Nat]
        /\ \A p \in Seats : s.dropped[p] <= Unset /\ (s.fallen[p] \in 1 .. n \/ s.fallen[p] = Unset)
        /\ Len(s.history) = n /\ n < EndTick /\ EndTick < Unset /\ Unset \in Nat /\ EndTick \in Nat
        /\ s.history \in Seq(UNION {[P -> Commands] : P \in SUBSET Seats})
    BY BoundsTyped DEF Regular, Session
  <1>4. /\ \A i \in 1 .. n : a.history[i] = s.history[i]
        /\ a.history[n + 1] = c /\ Len(a.history) = n + 1
    BY <1>1, <1>3
  <1>5. ASSUME NEW t \in 0 .. n
        PROVE  Required(a, t) = Required(s, t) /\ DroppedAt(a, t) = DroppedAt(s, t)
    <2>1. \A p \in Seats : t < a.fallen[p] <=> t < s.fallen[p]
      BY <1>2, <1>3 DEF Required
    <2> QED
      BY <1>1, <2>1 DEF Required, DroppedAt
  <1>6. ASSUME NEW t \in 0 .. n - 1
        PROVE  LeftAt(a, t) = LeftAt(s, t)
    <2>1. \A p \in Seats : t + 1 < a.fallen[p] <=> t + 1 < s.fallen[p]
      BY <1>2, <1>3 DEF Required
    <2> QED
      BY <1>1, <2>1 DEF LeftAt
  <1>7. LeftAt(a, n) = out
    <2>1. ASSUME NEW p \in Seats PROVE n + 1 < a.fallen[p] <=> a.fallen[p] = Unset
      <3>1. a.fallen[p] = n + 1 \/ a.fallen[p] \in 1 .. n \/ a.fallen[p] = Unset
        BY <1>2, <1>3
      <3>2. \A x \in Nat : (x = n + 1 \/ x \in 1 .. n \/ x = Unset) => (n + 1 < x <=> x = Unset)
        BY <1>3
      <3>3. a.fallen[p] \in Nat
        BY <1>1 DEF Session
      <3> QED
        BY <3>1, <3>2, <3>3
    <2>2. ASSUME NEW p \in Seats
          PROVE a.fallen[p] = Unset <=> s.fallen[p] = Unset /\ ~(p \in Required(s, n) /\ c[p] = "fall")
      BY <1>2, <1>3
    <2> QED
      BY <1>1, <2>1, <2>2 DEF LeftAt, Left
  <1>8. Extends(s, a)
    <2>1. ASSUME NEW t \in 0 .. n - 1
          PROVE  /\ a.history[t + 1] = s.history[t + 1]
                 /\ Required(a, t) = Required(s, t) /\ DroppedAt(a, t) = DroppedAt(s, t)
                 /\ LeftAt(a, t) = LeftAt(s, t)
      <3>1. t + 1 \in 1 .. n /\ t \in 0 .. n
        BY <1>3
      <3> QED
        BY <1>4, <1>5, <1>6, <3>1
    <2> QED
      BY <1>1, <1>3, <2>1 DEF Extends
  <1>9. ASSUME NEW t \in 0 .. n PROVE Ran(a, t)
    <2>1. CASE t = n
      <3>1. DOMAIN a.history[t + 1] = Required(a, t)
        BY <1>4, <1>5, <2>1
      <3>2. ASSUME NEW p \in Seats
            PROVE  a.fallen[p] = t + 1 <=> p \in Required(a, t) /\ a.history[t + 1][p] = "fall"
        BY <1>2, <1>3, <1>4, <1>5, <2>1
      <3> QED
        BY <3>1, <3>2 DEF Ran
    <2>2. CASE t # n
      <3>1. t \in 0 .. n - 1 /\ t + 1 \in 1 .. n
        BY <1>3, <2>2
      <3>2. Ran(s, t)
        BY <3>1 DEF Regular
      <3>3. a.history[t + 1] = s.history[t + 1] /\ Required(a, t) = Required(s, t)
        BY <1>4, <1>5, <3>1
      <3>4. ASSUME NEW p \in Seats PROVE a.fallen[p] = t + 1 <=> s.fallen[p] = t + 1
        BY <1>2, <1>3, <3>1 DEF Required
      <3> QED
        BY <3>2, <3>3, <3>4 DEF Ran
    <2> QED
      BY <2>1, <2>2
  <1>10. Regular(a)
    <2>1. ASSUME NEW p \in Seats
          PROVE  a.dropped[p] <= Unset /\ (a.fallen[p] \in 1 .. a.tick \/ a.fallen[p] = Unset)
      <3>1. n + 1 \in 1 .. n + 1 /\ \A x \in 1 .. n : x \in 1 .. n + 1
        BY <1>3
      <3>2. a.fallen[p] \in 1 .. n + 1 \/ a.fallen[p] = Unset
        BY <1>2, <1>3, <3>1
      <3> QED
        BY <1>1, <1>3, <3>2
    <2>2. a.tick <= EndTick /\ Len(a.history) = a.tick /\ a.tick - 1 = n
      <3>1. n + 1 <= EndTick /\ (n + 1) - 1 = n
        BY <1>3
      <3> QED
        BY <1>1, <1>4, <3>1
    <2> QED
      BY <1>1, <1>9, <2>1, <2>2 DEF Regular
  <1>11. Judged(a)
    <2>1. ASSUME NEW t \in 0 .. n
          PROVE  Cardinality(LeftAt(a, t)) <= 1 <=> t = n /\ a.result = "over"
      <3>1. CASE t = n
        BY <1>1, <1>7, <3>1
      <3>2. CASE t # n
        <4>1. t \in 0 .. n - 1
          BY <1>3, <3>2
        <4>2. ~(Cardinality(LeftAt(s, t)) <= 1)
          BY <4>1 DEF Judged
        <4> QED
          BY <1>6, <3>2, <4>1, <4>2
      <3> QED
        BY <3>1, <3>2
    <2>2. a.tick > 0 /\ a.tick - 1 = n
      BY <1>1, <1>3
    <2> QED
      BY <2>1, <2>2 DEF Judged
  <1>12. Required(a, n) = Required(s, n) /\ a.history[a.tick] = c
    BY <1>1, <1>3, <1>4, <1>5
  <1> QED
    BY <1>1, <1>8, <1>10, <1>11, <1>12

\* A session in which a player is out from a later tick on.
LEMMA DroppedLater ==
  ASSUME NEW s, Regular(s), Judged(s), NEW d \in [Seats -> Nat],
         \A p \in Seats : d[p] <= Unset,
         \A p \in Seats : d[p] = s.dropped[p] \/ (s.tick <= d[p] /\ s.tick <= s.dropped[p]),
         NEW u, u = [s EXCEPT !.dropped = d]
  PROVE  /\ Regular(u) /\ Judged(u) /\ Extends(s, u) /\ Extends(u, s)
         /\ u.tick = s.tick /\ u.result = s.result /\ u.history = s.history
         /\ u.fallen = s.fallen /\ u.dropped = d
         /\ SeededIdle(s) => SeededIdle(u)
  <1>1. /\ u \in Session /\ u.tick = s.tick /\ u.result = s.result /\ u.history = s.history
        /\ u.fallen = s.fallen /\ u.dropped = d /\ s.tick \in Nat
        /\ s.dropped \in [Seats -> Nat]
    BY DEF Regular, Session
  <1>2. ASSUME NEW t \in 0 .. s.tick - 1
        PROVE  Required(u, t) = Required(s, t) /\ DroppedAt(u, t) = DroppedAt(s, t)
               /\ LeftAt(u, t) = LeftAt(s, t)
    <2>1. ASSUME NEW p \in Seats PROVE (t < d[p] <=> t < s.dropped[p]) /\ (d[p] = t <=> s.dropped[p] = t)
      BY <1>1
    <2> QED
      BY <1>1, <2>1 DEF Required, DroppedAt, LeftAt
  <1>3. ASSUME NEW t \in 0 .. s.tick - 1 PROVE Ran(u, t)
    <2>1. Ran(s, t)
      BY DEF Regular
    <2> QED
      BY <1>1, <1>2, <2>1 DEF Ran
  <1>4. Regular(u)
    BY <1>1, <1>3 DEF Regular
  <1>5. Extends(s, u) /\ Extends(u, s)
    BY <1>1, <1>2 DEF Extends
  <1>6. Judged(u)
    BY <1>1, <1>2 DEF Judged
  <1>7. SeededIdle(s) => SeededIdle(u)
    BY <1>1, <1>2 DEF SeededIdle
  <1> QED
    BY <1>1, <1>4, <1>5, <1>6, <1>7

-----------------------------------------------------------------------------
(***************************************************************************)
(* The recorded game.                                                      *)
(***************************************************************************)

\* A session that goes on from the one that was recorded so far.
LEMMA RecordKeeps ==
  ASSUME LiveInv, NEW s, Regular(s), Judged(s), SeededIdle(s), Extends(live.session, s), Record(s)
  PROVE  LiveInv' /\ live'.at = live.at
  <1>1. /\ live = [session |-> live.session, next |-> live.next, at |-> live.at, conduct |-> live.conduct]
        /\ Regular(live.session) /\ Recorded(live.session, file, live.next)
    BY DEF LiveInv
  <1>2. Recorded(s, file, live.next)
    BY <1>1, RecordedStays
  <1>3. s.tick \in Nat /\ live.next \in 0 .. s.tick
    BY <1>2 DEF Regular, Session, Recorded
  <1> DEFINE added(k) == [i \in 1 .. k |-> RecordOf(s, live.next + i - 1)]
  <1>4. PICK k \in 0 .. s.tick - live.next :
          /\ live' = [live EXCEPT !.session = s, !.next = @ + k]
          /\ \/ file' = file \o added(k)
             \/ \E left \in Failing :
                  file' = file \o added(k) \o IF left = "torn" THEN <<Torn>> ELSE <<>>
    BY Zenon DEF Record
  <1>5. Recorded(s, file \o added(k), live.next + k)
    BY <1>2, RecordsAppended
  <1> DEFINE q == file \o added(k)
             n == live.next + k
  <1>6. file' = q \/ file' = q \o <<Torn>> \/ file' = q \o <<>>
    BY <1>4
  <1>7. Recorded(s, q, n)
    BY <1>5
  <1> HIDE DEF q
  <1>8. Recorded(s, file', n)
    <2>1. q \o <<>> = q
      <3>1. q \in Seq(Chunks(s))
        BY <1>7 DEF Recorded
      <3> HIDE DEF Chunks
      <3> QED
        BY <3>1
    <2> QED
      BY <1>6, <1>7, <2>1, TornAppended
  <1>9. live' = [session |-> s, next |-> n, at |-> live.at, conduct |-> live.conduct]
    BY <1>1, <1>4
  <1> HIDE DEF n
  <1>10. live'.session = s /\ live'.next = n /\ live'.at = live.at /\ live'.conduct = live.conduct
    BY <1>9
  <1> QED
    BY <1>8, <1>9, <1>10 DEF LiveInv

LEMMA InputsTyped ==
  ASSUME NEW s, Regular(s), NEW c \in Inputs(s)
  PROVE  /\ c \in [Required(s, s.tick) -> Commands]
         /\ s.tick < Latency => \A p \in Required(s, s.tick) : c[p] = "idle"
  <1> DEFINE idle == [p \in Required(s, s.tick) |-> "idle"]
  <1>1. idle \in [Required(s, s.tick) -> Commands] /\ \A p \in Required(s, s.tick) : idle[p] = "idle"
    BY DEF Commands
  <1>2. c \in {idle} \cup IF s.tick < Latency THEN {}
                          ELSE {[idle EXCEPT ![p] = x] : p \in DOMAIN idle, x \in Commands}
    BY DEF Inputs
  <1> HIDE DEF idle
  <1> QED
    BY <1>1, <1>2

LEMMA LiveTicks ==
  ASSUME LiveInv, LiveTick
  PROVE  LiveInv' /\ live'.at = live.at
  <1> DEFINE s == live.session
  <1>1. Regular(s) /\ Judged(s) /\ SeededIdle(s)
    BY DEF LiveInv
  <1>2. s.result = "none" /\ s.tick < EndTick
    BY DEF LiveTick
  <1>3. PICK c \in Inputs(s) : \E after \in {Advance(s, Local, c)} : Record(after)
    BY DEF LiveTick
  <1>7. PICK a : a = Advance(s, Local, c) /\ Record(a)
    BY <1>3
  <1> HIDE DEF s
  <1>4. /\ c \in [Required(s, s.tick) -> Commands]
        /\ s.tick < Latency => \A p \in Required(s, s.tick) : c[p] = "idle"
    BY <1>1, InputsTyped
  <1>5. /\ Regular(a) /\ Judged(a) /\ Extends(s, a)
        /\ a.tick = s.tick + 1 /\ a.history[a.tick] = c
        /\ Required(a, s.tick) = Required(s, s.tick)
    BY <1>1, <1>2, <1>7, <1>4, Advanced
  <1>6. SeededIdle(a)
    <2>1. s.tick \in Nat
      BY <1>1 DEF Regular, Session
    <2>2. ASSUME NEW t \in 0 .. a.tick - 1, t < Latency, NEW p \in Required(a, t)
          PROVE  a.history[t + 1][p] = "idle"
      <3>1. CASE t = s.tick
        BY <1>4, <1>5, <2>2, <3>1
      <3>2. CASE t # s.tick
        <4>1. t \in 0 .. s.tick - 1
          BY <1>5, <2>1, <3>2
        <4>2. a.history[t + 1] = s.history[t + 1] /\ Required(a, t) = Required(s, t)
          BY <1>5, <4>1 DEF Extends
        <4> QED
          BY <1>1, <2>2, <4>1, <4>2 DEF SeededIdle
      <3> QED
        BY <3>1, <3>2
    <2> QED
      BY <2>2 DEF SeededIdle
  <1> QED
    BY <1>7, <1>5, <1>6, RecordKeeps DEF s

LEMMA ExtendsItself ==
  ASSUME NEW s, Regular(s)
  PROVE  Extends(s, s)
  BY DEF Extends, Regular, Session

LEMMA LiveIdles ==
  ASSUME LiveInv, LiveIdle
  PROVE  LiveInv' /\ live'.at = live.at
  <1> DEFINE s == live.session
  <1>1. Regular(s) /\ Judged(s) /\ SeededIdle(s) /\ Record(s)
    BY DEF LiveInv, LiveIdle
  <1>2. Extends(s, s)
    BY <1>1, ExtendsItself
  <1> QED
    BY <1>1, <1>2, RecordKeeps

LEMMA LiveDrops ==
  ASSUME LiveInv, NEW p \in Seats, DecideDrop(p)
  PROVE  LiveInv' /\ live'.at = live.at
  <1> DEFINE s == live.session
  <1>1. /\ live = [session |-> s, next |-> live.next, at |-> live.at, conduct |-> live.conduct]
        /\ Regular(s) /\ Judged(s) /\ SeededIdle(s) /\ Recorded(s, file, live.next)
    BY DEF LiveInv
  <1>2. PICK from \in s.tick .. EndTick : live' = [live EXCEPT !.session.dropped[p] = from]
    BY DEF DecideDrop
  <1>3. s.dropped[p] = Unset /\ file' = file
    BY DEF DecideDrop
  <1> DEFINE d == [s.dropped EXCEPT ![p] = from]
             u == [s EXCEPT !.dropped = d]
  <1>4. live' = [session |-> u, next |-> live.next, at |-> live.at, conduct |-> live.conduct]
    BY <1>1, <1>2
  <1> HIDE DEF s
  <1>5. /\ d \in [Seats -> Nat] /\ \A x \in Seats : d[x] <= Unset
        /\ \A x \in Seats : d[x] = s.dropped[x] \/ (s.tick <= d[x] /\ s.tick <= s.dropped[x])
    BY <1>1, <1>3, BoundsTyped DEF Regular, Session
  <1> HIDE DEF d
  <1>6. Regular(u) /\ Judged(u) /\ SeededIdle(u) /\ Extends(s, u)
    BY <1>1, <1>5, DroppedLater
  <1>7. Recorded(u, file, live.next)
    BY <1>1, <1>6, RecordedStays
  <1> HIDE DEF u
  <1>8. /\ live'.session = u /\ live'.next = live.next /\ live'.at = live.at
        /\ live'.conduct = live.conduct
    BY <1>4
  <1> QED
    BY <1>3, <1>4, <1>6, <1>7, <1>8 DEF LiveInv

LEMMA LiveCut ==
  ASSUME LiveInv, Cut
  PROVE  LiveInv'
  <1> DEFINE s == live.session
  <1>1. /\ live = [session |-> s, next |-> live.next, at |-> live.at, conduct |-> live.conduct]
        /\ Regular(s) /\ Judged(s) /\ SeededIdle(s) /\ Recorded(s, file, live.next)
    BY DEF LiveInv
  <1>2. /\ live' = [session |-> s, next |-> live.next, at |-> "ended", conduct |-> live.conduct]
        /\ file' \in {file, Append(file, Torn)}
    BY <1>1 DEF Cut
  <1> HIDE DEF s
  <1>3. Append(file, Torn) = file \o <<Torn>>
    <2>1. file \in Seq(Chunks(s)) /\ Torn \in Chunks(s)
      BY <1>1 DEF Recorded, Chunks
    <2> HIDE DEF Chunks
    <2> QED
      BY <2>1
  <1>4. Recorded(s, file', live.next)
    BY <1>1, <1>2, <1>3, TornAppended
  <1>5. /\ live'.session = s /\ live'.next = live.next /\ live'.at = "ended"
        /\ live'.conduct = live.conduct
    BY <1>2
  <1> QED
    BY <1>1, <1>2, <1>4, <1>5 DEF LiveInv

-----------------------------------------------------------------------------
(***************************************************************************)
(* The playback.                                                           *)
(***************************************************************************)

\* What is read of a stream are the first ticks of the game, in turn.
LEMMA LogInOrder ==
  ASSUME NEW s, Regular(s), NEW n, Recorded(s, file, n), Readable
  PROVE  /\ Log \in Seq(Chunks(s)) /\ Len(Log) <= s.tick
         /\ \A i \in 1 .. Len(Log) : Log[i] \in RecordsAt(s, i - 1)
  <1> DEFINE m == IF Torns = {} THEN Len(file) ELSE Len(file) - 1
  <1>1. /\ file \in Seq(Chunks(s)) /\ Len(file) \in Nat /\ DOMAIN file = 1 .. Len(file)
        /\ n \in 0 .. s.tick /\ s.tick \in Nat
        /\ {file[i].tick : i \in Records} = 0 .. n - 1
        /\ \A i, j \in Records : i < j => file[i].tick < file[j].tick
    BY DEF Recorded, InOrder, Records, Regular, Session
  <1>2. m \in 0 .. Len(file) /\ Records = 1 .. m
    BY <1>1 DEF Readable, Torns, Records
  <1>3. Log = SubSeq(file, 1, m)
    BY DEF Log
  <1> HIDE DEF m
  <1>4. Log \in Seq(Chunks(s)) /\ Len(Log) = m /\ \A i \in 1 .. m : Log[i] = file[i]
    <2> DEFINE S == Chunks(s)
    <2>1. file \in Seq(S)
      BY <1>1
    <2> HIDE DEF S
    <2>2. Log \in Seq(S) /\ Len(Log) = m /\ \A i \in 1 .. m : Log[i] = file[i]
      BY <1>1, <1>2, <1>3, <2>1
    <2> QED
      BY <2>2 DEF S
  <1>5. ASSUME NEW i \in 1 .. m
        PROVE  file[i].tick \in 0 .. n - 1 /\ file[i] \in RecordsAt(s, file[i].tick)
    <2>1. i \in Records
      BY <1>2
    <2>2. file[i] \in Chunks(s) /\ file[i].kind = "record"
      BY <1>1, <2>1 DEF Records
    <2>3. PICK t \in 0 .. s.tick - 1 : file[i] \in RecordsAt(s, t)
      BY <2>2 DEF Chunks, Torn
    <2>4. file[i].tick = t
      BY <2>3, RecordFields
    <2> QED
      BY <1>1, <2>1, <2>3, <2>4
  <1> DEFINE at(i) == file[i].tick
  <1>6. /\ \A i \in 1 .. m : at(i) \in 0 .. n - 1
        /\ \A t \in 0 .. n - 1 : \E i \in 1 .. m : at(i) = t
        /\ \A i, j \in 1 .. m : i < j => at(i) < at(j)
    BY <1>1, <1>2, <1>5
  <1> HIDE DEF at
  <1>7. m \in Nat /\ n \in Nat
    BY <1>1, <1>2
  <1>8. \A i \in 1 .. m : at(i) = i - 1
    <2> DEFINE wrong == {i \in 1 .. m : at(i) # i - 1}
    <2>1. ASSUME wrong # {} PROVE FALSE
      <3>1. wrong \in SUBSET Nat
        BY <1>7
      <3>2. PICK x \in wrong : \A y \in wrong : x <= y
        BY <2>1, <3>1, LeastNatural
      <3>3. x \in 1 .. m /\ at(x) # x - 1 /\ at(x) \in 0 .. n - 1
        BY <1>6
      <3>4. \A j \in 1 .. m : j < x => at(j) = j - 1
        BY <1>7, <3>2, <3>3
      <3>5. x - 1 < at(x)
        <4>1. CASE x = 1
          BY <1>7, <3>3, <4>1
        <4>2. CASE x # 1
          <5>1. x - 1 \in 1 .. m /\ x - 1 < x
            BY <1>7, <3>3, <4>2
          <5>2. at(x - 1) = (x - 1) - 1 /\ at(x - 1) < at(x)
            BY <1>6, <3>3, <3>4, <5>1
          <5> QED
            BY <1>7, <3>3, <5>2
        <4> QED
          BY <4>1, <4>2
      <3>6. x - 1 \in 0 .. n - 1
        BY <1>7, <3>3, <3>5
      <3>7. PICK j \in 1 .. m : at(j) = x - 1
        BY <1>6, <3>6
      <3>8. CASE j < x
        BY <1>7, <3>3, <3>4, <3>7, <3>8
      <3>9. CASE j = x
        BY <3>3, <3>7, <3>9
      <3>10. CASE x < j
        <4>1. at(x) < at(j)
          BY <1>6, <3>3, <3>10
        <4> QED
          BY <1>7, <3>3, <3>5, <3>7, <4>1
      <3> QED
        BY <1>7, <3>3, <3>8, <3>9, <3>10
    <2> QED
      BY <2>1
  <1>9. m <= s.tick
    <2>1. CASE m = 0
      BY <1>1, <2>1
    <2>2. CASE m # 0
      <3>1. m \in 1 .. m
        BY <1>7, <2>2
      <3>2. m - 1 \in 0 .. n - 1
        BY <1>6, <1>8, <3>1
      <3> QED
        BY <1>1, <1>7, <3>2
    <2> QED
      BY <2>1, <2>2
  <1>10. ASSUME NEW i \in 1 .. m PROVE Log[i] \in RecordsAt(s, i - 1)
    BY <1>4, <1>5, <1>8 DEF at
  <1> QED
    BY <1>4, <1>9, <1>10

\* Tick t of the recording is behind index t + 1 of the log.
LEMMA ReadBack ==
  ASSUME Playing
  PROVE  /\ LastTick = Len(view.log) - 1 /\ Len(view.log) \in Nat
         /\ \A t \in Nat : t < Len(view.log) =>
              /\ At(t) # {} /\ RecordAt(t) = view.log[t + 1]
              /\ RecordAt(t) \in RecordsAt(live.session, t)
              /\ Holds(t)
         /\ \A t \in Nat : ~(t < Len(view.log)) => At(t) = {} /\ ~Holds(t)
  <1> DEFINE log == view.log
             m == Len(log)
             l == live.session
  <1>1. /\ log \in Seq(Chunks(l)) /\ m \in Nat /\ DOMAIN log = 1 .. m
        /\ \A i \in 1 .. m : log[i] \in RecordsAt(l, i - 1)
    BY DEF Playing
  <1> HIDE DEF m, l
  <1>2. ASSUME NEW i \in 1 .. m PROVE log[i].tick = i - 1
    BY <1>1, RecordFields
  <1>3. ASSUME NEW t \in Nat PROVE At(t) = IF t < m THEN {t + 1} ELSE {}
    <2>1. \A i \in 1 .. m : log[i].tick = t <=> i = t + 1
      BY <1>1, <1>2
    <2>2. t < m <=> t + 1 \in 1 .. m
      BY <1>1
    <2> QED
      BY <1>1, <2>1, <2>2 DEF At
  <1>4. ASSUME NEW t \in Nat, t < m
        PROVE  /\ At(t) # {} /\ RecordAt(t) = log[t + 1] /\ RecordAt(t) \in RecordsAt(l, t)
    <2>1. At(t) = {t + 1} /\ t + 1 \in 1 .. m /\ (t + 1) - 1 = t
      BY <1>1, <1>3, <1>4
    <2>2. Max({t + 1}) = t + 1
      BY DEF Max
    <2> QED
      BY <1>1, <2>1, <2>2 DEF RecordAt
  <1>5. LastTick = m - 1
    <2>1. CASE m = 0
      <3>1. log = <<>>
        BY <1>1, <2>1, EmptySeq DEF m
      <3> QED
        BY <2>1, <3>1 DEF LastTick
    <2>2. CASE m # 0
      <3> DEFINE ticks == {log[i].tick : i \in DOMAIN log}
      <3>1. ticks = 0 .. m - 1
        <4>1. ASSUME NEW t \in 0 .. m - 1 PROVE t \in ticks
          <5>1. t + 1 \in DOMAIN log /\ log[t + 1].tick = t
            BY <1>1, <1>2
          <5> QED
            BY <5>1
        <4>2. ASSUME NEW i \in DOMAIN log PROVE log[i].tick \in 0 .. m - 1
          BY <1>1, <1>2
        <4> QED
          BY <4>1, <4>2
      <3> HIDE DEF ticks
      <3>2. Max(ticks) = m - 1
        <4>1. m - 1 \in 0 .. m - 1 /\ \A y \in 0 .. m - 1 : m - 1 >= y
          BY <1>1, <2>2
        <4>2. ASSUME NEW x \in 0 .. m - 1, \A y \in 0 .. m - 1 : x >= y PROVE x = m - 1
          <5>1. x >= m - 1
            BY <4>1, <4>2
          <5> QED
            BY <1>1, <5>1
        <4> QED
          BY <3>1, <4>1, <4>2 DEF Max
      <3>3. log # <<>>
        BY <1>1, <2>2 DEF m
      <3> QED
        BY <3>2, <3>3 DEF LastTick, ticks
    <2> QED
      BY <2>1, <2>2
  <1>6. ASSUME NEW t \in Nat PROVE Holds(t) <=> t < m
    BY <1>1, <1>5 DEF Holds
  <1> QED
    BY <1>1, <1>3, <1>4, <1>5, <1>6 DEF m, l

\* Session l ran the ticks that session v has run.
RanSame(v, l) ==
  /\ v.tick <= l.tick
  /\ \A t \in 0 .. v.tick - 1 : v.history[t + 1] = l.history[t + 1] /\ Required(v, t) = Required(l, t)

\* The same players have fallen then.
LEMMA FallsMatch ==
  ASSUME NEW v, NEW l, Regular(v), Regular(l), RanSame(v, l), NEW p \in Seats
  PROVE  v.fallen[p] = l.fallen[p] \/ (v.tick < v.fallen[p] /\ v.tick < l.fallen[p])
  <1>1. /\ v.tick \in Nat /\ l.tick \in Nat /\ v.fallen[p] \in Nat /\ l.fallen[p] \in Nat
        /\ v.fallen[p] \in 1 .. v.tick \/ v.fallen[p] = Unset
        /\ l.fallen[p] \in 1 .. l.tick \/ l.fallen[p] = Unset
        /\ v.tick < Unset /\ Unset \in Nat /\ v.tick <= l.tick
    BY BoundsTyped DEF Regular, Session, RanSame
  <1>2. ASSUME NEW t \in 0 .. v.tick - 1 PROVE v.fallen[p] = t + 1 <=> l.fallen[p] = t + 1
    <2>1. t \in 0 .. l.tick - 1
      BY <1>1
    <2>2. Ran(v, t) /\ Ran(l, t)
      BY <2>1 DEF Regular
    <2>3. v.history[t + 1] = l.history[t + 1] /\ Required(v, t) = Required(l, t)
      BY DEF RanSame
    <2> QED
      BY <2>2, <2>3 DEF Ran
  <1>3. CASE v.fallen[p] <= v.tick
    <2>1. v.fallen[p] - 1 \in 0 .. v.tick - 1 /\ (v.fallen[p] - 1) + 1 = v.fallen[p]
      BY <1>1, <1>3
    <2>2. l.fallen[p] = v.fallen[p]
      BY <1>2, <2>1
    <2> QED
      BY <2>2
  <1>4. CASE l.fallen[p] <= v.tick
    <2>1. l.fallen[p] - 1 \in 0 .. v.tick - 1 /\ (l.fallen[p] - 1) + 1 = l.fallen[p]
      BY <1>1, <1>4
    <2>2. l.fallen[p] = v.fallen[p]
      BY <1>2, <2>1
    <2> QED
      BY <2>2
  <1> QED
    BY <1>1, <1>3, <1>4

\* Session u of the playback stands before tick t like the recorded game did.
Aligned(u, l) ==
  LET t == u.tick
  IN \A p \in Seats :
       /\ t < u.dropped[p] <=> t < l.dropped[p]
       /\ t < u.fallen[p] <=> t < l.fallen[p]
       /\ u.dropped[p] = t <=> l.dropped[p] = t

LEMMA ReappliedRight ==
  ASSUME Playing, LiveInv, NEW s, Retraced(s), s.tick < Len(view.log),
         NEW u, u = Reapplied(s)
  PROVE  /\ Retraced(u) /\ Aligned(u, live.session)
         /\ u.tick = s.tick /\ u.result = s.result
         /\ \A p \in Seats : ~OutOf(u, p) => ~OutOf(s, p)
  <1> DEFINE l == live.session
             t == s.tick
             d == [p \in Seats |-> IF p \in RecordAt(s.tick).dropped /\ s.dropped[p] > s.tick
                                   THEN s.tick ELSE s.dropped[p]]
  <1>1. /\ Regular(s) /\ Judged(s) /\ s.result \in {"none", "over"} /\ Extends(s, l)
        /\ \A p \in Seats : s.dropped[p] \in {Unset, l.dropped[p]}
        /\ Regular(l)
    BY DEF Retraced, LiveInv
  <1>2. /\ t \in Nat /\ l.tick \in Nat /\ t < l.tick /\ Len(view.log) \in Nat
        /\ t < Unset /\ Unset \in Nat /\ s \in Session
        /\ s.dropped \in [Seats -> Nat] /\ l.dropped \in [Seats -> Nat]
        /\ s.fallen \in [Seats -> Nat] /\ l.fallen \in [Seats -> Nat]
        /\ \A p \in Seats : s.dropped[p] <= Unset
    BY <1>1, ReadBack, BoundsTyped DEF Regular, Session, Playing
  <1>3. At(t) # {} /\ RecordAt(t).dropped = DroppedAt(l, t)
    BY <1>2, ReadBack, RecordFields
  <1>4. u = [s EXCEPT !.dropped = d]
    BY <1>3 DEF Reapplied
  <1>5. ASSUME NEW p \in Seats
        PROVE  d[p] = IF l.dropped[p] = t /\ s.dropped[p] > t THEN t ELSE s.dropped[p]
    BY <1>3 DEF DroppedAt
  <1>6. d \in [Seats -> Nat]
    BY <1>2
  <1> HIDE DEF d, l
  <1>7. ASSUME NEW p \in Seats, l.dropped[p] < t PROVE s.dropped[p] = l.dropped[p]
    <2>1. l.dropped[p] \in 0 .. t - 1
      BY <1>2, <1>7
    <2>2. DroppedAt(l, l.dropped[p]) = DroppedAt(s, l.dropped[p])
      BY <1>1, <2>1 DEF Extends
    <2> QED
      BY <2>2 DEF DroppedAt
  <1>8. ASSUME NEW p \in Seats
        PROVE  /\ d[p] <= Unset /\ d[p] \in {Unset, l.dropped[p]}
               /\ d[p] = s.dropped[p] \/ (t <= d[p] /\ t <= s.dropped[p])
               /\ t < d[p] <=> t < l.dropped[p]
               /\ d[p] = t <=> l.dropped[p] = t
               /\ d[p] <= s.dropped[p]
    <2>1. /\ s.dropped[p] \in Nat /\ l.dropped[p] \in Nat /\ s.dropped[p] \in {Unset, l.dropped[p]}
          /\ s.dropped[p] <= Unset
      BY <1>1, <1>2
    <2>2. CASE l.dropped[p] = t
      BY <1>2, <1>5, <2>1, <2>2
    <2>3. CASE l.dropped[p] # t
      <3>1. d[p] = s.dropped[p]
        BY <1>5, <2>3
      <3>2. t < s.dropped[p] <=> t < l.dropped[p]
        BY <1>2, <1>7, <2>1, <2>3
      <3>3. s.dropped[p] = t <=> l.dropped[p] = t
        BY <1>2, <2>1, <2>3
      <3> QED
        BY <1>2, <2>1, <3>1, <3>2, <3>3
    <2> QED
      BY <2>2, <2>3
  <1>9. /\ Regular(u) /\ Judged(u) /\ Extends(s, u) /\ Extends(u, s)
        /\ u.tick = s.tick /\ u.result = s.result /\ u.fallen = s.fallen /\ u.dropped = d
    BY <1>1, <1>4, <1>6, <1>8, DroppedLater
  <1>10. Extends(u, l)
    <2>1. ASSUME NEW x \in 0 .. t - 1
          PROVE  /\ l.history[x + 1] = u.history[x + 1]
                 /\ Required(l, x) = Required(u, x) /\ DroppedAt(l, x) = DroppedAt(u, x)
                 /\ LeftAt(l, x) = LeftAt(u, x)
      BY <1>1, <1>9 DEF Extends
    <2> QED
      BY <1>2, <1>9, <2>1 DEF Extends
  <1>11. ASSUME NEW p \in Seats PROVE t < u.fallen[p] <=> t < l.fallen[p]
    <2>1. RanSame(s, l)
      BY <1>1 DEF Extends, RanSame
    <2>2. s.fallen[p] = l.fallen[p] \/ (s.tick < s.fallen[p] /\ s.tick < l.fallen[p])
      BY <1>1, <1>2, <2>1, FallsMatch
    <2> QED
      BY <1>9, <2>2
  <1>12. Aligned(u, l)
    BY <1>8, <1>9, <1>11 DEF Aligned
  <1>13. Retraced(u)
    BY <1>1, <1>8, <1>9, <1>10 DEF Retraced, l
  <1>14. ASSUME NEW p \in Seats, ~OutOf(u, p) PROVE ~OutOf(s, p)
    BY <1>2, <1>6, <1>8, <1>9, <1>14 DEF OutOf
  <1> QED
    BY <1>9, <1>12, <1>13, <1>14 DEF l

LEMMA AlignedRequires ==
  ASSUME NEW u, NEW l, Aligned(u, l)
  PROVE  Required(u, u.tick) = Required(l, u.tick) /\ DroppedAt(u, u.tick) = DroppedAt(l, u.tick)
  BY DEF Aligned, Required, DroppedAt

\* The recording supplies what the recorded game ran with, and for everybody.
LEMMA SuppliedTrue ==
  ASSUME Playing, NEW u, NEW t \in Nat
  PROVE  /\ FramesTrue(Supplied(u, t))
         /\ t < Len(view.log) => \A p \in Seats : ~OutOf(u, p) => Has(Supplied(u, t), p, t)
  <1> DEFINE l == live.session
             said(p) == \E x \in RecordAt(t).inputs : x[1] = p
             word(p) == IF At(t) # {} /\ said(p)
                        THEN (CHOOSE x \in RecordAt(t).inputs : x[1] = p)[2] ELSE "idle"
             all == {[player |-> p, tick |-> t, command |-> word(p)] : p \in {q \in Seats : ~OutOf(u, q)}}
  <1>1. Supplied(u, t) = IF ~Holds(t) THEN {} ELSE all
    BY Zenon DEF Supplied
  <1> HIDE DEF word
  <1>2. ASSUME NEW f \in Supplied(u, t)
        PROVE  f.tick = t /\ f.command = word(f.player)
    BY <1>1
  <1>3. ASSUME t < Len(view.log), NEW p \in Required(l, t) PROVE word(p) = l.history[t + 1][p]
    <2>1. /\ At(t) # {}
          /\ RecordAt(t).inputs = {<<q, l.history[t + 1][q]>> :
                                     q \in {x \in Required(l, t) : l.history[t + 1][x] # "idle"}}
      BY <1>3, ReadBack, RecordFields
    <2>2. CASE said(p)
      <3> DEFINE x == CHOOSE x \in RecordAt(t).inputs : x[1] = p
      <3>1. x \in RecordAt(t).inputs /\ x[1] = p
        BY <2>2
      <3>2. word(p) = x[2]
        BY <2>1, <2>2 DEF word
      <3> HIDE DEF x
      <3>3. x[2] = l.history[t + 1][p]
        BY <2>1, <3>1
      <3> QED
        BY <3>2, <3>3
    <2>3. CASE ~said(p)
      <3>1. l.history[t + 1][p] = "idle"
        <4>1. ASSUME l.history[t + 1][p] # "idle" PROVE FALSE
          <5>1. <<p, l.history[t + 1][p]>> \in RecordAt(t).inputs
            BY <2>1, <4>1
          <5>2. <<p, l.history[t + 1][p]>>[1] = p
            OBVIOUS
          <5> QED
            BY <2>3, <5>1, <5>2
        <4> QED
          BY <4>1
      <3> QED
        BY <2>3, <3>1 DEF word
    <2> QED
      BY <2>2, <2>3
  <1>4. FramesTrue(Supplied(u, t))
    BY <1>2, <1>3 DEF FramesTrue
  <1>5. ASSUME t < Len(view.log), NEW p \in Seats, ~OutOf(u, p) PROVE Has(Supplied(u, t), p, t)
    <2>1. Holds(t)
      BY <1>5, ReadBack
    <2>2. [player |-> p, tick |-> t, command |-> word(p)] \in Supplied(u, t)
      BY <1>1, <1>5, <2>1
    <2> QED
      BY <2>2 DEF Has
  <1> QED
    BY <1>4, <1>5

\* Every player that the tick requires has a frame.
Ready(frames, u) == \A p \in Required(u, u.tick) : Has(frames, p, u.tick)

Played(u, frames) == Advance(u, "nobody", Committed(frames, u))

\* A tick of the playback is the tick of the recorded game.
LEMMA PlayedTick ==
  ASSUME Playing, LiveInv, NEW u, Retraced(u), u.result = "none", Aligned(u, live.session),
         u.tick < Len(view.log), NEW frames, FramesTrue(frames),
         Ready(frames, u), NEW a, a = Played(u, frames)
  PROVE  /\ Retraced(a) /\ a.tick = u.tick + 1
         /\ \A p \in Seats : ~OutOf(a, p) => ~OutOf(u, p)
  <1> DEFINE l == live.session
             t == u.tick
             c == Committed(frames, u)
             said(p) == CHOOSE f \in frames : f.player = p /\ f.tick = t
  <1>1. /\ Regular(u) /\ Judged(u) /\ Extends(u, l) /\ Regular(l)
        /\ \A p \in Seats : u.dropped[p] \in {Unset, l.dropped[p]}
    BY DEF Retraced, LiveInv
  <1>2. t \in Nat /\ l.tick \in Nat /\ t < l.tick /\ t < EndTick /\ t \in 0 .. l.tick - 1
    BY <1>1, ReadBack, BoundsTyped DEF Regular, Session, Playing
  <1>3. Required(u, t) = Required(l, t) /\ DroppedAt(u, t) = DroppedAt(l, t)
    BY AlignedRequires
  <1>4. l.history[t + 1] \in [Required(l, t) -> Commands]
    <2>1. Ran(l, t)
      BY <1>1, <1>2 DEF Regular
    <2>2. t + 1 \in 1 .. Len(l.history) /\ l.history \in Seq(UNION {[P -> Commands] : P \in SUBSET Seats})
      BY <1>1, <1>2 DEF Regular, Session
    <2>3. l.history[t + 1] \in UNION {[P -> Commands] : P \in SUBSET Seats}
      BY <2>2, ElementOfSeq
    <2> QED
      BY <2>1, <2>3 DEF Ran
  <1>5. c = l.history[t + 1]
    <2>1. ASSUME NEW p \in Required(u, t) PROVE said(p).command = l.history[t + 1][p]
      <3>1. said(p) \in frames /\ said(p).player = p /\ said(p).tick = t
        BY DEF Has, Ready
      <3> HIDE DEF said
      <3> QED
        BY <1>3, <3>1 DEF FramesTrue
    <2>2. c = [p \in Required(u, t) |-> said(p).command]
      BY Zenon DEF Committed
    <2> HIDE DEF said, c
    <2>3. c = [p \in Required(u, t) |-> l.history[t + 1][p]]
      BY <2>1, <2>2
    <2> QED
      BY <1>3, <1>4, <2>3
  <1>6. c \in [Required(u, u.tick) -> Commands] /\ "nobody" \notin Seats
    BY <1>3, <1>4, <1>5, BoundsTyped
  <1> HIDE DEF c, said, l
  <1>7. /\ Regular(a) /\ Judged(a) /\ Extends(u, a) /\ a.tick = t + 1 /\ a.dropped = u.dropped
        /\ a.history[a.tick] = c /\ Required(a, t) = Required(u, t)
        /\ a.result \in {"none", "over"}
    <2>1. a = Advance(u, "nobody", c)
      BY DEF c, Played
    <2> QED
      BY <1>1, <1>2, <1>6, <2>1, Advanced
  <1>8. RanSame(a, l)
    <2>1. ASSUME NEW x \in 0 .. a.tick - 1
          PROVE  a.history[x + 1] = l.history[x + 1] /\ Required(a, x) = Required(l, x)
      <3>1. CASE x = t
        BY <1>3, <1>5, <1>7, <3>1
      <3>2. CASE x # t
        <4>1. x \in 0 .. t - 1
          BY <1>2, <1>7, <3>2
        <4> QED
          BY <1>1, <1>7, <4>1 DEF Extends
      <3> QED
        BY <3>1, <3>2
    <2>2. a.tick <= l.tick
      BY <1>2, <1>7
    <2> QED
      BY <2>1, <2>2 DEF RanSame
  <1>9. LeftAt(a, t) = LeftAt(l, t)
    <2>1. ASSUME NEW p \in Seats
          PROVE  (t < a.dropped[p] <=> t < l.dropped[p]) /\ (t + 1 < a.fallen[p] <=> t + 1 < l.fallen[p])
      <3>1. t < a.dropped[p] <=> t < l.dropped[p]
        BY <1>7 DEF Aligned, l
      <3>2. a.fallen[p] = l.fallen[p] \/ (a.tick < a.fallen[p] /\ a.tick < l.fallen[p])
        BY <1>1, <1>7, <1>8, FallsMatch
      <3> QED
        BY <1>7, <3>1, <3>2
    <2> QED
      BY <2>1 DEF LeftAt
  <1>10. Extends(a, l)
    <2>1. ASSUME NEW x \in 0 .. a.tick - 1
          PROVE  DroppedAt(a, x) = DroppedAt(l, x) /\ LeftAt(a, x) = LeftAt(l, x)
      <3>1. CASE x = t
        BY <1>3, <1>7, <1>9, <3>1 DEF DroppedAt
      <3>2. CASE x # t
        <4>1. x \in 0 .. t - 1
          BY <1>2, <1>7, <3>2
        <4> QED
          BY <1>1, <1>7, <4>1 DEF Extends
      <3> QED
        BY <3>1, <3>2
    <2> QED
      BY <1>8, <2>1 DEF Extends, RanSame
  <1>11. ASSUME NEW p \in Seats, ~OutOf(a, p) PROVE ~OutOf(u, p)
    <2>1. RanSame(u, a)
      BY <1>7 DEF Extends, RanSame
    <2>2. u.fallen[p] = a.fallen[p] \/ (u.tick < u.fallen[p] /\ u.tick < a.fallen[p])
      BY <1>1, <1>7, <2>1, FallsMatch
    <2>3. /\ u.fallen[p] \in Nat /\ a.fallen[p] \in Nat /\ u.dropped[p] \in Nat
          /\ ~(a.dropped[p] <= a.tick) /\ ~(a.fallen[p] <= a.tick)
      BY <1>1, <1>7, <1>11 DEF Regular, Session, OutOf
    <2>4. ~(u.dropped[p] <= u.tick)
      BY <1>2, <1>7, <2>3
    <2>5. ~(u.fallen[p] <= u.tick)
      BY <1>2, <1>7, <2>2, <2>3
    <2> QED
      BY <2>4, <2>5 DEF OutOf
  <1> QED
    BY <1>1, <1>7, <1>10, <1>11 DEF Retraced, l

\* The checksum of what was retraced is the recorded one.
LEMMA VerifiedRight ==
  ASSUME Playing, LiveInv, NEW v, Retraced(v.session), v.session.tick <= Len(view.log),
         ~v.mismatch, v = [session |-> v.session, at |-> v.at, log |-> v.log, blocked |-> v.blocked,
               paused |-> v.paused, done |-> v.done, mismatch |-> v.mismatch,
               verified |-> v.verified, frames |-> v.frames],
         NEW w, w = Verified(v)
  PROVE  /\ w = [session |-> v.session, at |-> v.at, log |-> v.log, blocked |-> v.blocked,
               paused |-> v.paused, done |-> v.done, mismatch |-> w.mismatch,
               verified |-> w.verified, frames |-> v.frames]
         /\ ~w.mismatch
  <1> DEFINE l == live.session
             s == v.session
             t == v.session.tick - 1
             expected == IF t >= 0 /\ At(t) # {} THEN RecordAt(t).checksum ELSE <<>>
             unequal == v.session.history # expected[1]
  <1>1. Regular(s) /\ Regular(l) /\ Extends(s, l)
    BY DEF Retraced, LiveInv
  <1>2. s.tick \in Nat /\ l.tick \in Nat /\ s.tick <= l.tick /\ Len(view.log) \in Nat
    BY <1>1, ReadBack DEF Regular, Session, Extends
  <1>3. ASSUME expected # <<>> PROVE ~unequal
    <2>1. t \in Nat /\ t < Len(view.log)
      BY <1>2, <1>3
    <2>2. expected \in {<<>>, <<SubSeq(l.history, 1, t + 1)>>}
      BY <2>1, ReadBack, RecordFields
    <2>3. expected[1] = SubSeq(l.history, 1, t + 1)
      BY <1>3, <2>2
    <2>4. t + 1 = s.tick /\ s.history = SubSeq(s.history, 1, s.tick)
      BY <1>1, <1>2 DEF Regular, Session
    <2>5. \A i \in 1 .. s.tick : s.history[i] = l.history[i]
      <3> TAKE i \in 1 .. s.tick
      <3>1. i - 1 \in 0 .. s.tick - 1 /\ (i - 1) + 1 = i
        BY <1>2
      <3> QED
        BY <1>1, <3>1 DEF Extends
    <2>6. SubSeq(s.history, 1, s.tick) = SubSeq(l.history, 1, s.tick)
      BY <1>1, <1>2, <2>5, SamePrefix DEF Regular, Session
    <2> QED
      BY <2>3, <2>4, <2>6
  <1>4. w = IF v.mismatch \/ v.verified = t \/ expected = <<>> THEN v
            ELSE [v EXCEPT !.verified = t, !.mismatch = unequal]
    BY Zenon DEF Verified
  <1> HIDE DEF expected, unequal, t
  <1>5. CASE v.verified = t \/ expected = <<>>
    BY <1>4, <1>5
  <1>6. CASE ~(v.verified = t \/ expected = <<>>)
    <2>1. w = [v EXCEPT !.verified = t, !.mismatch = unequal] /\ ~unequal
      BY <1>3, <1>4, <1>6
    <2> QED
      BY <2>1
  <1> QED
    BY <1>5, <1>6

\* The recording goes on and is not over.
Supplies(s) == Holds(s.tick) /\ s.result = "none"

\* What the recording gives a session s of the playback, and what comes of it.
Given(s) == IF Supplies(s) THEN Reapplied(s) ELSE s
Fetched(s, u) ==
  IF Supplies(s) THEN view.frames \cup Supplied(u, u.tick + Latency) ELSE view.frames
Stepped(u, frames) ==
  IF u.result = "none" /\ Holds(u.tick) /\ Ready(frames, u) THEN Played(u, frames) ELSE u

\* A step of the playback that the recording supplies runs the tick it supplies.
LEMMA SupplyTicks ==
  ASSUME Playing, LiveInv, Supplies(view.session),
         NEW u, u = Reapplied(view.session),
         NEW frames, frames = view.frames \cup Supplied(u, u.tick + Latency),
         NEW a, a = Played(u, frames)
  PROVE  /\ u.tick = view.session.tick /\ u.result = view.session.result
         /\ Retraced(a) /\ a.tick <= Len(view.log) /\ FramesTrue(frames) /\ Fed(a, frames)
         /\ Ready(frames, u) /\ a.tick = u.tick + 1
  <1> DEFINE s == view.session
             n == u.tick
             more == Supplied(u, n + Latency)
  <1>1. /\ Retraced(s) /\ s.tick \in Nat /\ Latency \in Nat /\ Len(view.log) \in Nat
        /\ s.tick <= Len(view.log) /\ FramesTrue(view.frames) /\ Fed(s, view.frames)
    BY ReadBack, BoundsTyped DEF Playing, Retraced, Regular, Session
  <1>2. s.tick < Len(view.log) /\ s.result = "none"
    BY <1>1, ReadBack DEF Supplies
  <1>3. /\ Retraced(u) /\ Aligned(u, live.session) /\ u.tick = s.tick /\ u.result = s.result
        /\ \A p \in Seats : ~OutOf(u, p) => ~OutOf(s, p)
    BY <1>1, <1>2, ReappliedRight
  <1>4. n \in Nat /\ n + Latency \in Nat /\ n = s.tick
    BY <1>1, <1>3
  <1>5. /\ FramesTrue(more)
        /\ n + Latency < Len(view.log) => \A p \in Seats : ~OutOf(u, p) => Has(more, p, n + Latency)
    BY <1>4, SuppliedTrue
  <1>6. frames = view.frames \cup more
    OBVIOUS
  <1> HIDE DEF more, s
  <1>7. FramesTrue(frames)
    BY <1>1, <1>5, <1>6 DEF FramesTrue
  <1>8. ASSUME NEW t \in n .. n + Latency, t < Len(view.log), NEW p \in Seats, ~OutOf(u, p)
        PROVE  Has(frames, p, t)
    <2>1. CASE t = n + Latency
      BY <1>5, <1>6, <1>8, <2>1 DEF Has
    <2>2. CASE t # n + Latency
      <3>1. t \in s.tick .. s.tick + Latency - 1 /\ ~OutOf(s, p)
        <4>1. \A x \in Nat : \A y \in x .. x + Latency : y # x + Latency => y \in x .. x + Latency - 1
          BY <1>1
        <4>2. t \in n .. n + Latency - 1
          BY <1>4, <2>2, <4>1
        <4> HIDE DEF n
        <4> QED
          BY <1>3, <1>4, <1>8, <4>2
      <3>2. Has(view.frames, p, t)
        BY <1>1, <1>8, <3>1 DEF Fed
      <3> QED
        BY <1>6, <3>2 DEF Has
    <2> QED
      BY <2>1, <2>2
  <1>9. Ready(frames, u)
    <2>1. ASSUME NEW p \in Required(u, n) PROVE Has(frames, p, n)
      <3>1. n \in n .. n + Latency /\ n < Len(view.log)
        BY <1>1, <1>2, <1>4
      <3>2. p \in Seats /\ ~OutOf(u, p)
        <4>1. p \in Seats /\ u.dropped[p] \in Nat /\ u.fallen[p] \in Nat
          BY <1>3 DEF Retraced, Regular, Session, Required
        <4> QED
          BY <1>4, <4>1 DEF Required, OutOf
      <3> QED
        BY <1>8, <3>1, <3>2
    <2> QED
      BY <2>1 DEF Ready
  <1>10. u.result = "none" /\ u.tick < Len(view.log)
    BY <1>2, <1>3
  <1>11. /\ Retraced(a) /\ a.tick = u.tick + 1
         /\ \A p \in Seats : ~OutOf(a, p) => ~OutOf(u, p)
    <2> DEFINE k == u.tick + 1
    <2> SUFFICES Retraced(a) /\ a.tick = u.tick + 1 /\ \A p \in Seats : ~OutOf(a, p) => ~OutOf(u, p)
      OBVIOUS
    <2>1. Retraced(u) /\ Aligned(u, live.session)
      BY <1>3
    <2> QED
      BY <1>7, <1>9, <1>10, <2>1, PlayedTick
  <1>12. Fed(a, frames)
    <2> DEFINE m == n + Latency
    <2>1. \A t \in a.tick .. a.tick + Latency - 1 : t \in n .. m
      <3>1. a.tick = n + 1
        BY <1>11
      <3>3. \A x \in Nat : (x + 1) + Latency - 1 = x + Latency
        BY BoundsTyped
      <3>4. (n + 1) + Latency - 1 = m
        BY <1>4, <3>3
      <3>2. \A t \in n + 1 .. (n + 1) + Latency - 1 : t \in n .. m
        <4>1. \A x \in Nat : \A y \in x + 1 .. (x + 1) + Latency - 1 : y \in x .. x + Latency
          BY BoundsTyped
        <4> QED
          BY <1>4, <4>1
      <3> HIDE DEF m, n
      <3> QED
        BY <3>1, <3>2, <3>4
    <2>2. ASSUME NEW t \in a.tick .. a.tick + Latency - 1, t < Len(view.log), NEW p \in Seats, ~OutOf(a, p)
          PROVE  Has(frames, p, t)
      <3>1. t \in n .. m
        BY <2>1
      <3>2. ~OutOf(u, p)
        BY <1>11, <2>2
      <3> QED
        BY <1>8, <2>2, <3>1, <3>2
    <2> QED
      BY <2>2 DEF Fed
  <1>13. a.tick <= Len(view.log)
    BY <1>1, <1>4, <1>10, <1>11
  <1> QED
    BY <1>3, <1>7, <1>9, <1>11, <1>12, <1>13 DEF s

\* One step of the playback: from session s, by the session u and the frames
\* that the recording gives it, to session a.
LEMMA SupplySteps ==
  ASSUME Playing, LiveInv, NEW s, s = view.session, NEW u, u = Given(s),
         NEW frames, frames = Fetched(s, u), NEW a, a = Stepped(u, frames)
  PROVE  /\ u.tick = s.tick /\ u.result = s.result
         /\ Retraced(a) /\ a.tick <= Len(view.log) /\ FramesTrue(frames) /\ Fed(a, frames)
         /\ Supplies(s) => Ready(frames, u) /\ a.tick = u.tick + 1
         /\ ~Supplies(s) => a = u
  <1>1. CASE Supplies(s)
    <2>1. u = Reapplied(s)
      BY <1>1 DEF Given
    <2>2. frames = view.frames \cup Supplied(u, u.tick + Latency)
      BY <1>1 DEF Fetched
    <2> DEFINE b == Played(u, frames)
    <2> HIDE DEF b
    <2>3. /\ u.tick = s.tick /\ u.result = s.result
          /\ Retraced(b) /\ b.tick <= Len(view.log) /\ FramesTrue(frames) /\ Fed(b, frames)
          /\ Ready(frames, u) /\ b.tick = u.tick + 1
      BY <1>1, <2>1, <2>2, SupplyTicks DEF b
    <2>4. a = b
      BY <1>1, <2>3, Zenon DEF Stepped, Supplies, b
    <2> QED
      BY <1>1, <2>3, <2>4
  <1>2. CASE ~Supplies(s)
    <2>1. u = s /\ frames = view.frames
      BY <1>2 DEF Given, Fetched
    <2>2. a = u
      BY <1>2, <2>1 DEF Supplies, Stepped
    <2>3. /\ Retraced(s) /\ s.tick <= Len(view.log) /\ FramesTrue(view.frames) /\ Fed(s, view.frames)
      BY DEF Playing
    <2> QED
      BY <1>2, <2>1, <2>2, <2>3
  <1> QED
    BY <1>1, <1>2

LEMMA StepPlays ==
  ASSUME Playing, LiveInv, view = ViewFields, PlayStep
  PROVE  view' = ViewFields' /\ view'.at = "playing" /\ Playing'
  <1> DEFINE s == view.session
             sources == Holds(s.tick) /\ s.result = "none"
             ready(u, frames) == \A p \in Required(u, u.tick) : \E f \in frames : f.player = p /\ f.tick = u.tick
             runs(u, frames) == u.result = "none" /\ ~Exhausted(u.tick) /\ ready(u, frames)
             mid(u, frames, a) ==
               [view EXCEPT !.session = a, !.frames = frames, !.done = @ \/ ~Holds(u.tick),
                            !.blocked = IF u.result # "none" THEN @ ELSE Exhausted(u.tick) \/ ~ready(u, frames)]
  <1>1. PICK u \in {IF sources THEN Reapplied(s) ELSE s} :
          \E frames \in {IF sources THEN view.frames \cup Supplied(u, u.tick + Latency) ELSE view.frames} :
          \E a \in {IF runs(u, frames) THEN Advance(u, "nobody", Committed(frames, u)) ELSE u} :
            view' = Verified(mid(u, frames, a))
    BY Zenon DEF PlayStep
  <1>2. PICK frames \in {IF sources THEN view.frames \cup Supplied(u, u.tick + Latency) ELSE view.frames} :
          \E a \in {IF runs(u, frames) THEN Advance(u, "nobody", Committed(frames, u)) ELSE u} :
            view' = Verified(mid(u, frames, a))
    BY <1>1, Zenon
  <1>3. PICK a \in {IF runs(u, frames) THEN Advance(u, "nobody", Committed(frames, u)) ELSE u} :
            view' = Verified(mid(u, frames, a))
    BY <1>2, Zenon
  <1>4. view.at = "playing" /\ live' = live
    BY DEF PlayStep
  <1>5. /\ u.tick = s.tick /\ u.result = s.result
        /\ Retraced(a) /\ a.tick <= Len(view.log) /\ FramesTrue(frames) /\ Fed(a, frames)
        /\ Supplies(s) => Ready(frames, u) /\ a.tick = u.tick + 1
        /\ ~Supplies(s) => a = u
    <2>1. ready(u, frames) <=> Ready(frames, u)
      BY Zenon DEF Ready, Has
    <2>2. runs(u, frames) <=> u.result = "none" /\ Holds(u.tick) /\ Ready(frames, u)
      BY <2>1, Zenon DEF Exhausted
    <2>3. u = Given(s)
      BY <1>1, Zenon DEF Supplies, Given
    <2>4. frames = Fetched(s, u)
      BY <1>2, Zenon DEF Supplies, Fetched
    <2>5. a = Stepped(u, frames)
      BY <1>3, <2>2, Zenon DEF Stepped, Played
    <2>6. s = view.session
      OBVIOUS
    <2> HIDE DEF s
    <2> QED
      BY <2>3, <2>4, <2>5, <2>6, SupplySteps
  <1> DEFINE done == view.done \/ ~Holds(u.tick)
             waits == IF u.result # "none" THEN view.blocked ELSE Exhausted(u.tick) \/ ~ready(u, frames)
             v == mid(u, frames, a)
  <1>6. v = [session |-> a, at |-> "playing", log |-> view.log, blocked |-> waits,
             paused |-> view.paused, done |-> done, mismatch |-> view.mismatch,
             verified |-> view.verified, frames |-> frames]
    <2>1. view = ViewFields
      OBVIOUS
    <2> DEFINE d == done
               b == waits
    <2>2. v = [view EXCEPT !.session = a, !.frames = frames, !.done = d, !.blocked = b]
      OBVIOUS
    <2> HIDE DEF d, b, v
    <2>3. v = [session |-> a, at |-> "playing", log |-> view.log, blocked |-> b,
             paused |-> view.paused, done |-> d, mismatch |-> view.mismatch,
             verified |-> view.verified, frames |-> frames]
      BY <1>4, <2>1, <2>2 DEF ViewFields
    <2> QED
      BY <2>3 DEF d, b
  <1>7. Len(view.log) \in Nat /\ s.tick \in Nat /\ s.tick <= Len(view.log)
        /\ (view.done => s.tick = Len(view.log)) /\ (view.blocked => view.done) /\ ~view.mismatch
    BY ReadBack DEF Playing, Retraced, Regular, Session
  <1>8. (done => a.tick = Len(view.log)) /\ (waits => done)
    <2>1. Holds(u.tick) <=> u.tick < Len(view.log)
      BY <1>5, <1>7, ReadBack
    <2>2. ready(u, frames) <=> Ready(frames, u)
      BY Zenon DEF Ready, Has
    <2>3. CASE Supplies(s)
      <3>1. Holds(u.tick) /\ u.result = "none" /\ ~view.done /\ Ready(frames, u)
        BY <1>5, <1>7, <2>1, <2>3 DEF Supplies
      <3>2. ~done
        BY <3>1
      <3>3. ~waits
        BY <2>2, <3>1, Zenon DEF Exhausted
      <3> QED
        BY <3>2, <3>3
    <2>4. CASE ~Supplies(s)
      <3>1. a = u /\ (~Holds(u.tick) \/ u.result # "none")
        BY <1>5, <2>4 DEF Supplies
      <3>2. done => a.tick = Len(view.log)
        BY <1>5, <1>7, <2>1, <3>1
      <3>3. waits => done
        BY <1>7, <3>1
      <3> QED
        BY <3>2, <3>3
    <2> QED
      BY <2>3, <2>4
  <1> HIDE DEF done, waits, mid, sources, ready, s
  <1>9. /\ v.session = a /\ v.at = "playing" /\ v.log = view.log /\ v.blocked = waits
        /\ v.done = done /\ v.mismatch = view.mismatch /\ v.frames = frames
        /\ v.paused = view.paused /\ v.verified = view.verified
    BY <1>6
  <1> HIDE DEF v
  <1>10. /\ view' = [session |-> v.session, at |-> v.at, log |-> v.log, blocked |-> v.blocked,
                     paused |-> v.paused, done |-> v.done, mismatch |-> view'.mismatch,
                     verified |-> view'.verified, frames |-> v.frames]
         /\ ~view'.mismatch
    <2>1. v = [session |-> v.session, at |-> v.at, log |-> v.log, blocked |-> v.blocked,
               paused |-> v.paused, done |-> v.done, mismatch |-> v.mismatch,
               verified |-> v.verified, frames |-> v.frames]
      BY <1>6, <1>9
    <2>2. view' = Verified(v)
      BY <1>3 DEF v
    <2>3. Retraced(v.session) /\ v.session.tick <= Len(view.log) /\ ~v.mismatch
      BY <1>5, <1>7, <1>9
    <2> QED
      BY <2>1, <2>2, <2>3, VerifiedRight
  <1>11. /\ view'.session = a /\ view'.at = "playing" /\ view'.log = view.log
         /\ view'.blocked = waits /\ view'.done = done /\ view'.frames = frames
    BY <1>9, <1>10
  <1>12. view' = ViewFields'
    BY <1>9, <1>10, <1>11 DEF ViewFields
  <1>13. /\ Retraced(view.session)'
         /\ FramesTrue(view.frames)' /\ Fed(view.session, view.frames)'
    BY <1>4, <1>5, <1>11 DEF Retraced, FramesTrue, Fed
  <1>14. /\ live'.at = "ended"
         /\ view'.log \in Seq(Chunks(live'.session)) /\ Len(view'.log) <= live'.session.tick
         /\ \A i \in 1 .. Len(view'.log) : view'.log[i] \in RecordsAt(live'.session, i - 1)
    BY <1>4, <1>11 DEF Playing
  <1>15. /\ view'.session.tick <= Len(view'.log)
         /\ view'.done => view'.session.tick = Len(view'.log)
         /\ view'.blocked => view'.done
    BY <1>5, <1>8, <1>11
  <1> QED
    BY <1>10, <1>11, <1>12, <1>13, <1>14, <1>15 DEF Playing

LEMMA Session0Regular ==
  /\ Regular(Session0) /\ Judged(Session0) /\ SeededIdle(Session0)
  /\ Session0.tick = 0 /\ Session0.result = "none" /\ Session0.history = <<>>
  /\ \A p \in Seats : Session0.dropped[p] = Unset
  <1> DEFINE S == UNION {[P -> Commands] : P \in SUBSET Seats}
             none == [p \in Seats |-> Unset]
  <1>1. /\ Session0.tick = 0 /\ Session0.result = "none" /\ Session0.history = <<>>
        /\ Session0.dropped = none /\ Session0.fallen = none
    BY DEF Session0
  <1>2. none \in [Seats -> Nat] /\ \A p \in Seats : none[p] = Unset
    BY BoundsTyped
  <1>3. Session0 = [tick |-> 0, result |-> "none", dropped |-> none, fallen |-> none, history |-> <<>>]
    BY DEF Session0
  <1> HIDE DEF S, none
  <1>4. <<>> \in Seq(S) /\ Len(<<>>) = 0
    BY EmptySeq
  <1>5. Session0 \in [tick : Nat, result : {"none", "over", "defeat"}, dropped : [Seats -> Nat],
                      fallen : [Seats -> Nat], history : Seq(S)]
    BY <1>2, <1>3, <1>4
  <1>6. Session0 \in Session
    BY <1>5, Zenon DEF S, Session
  <1>7. \A t \in 0 .. Session0.tick - 1 : FALSE
    BY <1>1
  <1>8. Regular(Session0)
    BY <1>1, <1>2, <1>4, <1>6, <1>7, BoundsTyped DEF Regular
  <1>9. Judged(Session0) /\ SeededIdle(Session0)
    BY <1>1, <1>7 DEF Judged, SeededIdle
  <1> QED
    BY <1>1, <1>2, <1>8, <1>9

\* The seeded frames are those of the first ticks.
LEMMA SeedsTrue ==
  ASSUME SeededIdle(live.session), Len(view.log) <= live.session.tick,
         Len(view.log) \in Nat, live.session.tick \in Nat
  PROVE  FramesTrue(Seeds) /\ Fed(Session0, Seeds)
  <1>1. ASSUME NEW f \in Seeds, f.tick < Len(view.log), f.player \in Required(live.session, f.tick)
        PROVE  f.command = live.session.history[f.tick + 1][f.player]
    <2>1. PICK p \in Seats : \E t \in 0 .. Latency - 1 : f = [player |-> p, tick |-> t, command |-> "idle"]
      BY DEF Seeds
    <2>2. PICK t \in 0 .. Latency - 1 : f = [player |-> p, tick |-> t, command |-> "idle"]
      BY <2>1
    <2>3. f.tick = t /\ f.player = p /\ f.command = "idle"
      BY <2>2
    <2>4. t \in 0 .. live.session.tick - 1 /\ t < Latency
      BY <1>1, <2>3, BoundsTyped
    <2> QED
      BY <1>1, <2>3, <2>4 DEF SeededIdle
  <1>2. FramesTrue(Seeds)
    BY <1>1 DEF FramesTrue
  <1>3. ASSUME NEW t \in 0 .. Latency - 1, NEW p \in Seats PROVE Has(Seeds, p, t)
    <2>1. [player |-> p, tick |-> t, command |-> "idle"] \in Seeds
      BY DEF Seeds
    <2> QED
      BY <2>1 DEF Has
  <1>4. Session0.tick = 0 /\ Session0.tick + Latency - 1 = Latency - 1
    BY Session0Regular, BoundsTyped
  <1>5. Fed(Session0, Seeds)
    BY <1>3, <1>4 DEF Fed
  <1> QED
    BY <1>2, <1>5

LEMMA WatchPlays ==
  ASSUME LiveInv, ViewInv, Watch
  PROVE  ViewInv'
  <1> DEFINE l == live.session
             log == IF Readable THEN Log ELSE <<>>
             at == IF Readable THEN "playing" ELSE "refused"
  <1>1. /\ live.at = "ended" /\ view = ViewFields /\ view.session = Session0 /\ view.frames = Seeds
        /\ ~view.blocked /\ ~view.done /\ ~view.mismatch
        /\ live' = live
    BY DEF ViewInv, Watch
  <1>2. view' = [view EXCEPT !.at = at, !.log = log]
    BY DEF Watch
  <1> HIDE DEF log, at
  <1>3. view' = [session |-> view.session, at |-> at, log |-> log, blocked |-> view.blocked,
                 paused |-> view.paused, done |-> view.done, mismatch |-> view.mismatch,
                 verified |-> view.verified, frames |-> view.frames]
    BY <1>1, <1>2 DEF ViewFields
  <1>4. /\ view'.session = Session0 /\ view'.at = at /\ view'.log = log /\ view'.frames = Seeds
        /\ ~view'.blocked /\ ~view'.done /\ ~view'.mismatch
        /\ view' = ViewFields'
    BY <1>1, <1>3 DEF ViewFields
  <1>5. CASE Readable
    <2>1. at = "playing" /\ log = Log
      BY <1>5 DEF at, log
    <2>2. Regular(l) /\ SeededIdle(l) /\ l.tick \in Nat
      BY DEF LiveInv, Regular, Session
    <2>3. /\ Log \in Seq(Chunks(l)) /\ Len(Log) <= l.tick
          /\ \A i \in 1 .. Len(Log) : Log[i] \in RecordsAt(l, i - 1)
      BY <1>5, LogInOrder DEF LiveInv
    <2>4. Len(Log) \in Nat
      <3> DEFINE S == Chunks(l)
      <3>1. Log \in Seq(S)
        BY <2>3
      <3> HIDE DEF S
      <3> QED
        BY <3>1
    <2>5. FramesTrue(view.frames)' /\ Fed(view.session, view.frames)'
      <3>1. (SeededIdle(live.session) /\ Len(view.log) <= live.session.tick
               /\ Len(view.log) \in Nat /\ live.session.tick \in Nat)'
        BY <1>1, <1>4, <2>1, <2>2, <2>3, <2>4 DEF SeededIdle, Required
      <3>2. (FramesTrue(Seeds) /\ Fed(Session0, Seeds))'
        BY <3>1, SeedsTrue, PTL
      <3> QED
        BY <1>4, <3>2 DEF FramesTrue, Fed
    <2>6. Retraced(view.session)'
      <3>1. Session0.tick = 0 /\ \A t \in 0 .. 0 - 1 : FALSE
        BY Session0Regular
      <3>2. Extends(Session0, l)
        BY <2>2, <3>1 DEF Extends
      <3>3. Retraced(Session0)
        BY <3>2, Session0Regular DEF Retraced
      <3> QED
        BY <1>1, <1>4, <3>3 DEF Retraced
    <2>7. Playing'
      BY <1>1, <1>4, <2>1, <2>3, <2>4, <2>5, <2>6, Session0Regular DEF Playing
    <2> QED
      BY <1>4, <2>1, <2>7 DEF ViewInv
  <1>6. CASE ~Readable
    <2>1. at = "refused" /\ log = <<>>
      BY <1>6 DEF at, log
    <2> QED
      BY <1>4, <2>1 DEF ViewInv, Seeds
  <1> QED
    BY <1>5, <1>6

\* While the game is recorded, nothing is played.
LEMMA ViewWaits ==
  ASSUME ViewInv, live.at = "running", UNCHANGED view
  PROVE  ViewInv'
  <1>1. view.at # "playing"
    BY DEF ViewInv, Playing
  <1>2. ViewFields' = ViewFields
    BY DEF ViewFields
  <1>3. view'.at # "playing"
    BY <1>1
  <1> QED
    BY <1>2, <1>3 DEF ViewInv, Seeds

LEMMA PauseKeeps ==
  ASSUME ViewInv, TogglePause
  PROVE  ViewInv'
  <1>1. view = ViewFields /\ view.at = "playing" /\ Playing /\ live' = live
    BY DEF ViewInv, TogglePause
  <1> DEFINE paused == ~view.paused
  <1>2. view' = [view EXCEPT !.paused = paused]
    BY DEF TogglePause
  <1> HIDE DEF paused
  <1>3. view' = [session |-> view.session, at |-> view.at, log |-> view.log, blocked |-> view.blocked,
                 paused |-> paused, done |-> view.done, mismatch |-> view.mismatch,
                 verified |-> view.verified, frames |-> view.frames]
    BY <1>1, <1>2 DEF ViewFields
  <1>4. /\ view'.session = view.session /\ view'.at = view.at /\ view'.log = view.log
        /\ view'.frames = view.frames /\ view'.blocked = view.blocked /\ view'.done = view.done
        /\ view'.mismatch = view.mismatch
        /\ view' = ViewFields'
    BY <1>3 DEF ViewFields
  <1>5. /\ FramesTrue(view.frames)' /\ Fed(view.session, view.frames)' /\ Retraced(view.session)'
    BY <1>1, <1>4 DEF Playing, FramesTrue, Fed, Retraced
  <1>6. Playing'
    BY <1>1, <1>4, <1>5 DEF Playing
  <1> QED
    BY <1>1, <1>4, <1>6 DEF ViewInv

\* The live game goes on as it was where only the playback moves.
LEMMA LiveWaits ==
  ASSUME LiveInv, UNCHANGED <<live, file>>
  PROVE  LiveInv'
  BY DEF LiveInv, Recorded, Regular, Judged, SeededIdle, Ran, Required, LeftAt, InOrder

-----------------------------------------------------------------------------
(***************************************************************************)
(* The invariant, and what follows from it.                                *)
(***************************************************************************)

LEMMA InitInv ==
  ASSUME ReplayInit
  PROVE  Inv
  <1>1. PICK conduct \in Conducts :
          live = [session |-> Session0, next |-> 0, at |-> "running", conduct |-> conduct]
    BY DEF ReplayInit
  <1>2. live.session = Session0 /\ live.next = 0 /\ live.at = "running" /\ live.conduct = conduct
    BY <1>1
  <1>3. Recorded(Session0, <<>>, 0)
    <2> DEFINE S == Chunks(Session0)
    <2>1. <<>> \in Seq(S) /\ DOMAIN <<>> = {}
      BY EmptySeq
    <2>2. InOrder(<<>>, 0)
      BY <2>1 DEF InOrder
    <2>3. 0 \in 0 .. Session0.tick
      BY Session0Regular
    <2> HIDE DEF S
    <2> QED
      BY <2>1, <2>2, <2>3 DEF Recorded, S
  <1>4. LiveInv
    <2>1. file = <<>>
      BY DEF ReplayInit
    <2> QED
      BY <1>1, <1>2, <1>3, <2>1, Session0Regular DEF LiveInv
  <1>5. view = [session |-> Session0, at |-> "closed", log |-> <<>>, blocked |-> FALSE,
                paused |-> FALSE, done |-> FALSE, mismatch |-> FALSE, verified |-> -1,
                frames |-> Seeds]
    BY DEF ReplayInit, Seeds
  <1>6. ViewInv
    BY <1>5 DEF ViewInv, ViewFields
  <1> QED
    BY <1>4, <1>6 DEF Inv

LEMMA NextInv ==
  ASSUME Inv, [ReplayNext]_replayVars
  PROVE  Inv'
  <1>1. LiveInv /\ ViewInv
    BY DEF Inv
  <1>2. CASE LiveTick
    <2>1. live.at = "running" /\ UNCHANGED view
      BY <1>2 DEF LiveTick
    <2> QED
      BY <1>1, <1>2, <2>1, LiveTicks, ViewWaits DEF Inv
  <1>3. CASE LiveIdle
    <2>1. live.at = "running" /\ UNCHANGED view
      BY <1>3 DEF LiveIdle
    <2> QED
      BY <1>1, <1>3, <2>1, LiveIdles, ViewWaits DEF Inv
  <1>4. ASSUME NEW p \in Seats, DecideDrop(p) PROVE Inv'
    <2>1. live.at = "running" /\ UNCHANGED view
      BY <1>4 DEF DecideDrop
    <2> QED
      BY <1>1, <1>4, <2>1, LiveDrops, ViewWaits DEF Inv
  <1>5. CASE Cut
    <2>1. live.at = "running" /\ UNCHANGED view
      BY <1>5 DEF Cut
    <2> QED
      BY <1>1, <1>5, <2>1, LiveCut, ViewWaits DEF Inv
  <1>6. CASE Watch
    <2>1. UNCHANGED <<live, file>>
      BY <1>6 DEF Watch
    <2> QED
      BY <1>1, <1>6, <2>1, LiveWaits, WatchPlays DEF Inv
  <1>7. CASE PlayStep
    <2>1. UNCHANGED <<live, file>> /\ view.at = "playing"
      BY <1>7 DEF PlayStep
    <2>2. Playing /\ view = ViewFields
      BY <1>1, <2>1 DEF ViewInv
    <2>3. view' = ViewFields' /\ view'.at = "playing" /\ Playing'
      BY <1>1, <1>7, <2>2, StepPlays
    <2>4. ViewInv'
      BY <2>3 DEF ViewInv
    <2> QED
      BY <1>1, <2>1, <2>4, LiveWaits DEF Inv
  <1>8. CASE TogglePause
    <2>1. UNCHANGED <<live, file>>
      BY <1>8 DEF TogglePause
    <2> QED
      BY <1>1, <1>8, <2>1, LiveWaits, PauseKeeps DEF Inv
  <1>9. CASE UNCHANGED replayVars
    <2>1. UNCHANGED <<live, file>> /\ view' = view
      BY <1>9 DEF replayVars
    <2>2. ViewFields' = ViewFields
      BY <2>1 DEF ViewFields
    <2>3. Playing => Playing'
      <3>1. ASSUME Playing PROVE FramesTrue(view.frames)' /\ Fed(view.session, view.frames)' /\ Retraced(view.session)'
        BY <2>1, <3>1 DEF Playing, FramesTrue, Fed, Retraced
      <3> QED
        BY <2>1, <3>1 DEF Playing
    <2>4. ViewInv'
      BY <1>1, <2>1, <2>2, <2>3 DEF ViewInv, Seeds
    <2> QED
      BY <1>1, <2>1, <2>4, LiveWaits DEF Inv
  <1> QED
    BY <1>2, <1>3, <1>4, <1>5, <1>6, <1>7, <1>8, <1>9 DEF ReplayNext

LEMMA Invariant == ReplaySpec => []Inv
  BY InitInv, NextInv, PTL DEF ReplaySpec

LEMMA RecordingWhole ==
  ASSUME Inv
  PROVE  ReplayInv
  <1> DEFINE s == live.session
  <1>1. /\ Regular(s) /\ Recorded(s, file, live.next)
        /\ s.tick \in Nat /\ s.tick = Len(s.history) /\ live.next \in 0 .. s.tick
    BY DEF Inv, LiveInv, Regular, Session, Recorded
  <1>2. /\ {file[i].tick : i \in Records} = 0 .. live.next - 1
        /\ \A i, j \in Records : i < j => file[i].tick < file[j].tick
        /\ file \in Seq(Chunks(s)) /\ DOMAIN file = 1 .. Len(file) /\ Len(file) \in Nat
    BY <1>1 DEF Recorded, InOrder, Records
  <1>3. ASSUME NEW i \in DOMAIN file, file[i] # Torn
        PROVE  \E t \in 0 .. s.tick - 1 : file[i] \in RecordsAt(s, t)
    BY <1>2, <1>3 DEF Chunks
  <1>4. ASSUME NEW i \in DOMAIN file, file[i] # Torn
        PROVE  file[i].tick \in 0 .. s.tick - 1 /\ file[i].dropped = DroppedAt(s, file[i].tick)
    <2>1. PICK t \in 0 .. s.tick - 1 : file[i] \in RecordsAt(s, t)
      BY <1>3, <1>4
    <2> QED
      BY <2>1, RecordFields
  <1>5. ASSUME NEW i \in Records, NEW j \in Records, i # j
        PROVE  file[i].dropped \cap file[j].dropped = {}
    <2>1. i \in DOMAIN file /\ j \in DOMAIN file /\ file[i] # Torn /\ file[j] # Torn
      BY DEF Records, Torn
    <2> DEFINE x == file[i].tick
               y == file[j].tick
    <2>2. /\ x \in 0 .. s.tick - 1 /\ y \in 0 .. s.tick - 1
          /\ file[i].dropped = DroppedAt(s, x) /\ file[j].dropped = DroppedAt(s, y)
      BY <1>4, <2>1
    <2>3. x < y \/ y < x
      <3>1. i < j \/ j < i
        BY <1>2, <1>5, <2>1
      <3> QED
        BY <1>2, <3>1
    <2> HIDE DEF x, y
    <2>4. x # y
      BY <1>1, <2>2, <2>3
    <2> QED
      BY <2>2, <2>4 DEF DroppedAt
  <1>6. ASSUME NEW i \in DOMAIN file, file[i] # Torn PROVE file[i].tick < s.tick
    BY <1>1, <1>4, <1>6
  <1>7. /\ view.session.tick = Len(view.session.history)
        /\ view.session.result \in {"none", "over", "defeat"}
        /\ view.at \in {"closed", "playing", "refused"}
    <2>1. CASE view.at = "playing"
      BY <2>1 DEF Inv, ViewInv, Playing, Retraced, Regular
    <2>2. CASE view.at # "playing"
      BY <2>2, Session0Regular DEF Inv, ViewInv, Regular
    <2> QED
      BY <2>1, <2>2 DEF Inv, ViewInv
  <1>8. RecordsInOrder
    BY <1>2 DEF RecordsInOrder
  <1> QED
    BY <1>1, <1>5, <1>6, <1>7, <1>8 DEF ReplayInv, ReplayTypeOK

LEMMA PlaybackRetraces ==
  ASSUME Inv
  PROVE  Retraces
  <1> SUFFICES ASSUME view.at = "playing" PROVE
        /\ IsPrefix(view.session.history, live.session.history)
        /\ \/ view.session.result = "none" \/ view.session.result = live.session.result
           \/ live.session.result = "defeat"
        /\ ~view.mismatch
    BY DEF Retraces
  <1> DEFINE s == view.session
             l == live.session
  <1>1. /\ Regular(s) /\ Judged(s) /\ s.result \in {"none", "over"} /\ Extends(s, l)
        /\ Regular(l) /\ Judged(l) /\ ~view.mismatch
    BY DEF Inv, ViewInv, Playing, Retraced, LiveInv
  <1>2. s.tick \in Nat /\ l.tick \in Nat /\ s.tick <= l.tick /\ Len(s.history) = s.tick /\ Len(l.history) = l.tick
    BY <1>1 DEF Regular, Session, Extends
  <1>3. \A i \in 1 .. s.tick : s.history[i] = l.history[i]
    <2> TAKE i \in 1 .. s.tick
    <2>1. i - 1 \in 0 .. s.tick - 1 /\ (i - 1) + 1 = i
      BY <1>2
    <2> QED
      BY <1>1, <2>1 DEF Extends
  <1>4. SubSeq(s.history, 1, s.tick) = SubSeq(l.history, 1, s.tick)
    BY <1>1, <1>2, <1>3, SamePrefix DEF Regular, Session
  <1>5. ASSUME s.result = "over" PROVE l.result = "over"
    <2>1. s.tick > 0 /\ s.tick - 1 \in 0 .. s.tick - 1
      BY <1>1, <1>2, <1>5 DEF Judged
    <2>2. Cardinality(LeftAt(s, s.tick - 1)) <= 1
      BY <1>1, <1>5, <2>1 DEF Judged
    <2>3. LeftAt(l, s.tick - 1) = LeftAt(s, s.tick - 1) /\ s.tick - 1 \in 0 .. l.tick - 1
      BY <1>1, <1>2, <2>1 DEF Extends
    <2> QED
      BY <1>1, <2>2, <2>3 DEF Judged
  <1>6. IsPrefix(s.history, l.history)
    BY <1>2, <1>4 DEF IsPrefix
  <1> QED
    BY <1>1, <1>5, <1>6

LEMMA PlaysAll ==
  ASSUME Inv
  PROVE  PlaysTheRecording
  <1>1. CASE view.at = "playing"
    <2>1. Playing
      BY <1>1 DEF Inv, ViewInv
    <2>2. /\ LastTick = Len(view.log) - 1 /\ Len(view.log) \in Nat /\ view.session.tick \in Nat
          /\ view.session.tick <= Len(view.log)
          /\ view.done => view.session.tick = Len(view.log)
          /\ view.blocked => view.done
      BY <2>1, ReadBack DEF Playing, Retraced, Regular, Session
    <2> QED
      BY <2>2 DEF PlaysTheRecording, NothingInvented, NoTickBlocks
  <1>2. CASE view.at # "playing"
    <2>1. view.session.tick = 0 /\ view.log = <<>> /\ ~view.done /\ ~view.blocked
      BY <1>2, Session0Regular DEF Inv, ViewInv
    <2>2. LastTick = -1
      BY <2>1 DEF LastTick
    <2> QED
      BY <2>1, <2>2 DEF PlaysTheRecording, NothingInvented, NoTickBlocks
  <1> QED
    BY <1>1, <1>2

\* The stream holds the first ticks of the game, each once and in turn, whatever
\* writes failed and wherever it was cut off (Recorder, record_input).
THEOREM RecordingIsWhole == ReplaySpec => []ReplayInv
  BY Invariant, RecordingWhole, PTL

\* Playback runs every tick with the players and the commands that the recorded
\* game ran it with, judges the game as it was judged, and finds no checksum that
\* differs (supply_replay_input, run_playback).
THEOREM PlaybackIsTrue == ReplaySpec => []Retraces
  BY Invariant, PlaybackRetraces, PTL

\* What is played is all of the recording and nothing else, and no tick of it
\* is held up for a player (replay_exhausted, supply_replay_input).
THEOREM PlaybackIsComplete == ReplaySpec => []PlaysTheRecording
  BY Invariant, PlaysAll, PTL

-----------------------------------------------------------------------------
(***************************************************************************)
(* DesyncTracker.                                                          *)
(***************************************************************************)

USE DesyncTrackerAssumption

\* The inductive invariant.
TrackerIInv == TypeOK /\ KeepsOwn /\ KeepsHeard

-----------------------------------------------------------------------------
(***************************************************************************)
(* The operators.                                                          *)
(***************************************************************************)

\* Sampled ticks are ticks of the game, before its bound.
LEMMA SampledTicks ==
  /\ Sampled \subseteq 0 .. MaxTick /\ Sampled \subseteq Nat
  /\ MaxTick \notin Sampled /\ Running \notin Sampled /\ Running \in Nat
  BY DEF Sampled, Running

\* The latest of some sampled ticks.
LEMMA LatestSampled ==
  ASSUME NEW S \in SUBSET Sampled, S # {}
  PROVE  Latest(S) \in S /\ \A t \in S : t <= Latest(S)
  <1>1. \E x \in S : \A y \in S : y <= x
    BY SampledTicks, GreatestBounded
  <1> QED
    BY <1>1 DEF Latest

\* The earliest of some sampled ticks.
LEMMA EarliestSampled ==
  ASSUME NEW S \in SUBSET Sampled, S # {}
  PROVE  Earliest(S) \in S
  <1>1. \E x \in S : \A y \in S : x <= y
    BY SampledTicks, LeastNatural
  <1> QED
    BY <1>1 DEF Earliest

\* prune_compared: the tick up to which both sides have reported.
LEMMA ComparedBound ==
  ASSUME NEW S \in SUBSET Sampled, NEW T \in SUBSET Sampled, S # {}, T # {}
  PROVE  /\ Compared(S, T) \in Sampled
         /\ Compared(S, T) <= Latest(S) /\ Compared(S, T) <= Latest(T)
         /\ Compared(S, T) \in {Latest(S), Latest(T)}
  <1>1. Latest(S) \in Sampled /\ Latest(T) \in Sampled
    BY LatestSampled
  <1>2. Latest(S) \in Nat /\ Latest(T) \in Nat
    BY <1>1, SampledTicks
  <1> QED
    BY <1>1, <1>2 DEF Compared

\* A node is in the group that its hash stands for.
LEMMA GroupOf ==
  ASSUME groups \in Partings, NEW n \in Node, NEW t \in Sampled
  PROVE  Hash(n, t) \in groups[t] /\ n \in Hash(n, t) /\ Hash(n, t) \subseteq Node
  <1>1. Divides(groups[t])
    BY DEF Partings
  <1>2. \E g \in groups[t] : n \in g
    BY <1>1 DEF Divides
  <1>3. Hash(n, t) \in groups[t] /\ n \in Hash(n, t)
    BY <1>2 DEF Hash
  <1> QED
    BY <1>1, <1>3 DEF Divides

\* Nodes with different hashes have no group in common.
LEMMA GroupsApart ==
  ASSUME groups \in Partings, NEW m \in Node, NEW n \in Node, NEW t \in Sampled,
         Hash(m, t) # Hash(n, t)
  PROVE  Hash(m, t) \cap Hash(n, t) = {}
  <1>1. Divides(groups[t])
    BY DEF Partings
  <1> QED
    BY <1>1, GroupOf DEF Divides

\* A node alone in its state has a hash of its own.
LEMMA HashesDiffer ==
  ASSUME groups \in Partings, NEW m \in Node, NEW n \in Node, m # n, NEW t \in Sampled,
         Alone(n, t)
  PROVE  Hash(m, t) # Hash(n, t)
  BY GroupOf DEF Alone

\* A node alone in its state stays so.
LEMMA AloneForGood ==
  ASSUME groups \in Partings, NEW n \in Node, NEW t \in Sampled, NEW u \in Sampled,
         t <= u, Alone(n, t)
  PROVE  Alone(n, u)
  <1>1. Hash(n, u) \in groups[u] /\ n \in Hash(n, u) /\ Divides(groups[t])
    BY GroupOf DEF Partings
  <1>2. PICK g \in groups[t] : Hash(n, u) \subseteq g
    BY <1>1 DEF Partings
  <1>3. g = Hash(n, t)
    BY <1>1, <1>2, GroupOf DEF Divides
  <1> QED
    BY <1>1, <1>2, <1>3 DEF Alone

-----------------------------------------------------------------------------
(***************************************************************************)
(* What a step does to the ticks hashed.                                   *)
(***************************************************************************)

\* What net_checksum compares at a step of node n.
Samples(n) == tick[n] % Interval = 0
New(n) == IF Samples(n) THEN {tick[n]} ELSE {}
HashedNow(n) == local[n] \cup New(n)
Heard(n) == {h.tick : h \in peer[n]}
Survives(n, t) ==
  HashedNow(n) = {} \/ Heard(n) = {} \/ t > Compared(HashedNow(n), Heard(n))
HashOf(n) == [player |-> n, tick |-> tick[n], hash |-> Hash(n, tick[n])]

\* The tick sampled now is one the node had not hashed.
LEMMA NewTick ==
  ASSUME TypeOK, NEW n \in Node
  PROVE  /\ New(n) \subseteq Sampled /\ Heard(n) \subseteq Sampled
         /\ HashedNow(n) \subseteq Sampled
         /\ ~blocked[n] => New(n) \cap HashedBy(n) = {}
         /\ HashedBy(n) \subseteq Sampled
  <1>1. tick[n] \in 0 .. MaxTick /\ tick[n] \in Nat
    BY DEF TypeOK
  <1>2. New(n) \subseteq Sampled
    BY <1>1 DEF New, Samples, Sampled
  <1>3. Heard(n) \subseteq Sampled
    BY DEF Heard, TypeOK, Report
  <1>4. HashedNow(n) \subseteq Sampled
    BY <1>2 DEF HashedNow, TypeOK
  <1>5. ~blocked[n] => New(n) \cap HashedBy(n) = {}
    BY <1>1 DEF New, HashedBy
  <1> QED
    BY <1>2, <1>3, <1>4, <1>5 DEF HashedBy

\* A step leaves the ticks hashed as they were, or adds the one sampled; that of
\* a session that ends over it adds nothing.
LEMMA StepHashed ==
  ASSUME TypeOK, NEW n \in Node, NEW ready \in BOOLEAN, Step(n, ready)
  PROVE  /\ \A m \in Node \ {n} : HashedBy(m)' = HashedBy(m)
         /\ blocked[n] => HashedBy(n)' = HashedBy(n)
         /\ ~blocked[n] /\ Active(n)' => HashedBy(n)' = HashedBy(n) \cup New(n)
         /\ ~blocked[n] /\ ~Active(n)' => HashedBy(n)' = HashedBy(n)
         /\ tick' \in [Node -> 0 .. MaxTick] /\ blocked' \in [Node -> BOOLEAN]
         /\ tick[n] <= tick'[n] /\ \A m \in Node \ {n} : tick'[m] = tick[m]
  <1>1. /\ tick \in [Node -> 0 .. MaxTick] /\ blocked \in [Node -> BOOLEAN]
        /\ tick[n] \in 0 .. MaxTick /\ blocked[n] \in BOOLEAN
    BY DEF TypeOK
  <1>2. Execute(n, ready)
    BY DEF Step
  <1>3. CASE UNCHANGED <<tick, blocked>> /\ (ended'[n] # Running \/ tick[n] = MaxTick)
    <2>1. \A m \in Node : HashedBy(m)' = HashedBy(m)
      BY <1>3 DEF HashedBy, Sampled
    <2>2. ended'[n] = Running => New(n) = {}
      BY <1>3, SampledTicks, NewTick DEF New
    <2> QED
      BY <1>1, <1>3, <2>1, <2>2 DEF Active
  <1>4. CASE ended'[n] = Running /\ tick[n] # MaxTick
    <2>1. /\ tick' = IF ready THEN [tick EXCEPT ![n] = @ + 1] ELSE tick
          /\ blocked' = [blocked EXCEPT ![n] = ~ready]
      BY <1>2, <1>4 DEF Execute
    <2>2. tick'[n] = (IF ready THEN tick[n] + 1 ELSE tick[n]) /\ blocked'[n] = ~ready
      BY <1>1, <2>1
    <2>3. /\ \A m \in Node \ {n} : tick'[m] = tick[m] /\ blocked'[m] = blocked[m]
          /\ tick' \in [Node -> 0 .. MaxTick] /\ blocked' \in [Node -> BOOLEAN]
      BY <1>1, <1>4, <2>1
    <2>4. ASSUME NEW t \in Sampled
          PROVE  t \in HashedBy(n)' <=> t \in HashedBy(n) \/ t = tick[n]
      <3>1. t \in Nat /\ tick[n] \in Nat
        BY <1>1, SampledTicks
      <3>2. t \in HashedBy(n)' <=> t < tick'[n] \/ (t = tick'[n] /\ blocked'[n])
        BY DEF HashedBy, Sampled
      <3>3. t \in HashedBy(n) <=> t < tick[n] \/ (t = tick[n] /\ blocked[n])
        BY DEF HashedBy
      <3>4. CASE ready
        <4>1. ~blocked'[n]
          BY <2>2, <3>4, Zenon
        <4>2. tick'[n] = tick[n] + 1
          BY <2>2, <3>4
        <4> QED
          BY <3>1, <3>2, <3>3, <4>1, <4>2
      <3>5. CASE ~ready
        BY <2>2, <3>1, <3>2, <3>3, <3>5
      <3> QED
        BY <3>4, <3>5
    <2>5. tick[n] \in Sampled <=> Samples(n)
      BY <1>1 DEF Samples, Sampled
    <2>6. HashedBy(n)' \subseteq Sampled /\ HashedBy(n) \subseteq Sampled
      BY DEF HashedBy, Sampled
    <2>7. blocked[n] /\ Samples(n) => tick[n] \in HashedBy(n)
      BY <2>5 DEF HashedBy
    <2>8. HashedBy(n)' = HashedBy(n) \cup New(n)
      BY <2>4, <2>5, <2>6 DEF New
    <2>9. blocked[n] => HashedBy(n)' = HashedBy(n)
      BY <2>7, <2>8 DEF New
    <2>10. \A m \in Node \ {n} : HashedBy(m)' = HashedBy(m)
      BY <2>3 DEF HashedBy, Sampled
    <2> QED
      BY <1>1, <1>4, <2>2, <2>3, <2>8, <2>9, <2>10 DEF Active
  <1> QED
    BY <1>2, <1>3, <1>4 DEF Execute

-----------------------------------------------------------------------------
(***************************************************************************)
(* Types.                                                                  *)
(***************************************************************************)

\* What net_checksum does: the session ends over the first mismatch, or what
\* both sides have reported is pruned.
LEMMA ChecksumEffect ==
  ASSUME TypeOK, NEW n \in Node, Checksum(n)
  PROVE  /\ air' = IF Samples(n)
                   THEN [m \in Node |-> IF m # n /\ Active(m) THEN air[m] \cup {HashOf(n)}
                                                              ELSE air[m]]
                   ELSE air
         /\ \/ /\ Mismatches(n, HashedNow(n)) # {}
               /\ ended' = [ended EXCEPT ![n] = Earliest(Mismatches(n, HashedNow(n)))]
               /\ local' = [local EXCEPT ![n] = HashedNow(n)]
               /\ UNCHANGED peer
            \/ /\ Mismatches(n, HashedNow(n)) = {}
               /\ local' = [local EXCEPT ![n] = {t \in HashedNow(n) : Survives(n, t)}]
               /\ peer' = [peer EXCEPT ![n] = {h \in @ : Survives(n, h.tick)}]
               /\ UNCHANGED ended
  BY Zenon DEF Checksum, Samples, HashedNow, New, HashOf, Survives, Heard

\* Types survive the step of a node.
LEMMA TypedStep ==
  ASSUME TypeOK, NEW n \in Node, NEW ready \in BOOLEAN, Step(n, ready)
  PROVE  TypeOK'
  <1>1. /\ UNCHANGED groups
        /\ tick' \in [Node -> 0 .. MaxTick] /\ blocked' \in [Node -> BOOLEAN]
        /\ \A m \in Node : tick[m] \in Nat /\ tick'[m] \in Nat /\ tick[m] <= tick'[m]
    <2>1. \A m \in Node : tick[m] \in Nat
      BY DEF TypeOK
    <2>2. tick' \in [Node -> 0 .. MaxTick] /\ blocked' \in [Node -> BOOLEAN]
      BY StepHashed
    <2>3. \A m \in Node : tick[m] <= tick'[m]
      <3>1. tick[n] <= tick'[n] /\ \A m \in Node \ {n} : tick'[m] = tick[m]
        BY StepHashed
      <3> QED
        BY <2>1, <3>1
    <2> QED
      BY <2>1, <2>2, <2>3 DEF Step
  <1>2. \A m, t : Hash(m, t)' = Hash(m, t)
    BY <1>1 DEF Hash
  <1>3. CASE blocked[n]
    <2>1. UNCHANGED <<local, peer, air, ended>>
      BY <1>3 DEF Step
    <2>2. \A m \in Node : \A t \in local'[m] : t <= tick'[m]
      <3>1. \A m \in Node : \A t \in local'[m] : t \in Nat /\ t <= tick[m]
        BY <2>1, SampledTicks DEF TypeOK
      <3> QED
        BY <1>1, <3>1
    <2> QED
      BY <1>1, <1>2, <2>1, <2>2 DEF TypeOK
  <1>4. CASE ~blocked[n]
    <2>1. Checksum(n)
      BY <1>4 DEF Step
    <2>2. Active(n) /\ HashedNow(n) \subseteq Sampled /\ tick[n] \in 0 .. MaxTick
      BY NewTick DEF Step, TypeOK
    <2>3. \A t \in HashedNow(n) : t <= tick[n]
      BY <2>2 DEF HashedNow, New, TypeOK
    <2>4. /\ air' \in [Node -> SUBSET Report]
          /\ \A m \in Node : \A h \in air'[m] : h.player # m /\ h.hash = Hash(h.player, h.tick)
      <3>1. CASE Samples(n)
        <4>1. air' = [m \in Node |-> IF m # n /\ Active(m) THEN air[m] \cup {HashOf(n)} ELSE air[m]]
          BY <2>1, <3>1, ChecksumEffect
        <4>2. tick[n] \in Sampled
          BY <2>2, <3>1 DEF Samples, Sampled
        <4>3. Hash(n, tick[n]) \subseteq Node
          BY <4>2, GroupOf DEF TypeOK
        <4>4. HashOf(n) \in Report /\ HashOf(n).player = n /\ HashOf(n).hash = Hash(n, HashOf(n).tick)
          BY <4>2, <4>3 DEF HashOf, Report
        <4>5. \A m \in Node : air[m] \subseteq Report
          BY DEF TypeOK
        <4>6. \A m \in Node : \A h \in air[m] : h.player # m /\ h.hash = Hash(h.player, h.tick)
          BY DEF TypeOK
        <4>7. \A m \in Node : air'[m] \subseteq air[m] \cup IF m = n THEN {} ELSE {HashOf(n)}
          BY <4>1
        <4>8. air' \in [Node -> SUBSET Report]
          BY <4>1, <4>4, <4>5
        <4> QED
          BY <4>4, <4>6, <4>7, <4>8
      <3>2. CASE ~Samples(n)
        BY <2>1, <3>2, ChecksumEffect DEF TypeOK
      <3> QED
        BY <3>1, <3>2
    <2>5. CASE /\ Mismatches(n, HashedNow(n)) # {}
               /\ ended' = [ended EXCEPT ![n] = Earliest(Mismatches(n, HashedNow(n)))]
               /\ local' = [local EXCEPT ![n] = HashedNow(n)]
               /\ UNCHANGED peer
      <3>1. Mismatches(n, HashedNow(n)) \subseteq HashedNow(n)
        BY DEF Mismatches
      <3>2. Earliest(Mismatches(n, HashedNow(n))) \in HashedNow(n)
        BY <2>2, <2>5, <3>1, EarliestSampled
      <3>3. local' \in [Node -> SUBSET Sampled] /\ ended' \in [Node -> Sampled \cup {Running}]
        BY <2>2, <2>5, <3>2 DEF TypeOK
      <3>4. \A m \in Node : ended'[m] \in local'[m] \cup {Running}
        BY <2>5, <3>2 DEF TypeOK
      <3>5. \A m \in Node : \A t \in local'[m] : t <= tick'[m]
        <4>1. \A m \in Node : \A t \in local'[m] : t \in Nat /\ t <= tick[m]
          BY <2>3, <2>5, <3>3, SampledTicks DEF TypeOK
        <4> QED
          BY <1>1, <4>1
      <3> QED
        BY <1>1, <1>2, <2>4, <2>5, <3>3, <3>4, <3>5 DEF TypeOK
    <2>6. CASE /\ local' = [local EXCEPT ![n] = {t \in HashedNow(n) : Survives(n, t)}]
               /\ peer' = [peer EXCEPT ![n] = {h \in @ : Survives(n, h.tick)}]
               /\ UNCHANGED ended
      <3>1. /\ local' \in [Node -> SUBSET Sampled] /\ peer' \in [Node -> SUBSET Report]
            /\ \A m \in Node : peer'[m] \subseteq peer[m]
            /\ \A m \in Node \ {n} : local'[m] = local[m]
            /\ local'[n] \subseteq HashedNow(n)
        BY <2>2, <2>6 DEF TypeOK
      <3>2. \A m \in Node : ended'[m] \in local'[m] \cup {Running}
        BY <2>2, <2>6, <3>1 DEF TypeOK, Active
      <3>3. \A m \in Node : \A t \in local'[m] : t <= tick'[m]
        <4>1. \A m \in Node : \A t \in local'[m] : t \in Nat /\ t <= tick[m]
          BY <2>3, <3>1, SampledTicks DEF TypeOK
        <4> QED
          BY <1>1, <4>1
      <3> QED
        BY <1>1, <1>2, <2>4, <2>6, <3>1, <3>2, <3>3 DEF TypeOK
    <2> QED
      BY <2>1, <2>5, <2>6, ChecksumEffect
  <1> QED
    BY <1>3, <1>4

\* Types survive the arrival of a hash, which replaces one of the same tick.
LEMMA TypedReceive ==
  ASSUME TypeOK, NEW n \in Node, NEW sum \in air[n], Receive(n, sum)
  PROVE  TypeOK'
  <1>1. \A m, t : Hash(m, t)' = Hash(m, t)
    BY DEF Hash, Receive
  <1>2. /\ peer' \in [Node -> SUBSET Report] /\ air' \in [Node -> SUBSET Report]
        /\ \A m \in Node : air'[m] \subseteq air[m]
        /\ \A m \in Node \ {n} : peer'[m] = peer[m]
        /\ peer'[n] = {h \in peer[n] : <<h.player, h.tick>> # <<sum.player, sum.tick>>}
                         \cup {sum}
    BY DEF Receive, TypeOK
  <1>3. \A m \in Node : peer'[m] \cup air'[m] \subseteq peer[m] \cup air[m]
    BY <1>2
  <1>4. \A m \in Node : \A g, h \in peer'[m] : g.player = h.player /\ g.tick = h.tick => g = h
    BY <1>2 DEF TypeOK
  <1>5. UNCHANGED <<groups, tick, blocked, local, ended>>
    BY DEF Receive
  <1> QED
    BY <1>1, <1>2, <1>3, <1>4, <1>5 DEF TypeOK

\* Every state reached is typed.
LEMMA InitTyped == Init => TypeOK
  <1> SUFFICES ASSUME Init PROVE TypeOK
    OBVIOUS
  <1>1. 0 \in 0 .. MaxTick
    OBVIOUS
  <1> QED
    BY <1>1 DEF Init, TypeOK

LEMMA NextTyped == TypeOK /\ [Next]_vars => TypeOK'
  <1> SUFFICES ASSUME TypeOK, [Next]_vars PROVE TypeOK'
    OBVIOUS
  <1>1. CASE \E n \in Node, ready \in BOOLEAN : Step(n, ready)
    BY <1>1, TypedStep
  <1>2. CASE \E n \in Node : \E sum \in air[n] : Receive(n, sum)
    BY <1>2, TypedReceive
  <1>3. CASE UNCHANGED vars
    BY <1>3 DEF vars, TypeOK, Hash
  <1> QED
    BY <1>1, <1>2, <1>3 DEF Next

-----------------------------------------------------------------------------
(***************************************************************************)
(* What pruning may forget.                                                *)
(***************************************************************************)

\* A hash has come of a later tick than any node n has hashed.
Ahead(n) == \E h \in peer[n] : \A u \in HashedBy(n) : u < h.tick

\* Up to its tick: what a node that is not blocked has hashed once it samples.
LEMMA HashedUpToTick ==
  ASSUME TypeOK, NEW n \in Node
  PROVE  /\ HashedBy(n) \cup New(n) = {t \in Sampled : t <= tick[n]}
         /\ HashedNow(n) \subseteq HashedBy(n) \cup New(n)
  <1>1. tick[n] \in 0 .. MaxTick /\ tick[n] \in Nat /\ \A t \in local[n] : t <= tick[n]
    BY DEF TypeOK
  <1>2. \A t \in Sampled : t \in Nat
    BY SampledTicks
  <1>3. tick[n] \in Sampled <=> Samples(n)
    BY <1>1 DEF Samples, Sampled
  <1>4. \A t \in Sampled : t \in HashedBy(n) \cup New(n) <=> t <= tick[n]
    BY <1>1, <1>2, <1>3 DEF HashedBy, New
  <1>5. HashedBy(n) \cup New(n) \subseteq Sampled /\ HashedNow(n) \subseteq Sampled
    BY NewTick
  <1>6. \A t \in HashedNow(n) : t <= tick[n]
    BY <1>1 DEF HashedNow, New
  <1> QED
    BY <1>4, <1>5, <1>6

\* No tick is compared and found right on which the node is alone in its state.
LEMMA ComparedAlone ==
  ASSUME TypeOK, NEW n \in Node, Mismatches(n, HashedNow(n)) = {},
         NEW h \in peer[n], h.tick \in HashedNow(n), Alone(n, h.tick)
  PROVE  FALSE
  <1>1. h.hash = Hash(n, h.tick)
    BY DEF Mismatches
  <1>2. /\ groups \in Partings /\ h.player # n /\ h.hash = Hash(h.player, h.tick)
        /\ h.player \in Node /\ h.tick \in Sampled
    BY DEF TypeOK, Report
  <1> QED
    BY <1>1, <1>2, HashesDiffer

\* A hash of a tick the node has still to enter is not pruned.
LEMMA LaterSurvives ==
  ASSUME TypeOK, NEW n \in Node, NEW t \in Sampled, ~(t <= tick[n])
  PROVE  Survives(n, t)
  <1> SUFFICES ASSUME HashedNow(n) # {}, Heard(n) # {}
               PROVE  t > Compared(HashedNow(n), Heard(n))
    BY DEF Survives
  <1>1. HashedNow(n) \subseteq Sampled /\ Heard(n) \subseteq Sampled
    BY NewTick
  <1>2. /\ Compared(HashedNow(n), Heard(n)) \in Sampled
        /\ Compared(HashedNow(n), Heard(n)) <= Latest(HashedNow(n))
    BY <1>1, ComparedBound
  <1>3. Latest(HashedNow(n)) \in HashedNow(n)
    BY <1>1, LatestSampled
  <1>4. Latest(HashedNow(n)) \in Sampled /\ Latest(HashedNow(n)) <= tick[n]
    BY <1>3, HashedUpToTick
  <1>5. /\ tick[n] \in Nat /\ t \in Nat /\ Latest(HashedNow(n)) \in Nat
        /\ Compared(HashedNow(n), Heard(n)) \in Nat
    BY <1>2, <1>4, SampledTicks DEF TypeOK
  <1> QED
    BY <1>2, <1>4, <1>5

\* What is pruned has been heard of, or something later has.
LEMMA PrunedBound ==
  ASSUME TypeOK, NEW n \in Node, NEW t \in Sampled, ~Survives(n, t)
  PROVE  \E h \in peer[n] : t <= h.tick
  <1>1. /\ HashedNow(n) # {} /\ Heard(n) # {}
        /\ ~(t > Compared(HashedNow(n), Heard(n)))
    BY DEF Survives
  <1>2. HashedNow(n) \subseteq Sampled /\ Heard(n) \subseteq Sampled
    BY NewTick
  <1>3. /\ Compared(HashedNow(n), Heard(n)) \in Sampled
        /\ Compared(HashedNow(n), Heard(n)) <= Latest(Heard(n))
    BY <1>1, <1>2, ComparedBound
  <1>4. Latest(Heard(n)) \in Heard(n)
    BY <1>1, <1>2, LatestSampled
  <1>5. /\ t \in Nat /\ Compared(HashedNow(n), Heard(n)) \in Nat
        /\ Latest(Heard(n)) \in Nat
    BY <1>2, <1>3, <1>4, SampledTicks
  <1>6. t <= Latest(Heard(n))
    BY <1>1, <1>3, <1>5
  <1> QED
    BY <1>4, <1>6 DEF Heard

\* A node alone in its state keeps what it still has to compare through a step of its own.
LEMMA OwnKeptByStep ==
  ASSUME TypeOK, NEW n \in Node, NEW ready \in BOOLEAN, Step(n, ready),
         ~blocked[n], Active(n)',
         \A t \in HashedBy(n) : Alone(n, t) => t \in local[n] \/ Ahead(n),
         NEW t \in HashedBy(n)', Alone(n, t)
  PROVE  t \in local'[n] \/ Ahead(n)'
  <1>1. /\ groups \in Partings /\ HashedBy(n)' = HashedBy(n) \cup New(n)
        /\ HashedBy(n)' = {u \in Sampled : u <= tick[n]}
        /\ Active(n) /\ Checksum(n)
    BY StepHashed, HashedUpToTick DEF Step, TypeOK
  <1>2. /\ Mismatches(n, HashedNow(n)) = {}
        /\ local'[n] = {u \in HashedNow(n) : Survives(n, u)}
        /\ peer'[n] = {h \in peer[n] : Survives(n, h.tick)}
    <2>1. ASSUME Mismatches(n, HashedNow(n)) # {},
                 ended' = [ended EXCEPT ![n] = Earliest(Mismatches(n, HashedNow(n)))]
          PROVE  FALSE
      <3>1. Mismatches(n, HashedNow(n)) \subseteq Sampled
        BY NewTick DEF Mismatches
      <3>2. ended'[n] \in Sampled
        BY <2>1, <3>1, EarliestSampled DEF TypeOK
      <3> QED
        BY <3>2, SampledTicks DEF Active
    <2> QED
      BY <1>1, <2>1, ChecksumEffect DEF TypeOK
  <1>3. /\ t \in Sampled /\ t \in Nat /\ tick[n] \in Nat /\ t <= tick[n]
        /\ \A h \in peer[n] : h.tick \in Sampled /\ h.tick \in Nat
    <2>1. t \in Sampled /\ t <= tick[n]
      BY <1>1
    <2>2. \A h \in peer[n] : h.tick \in Sampled
      BY DEF TypeOK, Report
    <2> QED
      BY <2>1, <2>2, SampledTicks DEF TypeOK
  <1>4. ASSUME NEW h \in peer[n], ~(h.tick <= tick[n]) PROVE Ahead(n)'
    <2>1. h \in peer'[n]
      BY <1>2, <1>3, <1>4, LaterSurvives
    <2>2. \A u \in HashedBy(n)' : u < h.tick
      BY <1>1, <1>3, <1>4, SampledTicks
    <2> QED
      BY <2>1, <2>2 DEF Ahead
  <1>5. CASE Ahead(n)
    <2>1. PICK h \in peer[n] : \A u \in HashedBy(n) : u < h.tick
      BY <1>5 DEF Ahead
    <2>2. ASSUME h.tick <= tick[n] PROVE FALSE
      <3>1. h.tick \in HashedBy(n) \cup New(n)
        BY <1>1, <1>3, <2>2
      <3>2. h.tick \in New(n) /\ h.tick = tick[n]
        BY <1>3, <2>1, <3>1 DEF New
      <3>3. Alone(n, h.tick)
        BY <1>1, <1>3, <3>2, AloneForGood
      <3> QED
        BY <1>2, <3>2, <3>3, ComparedAlone DEF HashedNow
    <2> QED
      BY <1>4, <2>2
  <1>6. CASE ~Ahead(n)
    <2>1. \A u \in HashedBy(n) \cup New(n) : Alone(n, u) => u \in HashedNow(n)
      BY <1>6 DEF HashedNow
    <2>2. CASE Survives(n, t)
      BY <1>1, <1>2, <2>1, <2>2
    <2>3. CASE ~Survives(n, t)
      <3>1. PICK h \in peer[n] : t <= h.tick
        BY <1>3, <2>3, PrunedBound
      <3>2. Alone(n, h.tick)
        BY <1>1, <1>3, <3>1, AloneForGood
      <3>3. CASE h.tick <= tick[n]
        <4>1. h.tick \in HashedNow(n)
          BY <1>1, <1>3, <2>1, <3>2, <3>3
        <4> QED
          BY <1>2, <3>2, <4>1, ComparedAlone
      <3> QED
        BY <1>4, <3>3
    <2> QED
      BY <2>2, <2>3
  <1> QED
    BY <1>5, <1>6

\* It keeps what it has heard along with its own.
LEMMA HeardKeptByStep ==
  ASSUME TypeOK, NEW n \in Node, NEW ready \in BOOLEAN, Step(n, ready),
         ~blocked[n], Active(n)',
         NEW h \in peer[n]
  PROVE  h \in peer'[n] \/ h.tick \in HashedBy(n)' \ local'[n]
  <1>1. /\ HashedBy(n)' = {u \in Sampled : u <= tick[n]} /\ Checksum(n)
        /\ h.tick \in Sampled
    BY StepHashed, HashedUpToTick DEF Step, TypeOK, Report
  <1>2. CASE Survives(n, h.tick)
    BY <1>1, <1>2, ChecksumEffect DEF TypeOK
  <1>3. CASE ~Survives(n, h.tick)
    <2>1. h.tick <= tick[n]
      BY <1>1, <1>3, LaterSurvives
    <2>2. h \in peer'[n] \/ h.tick \notin local'[n]
      BY <1>1, <1>3, ChecksumEffect DEF TypeOK
    <2> QED
      BY <1>1, <2>1, <2>2
  <1> QED
    BY <1>2, <1>3

\* A tick hashed and forgotten is not hashed again.
LEMMA ForgottenByStep ==
  ASSUME TypeOK, NEW n \in Node, NEW ready \in BOOLEAN, Step(n, ready),
         ~blocked[n], Active(n)',
         NEW t \in HashedBy(n) \ local[n]
  PROVE  t \in HashedBy(n)' \ local'[n]
  <1>1. t \in HashedBy(n)' /\ t \notin New(n) /\ Checksum(n)
    BY StepHashed, NewTick DEF Step
  <1>2. local'[n] \subseteq HashedNow(n)
    BY <1>1, ChecksumEffect DEF TypeOK
  <1> QED
    BY <1>1, <1>2 DEF HashedNow

\* A session ends over its own comparison only.
LEMMA EndsAlone ==
  ASSUME TypeOK, NEW k \in Node, NEW ready \in BOOLEAN, Step(k, ready),
         NEW n \in Node \ {k}
  PROVE  ended'[n] = ended[n]
  <1>1. CASE blocked[k]
    BY <1>1 DEF Step
  <1>2. CASE ~blocked[k]
    <2>1. Checksum(k)
      BY <1>2 DEF Step
    <2> QED
      BY <2>1, ChecksumEffect DEF TypeOK
  <1> QED
    BY <1>1, <1>2

\* A step of a node sends the hash it samples to every other node that plays on.
LEMMA SentByStep ==
  ASSUME TypeOK, NEW k \in Node, NEW ready \in BOOLEAN, Step(k, ready),
         NEW n \in Node \ {k}, Active(n)
  PROVE  /\ air[n] \subseteq air'[n] /\ UNCHANGED <<local[n], peer[n], ended[n]>>
         /\ HashedBy(n)' = HashedBy(n)
         /\ \A t \in HashedBy(k)' \ HashedBy(k) :
              \E h \in air'[n] : h.player = k /\ h.tick = t
  <1>1. HashedBy(n)' = HashedBy(n)
    BY StepHashed
  <1>2. CASE blocked[k]
    <2>1. UNCHANGED <<local, peer, air, ended>> /\ HashedBy(k)' = HashedBy(k)
      BY <1>2, StepHashed DEF Step
    <2> QED
      BY <1>1, <2>1
  <1>3. CASE ~blocked[k]
    <2>1. Checksum(k)
      BY <1>3 DEF Step
    <2>2. UNCHANGED <<local[n], peer[n], ended[n]>>
      BY <2>1, ChecksumEffect DEF TypeOK
    <2>3. air[n] \subseteq air'[n] /\ (Samples(k) => HashOf(k) \in air'[n])
      BY <2>1, ChecksumEffect
    <2>4. HashedBy(k)' \ HashedBy(k) \subseteq New(k)
      BY <1>3, StepHashed
    <2>5. \A t \in New(k) : Samples(k) /\ HashOf(k).player = k /\ HashOf(k).tick = t
      BY DEF New, HashOf
    <2> QED
      BY <1>1, <2>2, <2>3, <2>4, <2>5
  <1> QED
    BY <1>2, <1>3

\* Own hashes are kept, whatever happens.
LEMMA NextKeepsOwn == TrackerIInv /\ [Next]_vars => KeepsOwn'
  <1> SUFFICES ASSUME TrackerIInv, [Next]_vars, NEW n \in Node, Active(n)',
                      NEW t \in HashedBy(n)', Alone(n, t)'
               PROVE  t \in local'[n] \/ Ahead(n)'
    BY DEF KeepsOwn, Ahead
  <1>0. UNCHANGED groups /\ Alone(n, t)
    BY DEF Next, Step, Receive, vars, Alone, Hash
  <1>1. TypeOK /\ (Active(n) => \A u \in HashedBy(n) : Alone(n, u) =>
                                  u \in local[n] \/ Ahead(n))
    BY DEF TrackerIInv, KeepsOwn, Ahead
  <1>2. ASSUME NEW ready \in BOOLEAN, Step(n, ready)
        PROVE  t \in local'[n] \/ Ahead(n)'
    <2>1. Active(n)
      BY <1>2 DEF Step
    <2>2. CASE blocked[n]
      <3>1. UNCHANGED <<local, peer>> /\ HashedBy(n)' = HashedBy(n)
        BY <1>0, <1>1, <1>2, <2>2, StepHashed DEF Step
      <3> QED
        BY <1>0, <1>1, <2>1, <3>1 DEF Ahead
    <2>3. CASE ~blocked[n]
      BY <1>0, <1>1, <1>2, <2>1, <2>3, OwnKeptByStep
    <2> QED
      BY <2>2, <2>3
  <1>3. ASSUME NEW k \in Node \ {n}, NEW ready \in BOOLEAN, Step(k, ready)
        PROVE  t \in local'[n] \/ Ahead(n)'
    <2>1. HashedBy(n)' = HashedBy(n)
      BY <1>0, <1>1, <1>3, StepHashed DEF Step
    <2>2. Active(n)
      BY <1>0, <1>1, <1>3, EndsAlone DEF Active
    <2>3. UNCHANGED <<local[n], peer[n]>>
      BY <1>0, <1>1, <1>3, <2>2, SentByStep
    <2> QED
      BY <1>0, <1>1, <2>1, <2>2, <2>3 DEF Ahead
  <1>4. ASSUME NEW k \in Node, NEW sum \in air[k], Receive(k, sum)
        PROVE  t \in local'[n] \/ Ahead(n)'
    <2>1. /\ Active(n) /\ local' = local
          /\ HashedBy(n)' = HashedBy(n)
      BY <1>4 DEF Receive, Active, HashedBy, Sampled
    <2>2. \A h \in peer[n] : \E g \in peer'[n] : g.tick = h.tick
      BY <1>0, <1>1, <1>4 DEF Receive, TypeOK
    <2> QED
      BY <1>0, <1>1, <2>1, <2>2 DEF Ahead
  <1>5. CASE UNCHANGED vars
    BY <1>0, <1>1, <1>5 DEF vars, Active, HashedBy, Ahead, Sampled
  <1> QED
    BY <1>2, <1>3, <1>4, <1>5 DEF Next

\* So is what has been sent.
LEMMA NextKeepsHeard == TrackerIInv /\ [Next]_vars => KeepsHeard'
  <1> DEFINE HeardOrHashed(n, m, t) == \/ \E h \in air[n] \cup peer[n] : h.player = m /\ h.tick = t
                             \/ t \in HashedBy(n) \ local[n]
  <1> SUFFICES ASSUME TrackerIInv, [Next]_vars, NEW n \in Node, Active(n)', NEW m \in Node \ {n},
                      NEW t \in HashedBy(m)', Alone(n, t)'
               PROVE  HeardOrHashed(n, m, t)'
    BY DEF KeepsHeard
  <1>0. UNCHANGED groups /\ Alone(n, t)
    BY DEF Next, Step, Receive, vars, Alone, Hash
  <1>1. TypeOK /\ (Active(n) => \A u \in HashedBy(m) : Alone(n, u) => HeardOrHashed(n, m, u))
    BY DEF TrackerIInv, KeepsHeard
  <1>2. ASSUME NEW ready \in BOOLEAN, Step(n, ready) PROVE HeardOrHashed(n, m, t)'
    <2>1. /\ Active(n) /\ HashedBy(m)' = HashedBy(m)
          /\ HeardOrHashed(n, m, t)
      BY <1>0, <1>1, <1>2, StepHashed DEF Step
    <2>2. CASE blocked[n]
      <3>1. UNCHANGED <<local, peer, air>> /\ HashedBy(n)' = HashedBy(n)
        BY <1>0, <1>1, <1>2, <2>2, StepHashed DEF Step
      <3> QED
        BY <2>1, <3>1
    <2>3. CASE ~blocked[n]
      <3>1. air[n] \subseteq air'[n]
        <4>1. Checksum(n)
          BY <1>2, <2>3 DEF Step
        <4> QED
          BY <1>0, <1>1, <4>1, ChecksumEffect DEF TypeOK
      <3>2. CASE \E h \in air[n] : h.player = m /\ h.tick = t
        BY <3>1, <3>2
      <3>3. CASE \E h \in peer[n] : h.player = m /\ h.tick = t
        BY <1>0, <1>1, <1>2, <2>3, <3>3, HeardKeptByStep
      <3>4. CASE t \in HashedBy(n) \ local[n]
        BY <1>0, <1>1, <1>2, <2>3, <3>4, ForgottenByStep
      <3> QED
        BY <2>1, <3>2, <3>3, <3>4
    <2> QED
      BY <2>2, <2>3
  <1>3. ASSUME NEW k \in Node \ {n}, NEW ready \in BOOLEAN, Step(k, ready)
        PROVE  HeardOrHashed(n, m, t)'
    <2>1. Active(n)
      BY <1>0, <1>1, <1>3, EndsAlone DEF Active, Step
    <2>2. /\ air[n] \subseteq air'[n] /\ UNCHANGED <<local[n], peer[n]>>
          /\ HashedBy(n)' = HashedBy(n)
      BY <1>0, <1>1, <1>3, <2>1, SentByStep
    <2>3. CASE t \in HashedBy(m)
      BY <1>0, <1>1, <2>1, <2>2, <2>3
    <2>4. CASE t \notin HashedBy(m)
      <3>1. m = k
        BY <1>0, <1>1, <1>3, <2>4, StepHashed
      <3>2. \E h \in air'[n] : h.player = m /\ h.tick = t
        BY <1>0, <1>1, <1>3, <2>1, <2>4, <3>1, SentByStep
      <3> QED
        BY <3>2
    <2> QED
      BY <2>3, <2>4
  <1>4. ASSUME NEW k \in Node, NEW sum \in air[k], Receive(k, sum)
        PROVE  HeardOrHashed(n, m, t)'
    <2>1. /\ Active(n) /\ local' = local
          /\ HashedBy(n)' = HashedBy(n) /\ HashedBy(m)' = HashedBy(m)
      BY <1>4 DEF Receive, Active, HashedBy, Sampled
    <2>2. \A h \in air[n] \cup peer[n] : \E g \in air'[n] \cup peer'[n] :
            g.player = h.player /\ g.tick = h.tick
      BY <1>0, <1>1, <1>4 DEF Receive, TypeOK
    <2> QED
      BY <1>0, <1>1, <2>1, <2>2
  <1>5. CASE UNCHANGED vars
    BY <1>0, <1>1, <1>5 DEF vars, Active, HashedBy, Sampled
  <1> QED
    BY <1>2, <1>3, <1>4, <1>5 DEF Next

-----------------------------------------------------------------------------
(***************************************************************************)
(* The theorems.                                                           *)
(***************************************************************************)

LEMMA InitTracker == Init => TrackerIInv
  <1> SUFFICES ASSUME Init PROVE KeepsOwn /\ KeepsHeard
    BY InitTyped DEF TrackerIInv
  <1>1. \A n \in Node : HashedBy(n) = {}
    <2> SUFFICES ASSUME NEW n \in Node, NEW t \in HashedBy(n) PROVE FALSE
      OBVIOUS
    <2>1. t \in Nat /\ (t < 0 \/ FALSE)
      BY SampledTicks DEF Init, HashedBy
    <2> QED
      BY <2>1
  <1> QED
    BY <1>1 DEF KeepsOwn, KeepsHeard

\* Once all is told, a node alone in its state has found it out.
LEMMA AloneFoundOut ==
  ASSUME TrackerIInv, AtRest, NEW p \in Node, NEW q \in Node \ {p}, Active(p), Active(q),
         NEW t \in Sampled, Alone(p, t)
  PROVE  FALSE
  <1>1. \A k \in Node : Active(k) => HashedBy(k) = Sampled
    <2> SUFFICES ASSUME NEW k \in Node, Active(k), NEW u \in Sampled PROVE u \in HashedBy(k)
      BY DEF HashedBy
    <2>1. tick[k] = MaxTick /\ u \in 0 .. MaxTick /\ u # MaxTick
      BY SampledTicks DEF AtRest
    <2> QED
      BY <2>1 DEF HashedBy
  <1>2. TypeOK /\ air[p] = {} /\ Mismatches(p, local[p]) = {}
    BY DEF TrackerIInv, AtRest
  <1>3. t \in local[p]
    <2>1. t \in local[p] \/ \E h \in peer[p] : \A u \in Sampled : u < h.tick
      BY <1>1 DEF TrackerIInv, KeepsOwn
    <2>2. ASSUME NEW h \in peer[p], \A u \in Sampled : u < h.tick PROVE FALSE
      <3>1. h.tick \in Sampled
        BY <1>2 DEF TypeOK, Report
      <3>2. h.tick < h.tick /\ h.tick \in Nat
        BY <2>2, <3>1, SampledTicks
      <3> QED
        BY <3>2
    <2> QED
      BY <2>1, <2>2
  <1>4. PICK h \in peer[p] : h.player = q /\ h.tick = t
    BY <1>1, <1>2, <1>3 DEF TrackerIInv, KeepsHeard
  <1>5. h.hash = Hash(q, t)
    <2>1. \A g \in peer[p] : g.hash = Hash(g.player, g.tick)
      BY <1>2 DEF TypeOK
    <2> QED
      BY <1>4, <2>1
  <1>6. h.hash = Hash(p, t)
    BY <1>2, <1>3, <1>4 DEF Mismatches
  <1>7. groups \in Partings /\ q \in Node /\ q # p
    BY <1>2 DEF TypeOK
  <1> QED
    BY <1>5, <1>6, <1>7, HashesDiffer

\* TypeOK: the stores hold one right hash for each player and tick.
THEOREM Typed == Spec => []TypeOK
  BY InitTyped, NextTyped, PTL DEF Spec

LEMMA TrackerInvariant == Spec => []TrackerIInv
  <1>1. TrackerIInv /\ [Next]_vars => TrackerIInv'
    BY NextTyped, NextKeepsOwn, NextKeepsHeard DEF TrackerIInv
  <1> QED
    BY InitTracker, <1>1, PTL DEF Spec

\* TrackerInv: what net_checksum hashes, sends, compares and prunes lets no node
\* play on with others in a state that is nobody else's, in whatever order the
\* hashes arrive and however the nodes part (DesyncTracker).
THEOREM NoneMissed == Spec => []TrackerInv
  <1>1. TrackerIInv => TrackerInv
    BY AloneFoundOut DEF TrackerIInv, TrackerInv, NoneAloneTogether
  <1> QED
    BY TrackerInvariant, <1>1, PTL

\* Among three nodes, one of two that differ is alone.
LEMMA OneOfThreeAlone ==
  ASSUME groups \in Partings, Cardinality(Node) <= 3,
         NEW m \in Node, NEW n \in Node, NEW t \in Sampled, Hash(m, t) # Hash(n, t)
  PROVE  Alone(m, t) \/ Alone(n, t)
  <1> SUFFICES ASSUME ~Alone(m, t), ~Alone(n, t) PROVE FALSE
    OBVIOUS
  <1>1. PICK k \in Hash(m, t) : k # m
    BY GroupOf DEF Alone
  <1>2. PICK l \in Hash(n, t) : l # n
    BY GroupOf DEF Alone
  <1>3. /\ {k, l} \subseteq Node /\ m # n /\ k # n /\ k # l /\ l # m
    BY <1>1, <1>2, GroupOf, GroupsApart
  <1>4. ASSUME NEW S, NEW x, IsFiniteSet(S), x \notin S
        PROVE  IsFiniteSet(S \cup {x}) /\ Cardinality(S \cup {x}) = Cardinality(S) + 1
    BY <1>4, FS_AddElement, Zenon
  <1> DEFINE Two == {k} \cup {l}
             Three == Two \cup {m}
             Four == Three \cup {n}
  <1>5. IsFiniteSet({k}) /\ Cardinality({k}) = 1
    BY FS_Singleton
  <1>6. l \notin {k} /\ m \notin Two /\ n \notin Three /\ Four \subseteq Node
    BY <1>1, <1>2, <1>3
  <1> HIDE DEF Four
  <1>7. Cardinality(Four) <= Cardinality(Node) /\ Cardinality(Node) \in Nat
    BY <1>6, FS_Subset, FS_CardinalityType DEF DesyncTrackerAssumption
  <1> USE DEF Four
  <1> HIDE DEF Three
  <1>8. IsFiniteSet(Three) => Cardinality(Four) = Cardinality(Three) + 1
    BY <1>4, <1>6
  <1> USE DEF Three
  <1> HIDE DEF Two
  <1>9. IsFiniteSet(Two) => IsFiniteSet(Three) /\ Cardinality(Three) = Cardinality(Two) + 1
    BY <1>4, <1>6
  <1> USE DEF Two
  <1>10. IsFiniteSet(Two) /\ Cardinality(Two) = 2
    BY <1>4, <1>5, <1>6
  <1> HIDE DEF Two, Three, Four
  <1> QED
    BY <1>7, <1>8, <1>9, <1>10

\* NoneAstrayTogether, which four nodes break: among three, no two play on in
\* different states (net_checksum, prune_compared).
THEOREM ThreeToldApart == Cardinality(Node) <= 3 /\ Spec => []NoneAstrayTogether
  <1> SUFFICES ASSUME Cardinality(Node) <= 3 PROVE Spec => []NoneAstrayTogether
    OBVIOUS
  <1>1. TrackerIInv => NoneAstrayTogether
    <2> SUFFICES ASSUME TrackerIInv, AtRest, NEW m \in Node, NEW n \in Node,
                        Active(m), Active(n), NEW t \in Sampled, Hash(m, t) # Hash(n, t)
                 PROVE  FALSE
      BY DEF NoneAstrayTogether
    <2>1. m # n /\ (Alone(m, t) \/ Alone(n, t))
      BY OneOfThreeAlone DEF TrackerIInv, TypeOK
    <2> QED
      BY <2>1, AloneFoundOut
  <1> QED
    BY TrackerInvariant, <1>1, PTL
=============================================================================
