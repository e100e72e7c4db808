---------------------------- MODULE OrdersProofs ----------------------------
(***************************************************************************)
(* Proofs about Orders, in two rounds.                                     *)
(*                                                                         *)
(* First each unit by itself.  Fit says what a unit keeps: its queue is    *)
(* Linked (only the front runs, who is suspended stands behind what it     *)
(* waits for) and Swept (what waits is cancelled with what it waits for),  *)
(* its drivers are those of what it has started, and the living, the dying *)
(* and the gone have queues of their kind.  A flush is followed entry by   *)
(* entry (Calm, Fatal) to what it leaves (Flushed, Killed); preparing and  *)
(* dropping are built on it.  UnitsInv, with what holds of the units that  *)
(* have had their turn, is inductive.                                      *)
(*                                                                         *)
(* Then the units together.  A step takes nothing up (Lightens), or is a   *)
(* command that is paid for (Traded).  From that follow who researches     *)
(* what, the supply, and what can be paid back.                            *)
(***************************************************************************)
EXTENDS Orders, NaturalFacts, SequenceTheorems, FiniteSetTheorems

\* An order is of one kind, and a topic is no other order.
LEMMA Kinds ==
  ASSUME NEW o \in Order
  PROVE  /\ Kind(o) \in OnFoot \cup Queued \cup {"Morph", "Die"}
         /\ o \in Topic => Kind(o) = "Research" /\ o \notin OnFoot \cup {"Train", "Morph", "Die"}
         /\ o \notin Topic => Kind(o) = o /\ o \in OnFoot \cup {"Train", "Morph", "Die"}
  BY OrdersAssumption DEF Order, Kind, OnFoot, Legs, Queued

\* The entries of queues, and those to be cancelled.
Entries == OrderEntry(Order)
Marked(entry) == entry.cancel # Unmarked

\* An entry, field by field.
LEMMA EntryIs ==
  ASSUME NEW entry \in Entries
  PROVE  /\ entry.order \in Order /\ entry.state \in EntryState
         /\ entry.cancel \in {"soft", "force", Unmarked}
         /\ entry.state = "new" <=> ~Started(entry)
         /\ Marked(entry) <=> entry.cancel \in Policy
  BY DEF Entries, OrderEntry, Policy, Unmarked, Marked, EntryState, Started

\* A new entry, and an entry marked anew, or no more.
LEMMA EntryTyped ==
  /\ \A o \in Order : Entry(o) \in Entries
  /\ \A entry \in Entries, mark \in {"soft", "force", Unmarked} :
        [entry EXCEPT !.cancel = mark] \in Entries
  /\ \A entry \in Entries, state \in EntryState : [entry EXCEPT !.state = state] \in Entries
  BY DEF Entries, Entry, OrderEntry, Policy, Unmarked, EntryState

\* What marks an entry leaves it as it was but for the mark, and a mandatory
\* mark stands over any other.
LEMMA MarkIs ==
  ASSUME NEW entry \in Entries, NEW policy \in Policy
  PROVE  /\ Mark(entry, policy) \in Entries
         /\ Mark(entry, policy).order = entry.order /\ Mark(entry, policy).state = entry.state
         /\ Marked(Mark(entry, policy))
         /\ policy = "force" => Mark(entry, policy).cancel = "force"
         /\ policy = "soft" =>
              Mark(entry, policy).cancel = IF entry.cancel = "force" THEN "force" ELSE "soft"
  BY DEF Mark, Entries, OrderEntry, Policy, Unmarked, Marked, Stronger

-----------------------------------------------------------------------------
(* Queues.                                                                  *)

\* Orders that suspend themselves for others rank above them.
Rank(o) ==
  IF o = "Patrol" THEN 3 ELSE IF o = "AttackMove" THEN 2 ELSE IF o = "Move" THEN 0 ELSE 1

\* Only the front runs, and a suspended entry stands behind what it waits for;
\* they are cancelled together.
Linked(q) ==
  /\ \A i \in DOMAIN q : q[i].state = "running" => i = 1
  /\ \A i \in DOMAIN q : q[i].state = "suspended" => q[i].order \in OnFoot \ {"Move"}
  /\ \A i \in DOMAIN q \ {1} : q[i].state = "suspended" =>
       /\ q[i - 1].order \in SubOrders(q[i].order)
       /\ i > 2 => q[i - 1].state = "suspended"
       /\ Marked(q[i]) <=> Marked(q[i - 1])

\* Of the orders on foot the earlier are cancelled no less than the later, and
\* there is one Train.
Swept(q) ==
  /\ \A i, j \in DOMAIN q : i < j /\ q[i].order \in OnFoot /\ q[j].order \in OnFoot =>
       /\ Marked(q[j]) => Marked(q[i])
       /\ q[j].cancel = "force" => q[i].cancel = "force"
  /\ \A i, j \in DOMAIN q : q[i].order = "Train" /\ q[j].order = "Train" => i = j

\* What an order waits for ranks below it, and is on foot.
LEMMA SubOrdersRank ==
  ASSUME NEW o, NEW p \in SubOrders(o)
  PROVE  p \in OnFoot /\ o \in OnFoot /\ Rank(p) < Rank(o)
  BY DEF SubOrders, OnFoot, Legs, Rank

\* All entries before a suspended one wait for one another.
LEMMA ChainIs ==
  ASSUME NEW q \in Seq(Entries), Linked(q),
         NEW j \in DOMAIN q, q[j].state = "suspended", NEW i \in DOMAIN q, i < j
  PROVE  /\ q[i].order \in OnFoot /\ q[j].order \in OnFoot /\ Rank(q[i].order) < Rank(q[j].order)
         /\ i > 1 => q[i].state = "suspended"
         /\ Marked(q[i]) <=> Marked(q[j])
  <1> DEFINE n == Len(q)
             Good(a, b) == /\ q[a].order \in OnFoot /\ q[b].order \in OnFoot
                           /\ Rank(q[a].order) < Rank(q[b].order)
                           /\ a > 1 => q[a].state = "suspended"
                           /\ Marked(q[a]) <=> Marked(q[b])
             P == {b \in 0 .. n : b >= 1 /\ q[b].state = "suspended" => \A a \in 1 .. b - 1 : Good(a, b)}
  <1>1. n \in Nat /\ DOMAIN q = 1 .. n
    OBVIOUS
  <1>2. ASSUME NEW o PROVE Rank(o) \in Nat
    BY DEF Rank
  <1>3. ASSUME NEW b \in 1 .. n, b - 1 \in P PROVE b \in P
    <2> SUFFICES ASSUME q[b].state = "suspended", NEW a \in 1 .. b - 1 PROVE Good(a, b)
      BY <1>1
    <2>1. b \in DOMAIN q \ {1}
      BY <1>1
    <2>2. q[b - 1].order \in SubOrders(q[b].order) /\ (b > 2 => q[b - 1].state = "suspended")
          /\ (Marked(q[b]) <=> Marked(q[b - 1]))
      BY <2>1 DEF Linked
    <2>3. Good(b - 1, b)
      BY <2>2, SubOrdersRank
    <2>4. CASE a = b - 1
      BY <2>3, <2>4
    <2>5. CASE a < b - 1
      <3>1. Good(a, b - 1)
        BY <1>3, <2>2, <2>5, <1>1
      <3> QED
        BY <3>1, <2>3, <1>2
    <2> QED
      BY <2>4, <2>5, <1>1
  <1>4. 0 \in P
    BY <1>1
  <1>5. 0 .. n \subseteq P
    <2> HIDE DEF P
    <2> QED
      BY <1>1, <1>3, <1>4, StaysIn
  <1> QED
    BY <1>5, <1>1

\* No two orders that have started are of one kind.
LEMMA StartedOnce ==
  ASSUME NEW q \in Seq(Entries), Linked(q),
         NEW i \in DOMAIN q, NEW j \in DOMAIN q, i # j, Started(q[i]), Started(q[j])
  PROVE  Kind(q[i].order) # Kind(q[j].order)
  <1>1. ASSUME NEW a \in DOMAIN q, NEW b \in DOMAIN q, a < b, Started(q[b])
        PROVE  Kind(q[a].order) # Kind(q[b].order)
    <2>1. q[a] \in Entries /\ q[b] \in Entries /\ a \in Nat /\ b \in Nat /\ a >= 1
      BY ElementOfSeq
    <2>2. q[b].state = "suspended"
      BY <1>1, <2>1, EntryIs DEF Linked, Started
    <2>3. q[a].order \in OnFoot /\ q[b].order \in OnFoot /\ Rank(q[a].order) < Rank(q[b].order)
      BY <1>1, <2>2, ChainIs
    <2>4. Kind(q[a].order) = q[a].order /\ Kind(q[b].order) = q[b].order
      BY <2>1, <2>3, EntryIs, Kinds
    <2>5. Rank(q[a].order) \in Nat
      BY DEF Rank
    <2> QED
      BY <2>3, <2>4, <2>5
  <1>2. i < j \/ j < i
    BY ElementOfSeq
  <1> QED
    BY <1>1, <1>2

\* An order that has started without waiting is the front.
LEMMA StartedFront ==
  ASSUME NEW q \in Seq(Entries), Linked(q), NEW i \in DOMAIN q, Started(q[i]),
         q[i].order \notin OnFoot \ {"Move"}
  PROVE  i = 1 /\ q[i].state = "running"
  BY DEF Linked, Started

\* Behind a front that is not on foot nothing has started.
LEMMA FrontAlone ==
  ASSUME NEW q \in Seq(Entries), Linked(q), NEW i \in DOMAIN q, i # 1,
         q[1].order \notin OnFoot
  PROVE  q[i].state = "new"
  <1>1. q[i] \in Entries /\ 1 \in DOMAIN q /\ 1 < i
    BY ElementOfSeq
  <1>2. q[i].state # "suspended"
    BY <1>1, ChainIs
  <1> QED
    BY <1>1, <1>2, EntryIs DEF Linked, EntryState
-----------------------------------------------------------------------------
(* Cancels.                                                                 *)

\* What is left of a cancelled order.
CancelResult == [unit: Components, stays: BOOLEAN, back: 0 .. 1, dies: BOOLEAN]

\* Whether an entry outlasts a flush of its unit.
Stays(u, entry) ==
  \/ ~Marked(entry)
  \/ entry.order = "Die"
  \/ /\ entry.cancel = "soft"
     /\ \/ Kind(entry.order) \in Queued
        \/ entry.order = "Move" /\ entry.state = "running"
        \/ /\ entry.order = "Morph" /\ Started(entry)
           /\ u.change # "clearing" /\ Terms[u.form] = "committed"

\* What a cancel keeps of its unit.
Kept(u, v) ==
  /\ v \in Components
  /\ v.owner = u.owner /\ v.form = u.form /\ v.outage = u.outage /\ v.aboard = u.aboard
  /\ v.life = u.life /\ v.left = u.left /\ v.queue = u.queue

\* A unit without the driver of an order.
LEMMA WithoutIs ==
  ASSUME NEW u \in Components, NEW o
  PROVE  /\ Kept(u, Without(u, o))
         /\ Without(u, o).drivers = u.drivers \ {Kind(o)}
         /\ Without(u, o).paid = u.paid /\ Without(u, o).crossing = u.crossing
         /\ Without(u, o).change = u.change
  BY DEF Without, Components, Kept

\* Units that differ from another in one component.
LEMMA ButFor ==
  ASSUME NEW u \in Components
  PROVE  /\ \A c \in {"none", "clearing", "underWay"} : LET v == [u EXCEPT !.change = c] IN
              Kept(u, v) /\ v.drivers = u.drivers /\ v.paid = u.paid /\ v.crossing = u.crossing
              /\ v.change = c
         /\ \A c \in BOOLEAN : LET v == [u EXCEPT !.winding = c] IN
              Kept(u, v) /\ v.drivers = u.drivers /\ v.paid = u.paid /\ v.crossing = u.crossing
              /\ v.change = u.change
         /\ \A c \in BOOLEAN : LET v == [u EXCEPT !.crossing = c] IN
              Kept(u, v) /\ v.drivers = u.drivers /\ v.paid = u.paid /\ v.crossing = c
              /\ v.change = u.change
         /\ \A c \in Seq(UnitType) : LET v == [u EXCEPT !.paid = c] IN
              Kept(u, v) /\ v.drivers = u.drivers /\ v.paid = c /\ v.crossing = u.crossing
              /\ v.change = u.change
  BY DEF Components, Kept

\* A unit with nothing paid for.
LEMMA NoPaid ==
  ASSUME NEW u \in Components
  PROVE  LET v == [u EXCEPT !.paid = <<>>] IN
           Kept(u, v) /\ v.drivers = u.drivers /\ v.paid = <<>> /\ v.change = u.change
           /\ v.crossing = u.crossing
  <1>1. <<>> \in Seq(UnitType)
    BY EmptySeq
  <1> DEFINE v == [u EXCEPT !.paid = <<>>]
  <1>2. v \in Components
    BY <1>1 DEF Components
  <1>3. v.drivers = u.drivers /\ v.paid = <<>> /\ v.change = u.change /\ v.crossing = u.crossing
        /\ v.owner = u.owner /\ v.form = u.form /\ v.outage = u.outage /\ v.aboard = u.aboard
        /\ v.life = u.life /\ v.left = u.left /\ v.queue = u.queue
    BY DEF Components
  <1> QED
    BY <1>2, <1>3 DEF Kept

\* What a cancel comes to: an order on its way out takes its own driver with
\* it, production what was paid for it, and a change of form alone is paid back
\* or kills.
Cancels(u, entry, doomed, r) ==
  LET ends == entry.order = "Morph" /\ Started(entry) /\ ~Stays(u, entry)
      runs == ends /\ u.change # "clearing" /\ u.life = "alive"
  IN
  /\ r \in CancelResult /\ Kept(u, r.unit)
  /\ r.stays <=> Stays(u, entry)
  /\ r.unit.drivers =
       IF \/ Stays(u, entry) \/ entry.order \in {"Morph", "Die"}
          \/ (entry.order = "Move" /\ entry.cancel = "soft")
          \/ (entry.order \in Topic /\ ~Started(entry))
       THEN u.drivers ELSE u.drivers \ {Kind(entry.order)}
  /\ r.unit.paid = IF entry.order = "Train" /\ entry.cancel = "force" THEN <<>> ELSE u.paid
  /\ r.unit.crossing = IF entry.order = "Move" /\ entry.cancel = "force" THEN FALSE ELSE u.crossing
  /\ r.unit.change = IF ends THEN "none" ELSE u.change
  /\ r.back = IF runs /\ Terms[u.form] = "refundable" /\ entry.cancel = "soft" THEN 1 ELSE 0
  /\ r.dies <=> (runs /\ doomed)

\* A cancel comes to that.
LEMMA CancelIs ==
  ASSUME NEW u \in Components, NEW entry \in Entries, Marked(entry), NEW doomed \in BOOLEAN
  PROVE  Cancels(u, entry, doomed, Cancel(u, entry, doomed))
  <1> DEFINE o == entry.order
             r == Cancel(u, entry, doomed)
  <1> SUFFICES Cancels(u, entry, doomed, r)
    OBVIOUS
  <1> HIDE DEF r
  <1>1. /\ o \in Order /\ entry.cancel \in {"soft", "force"}
        /\ entry.state \in {"new", "running", "suspended"}
        /\ Kind(o) \in Queued <=> o \in Topic \cup {"Train"}
        /\ o = "Move" => Kind(o) = "Move" /\ o \notin Topic
        /\ o = "Train" => Kind(o) = "Train" /\ o \notin Topic
        /\ o \in {"Morph", "Die"} => Kind(o) = o /\ o \notin Topic
        /\ o \in Topic => Kind(o) = "Research" /\ o \notin {"Die", "Move", "Train", "Morph"}
    BY EntryIs, Kinds DEF Queued, OnFoot, Policy, EntryState, Legs
  <1>2. Kept(u, u)
    BY DEF Kept
  <1>3. ASSUME NEW v \in Components, NEW s \in BOOLEAN, r = Result(v, s, 0, FALSE), o # "Morph",
               Kept(u, v), s <=> Stays(u, entry),
               v.drivers = IF \/ Stays(u, entry) \/ o = "Die"
                              \/ (o = "Move" /\ entry.cancel = "soft")
                              \/ (o \in Topic /\ ~Started(entry))
                           THEN u.drivers ELSE u.drivers \ {Kind(o)},
               v.paid = IF o = "Train" /\ entry.cancel = "force" THEN <<>> ELSE u.paid,
               v.crossing = IF o = "Move" /\ entry.cancel = "force" THEN FALSE ELSE u.crossing,
               v.change = u.change
        PROVE  Cancels(u, entry, doomed, r)
    <2>1. 0 \in 0 .. 1 /\ FALSE \in BOOLEAN
      OBVIOUS
    <2>2. r \in CancelResult /\ r.unit = v /\ (r.stays <=> s) /\ r.back = 0 /\ ~r.dies
      BY <1>3, <2>1 DEF Result, CancelResult
    <2> QED
      BY <1>3, <2>2 DEF Cancels
  <1>4. CASE o = "Die"
    <2>1. r = Result(u, TRUE, 0, FALSE)
      BY <1>1, <1>4 DEF Cancel, r
    <2> QED
      BY <1>1, <1>2, <1>3, <1>4, <2>1 DEF Stays
  <1>5. CASE o = "Move"
    <2>1. r = CancelMove(u, entry, entry.cancel)
      BY <1>1, <1>5 DEF Cancel, r
    <2>2. CASE entry.cancel = "force"
      <3>1. PICK w : w = Without(u, "Move")
        OBVIOUS
      <3>2. PICK x : x = [w EXCEPT !.crossing = FALSE]
        OBVIOUS
      <3>3. PICK v : v = [x EXCEPT !.winding = FALSE]
        OBVIOUS
      <3>4. r = Result(v, FALSE, 0, FALSE)
        BY <2>1, <2>2, <3>1, <3>2, <3>3 DEF CancelMove, Ended
      <3>5. Kept(u, w) /\ w.drivers = u.drivers \ {"Move"} /\ w.paid = u.paid /\ w.change = u.change
        BY <1>1, <1>5, <3>1, WithoutIs
      <3>6. Kept(w, x) /\ x.drivers = w.drivers /\ x.paid = w.paid /\ x.change = w.change /\ x.crossing = FALSE
        BY <3>2, <3>5, ButFor DEF Kept
      <3>7. Kept(x, v) /\ v.drivers = x.drivers /\ v.paid = x.paid /\ v.change = x.change /\ v.crossing = FALSE
        BY <3>3, <3>6, ButFor DEF Kept
      <3>8. Kept(u, v) /\ v \in Components
        BY <3>5, <3>6, <3>7 DEF Kept
      <3>9. ~Stays(u, entry)
        BY <1>1, <1>5, <2>2 DEF Stays, Marked
      <3> QED
        BY <1>1, <1>3, <1>5, <2>2, <3>4, <3>5, <3>6, <3>7, <3>8, <3>9
    <2>3. CASE entry.cancel = "soft" /\ entry.state = "running"
      <3>1. PICK v : v = [u EXCEPT !.winding = TRUE]
        OBVIOUS
      <3>2. r = Result(v, TRUE, 0, FALSE)
        BY <2>1, <2>3, <3>1 DEF CancelMove
      <3>3. Kept(u, v) /\ v.drivers = u.drivers /\ v.paid = u.paid /\ v.change = u.change /\ v.crossing = u.crossing
        BY <3>1, ButFor
      <3>4. Stays(u, entry) /\ v \in Components
        BY <1>5, <2>3, <3>3 DEF Stays, Kept
      <3> QED
        BY <1>1, <1>3, <1>5, <2>3, <3>2, <3>3, <3>4
    <2>4. CASE entry.cancel = "soft" /\ entry.state # "running"
      <3>1. r = Result(u, FALSE, 0, FALSE)
        BY <2>1, <2>4 DEF CancelMove, Ended
      <3>2. ~Stays(u, entry)
        BY <1>1, <1>5, <2>4 DEF Stays
      <3> QED
        BY <1>1, <1>2, <1>3, <1>5, <2>4, <3>1, <3>2
    <2> QED
      BY <1>1, <2>2, <2>3, <2>4
  <1>6. CASE Kind(o) \in Queued
    <2>1. r = CancelProduction(u, entry, entry.cancel)
      BY <1>1, <1>6 DEF Cancel, r
    <2>2. CASE entry.cancel = "soft"
      <3>1. r = Result(u, TRUE, 0, FALSE)
        BY <2>1, <2>2 DEF CancelProduction
      <3>2. Stays(u, entry)
        BY <1>6, <2>2 DEF Stays
      <3> QED
        BY <1>1, <1>2, <1>3, <1>6, <2>2, <3>1, <3>2
    <2>3. CASE entry.cancel = "force"
      <3>1. ~Stays(u, entry)
        BY <1>1, <1>6, <2>3 DEF Stays
      <3>2. CASE o = "Train"
        <4>1. PICK w : w = Without(u, "Train")
          OBVIOUS
        <4>2. PICK v : v = [w EXCEPT !.paid = <<>>]
          OBVIOUS
        <4>3. r = Result(v, FALSE, 0, FALSE)
          BY <2>1, <2>3, <3>2, <4>1, <4>2 DEF CancelProduction, Ended
        <4>4. Kept(u, w) /\ w.drivers = u.drivers \ {"Train"} /\ w.change = u.change /\ w.crossing = u.crossing
          BY <1>1, <3>2, <4>1, WithoutIs
        <4>5. Kept(w, v) /\ v.drivers = w.drivers /\ v.paid = <<>> /\ v.change = w.change /\ v.crossing = w.crossing
          BY <4>2, <4>4, NoPaid DEF Kept
        <4>6. Kept(u, v) /\ v \in Components
          BY <4>4, <4>5 DEF Kept
        <4> QED
          BY <1>1, <1>3, <2>3, <3>1, <3>2, <4>3, <4>4, <4>5, <4>6
      <3>3. CASE o # "Train" /\ Started(entry)
        <4>1. PICK v : v = Without(u, o)
          OBVIOUS
        <4>2. r = Result(v, FALSE, 0, FALSE)
          BY <2>1, <2>3, <3>3, <4>1 DEF CancelProduction, Ended
        <4>3. Kept(u, v) /\ v.drivers = u.drivers \ {Kind(o)} /\ v.paid = u.paid /\ v.change = u.change /\ v.crossing = u.crossing
          BY <4>1, WithoutIs
        <4>4. v \in Components
          BY <4>3 DEF Kept
        <4> QED
          BY <1>1, <1>3, <1>6, <2>3, <3>1, <3>3, <4>2, <4>3, <4>4
      <3>4. CASE o # "Train" /\ ~Started(entry)
        <4>1. r = Result(u, FALSE, 0, FALSE)
          BY <2>1, <2>3, <3>4 DEF CancelProduction, Ended
        <4> QED
          BY <1>1, <1>2, <1>3, <1>6, <2>3, <3>1, <3>4, <4>1
      <3> QED
        BY <3>2, <3>3, <3>4
    <2> QED
      BY <1>1, <2>2, <2>3
  <1>7. CASE o = "Morph"
    <2>1. r = CancelMorph(u, entry, entry.cancel, doomed)
      BY <1>1, <1>7 DEF Cancel, r
    <2>2. PICK v : v = [u EXCEPT !.change = "none"]
      OBVIOUS
    <2>3. Kept(u, v) /\ v.drivers = u.drivers /\ v.paid = u.paid /\ v.crossing = u.crossing /\ v.change = "none"
      BY <2>2, ButFor
    <2>4. PICK b : b = IF u.life = "alive" /\ Terms[u.form] = "refundable" /\ entry.cancel = "soft" THEN 1 ELSE 0
      OBVIOUS
    <2>5. PICK d \in BOOLEAN : d <=> u.life = "alive" /\ doomed
      OBVIOUS
    <2>6. r = IF entry.state = "new" THEN Result(u, FALSE, 0, FALSE)
              ELSE IF u.change = "clearing" THEN Result(v, FALSE, 0, FALSE)
              ELSE IF Terms[u.form] = "committed" /\ entry.cancel = "soft" THEN Result(u, TRUE, 0, FALSE)
              ELSE Result(v, FALSE, b, d)
      BY <2>1, <2>2, <2>4, <2>5 DEF CancelMorph, Ended
    <2>7. b \in 0 .. 1 /\ 0 \in 0 .. 1 /\ FALSE \in BOOLEAN /\ TRUE \in BOOLEAN /\ v \in Components
      BY <2>3, <2>4 DEF Kept
    <2>8. Stays(u, entry) <=> /\ entry.cancel = "soft" /\ Started(entry)
                              /\ u.change # "clearing" /\ Terms[u.form] = "committed"
      BY <1>1, <1>7 DEF Stays
    <2>9. Started(entry) <=> entry.state # "new"
      BY <1>1 DEF Started
    <2>10. CASE entry.state = "new"
      <3>1. r \in CancelResult /\ r.unit = u /\ ~r.stays /\ r.back = 0 /\ ~r.dies
        BY <2>6, <2>7, <2>10 DEF Result, CancelResult
      <3> QED
        BY <1>2, <1>7, <2>8, <2>9, <2>10, <3>1 DEF Cancels
    <2>11. CASE entry.state # "new" /\ u.change = "clearing"
      <3>1. r \in CancelResult /\ r.unit = v /\ ~r.stays /\ r.back = 0 /\ ~r.dies
        BY <2>6, <2>7, <2>11 DEF Result, CancelResult
      <3> QED
        BY <1>7, <2>3, <2>8, <2>9, <2>11, <3>1 DEF Cancels
    <2>12. CASE entry.state # "new" /\ u.change # "clearing" /\ Terms[u.form] = "committed" /\ entry.cancel = "soft"
      <3>1. r \in CancelResult /\ r.unit = u /\ r.stays /\ r.back = 0 /\ ~r.dies
        BY <2>6, <2>7, <2>12 DEF Result, CancelResult
      <3> QED
        BY <1>2, <1>7, <2>8, <2>9, <2>12, <3>1 DEF Cancels
    <2>13. CASE entry.state # "new" /\ u.change # "clearing" /\ ~(Terms[u.form] = "committed" /\ entry.cancel = "soft")
      <3>1. r \in CancelResult /\ r.unit = v /\ ~r.stays /\ r.back = b /\ (r.dies <=> d)
        BY <2>5, <2>6, <2>7, <2>13 DEF Result, CancelResult
      <3> QED
        BY <1>7, <2>3, <2>4, <2>5, <2>8, <2>9, <2>13, <3>1 DEF Cancels
    <2> QED
      BY <2>10, <2>11, <2>12, <2>13
  <1>8. CASE o \notin {"Die", "Move", "Morph"} /\ Kind(o) \notin Queued
    <2>1. PICK v : v = Without(u, o)
      OBVIOUS
    <2>2. r = Result(v, FALSE, 0, FALSE)
      BY <1>8, <2>1 DEF Cancel, Ended, r
    <2>3. Kept(u, v) /\ v.drivers = u.drivers \ {Kind(o)} /\ v.paid = u.paid /\ v.change = u.change /\ v.crossing = u.crossing
      BY <2>1, WithoutIs
    <2>4. v \in Components /\ ~Stays(u, entry)
      BY <1>8, <2>3 DEF Stays, Kept
    <2> QED
      BY <1>1, <1>3, <1>8, <2>2, <2>3, <2>4
  <1> QED
    BY <1>4, <1>5, <1>6, <1>7, <1>8
-----------------------------------------------------------------------------
(* Flushes.                                                                 *)

\* A queue given by its entries.
LEMMA QueueOf ==
  ASSUME NEW n \in Nat, NEW q \in [1 .. n -> Entries]
  PROVE  q \in Seq(Entries) /\ Len(q) = n /\ DOMAIN q = 1 .. n
  OBVIOUS

\* A queue marked as a whole.
LEMMA MarkAllIs ==
  ASSUME NEW q \in Seq(Entries), NEW policy \in Policy
  PROVE  /\ MarkAll(q, policy) \in Seq(Entries) /\ Len(MarkAll(q, policy)) = Len(q)
         /\ DOMAIN MarkAll(q, policy) = DOMAIN q
         /\ \A i \in DOMAIN q : MarkAll(q, policy)[i] = Mark(q[i], policy)
  <1>1. Len(q) \in Nat /\ DOMAIN q = 1 .. Len(q) /\ \A i \in 1 .. Len(q) : q[i] \in Entries
    BY LenProperties
  <1>2. PICK p : p = MarkAll(q, policy)
    OBVIOUS
  <1>3. p = [i \in 1 .. Len(q) |-> Mark(q[i], policy)]
    BY <1>1, <1>2 DEF MarkAll
  <1>4. \A i \in 1 .. Len(q) : Mark(q[i], policy) \in Entries
    BY <1>1, MarkIs
  <1>5. p \in [1 .. Len(q) -> Entries]
    BY <1>3, <1>4
  <1>6. p \in Seq(Entries) /\ Len(p) = Len(q) /\ DOMAIN p = 1 .. Len(q)
    BY <1>1, <1>5, QueueOf
  <1> QED
    BY <1>1, <1>2, <1>3, <1>6

\* How far a flush has come.
Acc == [unit: Components, kept: Seq(Entries), back: Nat, dies: BOOLEAN]

\* A unit that starts to die.
LEMMA DyingIs ==
  ASSUME NEW u \in Components
  PROVE  /\ StartDying(u) \in Components
         /\ StartDying(u).life = "dying" /\ StartDying(u).left = DyingTime
         /\ ~StartDying(u).crossing
         /\ StartDying(u).owner = u.owner /\ StartDying(u).form = u.form
         /\ StartDying(u).outage = u.outage /\ StartDying(u).aboard = u.aboard
         /\ StartDying(u).queue = u.queue /\ StartDying(u).drivers = u.drivers
         /\ StartDying(u).paid = u.paid /\ StartDying(u).change = u.change
  <1>1. DyingTime \in 0 .. DyingTime
    BY OrdersAssumption
  <1> QED
    BY <1>1 DEF StartDying, Components

\* One entry's part in a flush.
LEMMA VisitIs ==
  ASSUME NEW a \in Acc, NEW entry \in Entries, NEW doomed \in BOOLEAN
  PROVE  LET m == IF a.dies THEN Mark(entry, "force") ELSE entry
             v == Visit(a, entry, doomed)
         IN
         /\ v \in Acc /\ m \in Entries
         /\ ~Marked(m) => /\ v.unit = a.unit /\ v.kept = Append(a.kept, entry)
                          /\ v.back = a.back /\ (v.dies <=> a.dies)
         /\ Marked(m) => \E r \in CancelResult :
              /\ Cancels(a.unit, m, doomed, r)
              /\ v.unit = IF r.dies THEN StartDying(r.unit) ELSE r.unit
              /\ v.kept = IF r.stays THEN Append(a.kept, [entry EXCEPT !.cancel = Unmarked])
                          ELSE IF r.dies THEN MarkAll(a.kept, "force") ELSE a.kept
              /\ v.back = a.back + r.back
              /\ v.dies <=> (a.dies \/ r.dies)
  <1>1. PICK m : m = IF a.dies THEN Mark(entry, "force") ELSE entry
    OBVIOUS
  <1>2. PICK c : c = [entry EXCEPT !.cancel = Unmarked]
    OBVIOUS
  <1>3. PICK v : v = Visit(a, entry, doomed)
    OBVIOUS
  <1>4. m \in Entries /\ c \in Entries
    BY <1>1, <1>2, MarkIs, EntryTyped DEF Policy
  <1>5. /\ a.unit \in Components /\ a.kept \in Seq(Entries) /\ a.back \in Nat /\ a.dies \in BOOLEAN
        /\ a = [unit |-> a.unit, kept |-> a.kept, back |-> a.back, dies |-> a.dies]
    BY DEF Acc
  <1>6. CASE ~Marked(m)
    <2>1. v = [a EXCEPT !.kept = Append(@, entry)]
      BY <1>1, <1>3, <1>6 DEF Visit, Marked
    <2>2. Append(a.kept, entry) \in Seq(Entries)
      BY <1>5, AppendProperties
    <2>3. v \in Acc /\ v.unit = a.unit /\ v.kept = Append(a.kept, entry)
          /\ v.back = a.back /\ (v.dies <=> a.dies)
      BY <1>5, <2>1, <2>2 DEF Acc
    <2> QED
      BY <1>1, <1>3, <1>4, <1>6, <2>3
  <1>7. CASE Marked(m)
    <2>1. PICK r : r = Cancel(a.unit, m, doomed)
      OBVIOUS
    <2>a. Cancels(a.unit, m, doomed, r)
      BY <1>4, <1>5, <1>7, <2>1, CancelIs
    <2>2. Cancels(a.unit, m, doomed, r) /\ r \in CancelResult
      BY <2>a DEF Cancels
    <2>3. PICK w : w = IF r.dies THEN StartDying(r.unit) ELSE r.unit
      OBVIOUS
    <2>4. PICK k : k = IF r.stays THEN Append(a.kept, c)
                       ELSE IF r.dies THEN MarkAll(a.kept, "force") ELSE a.kept
      OBVIOUS
    <2>5. v = [unit |-> w, kept |-> k, back |-> a.back + r.back, dies |-> a.dies \/ r.dies]
      BY <1>1, <1>2, <1>3, <1>7, <2>1, <2>3, <2>4 DEF Visit, Marked
    <2>6. w \in Components
      BY <2>2, <2>3, DyingIs DEF CancelResult
    <2>7. k \in Seq(Entries)
      BY <1>4, <1>5, <2>4, AppendProperties, MarkAllIs DEF Policy
    <2>8. a.back + r.back \in Nat /\ (a.dies \/ r.dies) \in BOOLEAN
      BY <1>5, <2>2 DEF CancelResult
    <2>9. v \in Acc /\ v.unit = w /\ v.kept = k /\ v.back = a.back + r.back
          /\ (v.dies <=> (a.dies \/ r.dies))
      BY <1>5, <2>2, <2>5, <2>6, <2>7, <2>8 DEF Acc, CancelResult
    <2>10. /\ v \in Acc /\ m \in Entries
           /\ \E x \in CancelResult :
              /\ Cancels(a.unit, m, doomed, x)
              /\ v.unit = IF x.dies THEN StartDying(x.unit) ELSE x.unit
              /\ v.kept = IF x.stays THEN Append(a.kept, c)
                          ELSE IF x.dies THEN MarkAll(a.kept, "force") ELSE a.kept
              /\ v.back = a.back + x.back
              /\ v.dies <=> (a.dies \/ x.dies)
      BY <1>4, <2>2, <2>3, <2>4, <2>9
    <2> QED
      BY <1>1, <1>2, <1>3, <1>7, <2>10
  <1> QED
    BY <1>6, <1>7

\* A flush visits the entries one after another.
LEMMA FlushSteps ==
  ASSUME NEW u \in Components, NEW doomed \in BOOLEAN
  PROVE  \E after \in [0 .. Len(u.queue) -> Acc] :
           /\ after[0] = [unit |-> u, kept |-> <<>>, back |-> 0, dies |-> FALSE]
           /\ \A i \in 1 .. Len(u.queue) : after[i] = Visit(after[i - 1], u.queue[i], doomed)
           /\ FlushCanceled(u, doomed) =
                LET all == after[Len(u.queue)]
                IN  [unit |-> [all.unit EXCEPT !.queue = IF all.dies THEN Append(all.kept, Entry("Die"))
                                                                     ELSE all.kept],
                     gain |-> all.back]
  <1> DEFINE N == Len(u.queue)
             S == Acc
             b == [unit |-> u, kept |-> <<>>, back |-> 0, dies |-> FALSE]
             visited(i, a) == Visit(a, u.queue[i], doomed)
             g == [i \in 1 .. N |-> [a \in S |-> visited(i, a)]]
             after == CHOOSE h : h = [i \in 0 .. N |-> IF i = 0 THEN b ELSE visited(i, h[i - 1])]
  <1>1. u.queue \in Seq(Entries)
    BY DEF Components, Entries
  <1>2. N \in Nat /\ \A i \in 1 .. N : u.queue[i] \in Entries
    BY <1>1, LenProperties
  <1>3. b \in S
    BY EmptySeq DEF Acc
  <1>4. \A i \in 1 .. N, a \in S : visited(i, a) \in S
    BY <1>2, VisitIs
  <1>5. FlushCanceled(u, doomed) =
          [unit |-> [after[N].unit EXCEPT !.queue = IF after[N].dies THEN Append(after[N].kept, Entry("Die"))
                                                    ELSE after[N].kept],
           gain |-> after[N].back]
    BY DEF FlushCanceled
  <1> HIDE DEF visited
  <1>6. g \in [1 .. N -> [S -> S]]
    BY <1>4
  <1> HIDE DEF S, b, g, N
  <1>7. PICK f \in [0 .. N -> S] : f[0] = b /\ \A i \in 1 .. N : f[i] = g[i][f[i - 1]]
    BY <1>2, <1>3, <1>6, RecursionExists
  <1>8. \A i \in 1 .. N : f[i] = visited(i, f[i - 1])
    <2> TAKE i \in 1 .. N
    <2>1. f[i - 1] \in S
      BY <1>2, <1>7
    <2> QED
      BY <2>1, <1>7 DEF g
  <1>9. f = [i \in 0 .. N |-> IF i = 0 THEN b ELSE visited(i, f[i - 1])]
    BY <1>2, <1>7, <1>8
  <1>10. after = [i \in 0 .. N |-> IF i = 0 THEN b ELSE visited(i, after[i - 1])]
    BY <1>9
  <1> HIDE DEF after
  <1>11. after[0] = b /\ \A i \in 1 .. N : after[i] = visited(i, after[i - 1])
    BY <1>2, <1>10
  <1> DEFINE P == {i \in 0 .. N : after[i] \in S}
  <1>12. 0 .. N \subseteq P
    <2>1. 0 \in P /\ \A n \in 1 .. N : n - 1 \in P => n \in P
      BY <1>2, <1>3, <1>4, <1>11 DEF visited
    <2> HIDE DEF P
    <2> QED
      BY <1>2, <2>1, StaysIn
  <1>13. after \in [0 .. N -> S]
    BY <1>10, <1>12
  <1> QED
    BY <1>5, <1>11, <1>13 DEF N, S, b, visited

\* The kinds of the orders that have started, among some of a queue.
StartedIn(q, J) == {Kind(q[i].order) : i \in {j \in J : Started(q[j])}}

\* Each order that runs or waits has its driver, a change of form its component,
\* and a crossing the walk in front.
Driven(u) ==
  LET started == StartedIn(u.queue, DOMAIN u.queue) IN
  /\ u.drivers = started \ {"Morph", "Die"}
  /\ u.change # "none" <=> "Morph" \in started
  /\ u.crossing => ~u.aboard /\ "Move" \in u.drivers /\ u.queue[1].order = "Move"

\* Of two orders of one kind of which one has started, that one is in front.
LEMMA SameKind ==
  ASSUME NEW q \in Seq(Entries), Linked(q), Swept(q),
         NEW i \in DOMAIN q, NEW j \in DOMAIN q, i # j, ~Started(q[i]), Started(q[j]),
         Kind(q[i].order) = Kind(q[j].order), q[i].order \notin Topic \cup {"Morph", "Die"}
  PROVE  q[i].order \in OnFoot /\ q[j].order = q[i].order /\ j < i
  <1>1. q[i] \in Entries /\ q[j] \in Entries /\ i \in Nat /\ j \in Nat /\ i >= 1 /\ j >= 1
    BY ElementOfSeq
  <1>2. Kind(q[i].order) = q[i].order /\ q[i].order \in OnFoot \cup {"Train"}
    BY <1>1, EntryIs, Kinds
  <1>3. q[j].order = q[i].order
    BY <1>1, <1>2, EntryIs, Kinds DEF OnFoot, Legs
  <1>4. q[i].order # "Train"
    BY <1>3 DEF Swept
  <1>5. q[i].order \in OnFoot
    BY <1>2, <1>4
  <1>6. ~(i < j)
    <2> SUFFICES ASSUME i < j PROVE FALSE
      OBVIOUS
    <2>1. q[j].state = "suspended"
      BY <1>1 DEF Linked, Started
    <2>2. Rank(q[i].order) < Rank(q[j].order)
      BY <2>1, ChainIs
    <2>3. Rank(q[i].order) \in Nat
      BY DEF Rank
    <2> QED
      BY <1>3, <2>2, <2>3
  <1> QED
    BY <1>1, <1>3, <1>5, <1>6

\* By h, each entry of p comes from one of q: those at J, in their order, with
\* their marks cleared.
From(q, J, p, h) ==
  /\ \A a, b \in DOMAIN p : a < b => h[a] < h[b]
  /\ \A a \in DOMAIN p : p[a] = [q[h[a]] EXCEPT !.cancel = Unmarked]
  /\ J = {h[a] : a \in DOMAIN p}

\* Queue p is what is left at J of queue q.
Embeds(q, J, p) == \E h \in [DOMAIN p -> DOMAIN q] : From(q, J, p, h)

\* Of no entries no entries are left.
LEMMA EmbedsNone ==
  ASSUME NEW q \in Seq(Entries)
  PROVE  Embeds(q, {}, <<>>)
  <1> DEFINE h == [a \in {} |-> 1]
  <1>1. DOMAIN <<>> = {}
    OBVIOUS
  <1>2. h \in [DOMAIN <<>> -> DOMAIN q]
    BY <1>1
  <1> QED
    BY <1>1, <1>2 DEF Embeds, From

\* One entry more.
LEMMA EmbedsMore ==
  ASSUME NEW q \in Seq(Entries), NEW p \in Seq(Entries), NEW J, Embeds(q, J, p),
         NEW i \in DOMAIN q, \A j \in J : j < i
  PROVE  Embeds(q, J \cup {i}, Append(p, [q[i] EXCEPT !.cancel = Unmarked]))
  <1>1. PICK h \in [DOMAIN p -> DOMAIN q] :
          /\ \A a, b \in DOMAIN p : a < b => h[a] < h[b]
          /\ \A a \in DOMAIN p : p[a] = [q[h[a]] EXCEPT !.cancel = Unmarked]
          /\ J = {h[a] : a \in DOMAIN p}
    BY DEF Embeds, From
  <1>2. PICK e : e = [q[i] EXCEPT !.cancel = Unmarked]
    OBVIOUS
  <1>a. q[i] \in Entries
    BY ElementOfSeq
  <1>3. q[i] \in Entries /\ e \in Entries
    BY <1>2, <1>a, EntryTyped
  <1>4. PICK r : r = Append(p, e)
    OBVIOUS
  <1>5. /\ Len(p) \in Nat /\ DOMAIN p = 1 .. Len(p) /\ DOMAIN r = 1 .. Len(p) + 1
        /\ \A a \in DOMAIN p : r[a] = p[a]
        /\ r[Len(p) + 1] = e
    BY <1>3, <1>4, AppendProperties, LenProperties
  <1> DEFINE g == [a \in DOMAIN r |-> IF a = Len(p) + 1 THEN i ELSE h[a]]
  <1>6. g \in [DOMAIN r -> DOMAIN q]
    BY <1>5
  <1>7. \A a, b \in DOMAIN r : a < b => g[a] < g[b]
    <2> TAKE a, b \in DOMAIN r
    <2> HAVE a < b
    <2>1. a \in DOMAIN p /\ g[a] = h[a] /\ h[a] \in J
      BY <1>1, <1>5
    <2>2. CASE b = Len(p) + 1
      BY <2>1, <2>2
    <2>3. CASE b # Len(p) + 1
      BY <1>1, <1>5, <2>1, <2>3
    <2> QED
      BY <2>2, <2>3
  <1>8. \A a \in DOMAIN r : r[a] = [q[g[a]] EXCEPT !.cancel = Unmarked]
    <2> TAKE a \in DOMAIN r
    <2>1. CASE a = Len(p) + 1
      BY <1>2, <1>5, <2>1
    <2>2. CASE a # Len(p) + 1
      <3>1. a \in DOMAIN p /\ g[a] = h[a] /\ r[a] = p[a]
        BY <1>5, <2>2
      <3> QED
        BY <1>1, <3>1
    <2> QED
      BY <2>1, <2>2
  <1>9. J \cup {i} = {g[a] : a \in DOMAIN r}
    <2>1. \A a \in DOMAIN p : a \in DOMAIN r /\ g[a] = h[a]
      BY <1>5
    <2>2. Len(p) + 1 \in DOMAIN r /\ g[Len(p) + 1] = i
      BY <1>5
    <2>3. \A a \in DOMAIN r : a = Len(p) + 1 \/ a \in DOMAIN p
      BY <1>5
    <2>4. \A j \in J \cup {i} : j \in {g[a] : a \in DOMAIN r}
      BY <1>1, <2>1, <2>2
    <2>5. \A a \in DOMAIN r : g[a] \in J \cup {i}
      BY <1>1, <2>1, <2>2, <2>3
    <2> HIDE DEF g
    <2> QED
      BY <2>4, <2>5
  <1> HIDE DEF g
  <1>10. Embeds(q, J \cup {i}, r)
    BY <1>6, <1>7, <1>8, <1>9 DEF Embeds, From
  <1> QED
    BY <1>2, <1>4, <1>10

\* The front is a change of form that a flush ends.
Turns(u) ==
  /\ u.queue # <<>> /\ u.queue[1].order = "Morph" /\ Started(u.queue[1])
  /\ ~Stays(u, u.queue[1])

\* What goes back to the owner for it.
Back(u) ==
  IF /\ Turns(u) /\ u.change # "clearing" /\ u.life = "alive"
     /\ Terms[u.form] = "refundable" /\ u.queue[1].cancel = "soft"
  THEN 1 ELSE 0

\* The entries that a flush has not visited, or leaves.
Left(u, i) == {j \in DOMAIN u.queue : j > i \/ Stays(u, u.queue[j])}

\* A flush that came to entry i and has killed nobody.
Calm(u, i, a) ==
  /\ ~a.dies /\ Kept(u, a.unit)
  /\ a.unit.drivers = StartedIn(u.queue, Left(u, i)) \ {"Morph", "Die"}
  /\ a.unit.change = IF i >= 1 /\ Turns(u) THEN "none" ELSE u.change
  /\ a.back = IF i >= 1 THEN Back(u) ELSE 0
  /\ a.unit.paid = IF \E j \in 1 .. i : u.queue[j].order = "Train" /\ u.queue[j].cancel = "force"
                   THEN <<>> ELSE u.paid
  /\ a.unit.crossing => /\ u.crossing
                        /\ i >= 1 => ~(u.queue[1].order = "Move" /\ u.queue[1].cancel = "force")
  /\ i = 0 => a.kept = <<>>
  /\ Embeds(u.queue, {j \in 1 .. i : Stays(u, u.queue[j])}, a.kept)

\* A flush whose first entry was a change of form that killed.
Fatal(u, i, a) ==
  /\ a.dies /\ i >= 1 /\ a.kept = <<>>
  /\ Turns(u) /\ u.change # "clearing" /\ u.life = "alive"
  /\ a.unit.life = "dying" /\ a.unit.left = DyingTime
  /\ a.unit.owner = u.owner /\ a.unit.form = u.form /\ a.unit.outage = u.outage
  /\ a.unit.aboard = u.aboard /\ a.unit.queue = u.queue
  /\ a.unit.drivers = {} /\ ~a.unit.crossing /\ a.unit.change = "none"
  /\ a.back = Back(u)

\* The drivers after the next entry of a flush.
LEMMA DriversFlushed ==
  ASSUME NEW u \in Components, Linked(u.queue), Swept(u.queue), NEW i \in DOMAIN u.queue,
         Marked(u.queue[i])
  PROVE  LET q == u.queue
             entry == q[i]
             X == {"Morph", "Die"}
             before == StartedIn(q, Left(u, i - 1)) \ X
         IN  StartedIn(q, Left(u, i)) \ X =
               IF \/ Stays(u, entry) \/ entry.order \in X
                  \/ (entry.order = "Move" /\ entry.cancel = "soft")
                  \/ (entry.order \in Topic /\ ~Started(entry))
               THEN before ELSE before \ {Kind(entry.order)}
  <1> DEFINE q == u.queue
             entry == q[i]
             X == {"Morph", "Die"}
             J == Left(u, i - 1)
             before == StartedIn(q, J) \ X
  <1>1. q \in Seq(Entries) /\ i \in Nat /\ i >= 1 /\ DOMAIN q \in SUBSET Nat
    BY DEF Components, Entries
  <1>2. entry \in Entries
    BY <1>1, ElementOfSeq
  <1>3. CASE Stays(u, entry)
    <2>1. Left(u, i) = J
      BY <1>1, <1>3 DEF Left
    <2> QED
      BY <1>3, <2>1
  <1>4. CASE ~Stays(u, entry)
    <2>1. Left(u, i) = J \ {i} /\ i \in J /\ J \in SUBSET DOMAIN q
      BY <1>1, <1>4 DEF Left
    <2>2. Started(entry) => \A j \in J \ {i} : Started(q[j]) => Kind(q[j].order) # Kind(entry.order)
      BY <1>1, <2>1, StartedOnce
    <2>3. /\ Started(entry) => StartedIn(q, J \ {i}) = StartedIn(q, J) \ {Kind(entry.order)}
          /\ ~Started(entry) => StartedIn(q, J \ {i}) = StartedIn(q, J)
      <3>1. i \in J /\ J \in SUBSET DOMAIN q
        BY <2>1
      <3> HIDE DEF q, J
      <3> QED
        BY <2>2, <3>1 DEF StartedIn
    <2>4. CASE entry.order \in X
      <3>1. Kind(entry.order) \in X
        BY <1>2, <2>4, EntryIs, Kinds DEF OnFoot, Legs
      <3> QED
        BY <1>4, <2>1, <2>3, <2>4, <3>1
    <2>5. CASE entry.order \notin X /\ Started(entry)
      <3>1. ~(entry.order = "Move" /\ entry.cancel = "soft")
        <4> SUFFICES ASSUME entry.order = "Move", entry.cancel = "soft" PROVE FALSE
          OBVIOUS
        <4>1. entry.state = "running"
          BY <1>1, <2>5 DEF Linked, Started
        <4> QED
          BY <1>4, <4>1 DEF Stays
      <3> QED
        BY <1>4, <2>1, <2>3, <2>5, <3>1
    <2>6. CASE entry.order \notin X /\ ~Started(entry)
      <3>1. CASE entry.order \in Topic \/ (entry.order = "Move" /\ entry.cancel = "soft")
        BY <1>4, <2>1, <2>3, <2>6, <3>1
      <3>2. CASE entry.order \notin Topic /\ ~(entry.order = "Move" /\ entry.cancel = "soft")
        <4>1. Kind(entry.order) \notin StartedIn(q, J)
          <5> SUFFICES ASSUME NEW j \in J, Started(q[j]), Kind(q[j].order) = Kind(entry.order) PROVE FALSE
            BY DEF StartedIn
          <5>1. i # j /\ j \in DOMAIN q
            BY <2>1, <2>6
          <5>2. entry.order \in OnFoot /\ q[j].order = entry.order /\ j < i
            BY <1>1, <2>6, <3>2, <5>1, SameKind
          <5>3. Stays(u, q[j])
            BY <1>1, <2>1, <5>1, <5>2 DEF Left
          <5>4. /\ Marked(q[j])
                /\ entry.cancel = "force" => q[j].cancel = "force"
            BY <5>1, <5>2 DEF Swept
          <5>5. q[j] \in Entries
            BY <1>1, <5>1, ElementOfSeq
          <5>6. /\ entry.cancel \in {"soft", "force"} /\ q[j].cancel \in {"soft", "force"}
                /\ Kind(q[j].order) = q[j].order /\ q[j].order \notin Queued \cup {"Morph", "Die"}
            BY <1>2, <5>2, <5>4, <5>5, EntryIs, Kinds DEF Policy, OnFoot, Legs, Queued
          <5> QED
            BY <3>2, <5>2, <5>3, <5>4, <5>6 DEF Stays
        <4> QED
          BY <1>4, <2>1, <2>3, <2>6, <3>2, <4>1
      <3> QED
        BY <3>1, <3>2
    <2> QED
      BY <2>4, <2>5, <2>6
  <1> QED
    BY <1>3, <1>4

\* Whether an entry outlasts a flush does not depend on what was flushed before it.
LEMMA StaysSame ==
  ASSUME NEW u, NEW w, NEW entry, w.form = u.form,
         entry.order = "Morph" /\ Started(entry) => w.change = u.change
  PROVE  Stays(w, entry) <=> Stays(u, entry)
  BY DEF Stays

\* A unit as it stands.
LEMMA KeptTrans ==
  ASSUME NEW u, NEW v, NEW w, Kept(u, v), Kept(v, w)
  PROVE  Kept(u, w)
  BY DEF Kept

\* A flush that has killed nobody visits its next entry: it kills nobody with it
\* either, or its first entry was a change of form that kills.
LEMMA CalmStep ==
  ASSUME NEW u \in Components, Linked(u.queue), Swept(u.queue), Driven(u),
         NEW doomed \in BOOLEAN, NEW i \in 1 .. Len(u.queue),
         NEW a \in Acc, Calm(u, i - 1, a)
  PROVE  LET v == Visit(a, u.queue[i], doomed)
         IN  Calm(u, i, v) \/ (Fatal(u, i, v) /\ doomed)
  <1> DEFINE q == u.queue
             entry == q[i]
             X == {"Morph", "Die"}
             J(k) == {j \in 1 .. k : Stays(u, q[j])}
             clear == [entry EXCEPT !.cancel = Unmarked]
             gone(k) == \E j \in 1 .. k : q[j].order = "Train" /\ q[j].cancel = "force"
  <1>1. q \in Seq(Entries) /\ DOMAIN q = 1 .. Len(q) /\ Len(q) \in Nat
    BY LenProperties DEF Components, Entries
  <1>2. entry \in Entries /\ i \in DOMAIN q
    BY <1>1, ElementOfSeq
  <1>3. a.kept \in Seq(Entries) /\ a.unit \in Components
    BY DEF Acc
  <1>4. PICK v : v = Visit(a, entry, doomed)
    OBVIOUS
  <1>5. v \in Acc
    BY <1>2, <1>4, VisitIs
  <1>6. entry.order = "Morph" /\ Started(entry) => i = 1
    BY <1>1, <1>2, StartedFront DEF OnFoot, Legs
  <1>7. Stays(a.unit, entry) <=> Stays(u, entry)
    <2>1. a.unit.form = u.form /\ (i = 1 => a.unit.change = u.change)
      BY DEF Calm, Kept
    <2> HIDE DEF q, entry
    <2> QED
      BY <1>6, <2>1, StaysSame
  <1>8. i = 1 \/ i - 1 >= 1
    BY <1>1
  <1>9. Turns(u) /\ i = 1 <=> entry.order = "Morph" /\ Started(entry) /\ ~Stays(u, entry)
    BY <1>1, <1>6 DEF Turns
  <1>10. J(i) = IF Stays(u, entry) THEN J(i - 1) \cup {i} ELSE J(i - 1)
    BY <1>1
  <1>11. /\ Stays(u, entry) => Embeds(q, J(i), Append(a.kept, clear))
         /\ ~Stays(u, entry) => Embeds(q, J(i), a.kept)
    <2>1. Embeds(q, J(i - 1), a.kept)
      BY DEF Calm
    <2>2. \A j \in J(i - 1) : j < i
      BY <1>1
    <2>3. Embeds(q, J(i - 1) \cup {i}, Append(a.kept, clear))
      <3> HIDE DEF q, J
      <3> QED
        BY <1>1, <1>2, <1>3, <2>1, <2>2, EmbedsMore
    <2> QED
      BY <1>10, <2>1, <2>3
  <1>12. CASE ~Marked(entry)
    <2>1. v.unit = a.unit /\ v.kept = Append(a.kept, entry) /\ v.back = a.back /\ ~v.dies
      <3>1. ~a.dies
        BY DEF Calm
      <3>2. v = [a EXCEPT !.kept = Append(@, entry)]
        BY <1>4, <1>12, <3>1 DEF Visit, Marked
      <3> QED
        BY <3>1, <3>2 DEF Acc
    <2>2. Stays(u, entry)
      BY <1>12 DEF Stays
    <2>3. clear = entry
      BY <1>2, <1>12 DEF Entries, OrderEntry, Marked
    <2>4. Left(u, i) = Left(u, i - 1)
      BY <1>1, <2>2 DEF Left
    <2>5. /\ entry.cancel # "force"
          /\ gone(i) <=> gone(i - 1)
      BY <1>1, <1>12 DEF Marked, Unmarked
    <2>6. i = 1 => ~Turns(u) /\ Back(u) = 0
      BY <1>9, <2>2 DEF Back
    <2>7. Embeds(q, J(i), v.kept)
      BY <1>11, <2>1, <2>2, <2>3
    <2>8. Calm(u, i, v)
      <3>1. Kept(u, v.unit)
        BY <2>1 DEF Calm
      <3>2. v.unit.drivers = StartedIn(q, Left(u, i)) \ X
        BY <2>1, <2>4 DEF Calm
      <3>3. v.unit.change = IF Turns(u) THEN "none" ELSE u.change
        BY <1>8, <2>1, <2>6 DEF Calm
      <3>4. v.back = Back(u)
        BY <1>8, <2>1, <2>6 DEF Calm
      <3>5. v.unit.paid = IF gone(i) THEN <<>> ELSE u.paid
        BY <2>1, <2>5 DEF Calm
      <3>6. v.unit.crossing => u.crossing /\ ~(q[1].order = "Move" /\ q[1].cancel = "force")
        BY <1>8, <2>1, <2>5 DEF Calm
      <3> QED
        BY <1>1, <2>1, <2>7, <3>1, <3>2, <3>3, <3>4, <3>5, <3>6 DEF Calm
    <2> QED
      BY <1>4, <2>8
  <1>13. CASE Marked(entry)
    <2>1. PICK r \in CancelResult :
            /\ Cancels(a.unit, entry, doomed, r)
            /\ v.unit = IF r.dies THEN StartDying(r.unit) ELSE r.unit
            /\ v.kept = IF r.stays THEN Append(a.kept, clear)
                        ELSE IF r.dies THEN MarkAll(a.kept, "force") ELSE a.kept
            /\ v.back = a.back + r.back
            /\ v.dies <=> (a.dies \/ r.dies)
      BY <1>2, <1>4, <1>13, VisitIs DEF Calm
    <2>2. a.unit.life = u.life /\ a.unit.form = u.form /\ ~a.dies /\ Kept(u, a.unit)
      BY DEF Calm, Kept
    <2>3. r.stays <=> Stays(u, entry)
      BY <1>7, <2>1 DEF Cancels
    <2>4. entry.cancel \in {"soft", "force"}
      BY <1>2, <1>13, EntryIs DEF Policy
    <2>5. r.unit.change = IF Turns(u) THEN "none" ELSE u.change
      <3>1. CASE i = 1
        BY <1>7, <1>9, <2>1, <3>1 DEF Cancels, Calm
      <3>2. CASE i # 1
        BY <1>6, <1>8, <2>1, <3>2 DEF Cancels, Calm
      <3> QED
        BY <3>1, <3>2
    <2>6. /\ r.back = IF i = 1 THEN Back(u) ELSE 0
          /\ r.dies <=> /\ i = 1 /\ Turns(u) /\ u.change # "clearing" /\ u.life = "alive"
                        /\ doomed
      <3>1. CASE i = 1
        <4>1. a.unit.change = u.change
          BY <3>1 DEF Calm
        <4> QED
          BY <1>7, <1>9, <2>1, <2>2, <3>1, <4>1 DEF Cancels, Back
      <3>2. CASE i # 1
        BY <1>6, <2>1, <3>2 DEF Cancels
      <3> QED
        BY <3>1, <3>2
    <2>7. v.back = Back(u)
      <3>1. Back(u) \in 0 .. 1
        BY DEF Back
      <3> QED
        BY <1>8, <2>1, <2>6, <3>1 DEF Calm
    <2>8. r.unit.drivers = StartedIn(q, Left(u, i)) \ X
      <3>1. r.unit.drivers =
              IF \/ Stays(u, entry) \/ entry.order \in X
                 \/ (entry.order = "Move" /\ entry.cancel = "soft")
                 \/ (entry.order \in Topic /\ ~Started(entry))
              THEN a.unit.drivers ELSE a.unit.drivers \ {Kind(entry.order)}
        BY <1>7, <2>1 DEF Cancels
      <3>2. a.unit.drivers = StartedIn(q, Left(u, i - 1)) \ X
        BY DEF Calm
      <3> QED
        BY <1>2, <1>13, <3>1, <3>2, DriversFlushed
    <2>9. r.unit.paid = IF gone(i) THEN <<>> ELSE u.paid
      <3>1. gone(i) <=> gone(i - 1) \/ (entry.order = "Train" /\ entry.cancel = "force")
        BY <1>1
      <3>2. r.unit.paid = IF entry.order = "Train" /\ entry.cancel = "force" THEN <<>> ELSE a.unit.paid
        BY <2>1 DEF Cancels
      <3>3. a.unit.paid = IF gone(i - 1) THEN <<>> ELSE u.paid
        BY DEF Calm
      <3> QED
        BY <3>1, <3>2, <3>3
    <2>10. r.unit.crossing => u.crossing /\ ~(q[1].order = "Move" /\ q[1].cancel = "force")
      <3>1. r.unit.crossing => a.unit.crossing /\ ~(entry.order = "Move" /\ entry.cancel = "force")
        BY <2>1 DEF Cancels
      <3> QED
        BY <1>8, <3>1 DEF Calm
    <2>11. Kept(u, r.unit)
      BY <2>1, <2>2, KeptTrans DEF Cancels
    <2>12. CASE ~r.dies
      <3>1. Embeds(q, J(i), v.kept)
        BY <1>11, <2>1, <2>3, <2>12
      <3>2. v.unit = r.unit /\ ~v.dies
        BY <2>1, <2>2, <2>12
      <3>3. Calm(u, i, v)
        BY <1>1, <2>5, <2>7, <2>8, <2>9, <2>10, <2>11, <3>1, <3>2 DEF Calm
      <3> QED
        BY <1>4, <3>3
    <2>13. CASE r.dies
      <3>1. i = 1 /\ Turns(u) /\ u.change # "clearing" /\ u.life = "alive" /\ doomed
        BY <2>6, <2>13
      <3>2. v.kept = <<>>
        <4>1. a.kept = <<>> /\ ~r.stays
          BY <1>9, <2>3, <3>1 DEF Calm
        <4>2. MarkAll(a.kept, "force") \in Seq(Entries) /\ Len(MarkAll(a.kept, "force")) = Len(a.kept)
          BY <1>3, MarkAllIs DEF Policy
        <4>3. MarkAll(a.kept, "force") = <<>>
          BY <4>1, <4>2, EmptySeq
        <4> QED
          BY <2>1, <2>13, <4>1, <4>3
      <3>3. v.unit = StartDying(r.unit) /\ r.unit \in Components
        BY <2>1, <2>13 DEF CancelResult
      <3>4. r.unit.drivers = {}
        <4>1. StartedIn(q, Left(u, i)) \subseteq X
          <5> SUFFICES ASSUME NEW j \in Left(u, i), Started(q[j]) PROVE Kind(q[j].order) \in X
            BY DEF StartedIn
          <5>1. j = 1
            <6>1. q[1].order \notin OnFoot /\ j \in DOMAIN q
              BY <3>1 DEF Turns, OnFoot, Legs, Left
            <6>2. j # 1 => q[j].state = "new"
              BY <1>1, <6>1, FrontAlone
            <6> QED
              BY <6>2 DEF Started
          <5>2. Kind(q[1].order) = "Morph"
            BY <1>2, <3>1, EntryIs, Kinds DEF Turns
          <5> QED
            BY <5>1, <5>2
        <4> QED
          BY <2>8, <4>1
      <3>5. Fatal(u, i, v)
        <4>1. /\ v.unit.life = "dying" /\ v.unit.left = DyingTime /\ ~v.unit.crossing
              /\ v.unit.owner = u.owner /\ v.unit.form = u.form /\ v.unit.outage = u.outage
              /\ v.unit.aboard = u.aboard /\ v.unit.queue = u.queue
              /\ v.unit.drivers = {} /\ v.unit.change = "none"
          BY <2>5, <2>11, <3>1, <3>3, <3>4, DyingIs DEF Kept
        <4>2. v.dies
          BY <2>1, <2>13
        <4> HIDE DEF q, entry
        <4> QED
          BY <2>7, <3>1, <3>2, <4>1, <4>2 DEF Fatal
      <3> QED
        BY <1>4, <3>1, <3>5
    <2> QED
      BY <2>12, <2>13
  <1> QED
    BY <1>12, <1>13

\* A flush that has killed drops all the rest.
LEMMA FatalStep ==
  ASSUME NEW u \in Components, Linked(u.queue),
         NEW doomed \in BOOLEAN, NEW i \in 1 .. Len(u.queue), u.queue[i].order # "Die",
         NEW a \in Acc, Fatal(u, i - 1, a)
  PROVE  Fatal(u, i, Visit(a, u.queue[i], doomed))
  <1> DEFINE entry == u.queue[i]
  <1>1. u.queue \in Seq(Entries) /\ DOMAIN u.queue = 1 .. Len(u.queue) /\ Len(u.queue) \in Nat
    BY LenProperties DEF Components, Entries
  <1>2. entry \in Entries /\ i \in DOMAIN u.queue
    BY <1>1, ElementOfSeq
  <1>3. PICK m : m = Mark(entry, "force")
    OBVIOUS
  <1>4. Marked(m) /\ m.cancel = "force" /\ m.order = entry.order /\ m.state = entry.state
    BY <1>2, <1>3, MarkIs DEF Policy
  <1>5. PICK v : v = Visit(a, entry, doomed)
    OBVIOUS
  <1>6. a.dies /\ i >= 2
    BY DEF Fatal
  <1>7. PICK r \in CancelResult :
          /\ Cancels(a.unit, m, doomed, r)
          /\ v.unit = IF r.dies THEN StartDying(r.unit) ELSE r.unit
          /\ v.kept = IF r.stays THEN Append(a.kept, [entry EXCEPT !.cancel = Unmarked])
                      ELSE IF r.dies THEN MarkAll(a.kept, "force") ELSE a.kept
          /\ v.back = a.back + r.back
          /\ v.dies <=> (a.dies \/ r.dies)
    <2> HIDE DEF entry
    <2> QED
      BY <1>2, <1>3, <1>4, <1>5, <1>6, VisitIs
  <1>8. ~Stays(a.unit, m)
    BY <1>4 DEF Stays, Marked, Unmarked
  <1>9. ~(m.order = "Morph" /\ Started(m))
    <2> SUFFICES ASSUME m.order = "Morph", Started(m) PROVE FALSE
      OBVIOUS
    <2>1. Started(entry) /\ entry.order \notin OnFoot
      BY <1>4 DEF Started, OnFoot, Legs
    <2> QED
      BY <1>1, <1>2, <1>6, <2>1, StartedFront
  <1>10. ~r.stays /\ ~r.dies /\ r.back = 0 /\ r.unit.change = a.unit.change
         /\ r.unit.drivers \subseteq a.unit.drivers /\ (r.unit.crossing => a.unit.crossing)
         /\ Kept(a.unit, r.unit)
    BY <1>7, <1>8, <1>9 DEF Cancels
  <1>11. v.unit = r.unit /\ v.kept = a.kept /\ v.back = a.back /\ v.dies
    BY <1>6, <1>7, <1>10 DEF Acc
  <1>12. Fatal(u, i, v)
    BY <1>6, <1>10, <1>11 DEF Fatal, Kept
  <1> QED
    BY <1>5, <1>12

\* A flush takes every entry that does not outlast it, with its driver; it kills
\* its unit only by the change of form in front.
LEMMA FlushTo ==
  ASSUME NEW u \in Components, Linked(u.queue), Swept(u.queue), Driven(u),
         u.life = "alive" => \A i \in DOMAIN u.queue : u.queue[i].order # "Die",
         NEW doomed \in BOOLEAN, NEW after \in [0 .. Len(u.queue) -> Acc],
         after[0] = [unit |-> u, kept |-> <<>>, back |-> 0, dies |-> FALSE],
         \A i \in 1 .. Len(u.queue) : after[i] = Visit(after[i - 1], u.queue[i], doomed)
  PROVE  \/ Calm(u, Len(u.queue), after[Len(u.queue)])
         \/ doomed /\ Fatal(u, Len(u.queue), after[Len(u.queue)])
  <1> DEFINE N == Len(u.queue)
             Good(i) == Calm(u, i, after[i]) \/ (doomed /\ Fatal(u, i, after[i]))
             P == {i \in 0 .. N : Good(i)}
  <1>1. u.queue \in Seq(Entries) /\ DOMAIN u.queue = 1 .. N /\ N \in Nat
    BY LenProperties DEF Components, Entries
  <1>2. Calm(u, 0, after[0])
    <2>1. {j \in 1 .. 0 : Stays(u, u.queue[j])} = {} /\ Left(u, 0) = DOMAIN u.queue
      BY <1>1 DEF Left
    <2>2. Embeds(u.queue, {j \in 1 .. 0 : Stays(u, u.queue[j])}, <<>>)
      BY <1>1, <2>1, EmbedsNone
    <2>3. Kept(u, u) /\ u.drivers = StartedIn(u.queue, Left(u, 0)) \ {"Morph", "Die"}
      BY <2>1 DEF Kept, Driven
    <2> QED
      BY <2>2, <2>3 DEF Calm
  <1>3. ASSUME NEW i \in 1 .. N, Good(i - 1) PROVE Good(i)
    <2>1. after[i - 1] \in Acc /\ after[i] = Visit(after[i - 1], u.queue[i], doomed)
      BY <1>1
    <2>2. CASE Calm(u, i - 1, after[i - 1])
      BY <2>1, <2>2, CalmStep
    <2>3. CASE doomed /\ Fatal(u, i - 1, after[i - 1])
      <3>1. u.queue[i].order # "Die"
        BY <1>1, <2>3 DEF Fatal
      <3> QED
        BY <2>1, <2>3, <3>1, FatalStep
    <2> QED
      BY <1>3, <2>2, <2>3
  <1>4. 0 \in P /\ \A i \in 1 .. N : i - 1 \in P => i \in P
    BY <1>1, <1>2, <1>3
  <1>5. 0 .. N \subseteq P
    <2> HIDE DEF P
    <2> QED
      BY <1>1, <1>4, StaysIn
  <1> QED
    BY <1>1, <1>5

\* An entry without its mark.
LEMMA ClearIs ==
  ASSUME NEW entry \in Entries
  PROVE  LET c == [entry EXCEPT !.cancel = Unmarked]
         IN  /\ c \in Entries /\ c.order = entry.order /\ c.state = entry.state
             /\ c.cancel = Unmarked /\ ~Marked(c) /\ (Started(c) <=> Started(entry))
  BY DEF Entries, OrderEntry, Marked, Started, Policy, Unmarked

\* The first entry, when it is left, is the first of what is left; and the entry
\* before one that is left is left before it.
LEMMA EmbedsFirst ==
  ASSUME NEW q \in Seq(Entries), NEW p \in Seq(Entries), NEW J,
         NEW h \in [DOMAIN p -> DOMAIN q], From(q, J, p, h), NEW a \in DOMAIN p
  PROVE  /\ h[a] = 1 => a = 1
         /\ a # 1 => h[a] # 1
         /\ a # 1 /\ h[a] - 1 \in J => h[a - 1] = h[a] - 1
  <1>1. /\ Len(q) \in Nat /\ Len(p) \in Nat /\ DOMAIN q = 1 .. Len(q) /\ DOMAIN p = 1 .. Len(p)
        /\ \A b \in DOMAIN p : h[b] \in 1 .. Len(q)
        /\ \A b, c \in DOMAIN p : b < c => h[b] < h[c]
        /\ J = {h[b] : b \in DOMAIN p}
    BY LenProperties DEF From
  <1>2. 1 \in DOMAIN p
    BY <1>1
  <1>3. a # 1 => h[a] # 1
    BY <1>1, <1>2
  <1>4. ASSUME a # 1, h[a] - 1 \in J PROVE h[a - 1] = h[a] - 1
    <2>1. PICK b \in DOMAIN p : h[b] = h[a] - 1
      BY <1>1, <1>4
    <2>2. a - 1 \in DOMAIN p /\ h[a - 1] < h[a]
      BY <1>1, <1>4
    <2>3. ~(a < b) /\ b # a
      BY <1>1, <2>1
    <2>4. ~(b < a - 1)
      BY <1>1, <2>1, <2>2
    <2>5. b = a - 1
      <3>1. a \in Int /\ b \in Int
        BY <1>1
      <3> QED
        BY <2>3, <2>4, <3>1
    <2> QED
      BY <2>1, <2>5
  <1> QED
    BY <1>3, <1>4

\* Of a queue that is linked, entries are left that still are: who waits and is
\* left was not marked, and neither was what it waits for.
LEMMA EmbedsLinked ==
  ASSUME NEW q \in Seq(Entries), NEW p \in Seq(Entries), NEW J, Embeds(q, J, p), Linked(q),
         \A j \in DOMAIN q : ~Marked(q[j]) => j \in J,
         \A j \in J : q[j].state = "suspended" => ~Marked(q[j])
  PROVE  /\ Linked(p) /\ \A a \in DOMAIN p : ~Marked(p[a])
         /\ Swept(q) => Swept(p)
         /\ StartedIn(p, DOMAIN p) = StartedIn(q, J)
         /\ 1 \in J => p # <<>> /\ p[1].order = q[1].order
  <1>1. PICK h \in [DOMAIN p -> DOMAIN q] :
          /\ From(q, J, p, h)
          /\ \A a, b \in DOMAIN p : a < b => h[a] < h[b]
          /\ \A a \in DOMAIN p : p[a] = [q[h[a]] EXCEPT !.cancel = Unmarked]
          /\ J = {h[a] : a \in DOMAIN p}
    BY DEF Embeds, From
  <1>2. /\ Len(q) \in Nat /\ Len(p) \in Nat /\ DOMAIN q = 1 .. Len(q) /\ DOMAIN p = 1 .. Len(p)
        /\ \A a \in DOMAIN p : h[a] \in 1 .. Len(q) /\ h[a] \in J
        /\ \A a \in DOMAIN p : q[h[a]] \in Entries
    BY <1>1, LenProperties
  <1>3. ASSUME NEW a \in DOMAIN p
        PROVE  /\ p[a].order = q[h[a]].order /\ p[a].state = q[h[a]].state
               /\ ~Marked(p[a]) /\ p[a].cancel = Unmarked /\ (Started(p[a]) <=> Started(q[h[a]]))
    <2>1. PICK entry \in Entries : entry = q[h[a]]
      BY <1>2
    <2>2. p[a] = [entry EXCEPT !.cancel = Unmarked]
      BY <1>1, <2>1
    <2> QED
      BY <2>1, <2>2, ClearIs
  <1>4. ASSUME NEW a \in DOMAIN p
        PROVE  /\ h[a] = 1 => a = 1
               /\ a # 1 => h[a] # 1
               /\ a # 1 /\ h[a] - 1 \in J => h[a - 1] = h[a] - 1
    <2>1. From(q, J, p, h)
      BY <1>1
    <2> QED
      BY <2>1, EmbedsFirst
  <1>5. Linked(p)
    <2>1. \A a \in DOMAIN p : p[a].state = "running" => a = 1
      BY <1>2, <1>3, <1>4 DEF Linked
    <2>2. \A a \in DOMAIN p : p[a].state = "suspended" => p[a].order \in OnFoot \ {"Move"}
      BY <1>2, <1>3 DEF Linked
    <2>3. ASSUME NEW a \in DOMAIN p \ {1}, p[a].state = "suspended"
          PROVE  /\ p[a - 1].order \in SubOrders(p[a].order)
                 /\ a > 2 => p[a - 1].state = "suspended"
                 /\ Marked(p[a]) <=> Marked(p[a - 1])
      <3>1. /\ a - 1 \in DOMAIN p /\ h[a] \in DOMAIN q \ {1} /\ h[a] - 1 \in DOMAIN q
            /\ q[h[a]].state = "suspended" /\ ~Marked(q[h[a]])
        BY <1>2, <1>3, <1>4, <2>3
      <3>2. /\ q[h[a] - 1].order \in SubOrders(q[h[a]].order)
            /\ h[a] > 2 => q[h[a] - 1].state = "suspended"
            /\ ~Marked(q[h[a] - 1])
        BY <3>1 DEF Linked
      <3>3. h[a - 1] = h[a] - 1
        BY <1>4, <3>1, <3>2
      <3>4. a > 2 => h[a] > 2
        BY <1>2, <1>4, <3>1, <3>3
      <3> QED
        BY <1>3, <3>1, <3>2, <3>3, <3>4
    <2> QED
      BY <2>1, <2>2, <2>3 DEF Linked
  <1>6. Swept(q) => Swept(p)
    <2> SUFFICES ASSUME Swept(q) PROVE Swept(p)
      OBVIOUS
    <2>1. ASSUME NEW a \in DOMAIN p, NEW b \in DOMAIN p, p[a].order = "Train", p[b].order = "Train"
          PROVE  a = b
      <3>1. h[a] = h[b]
        BY <1>2, <1>3, <2>1, SMTT(30) DEF Swept
      <3>2. h[a] \in Int /\ h[b] \in Int
        BY <1>2
      <3>3. ~(a < b) /\ ~(b < a)
        BY <1>1, <3>1, <3>2
      <3> QED
        BY <1>2, <3>3
    <2>2. \A a \in DOMAIN p : ~Marked(p[a]) /\ p[a].cancel # "force"
      BY <1>3 DEF Unmarked
    <2> QED
      BY <2>1, <2>2 DEF Swept
  <1>7. StartedIn(p, DOMAIN p) = StartedIn(q, J)
    <2>1. ASSUME NEW k \in StartedIn(p, DOMAIN p) PROVE k \in StartedIn(q, J)
      <3>1. PICK a \in DOMAIN p : Started(p[a]) /\ k = Kind(p[a].order)
        BY <2>1 DEF StartedIn
      <3> QED
        BY <1>2, <1>3, <3>1 DEF StartedIn
    <2>2. ASSUME NEW k \in StartedIn(q, J) PROVE k \in StartedIn(p, DOMAIN p)
      <3>1. PICK j \in J : Started(q[j]) /\ k = Kind(q[j].order)
        BY <2>2 DEF StartedIn
      <3>2. PICK a \in DOMAIN p : j = h[a]
        BY <1>1, <3>1
      <3> QED
        BY <1>3, <3>1, <3>2 DEF StartedIn
    <2> QED
      BY <2>1, <2>2
  <1>8. ASSUME 1 \in J PROVE p # <<>> /\ p[1].order = q[1].order
    <2>1. PICK a \in DOMAIN p : h[a] = 1
      BY <1>1, <1>8
    <2>2. a = 1
      BY <1>4, <2>1
    <2> QED
      BY <1>2, <1>3, <2>1, <2>2
  <1> QED
    BY <1>3, <1>5, <1>6, <1>7, <1>8

\* The entries that outlast a flush.
Staying(u) == {j \in DOMAIN u.queue : Stays(u, u.queue[j])}

\* What a flush that kills nobody makes of its unit.
Flushed(u, r) ==
  LET v == r.unit IN
  /\ v \in Components
  /\ v.owner = u.owner /\ v.form = u.form /\ v.outage = u.outage /\ v.aboard = u.aboard
  /\ v.life = u.life /\ v.left = u.left
  /\ Linked(v.queue) /\ Swept(v.queue) /\ Driven(v)
  /\ \A i \in DOMAIN v.queue : ~Marked(v.queue[i])
  /\ Embeds(u.queue, Staying(u), v.queue)
  /\ v.change = IF Turns(u) THEN "none" ELSE u.change
  /\ v.paid = IF \E j \in DOMAIN u.queue : u.queue[j].order = "Train" /\ u.queue[j].cancel = "force"
              THEN <<>> ELSE u.paid
  /\ r.gain = Back(u)

\* What a flush that kills makes of it: only the death is left to serve.
Killed(u, r) ==
  LET v == r.unit IN
  /\ v \in Components
  /\ v.owner = u.owner /\ v.form = u.form /\ v.outage = u.outage /\ v.aboard = u.aboard
  /\ Turns(u) /\ Changing(u) /\ u.life = "alive"
  /\ v.life = "dying" /\ v.left = DyingTime /\ v.queue = <<Entry("Die")>>
  /\ v.drivers = {} /\ ~v.crossing /\ v.change = "none"
  /\ r.gain = Back(u)

\* A unit with another queue.
LEMMA QueueSet ==
  ASSUME NEW u \in Components, NEW q \in Seq(Entries)
  PROVE  LET v == [u EXCEPT !.queue = q] IN
         /\ v \in Components /\ v.queue = q
         /\ v.owner = u.owner /\ v.form = u.form /\ v.outage = u.outage /\ v.aboard = u.aboard
         /\ v.life = u.life /\ v.left = u.left /\ v.drivers = u.drivers /\ v.paid = u.paid
         /\ v.crossing = u.crossing /\ v.change = u.change /\ v.winding = u.winding
  BY DEF Components, Entries

\* Only a change of form in front makes a Morph started.
LEMMA MorphFront ==
  ASSUME NEW q \in Seq(Entries), Linked(q), NEW J \in SUBSET DOMAIN q
  PROVE  "Morph" \in StartedIn(q, J) <=> 1 \in J /\ q[1].order = "Morph" /\ Started(q[1])
  <1>1. ASSUME NEW j \in J, Started(q[j]), Kind(q[j].order) = "Morph"
        PROVE  j = 1 /\ q[1].order = "Morph"
    <2>1. q[j].order = "Morph"
      BY <1>1, ElementOfSeq, EntryIs, Kinds
    <2> QED
      BY <1>1, <2>1, StartedFront DEF OnFoot, Legs
  <1>2. ASSUME 1 \in J, q[1].order = "Morph" PROVE Kind(q[1].order) = "Morph"
    BY <1>2, ElementOfSeq, EntryIs, Kinds
  <1> QED
    BY <1>1, <1>2 DEF StartedIn

\* Only the front walks from cell to cell.
LEMMA WalkFront ==
  ASSUME NEW q \in Seq(Entries), Linked(q), "Move" \in StartedIn(q, DOMAIN q)
  PROVE  1 \in DOMAIN q /\ q[1].order = "Move" /\ q[1].state = "running"
  <1>1. PICK j \in DOMAIN q : Started(q[j]) /\ Kind(q[j].order) = "Move"
    BY DEF StartedIn
  <1>2. q[j].order = "Move"
    BY <1>1, ElementOfSeq, EntryIs, Kinds
  <1> QED
    BY <1>1, <1>2, StartedFront

\* A flush leaves the queue, the drivers and the change of its unit in step, and
\* nothing marked, or it killed the unit.
LEMMA FlushIs ==
  ASSUME NEW u \in Components, Linked(u.queue), Swept(u.queue), Driven(u),
         u.life = "alive" => \A i \in DOMAIN u.queue : u.queue[i].order # "Die",
         NEW doomed \in BOOLEAN
  PROVE  LET r == FlushCanceled(u, doomed) IN
         /\ r = [unit |-> r.unit, gain |-> r.gain]
         /\ Flushed(u, r) \/ (doomed /\ Killed(u, r))
  <1> DEFINE q == u.queue
             n == Len(q)
             X == {"Morph", "Die"}
  <1>1. q \in Seq(Entries) /\ DOMAIN q = 1 .. n /\ n \in Nat
    BY LenProperties DEF Components, Entries
  <1>2. PICK r : r = FlushCanceled(u, doomed)
    OBVIOUS
  <1>3. PICK after \in [0 .. n -> Acc] :
           /\ after[0] = [unit |-> u, kept |-> <<>>, back |-> 0, dies |-> FALSE]
           /\ \A i \in 1 .. n : after[i] = Visit(after[i - 1], q[i], doomed)
           /\ r = LET all == after[n]
                  IN  [unit |-> [all.unit EXCEPT !.queue = IF all.dies THEN Append(all.kept, Entry("Die"))
                                                                       ELSE all.kept],
                       gain |-> all.back]
    BY <1>2, FlushSteps
  <1>4. PICK a \in Acc : a = after[n]
    BY <1>1
  <1>5. PICK p : p = IF a.dies THEN Append(a.kept, Entry("Die")) ELSE a.kept
    OBVIOUS
  <1>6. PICK v : v = [a.unit EXCEPT !.queue = p]
    OBVIOUS
  <1>7. r = [unit |-> v, gain |-> a.back]
    BY <1>3, <1>4, <1>5, <1>6
  <1>8. Calm(u, n, a) \/ (doomed /\ Fatal(u, n, a))
    BY <1>3, <1>4, FlushTo
  <1>9. a.unit \in Components /\ a.kept \in Seq(Entries)
    BY DEF Acc
  <1>10. CASE Calm(u, n, a)
    <2>1. p = a.kept /\ p \in Seq(Entries)
      BY <1>5, <1>9, <1>10 DEF Calm
    <2>2. /\ v \in Components /\ v.queue = p
          /\ v.owner = u.owner /\ v.form = u.form /\ v.outage = u.outage /\ v.aboard = u.aboard
          /\ v.life = u.life /\ v.left = u.left
          /\ v.drivers = a.unit.drivers /\ v.paid = a.unit.paid
          /\ v.crossing = a.unit.crossing /\ v.change = a.unit.change
      BY <1>6, <1>9, <1>10, <2>1, QueueSet DEF Calm, Kept
    <2> DEFINE J == Staying(u)
    <2>3. J \in SUBSET DOMAIN q /\ J = {j \in 1 .. n : Stays(u, q[j])} /\ J = Left(u, n)
      BY <1>1 DEF Staying, Left
    <2>4. Embeds(q, J, p)
      BY <1>10, <2>1, <2>3 DEF Calm
    <2>5. \A j \in DOMAIN q : ~Marked(q[j]) => j \in J
      BY DEF Staying, Stays
    <2>6. ASSUME NEW j \in J, q[j].state = "suspended" PROVE ~Marked(q[j])
      <3>1. q[j].order \in OnFoot \ {"Move"} /\ Stays(u, q[j]) /\ q[j] \in Entries
        BY <1>1, <2>6, ElementOfSeq DEF Staying, Linked
      <3>2. Kind(q[j].order) = q[j].order
        BY <3>1, EntryIs, Kinds
      <3> QED
        BY <3>1, <3>2 DEF Stays, OnFoot, Legs, Queued
    <2>7. /\ Linked(p) /\ \A b \in DOMAIN p : ~Marked(p[b])
          /\ Swept(p)
          /\ StartedIn(p, DOMAIN p) = StartedIn(q, J)
          /\ 1 \in J => p # <<>> /\ p[1].order = q[1].order
      <3> HIDE DEF q, J
      <3> QED
        BY <1>1, <2>1, <2>4, <2>5, <2>6, EmbedsLinked DEF q
    <2>8. v.change = IF Turns(u) THEN "none" ELSE u.change
      <3>1. n = 0 => ~Turns(u)
        BY <1>1 DEF Turns
      <3>2. n = 0 \/ n >= 1
        BY <1>1
      <3> QED
        BY <1>10, <2>2, <3>1, <3>2 DEF Calm
    <2>9. r.gain = Back(u)
      <3>1. n = 0 => Back(u) = 0
        BY <1>1 DEF Turns, Back
      <3>2. n = 0 \/ n >= 1
        BY <1>1
      <3> QED
        BY <1>7, <1>10, <3>1, <3>2 DEF Calm
    <2>10. v.drivers = StartedIn(p, DOMAIN p) \ X
      BY <1>10, <2>2, <2>3, <2>7 DEF Calm
    <2>11. v.change # "none" <=> "Morph" \in StartedIn(p, DOMAIN p)
      <3>1. "Morph" \in StartedIn(q, DOMAIN q) <=> 1 \in DOMAIN q /\ q[1].order = "Morph" /\ Started(q[1])
        BY <1>1, MorphFront
      <3>2. "Morph" \in StartedIn(q, J) <=> 1 \in J /\ q[1].order = "Morph" /\ Started(q[1])
        <4> HIDE DEF q, J
        <4> QED
          BY <1>1, <2>3, MorphFront DEF q
      <3>3. u.change # "none" <=> "Morph" \in StartedIn(q, DOMAIN q)
        BY DEF Driven
      <3>4. 1 \in J <=> 1 \in DOMAIN q /\ Stays(u, q[1])
        BY DEF Staying
      <3>5. 1 \in DOMAIN q <=> q # <<>>
        BY <1>1
      <3> QED
        BY <2>7, <2>8, <3>1, <3>2, <3>3, <3>4, <3>5 DEF Turns
    <2>12. ASSUME v.crossing PROVE ~v.aboard /\ "Move" \in v.drivers /\ p[1].order = "Move"
      <3>1. ~u.aboard /\ "Move" \in StartedIn(q, DOMAIN q)
        BY <1>10, <2>2, <2>12 DEF Calm, Driven
      <3>2. 1 \in DOMAIN q /\ q[1].order = "Move" /\ q[1].state = "running" /\ q[1] \in Entries
        BY <1>1, <3>1, WalkFront, ElementOfSeq
      <3>3. q[1].cancel # "force"
        BY <1>1, <1>10, <2>2, <2>12, <3>2 DEF Calm
      <3>4. 1 \in J
        BY <3>2, <3>3, EntryIs DEF Staying, Stays, Marked
      <3>5. Kind("Move") = "Move" /\ Started(q[1])
        BY <3>2, EntryIs, Kinds DEF OnFoot, Started
      <3>6. "Move" \in StartedIn(q, J)
        BY <3>2, <3>4, <3>5 DEF StartedIn
      <3> QED
        BY <2>2, <2>7, <2>10, <3>1, <3>2, <3>4, <3>6
    <2>13. Driven(v)
      BY <2>2, <2>10, <2>11, <2>12 DEF Driven
    <2>14. v.paid = IF \E j \in DOMAIN q : q[j].order = "Train" /\ q[j].cancel = "force"
                    THEN <<>> ELSE u.paid
      BY <1>1, <1>10, <2>2 DEF Calm
    <2>15. Flushed(u, r)
      <3>1. r.unit = v
        BY <1>7
      <3> HIDE DEF q, J
      <3> QED
        BY <2>2, <2>4, <2>7, <2>8, <2>9, <2>13, <2>14, <3>1 DEF Flushed, q, J
    <2> QED
      BY <1>2, <1>7, <2>15
  <1>11. CASE doomed /\ Fatal(u, n, a)
    <2>1. a.kept = <<>> /\ a.dies
      BY <1>11 DEF Fatal
    <2>2. p = <<Entry("Die")>> /\ Entry("Die") \in Entries
      BY <1>5, <2>1, EntryTyped DEF Order
    <2>3. p \in Seq(Entries)
      BY <2>2
    <2>4. /\ v \in Components /\ v.queue = p
          /\ v.owner = u.owner /\ v.form = u.form /\ v.outage = u.outage /\ v.aboard = u.aboard
          /\ v.life = "dying" /\ v.left = DyingTime /\ v.drivers = {} /\ ~v.crossing
          /\ v.change = "none"
      BY <1>6, <1>9, <1>11, <2>3, QueueSet DEF Fatal
    <2>5. Turns(u) /\ u.life = "alive" /\ u.change # "clearing" /\ a.back = Back(u)
      BY <1>11 DEF Fatal
    <2>6. u.change # "none"
      <3>1. 1 \in DOMAIN q /\ q[1].order = "Morph" /\ Started(q[1])
        BY <1>1, <2>5 DEF Turns
      <3> QED
        BY <1>1, <3>1, MorphFront DEF Driven
    <2>7. Changing(u)
      BY <2>5, <2>6 DEF Components, Changing
    <2>8. Killed(u, r)
      BY <1>7, <2>2, <2>4, <2>5, <2>7 DEF Killed
    <2> QED
      BY <1>2, <1>7, <1>11, <2>8
  <1> QED
    BY <1>8, <1>10, <1>11

-----------------------------------------------------------------------------
(* What every unit keeps.                                                   *)

\* The living: nothing is dropped for good but topics paid back, no topic is
\* queued twice, and what was paid for has its Train.
Living(u) ==
  LET q == u.queue IN
  /\ \A i \in DOMAIN q : q[i].order # "Die" /\ (q[i].cancel = "force" => q[i].order \in Topic)
  /\ \A i, j \in DOMAIN q : q[i].order \in Topic /\ q[i].order = q[j].order => i = j
  /\ u.paid # <<>> => Trains[u.form] # {} /\ \E i \in DOMAIN q : q[i].order = "Train"

\* The dying: everything is dropped but the Die, which is last.
Leaving(u) ==
  LET q == u.queue IN
  /\ q # <<>> /\ ~Marked(q[Len(q)])
  /\ \A i \in DOMAIN q : q[i].order = "Die" <=> i = Len(q)
  /\ \A i \in DOMAIN q : i < Len(q) => q[i].cancel = "force"

\* A unit that is whole: what it drives is what its queue has started, and its
\* queue is that of the living, of the dying, or empty.
Fit(u) ==
  /\ u \in Components
  /\ Linked(u.queue) /\ Swept(u.queue) /\ Driven(u)
  /\ u.life = "alive" => Living(u)
  /\ u.life = "dying" => Leaving(u)
  /\ u.life = "gone" => u.queue = <<>>

\* The same entries with other marks.
Alike(q, p) ==
  /\ Len(p) = Len(q)
  /\ \A i \in DOMAIN q : p[i].order = q[i].order /\ p[i].state = q[i].state

\* The positions and entries of a queue.
LEMMA QueueDomain ==
  ASSUME NEW q \in Seq(Entries)
  PROVE  /\ Len(q) \in Nat /\ DOMAIN q = 1 .. Len(q) /\ \A i \in DOMAIN q : q[i] \in Entries
         /\ q = <<>> <=> Len(q) = 0
  BY LenProperties, EmptySeq

\* What a unit has queued are entries.
LEMMA UnitQueue ==
  ASSUME NEW u \in Components
  PROVE  u.queue \in Seq(Entries)
  BY DEF Components, Entries

\* Other marks start nothing.
LEMMA AlikeStarted ==
  ASSUME NEW q \in Seq(Entries), NEW p \in Seq(Entries), Alike(q, p)
  PROVE  /\ StartedIn(p, DOMAIN p) = StartedIn(q, DOMAIN q)
         /\ \A i \in DOMAIN q : Started(p[i]) <=> Started(q[i])
  <1>1. DOMAIN p = DOMAIN q
    BY QueueDomain DEF Alike
  <1>2. \A i \in DOMAIN q : (Started(p[i]) <=> Started(q[i])) /\ Kind(p[i].order) = Kind(q[i].order)
    BY DEF Alike, Started
  <1> QED
    BY <1>1, <1>2 DEF StartedIn

\* They leave a queue linked if a suspended entry and what it waits for are
\* marked together.
LEMMA AlikeLinked ==
  ASSUME NEW q \in Seq(Entries), NEW p \in Seq(Entries), Alike(q, p), Linked(q),
         \A i, j \in DOMAIN q : i < j /\ q[j].state = "suspended" => (Marked(p[i]) <=> Marked(p[j]))
  PROVE  Linked(p)
  <1>1. DOMAIN p = DOMAIN q /\ DOMAIN q = 1 .. Len(q) /\ Len(q) \in Nat
    BY QueueDomain DEF Alike
  <1>2. \A i \in DOMAIN q : p[i].order = q[i].order /\ p[i].state = q[i].state
    BY DEF Alike
  <1>3. ASSUME NEW i \in DOMAIN q \ {1} PROVE i - 1 \in DOMAIN q /\ i - 1 < i
    BY <1>1
  <1> QED
    BY <1>1, <1>2, <1>3 DEF Linked

\* A unit whose queue has the same orders started has the drivers for them.
LEMMA DrivenSet ==
  ASSUME NEW u \in Components, NEW v \in Components, Driven(u),
         StartedIn(v.queue, DOMAIN v.queue) = StartedIn(u.queue, DOMAIN u.queue),
         v.drivers = u.drivers, v.change = u.change,
         v.crossing => u.crossing /\ v.aboard = u.aboard /\ v.queue[1].order = u.queue[1].order
  PROVE  Driven(v)
  BY DEF Driven

\* One more order, last and new.
LEMMA Appended ==
  ASSUME NEW q \in Seq(Entries), NEW o \in Order, NEW p, p = Append(q, Entry(o))
  PROVE  /\ p \in Seq(Entries) /\ Len(p) = Len(q) + 1 /\ DOMAIN p = 1 .. Len(q) + 1
         /\ \A i \in DOMAIN q : i \in DOMAIN p /\ p[i] = q[i]
         /\ p[Len(q) + 1] = Entry(o)
         /\ \A i \in DOMAIN p : i \in DOMAIN q \/ i = Len(q) + 1
         /\ q # <<>> => p[1] = q[1]
         /\ StartedIn(p, DOMAIN p) = StartedIn(q, DOMAIN q)
         /\ Linked(q) => Linked(p)
         /\ Swept(q) /\ (o = "Train" => ~Holds(q, "Train")) => Swept(p)
  <1>1. Entry(o) \in Entries /\ Entry(o).order = o /\ Entry(o).state = "new" /\ ~Marked(Entry(o))
        /\ Entry(o).cancel = Unmarked
    BY EntryTyped DEF Entry, Marked
  <1>2. Len(q) \in Nat /\ DOMAIN q = 1 .. Len(q) /\ (q = <<>> <=> Len(q) = 0)
    BY QueueDomain
  <1>3. p \in Seq(Entries) /\ Len(p) = Len(q) + 1 /\ DOMAIN p = 1 .. Len(q) + 1
        /\ (\A i \in DOMAIN q : i \in DOMAIN p /\ p[i] = q[i]) /\ p[Len(q) + 1] = Entry(o)
    <2>1. p \in Seq(Entries) /\ Len(p) = Len(q) + 1 /\ p[Len(q) + 1] = Entry(o)
          /\ \A i \in 1 .. Len(q) : p[i] = q[i]
      BY <1>1, AppendProperties
    <2> QED
      BY <1>2, <2>1, QueueDomain
  <1>4. /\ \A i \in DOMAIN p : i \in DOMAIN q \/ i = Len(q) + 1
        /\ q # <<>> => p[1] = q[1]
    BY <1>2, <1>3
  <1> DEFINE e == Entry(o)
  <1>5. ~Started(e)
    BY <1>1 DEF Started
  <1>6. StartedIn(p, DOMAIN p) = StartedIn(q, DOMAIN q)
    <2> HIDE DEF e
    <2>1. p[Len(q) + 1] = e
      BY <1>3 DEF e
    <2> QED
      BY <1>3, <1>4, <1>5, <2>1 DEF StartedIn
  <1>7. Linked(q) => Linked(p)
    <2> SUFFICES ASSUME Linked(q) PROVE Linked(p)
      OBVIOUS
    <2>1. \A i \in DOMAIN p : p[i].state # "new" => i \in DOMAIN q /\ p[i] = q[i]
      BY <1>1, <1>3, <1>4
    <2>2. \A i \in DOMAIN q \ {1} : i - 1 \in DOMAIN q
      BY <1>2
    <2> QED
      BY <1>3, <2>1, <2>2 DEF Linked
  <1>8. Swept(q) /\ (o = "Train" => ~Holds(q, "Train")) => Swept(p)
    <2> SUFFICES ASSUME Swept(q), o = "Train" => ~Holds(q, "Train") PROVE Swept(p)
      OBVIOUS
    <2>1. ASSUME NEW i \in DOMAIN p, NEW j \in DOMAIN p, i < j,
                 p[i].order \in OnFoot, p[j].order \in OnFoot
          PROVE  (Marked(p[j]) => Marked(p[i])) /\ (p[j].cancel = "force" => p[i].cancel = "force")
      <3>1. CASE j \in DOMAIN q
        <4>1. i \in DOMAIN q
          BY <1>2, <1>4, <2>1, <3>1
        <4> QED
          BY <1>3, <2>1, <3>1, <4>1 DEF Swept
      <3>2. CASE j = Len(q) + 1
        BY <1>1, <1>3, <3>2 DEF Unmarked
      <3> QED
        BY <1>4, <3>1, <3>2
    <2>2. ASSUME NEW i \in DOMAIN p, NEW j \in DOMAIN p, p[i].order = "Train", p[j].order = "Train"
          PROVE  i = j
      BY <1>1, <1>3, <1>4, <2>2 DEF Swept, Holds
    <2> QED
      BY <2>1, <2>2 DEF Swept
  <1> QED
    BY <1>3, <1>4, <1>6, <1>7, <1>8

\* A queue whose every entry is marked.
LEMMA AllMarked ==
  ASSUME NEW q \in Seq(Entries), NEW policy \in Policy, NEW p, p = MarkAll(q, policy)
  PROVE  /\ p \in Seq(Entries) /\ Alike(q, p) /\ DOMAIN p = DOMAIN q
         /\ \A i \in DOMAIN q : /\ Marked(p[i])
                                /\ policy = "force" => p[i].cancel = "force"
                                /\ policy = "soft" => (p[i].cancel = "force" <=> q[i].cancel = "force")
         /\ Linked(q) => Linked(p)
         /\ Swept(q) => Swept(p)
  <1>1. p \in Seq(Entries) /\ Len(p) = Len(q) /\ DOMAIN p = DOMAIN q
        /\ \A i \in DOMAIN q : p[i] = Mark(q[i], policy)
    BY MarkAllIs
  <1>2. ASSUME NEW i \in DOMAIN q
        PROVE  /\ p[i].order = q[i].order /\ p[i].state = q[i].state /\ Marked(p[i])
               /\ policy = "force" => p[i].cancel = "force"
               /\ policy = "soft" => (p[i].cancel = "force" <=> q[i].cancel = "force")
    BY <1>1, QueueDomain, MarkIs
  <1>3. Alike(q, p)
    BY <1>1, <1>2 DEF Alike
  <1>4. Linked(q) => Linked(p)
    BY <1>1, <1>2, <1>3, AlikeLinked
  <1>5. Swept(q) => Swept(p)
    BY <1>1, <1>2 DEF Swept, Policy
  <1> QED
    BY <1>1, <1>2, <1>3, <1>4, <1>5

\* A push: what was queued is marked if it flushes, the order is last and new.
LEMMA PushIs ==
  ASSUME NEW q \in Seq(Entries), NEW o \in Order, NEW flush \in Policy \cup {Unmarked},
         NEW p, p = Push(q, o, flush)
  PROVE  /\ p \in Seq(Entries) /\ Len(p) = Len(q) + 1 /\ DOMAIN p = 1 .. Len(q) + 1
         /\ \A i \in DOMAIN q :
              /\ i \in DOMAIN p /\ p[i].order = q[i].order /\ p[i].state = q[i].state
              /\ flush = "force" => p[i].cancel = "force"
              /\ flush # "force" => (p[i].cancel = "force" <=> q[i].cancel = "force")
         /\ p[Len(q) + 1] = Entry(o)
         /\ \A i \in DOMAIN p : i \in DOMAIN q \/ i = Len(q) + 1
         /\ q # <<>> => p[1].order = q[1].order
         /\ StartedIn(p, DOMAIN p) = StartedIn(q, DOMAIN q)
         /\ Linked(q) => Linked(p)
         /\ Swept(q) /\ (o = "Train" => ~Holds(q, "Train")) => Swept(p)
  <1>1. CASE flush = Unmarked
    <2>1. p = Append(q, Entry(o)) /\ flush # "force"
      BY <1>1 DEF Push, Unmarked
    <2>2. /\ p \in Seq(Entries) /\ Len(p) = Len(q) + 1 /\ DOMAIN p = 1 .. Len(q) + 1
          /\ \A i \in DOMAIN q : i \in DOMAIN p /\ p[i] = q[i]
          /\ p[Len(q) + 1] = Entry(o)
          /\ \A i \in DOMAIN p : i \in DOMAIN q \/ i = Len(q) + 1
          /\ q # <<>> => p[1] = q[1]
          /\ StartedIn(p, DOMAIN p) = StartedIn(q, DOMAIN q)
          /\ Linked(q) => Linked(p)
          /\ Swept(q) /\ (o = "Train" => ~Holds(q, "Train")) => Swept(p)
      BY <2>1, Appended
    <2> QED
      BY <2>1, <2>2
  <1>2. CASE flush # Unmarked
    <2>1. PICK m : m = MarkAll(q, flush)
      OBVIOUS
    <2>2. flush \in Policy
      BY <1>2
    <2>3. /\ m \in Seq(Entries) /\ Alike(q, m) /\ DOMAIN m = DOMAIN q
          /\ \A i \in DOMAIN q : /\ Marked(m[i])
                                 /\ flush = "force" => m[i].cancel = "force"
                                 /\ flush = "soft" => (m[i].cancel = "force" <=> q[i].cancel = "force")
          /\ Linked(q) => Linked(m)
          /\ Swept(q) => Swept(m)
      BY <2>1, <2>2, AllMarked
    <2>4. p = Append(m, Entry(o))
      BY <1>2, <2>1 DEF Push
    <2>5. Len(m) = Len(q) /\ \A i \in DOMAIN q : m[i].order = q[i].order /\ m[i].state = q[i].state
      BY <2>3 DEF Alike
    <2>6. Holds(m, "Train") <=> Holds(q, "Train")
      BY <2>3, <2>5 DEF Holds
    <2>7. StartedIn(m, DOMAIN m) = StartedIn(q, DOMAIN q)
      BY <2>3, AlikeStarted
    <2>8. /\ p \in Seq(Entries) /\ Len(p) = Len(m) + 1 /\ DOMAIN p = 1 .. Len(m) + 1
          /\ \A i \in DOMAIN m : i \in DOMAIN p /\ p[i] = m[i]
          /\ p[Len(m) + 1] = Entry(o)
          /\ \A i \in DOMAIN p : i \in DOMAIN m \/ i = Len(m) + 1
          /\ m # <<>> => p[1] = m[1]
          /\ StartedIn(p, DOMAIN p) = StartedIn(m, DOMAIN m)
          /\ Linked(m) => Linked(p)
          /\ Swept(m) /\ (o = "Train" => ~Holds(m, "Train")) => Swept(p)
      BY <2>3, <2>4, Appended
    <2>9. q # <<>> => m # <<>> /\ 1 \in DOMAIN q
      BY <2>3, <2>5, QueueDomain
    <2>10. flush # "force" => flush = "soft"
      BY <2>2 DEF Policy
    <2> QED
      BY <2>3, <2>5, <2>6, <2>7, <2>8, <2>9, <2>10
  <1> QED
    BY <1>1, <1>2

\* A body between two cells has something queued.
LEMMA CrossingQueue ==
  ASSUME NEW u, Driven(u), u.crossing
  PROVE  u.queue # <<>> /\ ~u.aboard /\ u.queue[1].order = "Move" /\ "Move" \in u.drivers
  BY DEF Driven, StartedIn

\* A unit with other production paid for.
LEMMA PaidSet ==
  ASSUME NEW u \in Components, NEW paid \in Seq(UnitType), NEW v, v = [u EXCEPT !.paid = paid]
  PROVE  Kept(u, v) /\ v.drivers = u.drivers /\ v.paid = paid /\ v.crossing = u.crossing
         /\ v.change = u.change
  BY DEF Components, Kept

\* A living unit with another queue, of the same orders and perhaps more.
LEMMA FitQueue ==
  ASSUME NEW u, Fit(u), u.life = "alive", NEW p \in Seq(Entries), Linked(p), Swept(p),
         StartedIn(p, DOMAIN p) = StartedIn(u.queue, DOMAIN u.queue),
         u.queue # <<>> => p[1].order = u.queue[1].order,
         \A i \in DOMAIN p : p[i].order # "Die" /\ (p[i].cancel = "force" => p[i].order \in Topic),
         \A i, j \in DOMAIN p : p[i].order \in Topic /\ p[i].order = p[j].order => i = j,
         Holds(u.queue, "Train") => Holds(p, "Train"),
         NEW v, v = [u EXCEPT !.queue = p]
  PROVE  Fit(v)
  <1>1. u \in Components /\ Driven(u) /\ Living(u)
    BY DEF Fit
  <1>2. /\ v \in Components /\ v.queue = p
        /\ v.owner = u.owner /\ v.form = u.form /\ v.outage = u.outage /\ v.aboard = u.aboard
        /\ v.life = "alive" /\ v.left = u.left /\ v.drivers = u.drivers /\ v.paid = u.paid
        /\ v.crossing = u.crossing /\ v.change = u.change
    BY <1>1, QueueSet
  <1>3. Driven(v)
    BY <1>1, <1>2, DrivenSet, CrossingQueue
  <1>4. Living(v)
    BY <1>1, <1>2 DEF Living, Holds
  <1> QED
    BY <1>2, <1>3, <1>4 DEF Fit

\* A unit told to do something stays whole.
LEMMA FitIssue ==
  ASSUME NEW u, Fit(u), u.life = "alive", NEW o \in OnFoot \cup {"Morph"},
         NEW flush \in {Unmarked, "soft"}, NEW v, v = [u EXCEPT !.queue = Push(@, o, flush)]
  PROVE  Fit(v)
  <1>1. u \in Components /\ u.queue \in Seq(Entries) /\ Linked(u.queue) /\ Swept(u.queue) /\ Living(u)
    BY UnitQueue DEF Fit
  <1>2. PICK p : p = Push(u.queue, o, flush)
    OBVIOUS
  <1>3. o \in Order /\ o \notin Topic \cup {"Train", "Die"} /\ flush \in Policy \cup {Unmarked}
        /\ flush # "force"
    <2>1. o \in Order
      BY DEF Order
    <2> QED
      BY <2>1, Kinds, OrdersAssumption DEF Policy, Unmarked, OnFoot, Legs
  <1>4. /\ p \in Seq(Entries) /\ Linked(p) /\ Swept(p)
        /\ StartedIn(p, DOMAIN p) = StartedIn(u.queue, DOMAIN u.queue)
        /\ u.queue # <<>> => p[1].order = u.queue[1].order
        /\ \A i \in DOMAIN u.queue :
             /\ i \in DOMAIN p /\ p[i].order = u.queue[i].order
             /\ p[i].cancel = "force" <=> u.queue[i].cancel = "force"
        /\ p[Len(u.queue) + 1] = Entry(o)
        /\ \A i \in DOMAIN p : i \in DOMAIN u.queue \/ i = Len(u.queue) + 1
    BY <1>1, <1>2, <1>3, PushIs
  <1>5. Entry(o).order = o /\ Entry(o).cancel # "force"
    BY DEF Entry, Unmarked
  <1>6. \A i \in DOMAIN p : p[i].order # "Die" /\ (p[i].cancel = "force" => p[i].order \in Topic)
    BY <1>1, <1>3, <1>4, <1>5 DEF Living
  <1>7. \A i, j \in DOMAIN p : p[i].order \in Topic /\ p[i].order = p[j].order => i = j
    BY <1>1, <1>3, <1>4, <1>5 DEF Living
  <1>8. Holds(u.queue, "Train") => Holds(p, "Train")
    BY <1>4 DEF Holds
  <1>9. v = [u EXCEPT !.queue = p]
    BY <1>2
  <1> QED
    BY <1>4, <1>6, <1>7, <1>8, <1>9, FitQueue

\* And one told to stop.
LEMMA FitStop ==
  ASSUME NEW u, Fit(u), u.life = "alive", NEW v, v = [u EXCEPT !.queue = MarkAll(@, "soft")]
  PROVE  Fit(v)
  <1>1. u \in Components /\ u.queue \in Seq(Entries) /\ Linked(u.queue) /\ Swept(u.queue) /\ Living(u)
    BY UnitQueue DEF Fit
  <1>2. PICK p : p = MarkAll(u.queue, "soft")
    OBVIOUS
  <1>3. /\ p \in Seq(Entries) /\ Alike(u.queue, p) /\ DOMAIN p = DOMAIN u.queue
        /\ \A i \in DOMAIN u.queue : p[i].cancel = "force" <=> u.queue[i].cancel = "force"
        /\ Linked(p) /\ Swept(p)
    BY <1>1, <1>2, AllMarked DEF Policy
  <1>4. \A i \in DOMAIN p : p[i].order = u.queue[i].order
    BY <1>3 DEF Alike
  <1>5. StartedIn(p, DOMAIN p) = StartedIn(u.queue, DOMAIN u.queue)
    BY <1>1, <1>3, AlikeStarted
  <1>6. u.queue # <<>> => 1 \in DOMAIN p
    BY <1>1, <1>3, QueueDomain
  <1>7. \A i \in DOMAIN p : p[i].order # "Die" /\ (p[i].cancel = "force" => p[i].order \in Topic)
    BY <1>1, <1>3, <1>4 DEF Living
  <1>8. \A i, j \in DOMAIN p : p[i].order \in Topic /\ p[i].order = p[j].order => i = j
    BY <1>1, <1>3, <1>4 DEF Living
  <1>9. Holds(u.queue, "Train") => Holds(p, "Train")
    BY <1>3, <1>4 DEF Holds
  <1>10. v = [u EXCEPT !.queue = p]
    BY <1>2
  <1> QED
    BY <1>3, <1>4, <1>5, <1>6, <1>7, <1>8, <1>9, <1>10, FitQueue

\* A mark on an order that is not on foot.
LEMMA FitRemark ==
  ASSUME NEW u, Fit(u), u.life = "alive", NEW k \in DOMAIN u.queue,
         u.queue[k].order \notin OnFoot, NEW mark \in {"soft", "force"},
         mark = "force" => u.queue[k].order \in Topic,
         NEW v, v = [u EXCEPT !.queue[k].cancel = mark]
  PROVE  Fit(v)
  <1> DEFINE q == u.queue
  <1>1. u \in Components /\ q \in Seq(Entries) /\ Linked(q) /\ Swept(q) /\ Living(u)
    BY UnitQueue DEF Fit
  <1>2. PICK e : e = [q[k] EXCEPT !.cancel = mark]
    OBVIOUS
  <1>3. q[k] \in Entries /\ k \in 1 .. Len(q)
    BY <1>1, QueueDomain
  <1>4. e \in Entries /\ e.order = q[k].order /\ e.state = q[k].state /\ e.cancel = mark
    <2>1. e \in Entries
      BY <1>2, <1>3, EntryTyped
    <2> QED
      BY <1>2, <1>3, <2>1 DEF Entries, OrderEntry
  <1>5. PICK p : p = [q EXCEPT ![k] = e]
    OBVIOUS
  <1>6. v = [u EXCEPT !.queue = p]
    BY <1>1, <1>2, <1>3, <1>5 DEF Components
  <1>7. p \in Seq(Entries) /\ Len(p) = Len(q) /\ \A i \in 1 .. Len(q) : p[i] = IF i = k THEN e ELSE q[i]
    BY <1>1, <1>3, <1>4, <1>5, ExceptSeq
  <1>8. DOMAIN p = DOMAIN q /\ \A i \in DOMAIN q : i # k => p[i] = q[i]
    BY <1>1, <1>7, QueueDomain
  <1>9. p[k] = e
    BY <1>3, <1>7
  <1> HIDE DEF q
  <1>10. \A i \in DOMAIN q : p[i].order = q[i].order /\ p[i].state = q[i].state
    BY <1>4, <1>8, <1>9
  <1>11. Alike(q, p)
    BY <1>7, <1>10 DEF Alike
  <1>12. Linked(p)
    <2>1. ASSUME NEW i \in DOMAIN q, NEW j \in DOMAIN q, i < j, q[j].state = "suspended"
          PROVE  Marked(p[i]) <=> Marked(p[j])
      <3>1. q[i].order \in OnFoot /\ q[j].order \in OnFoot /\ (Marked(q[i]) <=> Marked(q[j]))
        BY <1>1, <2>1, ChainIs
      <3>2. i # k /\ j # k
        BY <3>1 DEF q
      <3> QED
        BY <1>8, <3>1, <3>2
    <2> QED
      BY <1>1, <1>7, <1>11, <2>1, AlikeLinked
  <1>13. Swept(p)
    <2>1. \A i \in DOMAIN q : q[i].order \in OnFoot => i # k
      BY DEF q
    <2> QED
      BY <1>1, <1>8, <1>10, <2>1 DEF Swept
  <1>14. StartedIn(p, DOMAIN p) = StartedIn(q, DOMAIN q)
    BY <1>1, <1>7, <1>11, AlikeStarted
  <1>15. q # <<>> => p[1].order = q[1].order
    BY <1>1, <1>10, QueueDomain
  <1>16. \A i \in DOMAIN p : p[i].order # "Die" /\ (p[i].cancel = "force" => p[i].order \in Topic)
    BY <1>1, <1>4, <1>8, <1>9, <1>10 DEF Living, q
  <1>17. \A i, j \in DOMAIN p : p[i].order \in Topic /\ p[i].order = p[j].order => i = j
    BY <1>1, <1>8, <1>10 DEF Living, q
  <1>18. Holds(q, "Train") => Holds(p, "Train")
    BY <1>8, <1>10 DEF Holds
  <1> QED
    BY <1>6, <1>7, <1>12, <1>13, <1>14, <1>15, <1>16, <1>17, <1>18, FitQueue DEF q

\* A unit with other production paid for.
LEMMA FitPaid ==
  ASSUME NEW u, Fit(u), u.life = "alive", NEW paid \in Seq(UnitType),
         paid # <<>> => Trains[u.form] # {} /\ Holds(u.queue, "Train"),
         NEW v, v = [u EXCEPT !.paid = paid]
  PROVE  Fit(v)
  <1>1. u \in Components /\ Linked(u.queue) /\ Swept(u.queue) /\ Living(u) /\ Driven(u)
    BY DEF Fit
  <1>2. Kept(u, v) /\ v.drivers = u.drivers /\ v.paid = paid /\ v.crossing = u.crossing
        /\ v.change = u.change
    BY <1>1, PaidSet
  <1>3. v \in Components /\ v.queue = u.queue /\ v.life = "alive" /\ v.form = u.form /\ v.aboard = u.aboard
    BY <1>2 DEF Kept
  <1>4. Driven(v)
    BY <1>1, <1>2, <1>3, DrivenSet
  <1>5. Living(v)
    BY <1>1, <1>2, <1>3 DEF Living, Holds
  <1> QED
    BY <1>1, <1>3, <1>4, <1>5 DEF Fit

\* A queue with its Train.
LEMMA TrainAppended ==
  ASSUME NEW q \in Seq(Entries), ~Holds(q, "Train"), NEW p, p = Append(q, Entry("Train"))
  PROVE  /\ p \in Seq(Entries) /\ Len(p) = Len(q) + 1 /\ DOMAIN p = 1 .. Len(q) + 1
         /\ \A i \in DOMAIN q : i \in DOMAIN p /\ p[i] = q[i]
         /\ p[Len(q) + 1] = Entry("Train")
         /\ \A i \in DOMAIN p : i \in DOMAIN q \/ i = Len(q) + 1
         /\ q # <<>> => p[1] = q[1]
         /\ StartedIn(p, DOMAIN p) = StartedIn(q, DOMAIN q)
         /\ Linked(q) => Linked(p)
         /\ Swept(q) => Swept(p)
  <1>1. PICK o \in Order : o = "Train"
    BY DEF Order
  <1>2. p = Append(q, Entry(o))
    BY <1>1
  <1>3. /\ p \in Seq(Entries) /\ Len(p) = Len(q) + 1 /\ DOMAIN p = 1 .. Len(q) + 1
        /\ \A i \in DOMAIN q : i \in DOMAIN p /\ p[i] = q[i]
        /\ p[Len(q) + 1] = Entry(o)
        /\ \A i \in DOMAIN p : i \in DOMAIN q \/ i = Len(q) + 1
        /\ q # <<>> => p[1] = q[1]
        /\ StartedIn(p, DOMAIN p) = StartedIn(q, DOMAIN q)
        /\ Linked(q) => Linked(p)
        /\ Swept(q) /\ (o = "Train" => ~Holds(q, "Train")) => Swept(p)
    BY <1>2, Appended
  <1> QED
    BY <1>1, <1>3

\* Production paid for joins the Train that is queued, or queues one.
LEMMA FitTrain ==
  ASSUME NEW u, Fit(u), u.life = "alive", NEW type \in UnitType, Trains[u.form] # {},
         NEW v, v = [u EXCEPT !.paid = Append(@, type),
                              !.queue = IF Holds(@, "Train") THEN @ ELSE Append(@, Entry("Train"))]
  PROVE  Fit(v) /\ v.paid = Append(u.paid, type)
  <1> DEFINE q == u.queue
  <1>1. u \in Components /\ q \in Seq(Entries) /\ Linked(q) /\ Swept(q) /\ Living(u)
    BY UnitQueue DEF Fit
  <1>2. PICK p : p = IF Holds(q, "Train") THEN q ELSE Append(q, Entry("Train"))
    OBVIOUS
  <1>3. PICK w : w = [u EXCEPT !.queue = p]
    OBVIOUS
  <1>4. PICK paid : paid = Append(u.paid, type)
    OBVIOUS
  <1>5. paid \in Seq(UnitType)
    BY <1>1, <1>4, AppendProperties DEF Components
  <1>6. v = [w EXCEPT !.paid = paid] /\ w.form = u.form /\ w.life = u.life /\ w.queue = p
        /\ v.paid = paid
    BY <1>1, <1>2, <1>3, <1>4 DEF Components
  <1>7. CASE Holds(q, "Train")
    <2>1. w = u
      BY <1>1, <1>2, <1>3, <1>7 DEF Components
    <2> QED
      BY <1>4, <1>5, <1>6, <1>7, <2>1, FitPaid
  <1>8. CASE ~Holds(q, "Train")
    <2>1. "Train" \in Order /\ "Train" \notin Topic
      BY OrdersAssumption DEF Order
    <2>2. p = Append(q, Entry("Train"))
      BY <1>2, <1>8
    <2> HIDE DEF q
    <2>3. /\ p \in Seq(Entries) /\ Len(p) = Len(q) + 1 /\ DOMAIN p = 1 .. Len(q) + 1
          /\ \A i \in DOMAIN q : i \in DOMAIN p /\ p[i] = q[i]
          /\ p[Len(q) + 1] = Entry("Train")
          /\ \A i \in DOMAIN p : i \in DOMAIN q \/ i = Len(q) + 1
          /\ q # <<>> => p[1] = q[1]
          /\ StartedIn(p, DOMAIN p) = StartedIn(q, DOMAIN q)
          /\ Linked(q) => Linked(p)
          /\ Swept(q) => Swept(p)
      BY <1>1, <1>8, <2>2, TrainAppended
    <2>4. Entry("Train").order = "Train" /\ Entry("Train").cancel = Unmarked
      BY DEF Entry
    <2>5. Len(q) \in Nat
      BY <1>1, QueueDomain
    <2>6. \A i \in DOMAIN p : p[i].order # "Die" /\ (p[i].cancel = "force" => p[i].order \in Topic)
      BY <1>1, <2>3, <2>4 DEF Living, q, Unmarked
    <2>7. \A i, j \in DOMAIN p : p[i].order \in Topic /\ p[i].order = p[j].order => i = j
      BY <1>1, <2>1, <2>3, <2>4 DEF Living, q
    <2>8. Holds(p, "Train")
      BY <2>3, <2>4, <2>5 DEF Holds
    <2>9. Fit(w)
      BY <1>1, <1>3, <1>8, <2>3, <2>6, <2>7, <2>8, FitQueue DEF q
    <2> QED
      BY <1>4, <1>5, <1>6, <2>8, <2>9, FitPaid
  <1> QED
    BY <1>7, <1>8

\* A topic that was not queued queues.
LEMMA FitResearch ==
  ASSUME NEW u, Fit(u), u.life = "alive", NEW t \in Topic, ~Holds(u.queue, t),
         NEW v, v = [u EXCEPT !.queue = Append(@, Entry(t))]
  PROVE  Fit(v)
  <1> DEFINE q == u.queue
  <1>1. u \in Components /\ q \in Seq(Entries) /\ Linked(q) /\ Swept(q) /\ Living(u)
    BY UnitQueue DEF Fit
  <1>2. PICK p : p = Append(q, Entry(t))
    OBVIOUS
  <1>3. t \in Order /\ t \notin {"Train", "Die"}
    BY OrdersAssumption DEF Order
  <1>4. v = [u EXCEPT !.queue = p]
    BY <1>2
  <1> HIDE DEF q
  <1>5. /\ p \in Seq(Entries) /\ Len(p) = Len(q) + 1 /\ DOMAIN p = 1 .. Len(q) + 1
        /\ \A i \in DOMAIN q : i \in DOMAIN p /\ p[i] = q[i]
        /\ p[Len(q) + 1] = Entry(t)
        /\ \A i \in DOMAIN p : i \in DOMAIN q \/ i = Len(q) + 1
        /\ q # <<>> => p[1] = q[1]
        /\ StartedIn(p, DOMAIN p) = StartedIn(q, DOMAIN q)
        /\ Linked(q) => Linked(p)
        /\ Swept(q) /\ (t = "Train" => ~Holds(q, "Train")) => Swept(p)
    <2>1. q \in Seq(Entries) /\ t \in Order
      BY <1>1, <1>3
    <2> QED
      BY <1>2, <2>1, Appended, ZenonT(30)
  <1>6. Entry(t).order = t /\ Entry(t).cancel = Unmarked
    BY DEF Entry
  <1>7. \A i \in DOMAIN p : p[i].order # "Die" /\ (p[i].cancel = "force" => p[i].order \in Topic)
    BY <1>1, <1>3, <1>5, <1>6 DEF Living, q
  <1>8. \A i, j \in DOMAIN p : p[i].order \in Topic /\ p[i].order = p[j].order => i = j
    BY <1>1, <1>5, <1>6 DEF Living, q, Holds
  <1>9. Holds(q, "Train") => Holds(p, "Train")
    BY <1>5 DEF Holds
  <1>10. Linked(p) /\ Swept(p)
    BY <1>1, <1>3, <1>5
  <1> QED
    BY <1>4, <1>5, <1>7, <1>8, <1>9, <1>10, FitQueue, ZenonT(30) DEF q

\* A unit switched on or off, or taken aboard while its body stands in a cell.
LEMMA FitOutage ==
  ASSUME NEW u, Fit(u), NEW outage \in {"none", "field", "orphaned"},
         NEW v, v = [u EXCEPT !.outage = outage]
  PROVE  Fit(v)
  <1>1. u \in Components
    BY DEF Fit
  <1>2. /\ v \in Components /\ v.queue = u.queue
        /\ v.form = u.form /\ v.aboard = u.aboard /\ v.life = u.life /\ v.drivers = u.drivers
        /\ v.paid = u.paid /\ v.crossing = u.crossing /\ v.change = u.change
    BY <1>1 DEF Components
  <1> QED
    BY <1>2 DEF Fit, Driven, Living, Leaving

\* And one that goes aboard or leaves.
LEMMA FitAboard ==
  ASSUME NEW u, Fit(u), ~u.crossing, NEW aboard \in BOOLEAN, NEW v, v = [u EXCEPT !.aboard = aboard]
  PROVE  Fit(v) /\ v.life = u.life /\ v.queue = u.queue
  <1>1. u \in Components
    BY DEF Fit
  <1>2. /\ v \in Components /\ v.queue = u.queue
        /\ v.form = u.form /\ v.life = u.life /\ v.drivers = u.drivers
        /\ v.paid = u.paid /\ v.crossing = u.crossing /\ v.change = u.change
    BY <1>1 DEF Components
  <1> QED
    BY <1>2 DEF Fit, Driven, Living, Leaving

\* Let out, and perhaps sent on.
LEMMA FitLetOut ==
  ASSUME NEW u, Fit(u), u.life = "alive", u.aboard, NEW sent \in BOOLEAN,
         NEW v, v = [u EXCEPT !.aboard = FALSE,
                              !.queue = IF sent THEN Push(@, "Move", Unmarked) ELSE @]
  PROVE  Fit(v)
  <1>1. u \in Components /\ ~u.crossing
    BY CrossingQueue DEF Fit
  <1>2. PICK w : w = [u EXCEPT !.aboard = FALSE]
    OBVIOUS
  <1>3. Fit(w) /\ w.life = "alive" /\ w.queue = u.queue
    BY <1>1, <1>2, FitAboard
  <1>4. CASE sent
    <2>1. v = [w EXCEPT !.queue = Push(@, "Move", Unmarked)]
      BY <1>1, <1>2, <1>3, <1>4 DEF Components
    <2> QED
      BY <1>3, <2>1, FitIssue DEF OnFoot
  <1>5. CASE ~sent
    <2>1. v = w
      BY <1>1, <1>2, <1>5 DEF Components
    <2> QED
      BY <1>3, <2>1
  <1> QED
    BY <1>4, <1>5

\* A unit that starts to die drops everything and takes up its Die.
LEMMA FitDead ==
  ASSUME NEW u \in Components, Linked(u.queue), Swept(u.queue),
         u.life = "dying", ~u.crossing, \A i \in DOMAIN u.queue : u.queue[i].order # "Die",
         LET started == StartedIn(u.queue, DOMAIN u.queue)
         IN  u.drivers = started \ {"Morph", "Die"} /\ (u.change # "none" <=> "Morph" \in started),
         NEW v, v = [u EXCEPT !.queue = Push(@, "Die", "force")]
  PROVE  /\ Fit(v) /\ v.life = "dying" /\ v.owner = u.owner /\ v.paid = u.paid
  <1> DEFINE q == u.queue
  <1>1. q \in Seq(Entries) /\ "Die" \in Order /\ "force" \in Policy \cup {Unmarked}
        /\ "Die" \notin OnFoot \cup {"Train"}
    BY UnitQueue DEF Order, Policy, OnFoot, Legs
  <1>2. PICK p : p = Push(q, "Die", "force")
    OBVIOUS
  <1>5. v = [u EXCEPT !.queue = p]
    BY <1>2
  <1> HIDE DEF q
  <1>6. /\ p \in Seq(Entries) /\ Len(p) = Len(q) + 1 /\ DOMAIN p = 1 .. Len(q) + 1
        /\ \A i \in DOMAIN q :
              /\ i \in DOMAIN p /\ p[i].order = q[i].order
              /\ p[i].cancel = "force"
        /\ p[Len(q) + 1] = Entry("Die")
        /\ \A i \in DOMAIN p : i \in DOMAIN q \/ i = Len(q) + 1
        /\ StartedIn(p, DOMAIN p) = StartedIn(q, DOMAIN q)
        /\ Linked(q) => Linked(p)
        /\ Swept(q) /\ ("Die" = "Train" => ~Holds(q, "Train")) => Swept(p)
    BY <1>1, <1>2, PushIs
  <1>7. /\ v \in Components /\ v.queue = p /\ v.life = "dying" /\ ~v.crossing
        /\ v.owner = u.owner /\ v.drivers = u.drivers /\ v.paid = u.paid /\ v.change = u.change
    <2>1. p \in Seq(Entries)
      BY <1>6
    <2>2. /\ v \in Components /\ v.queue = p
          /\ v.life = u.life /\ v.owner = u.owner /\ v.drivers = u.drivers /\ v.paid = u.paid
          /\ v.crossing = u.crossing /\ v.change = u.change
      BY <1>5, <2>1 DEF Components, Entries
    <2> QED
      BY <2>2
  <1>8. Driven(v)
    BY <1>6, <1>7 DEF Driven, q
  <1>9. Linked(p) /\ Swept(p)
    BY <1>1, <1>6 DEF q
  <1>10. Leaving(v)
    <2>1. Len(q) \in Nat /\ DOMAIN q = 1 .. Len(q)
      BY <1>1, QueueDomain
    <2>2. p # <<>> /\ Entry("Die").order = "Die" /\ ~Marked(Entry("Die"))
      BY <1>6, <2>1, QueueDomain DEF Entry, Marked
    <2>3. \A i \in DOMAIN q : q[i].order # "Die"
      BY DEF q
    <2>4. \A i \in DOMAIN p : p[i].order = "Die" <=> i = Len(q) + 1
      BY <1>6, <2>1, <2>2, <2>3
    <2>5. \A i \in DOMAIN p : i < Len(p) => p[i].cancel = "force"
      BY <1>6, <2>1
    <2>6. ~Marked(p[Len(p)])
      BY <1>6, <2>2
    <2> QED
      BY <1>6, <1>7, <2>2, <2>4, <2>5, <2>6 DEF Leaving
  <1> QED
    BY <1>7, <1>8, <1>9, <1>10 DEF Fit

\* And one that starts to die.
LEMMA FitDies ==
  ASSUME NEW u \in Components, Linked(u.queue), Swept(u.queue), Driven(u),
         \A i \in DOMAIN u.queue : u.queue[i].order # "Die",
         NEW v, v = [StartDying(u) EXCEPT !.queue = Push(@, "Die", "force")]
  PROVE  /\ Fit(v) /\ v.life = "dying" /\ v.owner = u.owner /\ v.paid = u.paid
  <1>1. PICK w : w = StartDying(u)
    OBVIOUS
  <1>2. /\ w \in Components /\ w.life = "dying" /\ ~w.crossing
        /\ w.owner = u.owner /\ w.queue = u.queue /\ w.drivers = u.drivers
        /\ w.paid = u.paid /\ w.change = u.change
    BY <1>1, DyingIs
  <1>3. LET started == StartedIn(w.queue, DOMAIN w.queue)
        IN  w.drivers = started \ {"Morph", "Die"} /\ (w.change # "none" <=> "Morph" \in started)
    BY <1>2 DEF Driven
  <1>4. v = [w EXCEPT !.queue = Push(@, "Die", "force")]
    BY <1>1
  <1>5. Linked(w.queue) /\ Swept(w.queue) /\ \A i \in DOMAIN w.queue : w.queue[i].order # "Die"
    BY <1>2
  <1>6. Fit(v) /\ v.life = "dying" /\ v.owner = w.owner /\ v.paid = w.paid
    BY <1>2, <1>3, <1>4, <1>5, FitDead
  <1> QED
    BY <1>2, <1>6

\* The first entries dropped, all of them new but perhaps the front.
Behind(q, k) == SubSeq(q, k + 1, Len(q))

\* A queue without its first entries is linked and swept as it was.
LEMMA BehindIs ==
  ASSUME NEW q \in Seq(Entries), NEW k \in 0 .. Len(q), NEW p, p = Behind(q, k)
  PROVE  /\ p \in Seq(Entries) /\ Len(p) = Len(q) - k /\ DOMAIN p = 1 .. Len(q) - k
         /\ \A i \in DOMAIN p : i + k \in DOMAIN q /\ p[i] = q[i + k]
         /\ Linked(q) => Linked(p)
         /\ Swept(q) => Swept(p)
         /\ StartedIn(p, DOMAIN p) = StartedIn(q, (k + 1) .. Len(q))
  <1>1. Len(q) \in Nat /\ DOMAIN q = 1 .. Len(q) /\ \A i \in DOMAIN q : q[i] \in Entries
    BY QueueDomain
  <1>2. p = SubSeq(q, k + 1, Len(q)) /\ k + 1 \in Int /\ Len(q) \in Int
        /\ \A i \in k + 1 .. Len(q) : q[i] \in Entries
    BY <1>1 DEF Behind
  <1>3. /\ p \in Seq(Entries)
        /\ Len(p) = IF k + 1 <= Len(q) THEN Len(q) - (k + 1) + 1 ELSE 0
        /\ \A i \in 1 .. Len(q) - (k + 1) + 1 : p[i] = q[k + 1 + i - 1]
    BY <1>2, SubSeqProperties
  <1>4. Len(p) = Len(q) - k
    <2>1. k \in Int /\ Len(q) \in Int /\ k <= Len(q)
      BY <1>1
    <2>2. Len(p) = IF k + 1 <= Len(q) THEN Len(q) - (k + 1) + 1 ELSE 0
      BY <1>3
    <2> QED
      BY <2>1, <2>2
  <1>5. DOMAIN p = 1 .. Len(q) - k
    BY <1>3, <1>4, QueueDomain
  <1>6. \A i \in DOMAIN p : i + k \in DOMAIN q /\ p[i] = q[i + k]
    <2> TAKE i \in DOMAIN p
    <2>1. i \in Int /\ k \in Int /\ k + 1 + i - 1 = i + k /\ i \in 1 .. Len(q) - (k + 1) + 1
      BY <1>1, <1>5
    <2>2. p[i] = q[k + 1 + i - 1]
      BY <1>3, <2>1
    <2>3. k >= 0 /\ k <= Len(q) /\ i >= 1 /\ i <= Len(q) - k /\ Len(q) \in Int
      BY <1>1, <1>5
    <2>4. i + k \in 1 .. Len(q)
      BY <2>1, <2>3
    <2> QED
      BY <1>1, <2>1, <2>2, <2>4
  <1>7. Linked(q) => Linked(p)
    <2> SUFFICES ASSUME Linked(q) PROVE Linked(p)
      OBVIOUS
    <2>1. ASSUME NEW i \in DOMAIN p, p[i].state = "running" PROVE i = 1
      BY <1>1, <1>5, <1>6, <2>1 DEF Linked
    <2>2. \A i \in DOMAIN p : p[i].state = "suspended" => p[i].order \in OnFoot \ {"Move"}
      BY <1>6 DEF Linked
    <2>3. ASSUME NEW i \in DOMAIN p \ {1}, p[i].state = "suspended"
          PROVE  /\ p[i - 1].order \in SubOrders(p[i].order)
                 /\ i > 2 => p[i - 1].state = "suspended"
                 /\ Marked(p[i]) <=> Marked(p[i - 1])
      <3>1. /\ i - 1 \in DOMAIN p /\ i + k \in DOMAIN q \ {1} /\ (i - 1) + k = (i + k) - 1
            /\ i > 2 => i + k > 2
        BY <1>1, <1>5, <1>6
      <3>2. p[i] = q[i + k] /\ p[i - 1] = q[(i + k) - 1]
        BY <1>6, <3>1
      <3> QED
        BY <2>3, <3>1, <3>2 DEF Linked
    <2> QED
      BY <2>1, <2>2, <2>3 DEF Linked
  <1>8. Swept(q) => Swept(p)
    <2> SUFFICES ASSUME Swept(q) PROVE Swept(p)
      OBVIOUS
    <2>1. \A i, j \in DOMAIN p : /\ i < j => i + k < j + k
                                 /\ i + k = j + k => i = j
      BY <1>1, <1>5
    <2> QED
      BY <1>6, <2>1 DEF Swept
  <1>9. StartedIn(p, DOMAIN p) = StartedIn(q, (k + 1) .. Len(q))
    <2>1. \A i \in DOMAIN p : i + k \in (k + 1) .. Len(q)
      BY <1>1, <1>5
    <2>2. \A j \in (k + 1) .. Len(q) : j - k \in DOMAIN p /\ (j - k) + k = j
      BY <1>1, <1>5
    <2>3. ASSUME NEW x \in StartedIn(p, DOMAIN p) PROVE x \in StartedIn(q, (k + 1) .. Len(q))
      BY <1>6, <2>1, <2>3 DEF StartedIn
    <2>4. ASSUME NEW x \in StartedIn(q, (k + 1) .. Len(q)) PROVE x \in StartedIn(p, DOMAIN p)
      <3>1. PICK j \in (k + 1) .. Len(q) : Started(q[j]) /\ x = Kind(q[j].order)
        BY <2>4 DEF StartedIn
      <3>2. j - k \in DOMAIN p /\ p[j - k] = q[j]
        BY <1>6, <2>2, <3>1
      <3> QED
        BY <3>1, <3>2 DEF StartedIn
    <2> QED
      BY <2>3, <2>4
  <1> QED
    BY <1>3, <1>4, <1>5, <1>6, <1>7, <1>8, <1>9

\* The front of a queue over.
LEMMA TailIs ==
  ASSUME NEW q \in Seq(Entries), Linked(q), q # <<>>, q[1].state = "running",
         NEW p, p = Behind(q, 1)
  PROVE  /\ p \in Seq(Entries) /\ Len(p) = Len(q) - 1 /\ DOMAIN p = 1 .. Len(q) - 1
         /\ \A i \in DOMAIN p : i + 1 \in DOMAIN q /\ p[i] = q[i + 1]
         /\ Linked(p)
         /\ Swept(q) => Swept(p)
         /\ StartedIn(p, DOMAIN p) = StartedIn(q, DOMAIN q) \ {Kind(q[1].order)}
         /\ "Morph" \notin StartedIn(p, DOMAIN p)
  <1>1. Len(q) \in Nat /\ DOMAIN q = 1 .. Len(q) /\ Len(q) >= 1
    BY QueueDomain
  <1>2. 1 \in 0 .. Len(q) /\ p = Behind(q, 1)
    BY <1>1
  <1>3. /\ p \in Seq(Entries) /\ Len(p) = Len(q) - 1 /\ DOMAIN p = 1 .. Len(q) - 1
        /\ \A i \in DOMAIN p : i + 1 \in DOMAIN q /\ p[i] = q[i + 1]
        /\ Linked(p)
        /\ Swept(q) => Swept(p)
        /\ StartedIn(p, DOMAIN p) = StartedIn(q, 2 .. Len(q))
    <2>1. PICK k \in 0 .. Len(q) : k = 1
      BY <1>2
    <2>2. p = Behind(q, k)
      BY <1>2, <2>1
    <2>3. /\ p \in Seq(Entries) /\ Len(p) = Len(q) - k /\ DOMAIN p = 1 .. Len(q) - k
          /\ \A i \in DOMAIN p : i + k \in DOMAIN q /\ p[i] = q[i + k]
          /\ Linked(q) => Linked(p)
          /\ Swept(q) => Swept(p)
          /\ StartedIn(p, DOMAIN p) = StartedIn(q, (k + 1) .. Len(q))
      BY <2>2, BehindIs
    <2>4. k + 1 = 2
      BY <2>1
    <2> QED
      BY <2>1, <2>3, <2>4
  <1>4. DOMAIN q = {1} \cup (2 .. Len(q)) /\ Started(q[1])
    BY <1>1 DEF Started
  <1>5. \A j \in 2 .. Len(q) : Started(q[j]) => Kind(q[j].order) # Kind(q[1].order)
    <2> TAKE j \in 2 .. Len(q)
    <2>1. j \in DOMAIN q /\ 1 \in DOMAIN q /\ j # 1
      BY <1>1
    <2> QED
      BY <1>4, <2>1, StartedOnce
  <1>6. StartedIn(p, DOMAIN p) = StartedIn(q, DOMAIN q) \ {Kind(q[1].order)}
    <2>1. ASSUME NEW x \in StartedIn(p, DOMAIN p)
          PROVE  x \in StartedIn(q, DOMAIN q) \ {Kind(q[1].order)}
      <3>1. PICK j \in 2 .. Len(q) : Started(q[j]) /\ x = Kind(q[j].order)
        BY <1>3, <2>1 DEF StartedIn
      <3> QED
        BY <1>4, <1>5, <3>1 DEF StartedIn
    <2>2. ASSUME NEW x \in StartedIn(q, DOMAIN q) \ {Kind(q[1].order)}
          PROVE  x \in StartedIn(p, DOMAIN p)
      <3>1. PICK j \in DOMAIN q : Started(q[j]) /\ x = Kind(q[j].order)
        BY <2>2 DEF StartedIn
      <3>2. j \in 2 .. Len(q)
        BY <1>4, <2>2, <3>1
      <3> QED
        BY <1>3, <3>1, <3>2 DEF StartedIn
    <2> QED
      BY <2>1, <2>2
  <1>7. "Morph" \notin StartedIn(p, DOMAIN p)
    <2> DEFINE J == 2 .. Len(q)
    <2>1. J \in SUBSET DOMAIN q /\ 1 \notin J
      BY <1>1
    <2>2. "Morph" \notin StartedIn(q, J)
      <3> HIDE DEF J
      <3> QED
        BY <2>1, MorphFront
    <2> QED
      BY <1>3, <2>2
  <1> QED
    BY <1>3, <1>6, <1>7

\* A unit whose front is over keeps the rest, its Train with what was paid.
LEMMA FitEnded ==
  ASSUME NEW u, Fit(u), u.life = "alive", u.queue # <<>>, u.queue[1].state = "running",
         NEW v \in Components, v.queue = Tail(u.queue), v.life = "alive",
         v.drivers = u.drivers \ {Kind(u.queue[1].order)}, v.change = "none", ~v.crossing,
         v.paid # <<>> => Trains[v.form] # {} /\ u.paid # <<>>,
         u.queue[1].order = "Train" => v.paid = <<>>
  PROVE  Fit(v)
  <1> DEFINE q == u.queue
             p == v.queue
  <1>1. u \in Components /\ q \in Seq(Entries) /\ Linked(q) /\ Swept(q) /\ Driven(u) /\ Living(u)
    BY UnitQueue DEF Fit
  <1>2. p = Behind(q, 1) /\ q # <<>> /\ q[1].state = "running"
    BY <1>1, TailIsSubSeq DEF Behind
  <1> HIDE DEF p, q
  <1>3. /\ Len(p) = Len(q) - 1 /\ DOMAIN p = 1 .. Len(q) - 1
        /\ \A i \in DOMAIN p : i + 1 \in DOMAIN q /\ p[i] = q[i + 1]
        /\ Linked(p) /\ Swept(p)
        /\ StartedIn(p, DOMAIN p) = StartedIn(q, DOMAIN q) \ {Kind(q[1].order)}
        /\ "Morph" \notin StartedIn(p, DOMAIN p)
    BY <1>1, <1>2, TailIs
  <1> USE DEF q
  <1>4. Driven(v)
    BY <1>1, <1>3 DEF Driven, p
  <1>5. Len(q) \in Nat /\ DOMAIN q = 1 .. Len(q)
    BY <1>1, QueueDomain
  <1>6. \A i \in DOMAIN p : p[i].order # "Die" /\ (p[i].cancel = "force" => p[i].order \in Topic)
    BY <1>1, <1>3 DEF Living
  <1>7. \A i, j \in DOMAIN p : p[i].order \in Topic /\ p[i].order = p[j].order => i = j
    <2> TAKE i, j \in DOMAIN p
    <2> HAVE p[i].order \in Topic /\ p[i].order = p[j].order
    <2>1. i + 1 = j + 1
      BY <1>1, <1>3 DEF Living
    <2> QED
      BY <1>3, <1>5, <2>1
  <1>8. ASSUME v.paid # <<>> PROVE Trains[v.form] # {} /\ \E i \in DOMAIN p : p[i].order = "Train"
    <2>1. PICK i \in DOMAIN q : q[i].order = "Train"
      BY <1>1, <1>8 DEF Living
    <2>2. i # 1
      BY <1>8, <2>1
    <2>3. i - 1 \in DOMAIN p /\ (i - 1) + 1 = i
      BY <1>3, <1>5, <2>2
    <2> QED
      BY <1>3, <1>8, <2>1, <2>3
  <1>9. Living(v)
    BY <1>6, <1>7, <1>8 DEF Living, p
  <1> QED
    BY <1>3, <1>4, <1>9 DEF Fit, p

\* A unit without its front.
LEMMA FinishedIs ==
  ASSUME NEW u \in Components, u.queue # <<>>, NEW v, v = Finished(u)
  PROVE  /\ v \in Components /\ v.queue = Tail(u.queue)
         /\ v.owner = u.owner /\ v.form = u.form /\ v.outage = u.outage /\ v.aboard = u.aboard
         /\ v.life = u.life /\ v.left = u.left /\ v.paid = u.paid
         /\ v.drivers = u.drivers \ {Kind(u.queue[1].order)}
         /\ v.crossing = u.crossing /\ v.change = u.change
  <1>1. PICK w : w = Without(u, u.queue[1].order)
    OBVIOUS
  <1>2. /\ w \in Components /\ w.queue = u.queue
        /\ w.owner = u.owner /\ w.form = u.form /\ w.outage = u.outage /\ w.aboard = u.aboard
        /\ w.life = u.life /\ w.left = u.left /\ w.paid = u.paid
        /\ w.drivers = u.drivers \ {Kind(u.queue[1].order)}
        /\ w.crossing = u.crossing /\ w.change = u.change
    BY <1>1, WithoutIs DEF Kept
  <1>3. PICK p : p = Tail(u.queue)
    OBVIOUS
  <1>4. p \in Seq(Entries)
    BY <1>3, UnitQueue, HeadTailProperties
  <1>5. v = [w EXCEPT !.queue = p]
    BY <1>1, <1>2, <1>3 DEF Finished
  <1>6. /\ v \in Components /\ v.queue = p
        /\ v.owner = w.owner /\ v.form = w.form /\ v.outage = w.outage /\ v.aboard = w.aboard
        /\ v.life = w.life /\ v.left = w.left /\ v.paid = w.paid /\ v.drivers = w.drivers
        /\ v.crossing = w.crossing /\ v.change = w.change
    BY <1>2, <1>4, <1>5 DEF Components, Entries
  <1> QED
    BY <1>2, <1>3, <1>6

\* What a running front says of its unit.
LEMMA FrontIs ==
  ASSUME NEW u \in Components, Linked(u.queue), Driven(u), u.queue # <<>>,
         u.queue[1].state = "running"
  PROVE  /\ u.queue[1] \in Entries /\ u.queue[1].order \in Order /\ Started(u.queue[1])
         /\ u.queue[1].order # "Morph" => u.change = "none"
         /\ u.queue[1].order # "Move" => ~u.crossing
  <1>1. u.queue \in Seq(Entries) /\ DOMAIN u.queue = 1 .. Len(u.queue) /\ 1 \in DOMAIN u.queue
    BY UnitQueue, QueueDomain
  <1>2. u.queue[1] \in Entries
    BY <1>1, QueueDomain
  <1>3. u.queue[1].order # "Morph" => "Morph" \notin StartedIn(u.queue, DOMAIN u.queue)
    BY <1>1, MorphFront
  <1> QED
    BY <1>2, <1>3, EntryIs, CrossingQueue DEF Driven, Started

\* An order that ends by itself.
LEMMA FitFinished ==
  ASSUME NEW u, Fit(u), u.life = "alive", u.queue # <<>>, u.queue[1].state = "running",
         u.queue[1].order \notin {"Move", "Morph"}, u.queue[1].order = "Train" => u.paid = <<>>,
         NEW v, v = Finished(u)
  PROVE  Fit(v) /\ v.life = "alive" /\ v.owner = u.owner /\ v.paid = u.paid
  <1>1. u \in Components /\ Linked(u.queue) /\ Driven(u) /\ Living(u)
    BY DEF Fit
  <1>2. /\ v \in Components /\ v.queue = Tail(u.queue)
        /\ v.owner = u.owner /\ v.form = u.form
        /\ v.life = u.life /\ v.paid = u.paid
        /\ v.drivers = u.drivers \ {Kind(u.queue[1].order)}
        /\ v.crossing = u.crossing /\ v.change = u.change
    BY <1>1, FinishedIs
  <1>3. v.change = "none" /\ ~v.crossing
    BY <1>1, <1>2, FrontIs
  <1>4. v.paid # <<>> => Trains[v.form] # {} /\ u.paid # <<>>
    BY <1>1, <1>2 DEF Living
  <1> QED
    BY <1>2, <1>3, <1>4, FitEnded

\* The front suspended behind the order it asked for, which shares its mark.
Split(q, o) == PushSub([q EXCEPT ![1].state = "suspended"], o)

\* A queue whose front is suspended, entry by entry.
LEMMA SubPushed ==
  ASSUME NEW q \in Seq(Entries), q # <<>>, NEW o \in Order,
         NEW p, p = Split(q, o)
  PROVE  /\ p \in Seq(Entries) /\ Len(p) = Len(q) + 1 /\ DOMAIN p = 1 .. Len(q) + 1
         /\ p[1].order = o /\ p[1].state = "new" /\ p[1].cancel = q[1].cancel
         /\ p[2].order = q[1].order /\ p[2].state = "suspended" /\ p[2].cancel = q[1].cancel
         /\ \A i \in 2 .. Len(q) : p[i + 1] = q[i]
  <1>1. Len(q) \in Nat /\ DOMAIN q = 1 .. Len(q) /\ 1 \in DOMAIN q /\ q[1] \in Entries
    BY QueueDomain
  <1>2. PICK front : front = [q[1] EXCEPT !.state = "suspended"]
    OBVIOUS
  <1>3. /\ front \in Entries /\ front.order = q[1].order /\ front.state = "suspended"
        /\ front.cancel = q[1].cancel
    BY <1>1, <1>2, EntryTyped DEF Entries, OrderEntry, EntryState
  <1>4. PICK rest : rest = [q EXCEPT ![1].state = "suspended"]
    OBVIOUS
  <1>5. /\ rest \in [1 .. Len(q) -> Entries]
        /\ rest[1] = front /\ \A i \in 2 .. Len(q) : rest[i] = q[i]
    BY <1>1, <1>2, <1>3, <1>4, QueueDomain
  <1>6. rest \in Seq(Entries) /\ Len(rest) = Len(q)
    BY <1>1, <1>5, QueueOf
  <1>7. PICK sub : sub = [Entry(o) EXCEPT !.cancel = q[1].cancel]
    OBVIOUS
  <1>8. q[1].cancel \in {"soft", "force", Unmarked}
    BY <1>1, EntryIs
  <1>9. sub \in Entries
    BY <1>7, <1>8, EntryTyped
  <1>10. sub.order = o /\ sub.state = "new" /\ sub.cancel = q[1].cancel
    BY <1>7 DEF Entry
  <1>11. p = <<sub>> \o rest
    BY <1>3, <1>4, <1>5, <1>7 DEF PushSub, Split
  <1>12. PICK one : one = <<sub>>
    OBVIOUS
  <1>13. one \in Seq(Entries) /\ Len(one) = 1 /\ one[1] = sub
    BY <1>9, <1>12
  <1>14. p = one \o rest
    BY <1>11, <1>12
  <1>15. /\ p \in Seq(Entries) /\ Len(p) = Len(one) + Len(rest)
          /\ \A i \in 1 .. Len(one) + Len(rest) :
                 p[i] = IF i <= Len(one) THEN one[i] ELSE rest[i - Len(one)]
    <2>1. rest \in Seq(Entries) /\ one \in Seq(Entries)
      BY <1>6, <1>13
    <2> QED
      BY <1>14, <2>1, ConcatProperties
  <1>16. /\ p \in Seq(Entries) /\ Len(p) = 1 + Len(rest)
         /\ \A i \in 1 .. 1 + Len(rest) : p[i] = IF i <= 1 THEN one[i] ELSE rest[i - 1]
    BY <1>13, <1>15
  <1>17. p[1] = sub /\ p[2] = front
    <2>1. Len(rest) \in Nat /\ Len(rest) >= 1
      BY <1>1, <1>6
    <2>2. 1 \in 1 .. 1 + Len(rest) /\ 2 \in 1 .. 1 + Len(rest) /\ 2 - 1 = 1 /\ ~(2 <= 1)
      BY <2>1
    <2> QED
      BY <1>5, <1>13, <1>16, <2>2
  <1>18. \A i \in 2 .. Len(q) : p[i + 1] = q[i]
    <2> TAKE i \in 2 .. Len(q)
    <2>1. i + 1 \in 1 .. 1 + Len(rest) /\ ~(i + 1 <= 1) /\ (i + 1) - 1 = i
      BY <1>1, <1>6
    <2>2. p[i + 1] = rest[(i + 1) - 1]
      BY <1>16, <2>1
    <2> QED
      BY <1>5, <2>1, <2>2
  <1>19. Len(p) = Len(q) + 1
    BY <1>1, <1>6, <1>16
  <1>20. DOMAIN p = 1 .. Len(q) + 1
    BY <1>16, <1>19, QueueDomain
  <1> QED
    BY <1>3, <1>10, <1>16, <1>17, <1>18, <1>19, <1>20

\* An order that suspends itself stays linked to the one it waits for.
LEMMA SubLinked ==
  ASSUME NEW q \in Seq(Entries), q # <<>>, q[1].state = "running", Linked(q), Swept(q),
         NEW o \in SubOrders(q[1].order), o \in Order,
         NEW p, p = Split(q, o)
  PROVE  /\ Linked(p) /\ Swept(p)
         /\ StartedIn(p, DOMAIN p) = StartedIn(q, DOMAIN q)
  <1>1. Len(q) \in Nat /\ DOMAIN q = 1 .. Len(q) /\ Len(q) >= 1
    BY QueueDomain
  <1>2. /\ p \in Seq(Entries) /\ Len(p) = Len(q) + 1 /\ DOMAIN p = 1 .. Len(q) + 1
        /\ p[1].order = o /\ p[1].state = "new" /\ p[1].cancel = q[1].cancel
        /\ p[2].order = q[1].order /\ p[2].state = "suspended" /\ p[2].cancel = q[1].cancel
        /\ \A i \in 2 .. Len(q) : p[i + 1] = q[i]
    BY SubPushed
  <1>3. o \in OnFoot /\ q[1].order \in OnFoot /\ q[1].order # "Move"
    <2>1. o \in OnFoot /\ q[1].order \in OnFoot /\ Rank(o) < Rank(q[1].order)
      BY SubOrdersRank
    <2> QED
      BY <2>1 DEF Rank, SubOrders
  <1>4. \A i \in DOMAIN p : \/ i = 1 \/ i = 2
                            \/ i - 1 \in 2 .. Len(q) /\ p[i] = q[i - 1]
    <2> TAKE i \in DOMAIN p
    <2>1. i \in Int /\ i >= 1 /\ i <= Len(q) + 1 /\ (i - 1) + 1 = i
      BY <1>1, <1>2
    <2>2. CASE i > 2
      <3>1. i - 1 \in 2 .. Len(q)
        BY <1>1, <2>1, <2>2
      <3>2. p[(i - 1) + 1] = q[i - 1]
        BY <1>2, <3>1
      <3> QED
        BY <2>1, <3>1, <3>2
    <2>3. CASE i <= 2
      BY <2>1, <2>3
    <2> QED
      BY <2>1, <2>2, <2>3
  <1>5. Linked(p)
    <2>1. ASSUME NEW i \in DOMAIN p, p[i].state = "running" PROVE i = 1
      <3>1. CASE i = 2
        BY <1>2, <2>1, <3>1
      <3>2. CASE i - 1 \in 2 .. Len(q) /\ p[i] = q[i - 1]
        <4>1. i - 1 \in DOMAIN q /\ i - 1 # 1
          BY <1>1, <3>2
        <4> QED
          BY <2>1, <3>2, <4>1 DEF Linked
      <3> QED
        BY <1>4, <3>1, <3>2
    <2>2. ASSUME NEW i \in DOMAIN p, p[i].state = "suspended" PROVE p[i].order \in OnFoot \ {"Move"}
      <3>1. CASE i = 1
        BY <1>2, <2>2, <3>1
      <3>2. CASE i = 2
        BY <1>2, <1>3, <3>2
      <3>3. CASE i - 1 \in 2 .. Len(q) /\ p[i] = q[i - 1]
        <4>1. i - 1 \in DOMAIN q
          BY <1>1, <3>3
        <4> QED
          BY <2>2, <3>3, <4>1 DEF Linked
      <3> QED
        BY <1>4, <3>1, <3>2, <3>3
    <2>3. ASSUME NEW i \in DOMAIN p \ {1}, p[i].state = "suspended"
          PROVE  /\ p[i - 1].order \in SubOrders(p[i].order)
                 /\ i > 2 => p[i - 1].state = "suspended"
                 /\ Marked(p[i]) <=> Marked(p[i - 1])
      <3>1. CASE i = 2
        BY <1>2, <3>1 DEF Marked
      <3>2. CASE i - 1 = 2 /\ i - 1 \in 2 .. Len(q) /\ p[i] = q[i - 1]
        <4>1. i = 3 /\ 2 \in DOMAIN q \ {1}
          BY <1>1, <1>2, <3>2
        <4>2. q[2].state = "suspended"
          BY <2>3, <3>2
        <4>3. q[1].order \in SubOrders(q[2].order) /\ (Marked(q[2]) <=> Marked(q[1]))
          <5>1. 2 - 1 = 1
            OBVIOUS
          <5> QED
            BY <4>1, <4>2, <5>1 DEF Linked
        <4> QED
          BY <1>2, <3>2, <4>1, <4>3 DEF Marked
      <3>3. CASE i - 1 # 2 /\ i - 1 \in 2 .. Len(q) /\ p[i] = q[i - 1]
        <4>1. /\ i - 1 \in DOMAIN q \ {1} /\ i - 1 > 2
              /\ (i - 1) - 1 \in 2 .. Len(q) /\ ((i - 1) - 1) + 1 = i - 1
          BY <1>1, <1>2, <3>3
        <4>2. p[i - 1] = q[(i - 1) - 1]
          BY <1>2, <4>1
        <4> QED
          BY <2>3, <3>3, <4>1, <4>2 DEF Linked
      <3> QED
        BY <1>4, <3>1, <3>2, <3>3
    <2> QED
      BY <2>1, <2>2, <2>3 DEF Linked
  <1> DEFINE back(i) == IF i < 3 THEN 1 ELSE i - 1
  <1>6. \A i \in DOMAIN p : /\ back(i) \in DOMAIN q
                            /\ i # 1 => p[i].order = q[back(i)].order
                            /\ p[i].cancel = q[back(i)].cancel
                            /\ p[i].order \in OnFoot => q[back(i)].order \in OnFoot
    <2> TAKE i \in DOMAIN p
    <2>1. CASE i = 1 \/ i = 2
      BY <1>1, <1>2, <1>3, <2>1
    <2>2. CASE i - 1 \in 2 .. Len(q) /\ p[i] = q[i - 1]
      <3>1. back(i) = i - 1 /\ i # 1 /\ i - 1 \in DOMAIN q
        BY <1>1, <1>2, <2>2
      <3> QED
        BY <2>2, <3>1
    <2> QED
      BY <1>4, <2>1, <2>2
  <1>7. \A i, j \in DOMAIN p : /\ i < j => back(i) < back(j) \/ back(i) = back(j)
                               /\ i # 1 /\ j # 1 /\ back(i) = back(j) => i = j
    BY <1>1, <1>2
  <1>8. Swept(p)
    <2> HIDE DEF back
    <2>1. ASSUME NEW i \in DOMAIN p, NEW j \in DOMAIN p, i < j,
                 p[i].order \in OnFoot, p[j].order \in OnFoot
          PROVE  /\ Marked(p[j]) => Marked(p[i])
                 /\ p[j].cancel = "force" => p[i].cancel = "force"
      <3>1. back(i) < back(j) \/ back(i) = back(j)
        BY <1>7, <2>1
      <3>2. /\ back(i) \in DOMAIN q /\ back(j) \in DOMAIN q
            /\ q[back(i)].order \in OnFoot /\ q[back(j)].order \in OnFoot
            /\ p[i].cancel = q[back(i)].cancel /\ p[j].cancel = q[back(j)].cancel
        BY <1>6, <2>1
      <3> QED
        BY <3>1, <3>2 DEF Swept, Marked
    <2>2. ASSUME NEW i \in DOMAIN p, NEW j \in DOMAIN p, p[i].order = "Train", p[j].order = "Train"
          PROVE  i = j
      <3>1. i # 1 /\ j # 1
        BY <1>2, <1>3, <2>2 DEF OnFoot, Legs
      <3>2. back(i) = back(j)
        BY <1>6, <2>2, <3>1 DEF Swept
      <3> QED
        BY <1>7, <3>1, <3>2
    <2> QED
      BY <2>1, <2>2 DEF Swept
  <1>9. StartedIn(p, DOMAIN p) = StartedIn(q, DOMAIN q)
    <2>1. ASSUME NEW x \in StartedIn(p, DOMAIN p) PROVE x \in StartedIn(q, DOMAIN q)
      <3>1. PICK i \in DOMAIN p : Started(p[i]) /\ x = Kind(p[i].order)
        BY <2>1 DEF StartedIn
      <3>2. CASE i = 1
        BY <1>2, <3>1, <3>2 DEF Started
      <3>3. CASE i = 2
        <4>1. 1 \in DOMAIN q /\ Started(q[1]) /\ x = Kind(q[1].order)
          BY <1>1, <1>2, <3>1, <3>3 DEF Started
        <4> QED
          BY <4>1 DEF StartedIn
      <3>4. CASE i - 1 \in 2 .. Len(q) /\ p[i] = q[i - 1]
        <4>1. i - 1 \in DOMAIN q
          BY <1>1, <3>4
        <4> QED
          BY <3>1, <3>4, <4>1 DEF StartedIn
      <3> QED
        BY <1>4, <3>2, <3>3, <3>4
    <2>2. ASSUME NEW x \in StartedIn(q, DOMAIN q) PROVE x \in StartedIn(p, DOMAIN p)
      <3>1. PICK j \in DOMAIN q : Started(q[j]) /\ x = Kind(q[j].order)
        BY <2>2 DEF StartedIn
      <3>2. CASE j = 1
        <4>1. 2 \in DOMAIN p /\ Started(p[2]) /\ x = Kind(p[2].order)
          BY <1>1, <1>2, <3>1, <3>2 DEF Started
        <4> QED
          BY <4>1 DEF StartedIn
      <3>3. CASE j # 1
        <4>1. j \in 2 .. Len(q) /\ j + 1 \in 1 .. Len(q) + 1
          BY <1>1, <3>3
        <4>2. j + 1 \in DOMAIN p /\ p[j + 1] = q[j]
          BY <1>2, <4>1
        <4> QED
          BY <3>1, <4>2 DEF StartedIn
      <3> QED
        BY <3>2, <3>3
    <2> QED
      BY <2>1, <2>2
  <1> QED
    BY <1>5, <1>8, <1>9

\* An order that suspends itself for another.
LEMMA FitSuspended ==
  ASSUME NEW u, Fit(u), u.life = "alive", u.queue # <<>>, u.queue[1].state = "running",
         NEW o \in SubOrders(u.queue[1].order), NEW v, v = Suspended(u, o)
  PROVE  Fit(v) /\ v.life = "alive" /\ v.owner = u.owner /\ v.paid = u.paid
  <1> DEFINE q == u.queue
  <1>1. u \in Components /\ q \in Seq(Entries) /\ Linked(q) /\ Swept(q) /\ Driven(u) /\ Living(u)
    BY UnitQueue DEF Fit
  <1>2. o \in OnFoot /\ q[1].order \in OnFoot /\ q[1].order # "Move"
    <2>1. o \in OnFoot /\ q[1].order \in OnFoot /\ Rank(o) < Rank(q[1].order)
      BY SubOrdersRank
    <2> QED
      BY <2>1 DEF Rank, SubOrders
  <1>3. o \in Order /\ o \notin Topic /\ o # "Die"
    <2>1. o \in Order
      BY <1>2 DEF Order
    <2> QED
      BY <1>2, <2>1, Kinds DEF OnFoot, Legs
  <1>4. PICK p : p = Split(q, o)
    OBVIOUS
  <1>5. q # <<>> /\ q[1].state = "running" /\ o \in SubOrders(q[1].order)
    OBVIOUS
  <1>6. v = [u EXCEPT !.queue = p]
    BY <1>4 DEF Suspended, Split
  <1> HIDE DEF q
  <1>7. /\ p \in Seq(Entries) /\ Len(p) = Len(q) + 1 /\ DOMAIN p = 1 .. Len(q) + 1
        /\ p[1].order = o /\ p[1].state = "new" /\ p[1].cancel = q[1].cancel
        /\ p[2].order = q[1].order /\ p[2].state = "suspended" /\ p[2].cancel = q[1].cancel
        /\ \A i \in 2 .. Len(q) : p[i + 1] = q[i]
    BY <1>1, <1>3, <1>4, <1>5, SubPushed
  <1>8. /\ Linked(p) /\ Swept(p)
        /\ StartedIn(p, DOMAIN p) = StartedIn(q, DOMAIN q)
    BY <1>1, <1>3, <1>4, <1>5, SubLinked
  <1>9. Len(q) \in Nat /\ DOMAIN q = 1 .. Len(q) /\ Len(q) >= 1 /\ 1 \in DOMAIN q
    BY <1>1, <1>5, QueueDomain
  <1>10. \A i \in DOMAIN p : \/ i = 1 \/ i = 2
                             \/ i - 1 \in 2 .. Len(q) /\ p[i] = q[i - 1]
    <2> TAKE i \in DOMAIN p
    <2>1. i \in Int /\ i >= 1 /\ i <= Len(q) + 1 /\ (i - 1) + 1 = i
      BY <1>7, <1>9
    <2>2. CASE i > 2
      <3>1. i - 1 \in 2 .. Len(q)
        BY <1>9, <2>1, <2>2
      <3>2. p[(i - 1) + 1] = q[i - 1]
        BY <1>7, <3>1
      <3> QED
        BY <2>1, <3>1, <3>2
    <2>3. CASE i <= 2
      BY <2>1, <2>3
    <2> QED
      BY <2>1, <2>2, <2>3
  <1>11. q[1].order \notin Topic /\ q[1].cancel # "force" /\ q[1].order # "Die"
    <2>1. q[1] \in Entries
      BY <1>1, <1>9, QueueDomain
    <2>2. q[1].order \in Order
      BY <2>1, EntryIs
    <2>3. q[1].order \notin Topic
      BY <1>2, <2>2, Kinds
    <2> QED
      BY <1>1, <1>9, <2>3 DEF Living, q
  <1>12. \A i \in DOMAIN p : p[i].order # "Die" /\ (p[i].cancel = "force" => p[i].order \in Topic)
    <2> TAKE i \in DOMAIN p
    <2>1. CASE i = 1 \/ i = 2
      BY <1>3, <1>7, <1>11, <2>1
    <2>2. CASE i - 1 \in 2 .. Len(q) /\ p[i] = q[i - 1]
      <3>1. i - 1 \in DOMAIN q
        BY <1>9, <2>2
      <3> QED
        BY <1>1, <2>2, <3>1 DEF Living, q
    <2> QED
      BY <1>10, <2>1, <2>2
  <1>13. \A i, j \in DOMAIN p : p[i].order \in Topic /\ p[i].order = p[j].order => i = j
    <2> TAKE i, j \in DOMAIN p
    <2> HAVE p[i].order \in Topic /\ p[i].order = p[j].order
    <2>1. i \notin {1, 2} /\ j \notin {1, 2}
      BY <1>3, <1>7, <1>11
    <2>2. /\ i - 1 \in DOMAIN q /\ p[i] = q[i - 1]
          /\ j - 1 \in DOMAIN q /\ p[j] = q[j - 1]
      BY <1>9, <1>10, <2>1
    <2>3. i - 1 = j - 1
      BY <1>1, <2>2 DEF Living, q
    <2> QED
      BY <1>7, <1>9, <2>3
  <1>14. ASSUME NEW i \in DOMAIN q, q[i].order = "Train" PROVE \E j \in DOMAIN p : p[j].order = "Train"
    <2>1. i \in 2 .. Len(q)
      BY <1>2, <1>9, <1>14 DEF OnFoot, Legs
    <2>2. i + 1 \in DOMAIN p /\ p[i + 1] = q[i]
      BY <1>7, <1>9, <2>1
    <2> QED
      BY <1>14, <2>2
  <1>15. /\ v \in Components /\ v.queue = p /\ v.form = u.form /\ v.owner = u.owner
         /\ v.life = u.life /\ v.drivers = u.drivers /\ v.paid = u.paid
         /\ v.crossing = u.crossing /\ v.change = u.change /\ v.aboard = u.aboard
    BY <1>1, <1>6, <1>7 DEF Components, Entries
  <1>16. ~u.crossing
    BY <1>1, <1>2, CrossingQueue DEF q
  <1>17. Driven(v)
    BY <1>1, <1>8, <1>15, <1>16 DEF Driven, q
  <1>18. Living(v)
    BY <1>1, <1>12, <1>13, <1>14, <1>15 DEF Living, q
  <1> QED
    BY <1>8, <1>15, <1>17, <1>18 DEF Fit

\* The front of a queue, running.
Running(p) == [p EXCEPT ![1].state = "running"]

\* A queue whose front runs, entry by entry.
LEMMA FrontSet ==
  ASSUME NEW p \in Seq(Entries), p # <<>>, Linked(p), Swept(p), NEW x, x = Running(p)
  PROVE  /\ x \in Seq(Entries) /\ Len(x) = Len(p) /\ DOMAIN x = DOMAIN p /\ 1 \in DOMAIN p
         /\ \A i \in DOMAIN p : x[i].order = p[i].order /\ x[i].cancel = p[i].cancel
         /\ x[1].state = "running"
         /\ Linked(x) /\ Swept(x)
         /\ StartedIn(x, DOMAIN x) = StartedIn(p, DOMAIN p) \cup {Kind(p[1].order)}
  <1>1. Len(p) \in Nat /\ DOMAIN p = 1 .. Len(p) /\ 1 \in DOMAIN p /\ p[1] \in Entries
    BY QueueDomain
  <1>2. PICK front : front = [p[1] EXCEPT !.state = "running"]
    OBVIOUS
  <1>3. /\ front \in Entries /\ front.order = p[1].order /\ front.state = "running"
        /\ front.cancel = p[1].cancel
    BY <1>1, <1>2, EntryTyped DEF Entries, OrderEntry, EntryState
  <1>4. /\ x \in [1 .. Len(p) -> Entries]
        /\ x[1] = front /\ \A i \in DOMAIN p : i # 1 => x[i] = p[i]
    BY <1>1, <1>2, <1>3, QueueDomain DEF Running
  <1>5. x \in Seq(Entries) /\ Len(x) = Len(p) /\ DOMAIN x = DOMAIN p
    BY <1>1, <1>4, QueueOf
  <1>6. \A i \in DOMAIN p : x[i].order = p[i].order /\ x[i].cancel = p[i].cancel
    BY <1>3, <1>4
  <1>7. \A i \in DOMAIN p : x[i].state = "suspended" => i # 1 /\ p[i].state = "suspended"
    BY <1>3, <1>4
  <1>8. Linked(x)
    <2>1. \A i \in DOMAIN x : x[i].state = "running" => i = 1
      BY <1>4, <1>5 DEF Linked
    <2>2. \A i \in DOMAIN x : x[i].state = "suspended" => x[i].order \in OnFoot \ {"Move"}
      BY <1>5, <1>6, <1>7 DEF Linked
    <2>3. ASSUME NEW i \in DOMAIN x \ {1}, x[i].state = "suspended"
          PROVE  /\ x[i - 1].order \in SubOrders(x[i].order)
                 /\ i > 2 => x[i - 1].state = "suspended"
                 /\ Marked(x[i]) <=> Marked(x[i - 1])
      <3>1. i - 1 \in DOMAIN p /\ i \in DOMAIN p \ {1} /\ (i > 2 => i - 1 # 1)
        BY <1>1, <1>5
      <3>2. /\ p[i - 1].order \in SubOrders(p[i].order)
            /\ i > 2 => p[i - 1].state = "suspended"
            /\ Marked(p[i]) <=> Marked(p[i - 1])
        BY <1>7, <2>3, <3>1 DEF Linked
      <3> QED
        BY <1>4, <1>6, <3>1, <3>2 DEF Marked
    <2> QED
      BY <2>1, <2>2, <2>3 DEF Linked
  <1>9. Swept(x)
    BY <1>5, <1>6 DEF Swept, Marked
  <1>10. StartedIn(x, DOMAIN x) = StartedIn(p, DOMAIN p) \cup {Kind(p[1].order)}
    <2>1. ASSUME NEW y \in StartedIn(x, DOMAIN x)
          PROVE  y \in StartedIn(p, DOMAIN p) \cup {Kind(p[1].order)}
      BY <1>3, <1>4, <1>5, <2>1 DEF StartedIn
    <2>2. ASSUME NEW y \in StartedIn(p, DOMAIN p) PROVE y \in StartedIn(x, DOMAIN x)
      <3>1. PICK i \in DOMAIN p : Started(p[i]) /\ y = Kind(p[i].order)
        BY <2>2 DEF StartedIn
      <3>2. Started(x[i])
        BY <1>3, <1>4, <3>1 DEF Started
      <3> QED
        BY <1>5, <1>6, <3>1, <3>2 DEF StartedIn
    <2>3. Kind(p[1].order) \in StartedIn(x, DOMAIN x)
      <3>1. Started(x[1]) /\ x[1].order = p[1].order
        BY <1>3, <1>4 DEF Started
      <3> QED
        BY <1>1, <1>5, <3>1 DEF StartedIn
    <2> QED
      BY <2>1, <2>2, <2>3
  <1> QED
    BY <1>1, <1>3, <1>4, <1>5, <1>6, <1>8, <1>9, <1>10

\* An entry at which a front that is looked for is found.
Ready(u, clear, funds, entry) ==
  Conduct(u, entry) = "holds" \/ entry.state # "new" \/ Starts(u, entry, clear, funds)

\* The front at k runs, or holds.
Fronted(u, clear, k) ==
  LET rest == IF k = 0 THEN <<>> ELSE Behind(u.queue, k - 1)
      next == [u EXCEPT !.queue = rest]
      run == [u EXCEPT !.queue = [rest EXCEPT ![1].state = "running"]]
  IN  IF k = 0 \/ Conduct(u, Head(rest)) = "holds" \/ Head(rest).state = "running"
      THEN [unit |-> next, gain |-> 0]
      ELSE IF Head(rest).state = "suspended" THEN [unit |-> run, gain |-> 0]
      ELSE [unit |-> Begin(run, Head(rest).order, clear),
            gain |-> IF Head(rest).order = "Morph" /\ clear THEN -1 ELSE 0]

\* The first entry that is ready becomes the front.
LEMMA PrepareSteps ==
  ASSUME NEW u \in Components, NEW clear \in BOOLEAN, NEW funds
  PROVE  \E k \in 0 .. Len(u.queue) :
           /\ \A i \in DOMAIN u.queue : k = 0 \/ i < k => ~Ready(u, clear, funds, u.queue[i])
           /\ k # 0 => Ready(u, clear, funds, u.queue[k])
           /\ PrepareFront(u, clear, funds) = Fronted(u, clear, k)
  <1> DEFINE q == u.queue
             R == {i \in 1 .. Len(q) : Ready(u, clear, funds, q[i])}
             k == IF R # {} THEN Min(R) ELSE 0
  <1>1. Len(q) \in Nat /\ DOMAIN q = 1 .. Len(q)
    BY UnitQueue, QueueDomain
  <1>2. R # {} => Min(R) \in R /\ \A i \in R : Min(R) <= i
    <2> HAVE R # {}
    <2>1. R \subseteq Nat
      BY <1>1
    <2>2. \E x \in R : \A i \in R : x <= i
      BY <2>1, LeastNatural
    <2> QED
      BY <2>2 DEF Min
  <1>3. k \in 0 .. Len(q)
    BY <1>1, <1>2
  <1>4. \A i \in DOMAIN q : k = 0 \/ i < k => ~Ready(u, clear, funds, q[i])
    BY <1>1, <1>2
  <1>5. k # 0 => Ready(u, clear, funds, q[k])
    BY <1>1, <1>2
  <1>6. k # 0 => (k - 1) + 1 = k
    BY <1>3
  <1>7. SelectInSeq(q, LAMBDA entry : \/ Conduct(u, entry) = "holds"
                                      \/ entry.state # "new"
                                      \/ Starts(u, entry, clear, funds)) = k
    BY DEF SelectInSeq, Ready
  <1> HIDE DEF k
  <1>8. PrepareFront(u, clear, funds) = Fronted(u, clear, k)
    BY <1>6, <1>7 DEF PrepareFront, Fronted, Behind
  <1> QED
    BY <1>3, <1>4, <1>5, <1>8

\* What is never touched when a front is prepared.
Moved(u, v) ==
  /\ v \in Components
  /\ v.owner = u.owner /\ v.form = u.form /\ v.outage = u.outage /\ v.aboard = u.aboard
  /\ v.life = u.life /\ v.left = u.left /\ v.paid = u.paid /\ v.crossing = u.crossing

\* A queue p is a queue q without its first j entries, whatever state its front is in.
Trimmed(q, j, p) ==
  /\ Len(p) = Len(q) - j
  /\ \A i \in DOMAIN p : /\ i + j \in DOMAIN q
                         /\ p[i].order = q[i + j].order /\ p[i].cancel = q[i + j].cancel

\* What preparing the front makes of a unit: it drops new entries that are not
\* ready, and a change of form under way was paid.
Prepared(u, clear, funds, r) ==
  LET q == u.queue v == r.unit IN
  /\ Moved(u, v)
  /\ Linked(v.queue) /\ Swept(v.queue) /\ Driven(v)
  /\ \E j \in 0 .. Len(q) :
       /\ Trimmed(q, j, v.queue)
       /\ \A i \in 1 .. j : i \in DOMAIN q /\ ~Ready(u, clear, funds, q[i])
       /\ j > 0 => u.change = "none"
  /\ v.queue # <<>> => v.queue[1].state = "running" \/ Conduct(v, v.queue[1]) = "holds"
  /\ \/ r.gain = 0 /\ (v.change = u.change \/ (u.change = "none" /\ v.change = "clearing"))
     \/ r.gain = -1 /\ funds > 0 /\ u.change = "none" /\ v.change = "underWay"

\* Of the entries of a queue, those behind new ones are the ones that have started.
LEMMA StartedBehind ==
  ASSUME NEW q \in Seq(Entries), NEW k \in 1 .. Len(q) + 1,
         \A i \in DOMAIN q : i < k => q[i].state = "new"
  PROVE  StartedIn(q, k .. Len(q)) = StartedIn(q, DOMAIN q)
  <1>1. Len(q) \in Nat /\ DOMAIN q = 1 .. Len(q) /\ \A i \in DOMAIN q : q[i] \in Entries
    BY QueueDomain
  <1>2. ASSUME NEW i \in DOMAIN q, Started(q[i]) PROVE i \in k .. Len(q)
    BY <1>1, <1>2 DEF Started
  <1>3. \A i \in k .. Len(q) : i \in DOMAIN q
    BY <1>1
  <1>4. ASSUME NEW x \in StartedIn(q, k .. Len(q)) PROVE x \in StartedIn(q, DOMAIN q)
    BY <1>3, <1>4 DEF StartedIn
  <1>5. ASSUME NEW x \in StartedIn(q, DOMAIN q) PROVE x \in StartedIn(q, k .. Len(q))
    BY <1>2, <1>5 DEF StartedIn
  <1> QED
    BY <1>4, <1>5

\* What a front that starts to run adds to its unit.
Begun(w, o, clear, v) ==
  /\ Moved(w, v) /\ v.queue = w.queue
  /\ o = "Morph" => /\ v.drivers = w.drivers
                    /\ v.change = IF clear THEN "underWay" ELSE "clearing"
  /\ o # "Morph" => /\ v.change = w.change
                    /\ v.drivers = IF o = "Die" THEN w.drivers ELSE w.drivers \cup {Kind(o)}

\* A front that starts to run.
LEMMA BeginIs ==
  ASSUME NEW w \in Components, NEW o \in Order, NEW clear \in BOOLEAN
  PROVE  Begun(w, o, clear, Begin(w, o, clear))
  <1> DEFINE v == Begin(w, o, clear)
  <1> SUFFICES Begun(w, o, clear, v)
    OBVIOUS
  <1>1. CASE o = "Die"
    BY <1>1 DEF Begin, Begun, Moved
  <1>2. CASE o = "Morph"
    BY <1>2 DEF Begin, Begun, Moved, Components
  <1>3. CASE o \notin {"Die", "Morph"}
    <2>1. v = [w EXCEPT !.drivers = @ \cup {Kind(o)}, !.winding = FALSE]
      BY <1>3 DEF Begin
    <2> HIDE DEF v
    <2>2. Kind(o) \in OnFoot \cup Queued
      BY <1>3, Kinds
    <2>3. PICK D : D = w.drivers \cup {Kind(o)}
      OBVIOUS
    <2>4. D \in SUBSET (OnFoot \cup Queued)
      BY <2>2, <2>3 DEF Components
    <2>5. PICK x : x = [w EXCEPT !.drivers = D]
      OBVIOUS
    <2>6. Moved(w, x) /\ x.queue = w.queue /\ x.drivers = D /\ x.change = w.change
      BY <2>4, <2>5 DEF Moved, Components
    <2>7. v = [x EXCEPT !.winding = FALSE]
      BY <2>1, <2>3, <2>5
    <2>8. x \in Components
      BY <2>6 DEF Moved
    <2>9. Moved(x, v) /\ v.queue = x.queue /\ v.drivers = x.drivers /\ v.change = x.change
      BY <2>7, <2>8 DEF Moved, Components
    <2>10. Moved(w, v)
      BY <2>6, <2>9 DEF Moved
    <2> QED
      BY <1>3, <2>3, <2>6, <2>9, <2>10 DEF Begun
  <1> QED
    BY <1>1, <1>2, <1>3

\* A unit whose front at k runs, or holds: all before it is new.
LEMMA FrontedIs ==
  ASSUME NEW u \in Components, Linked(u.queue), Swept(u.queue), Driven(u),
         NEW clear \in BOOLEAN, NEW funds \in Int, NEW k \in 1 .. Len(u.queue),
         \A i \in DOMAIN u.queue : i < k => ~Ready(u, clear, funds, u.queue[i]),
         Ready(u, clear, funds, u.queue[k]), NEW r, r = Fronted(u, clear, k)
  PROVE  Prepared(u, clear, funds, r)
  <1> DEFINE q == u.queue
  <1>1. /\ q \in Seq(Entries) /\ Len(q) \in Nat /\ DOMAIN q = 1 .. Len(q) /\ k \in DOMAIN q
        /\ \A i \in DOMAIN q : q[i] \in Entries
    BY UnitQueue, QueueDomain
  <1>2. PICK j \in 0 .. Len(q) : j = k - 1
    BY <1>1
  <1>3. PICK p : p = Behind(q, j)
    OBVIOUS
  <1>4. /\ p \in Seq(Entries) /\ Len(p) = Len(q) - j /\ DOMAIN p = 1 .. Len(q) - j
        /\ \A i \in DOMAIN p : i + j \in DOMAIN q /\ p[i] = q[i + j]
        /\ Linked(p) /\ Swept(p)
        /\ StartedIn(p, DOMAIN p) = StartedIn(q, (j + 1) .. Len(q))
    <2>1. q \in Seq(Entries) /\ Linked(q) /\ Swept(q)
      BY <1>1
    <2> HIDE DEF q
    <2> QED
      BY <1>3, <2>1, BehindIs
  <1>5. 1 \in DOMAIN p /\ p # <<>> /\ Head(p) = p[1] /\ p[1] = q[k] /\ p[1] \in Entries
    <2>1. 1 \in DOMAIN p /\ 1 + j = k
      BY <1>1, <1>2, <1>4
    <2>2. p[1] = q[1 + j]
      BY <1>4, <2>1
    <2>3. p # <<>>
      BY <1>4, <2>1, QueueDomain
    <2> QED
      BY <1>1, <1>4, <2>1, <2>2, <2>3
  <1>6. \A i \in DOMAIN q : i < k => q[i].state = "new"
    BY DEF Ready
  <1>7. StartedIn(p, DOMAIN p) = StartedIn(q, DOMAIN q)
    <2>1. j + 1 = k /\ k \in 1 .. Len(q) + 1
      BY <1>1, <1>2
    <2>2. StartedIn(q, k .. Len(q)) = StartedIn(q, DOMAIN q)
      BY <1>1, <1>6, <2>1, StartedBehind
    <2> QED
      BY <1>4, <2>1, <2>2
  <1>8. \A i \in 1 .. j : i \in DOMAIN q /\ ~Ready(u, clear, funds, q[i])
    BY <1>1, <1>2
  <1>9. j > 0 => q[1].state = "new"
    BY <1>1, <1>2, <1>6
  <1>10. q[1].state = "new" => u.change = "none" /\ ~u.crossing
    <2> HAVE q[1].state = "new"
    <2>1. "Morph" \notin StartedIn(q, DOMAIN q) /\ "Move" \notin StartedIn(q, DOMAIN q)
      <3>1. ~Started(q[1]) /\ q[1].state # "running"
        BY DEF Started
      <3>2. DOMAIN q \in SUBSET DOMAIN q /\ Linked(q) /\ q \in Seq(Entries)
        BY <1>1
      <3> HIDE DEF q
      <3> QED
        BY <3>1, <3>2, MorphFront, WalkFront
    <2> QED
      BY <2>1, CrossingQueue DEF Driven
  <1>11. u.crossing => p[1] = q[1]
    BY <1>2, <1>5, <1>9, <1>10
  <1>12. ASSUME NEW v \in Components, Moved(u, v), Linked(v.queue), Swept(v.queue),
                Len(v.queue) = Len(p), DOMAIN v.queue = DOMAIN p,
                \A i \in DOMAIN p : v.queue[i].order = p[i].order /\ v.queue[i].cancel = p[i].cancel
         PROVE  /\ Trimmed(q, j, v.queue)
                /\ v.crossing => v.queue[1].order = u.queue[1].order /\ v.aboard = u.aboard /\ u.crossing
    BY <1>4, <1>5, <1>11, <1>12 DEF Trimmed, Moved
  <1>13. \/ /\ Conduct(u, p[1]) = "holds" \/ p[1].state = "running"
            /\ r = [unit |-> [u EXCEPT !.queue = p], gain |-> 0]
         \/ /\ p[1].state = "suspended"
            /\ r = [unit |-> [u EXCEPT !.queue = [p EXCEPT ![1].state = "running"]], gain |-> 0]
         \/ /\ p[1].state = "new" /\ Conduct(u, p[1]) # "holds"
            /\ r = [unit |-> Begin([u EXCEPT !.queue = [p EXCEPT ![1].state = "running"]], p[1].order, clear),
                    gain |-> IF p[1].order = "Morph" /\ clear THEN -1 ELSE 0]
    <2>1. p[1].state \in {"new", "running", "suspended"}
      BY <1>5, EntryIs DEF EntryState
    <2> QED
      BY <1>2, <1>3, <1>5, <2>1, SMTT(30) DEF Fronted
  <1>14. CASE /\ Conduct(u, p[1]) = "holds" \/ p[1].state = "running"
              /\ r = [unit |-> [u EXCEPT !.queue = p], gain |-> 0]
    <2>1. PICK v : v = [u EXCEPT !.queue = p]
      OBVIOUS
    <2>2. /\ v \in Components /\ Moved(u, v) /\ v.queue = p
          /\ v.drivers = u.drivers /\ v.change = u.change
      BY <1>4, <2>1, QueueSet DEF Moved
    <2>3. r.unit = v /\ r.gain = 0
      BY <1>14, <2>1
    <2>4. Driven(v)
      <3>1. /\ v.crossing => u.crossing /\ v.aboard = u.aboard /\ v.queue[1].order = u.queue[1].order
            /\ StartedIn(v.queue, DOMAIN v.queue) = StartedIn(u.queue, DOMAIN u.queue)
        BY <1>4, <1>7, <1>12, <2>2
      <3> QED
        BY <2>2, <3>1, DrivenSet
    <2>5. Trimmed(q, j, v.queue)
      BY <1>4, <1>12, <2>2
    <2>6. p[1].state = "running" \/ Conduct(v, p[1]) = "holds"
      BY <1>14, <2>2 DEF Moved, Conduct, Changing
    <2> QED
      BY <1>4, <1>8, <1>9, <1>10, <2>2, <2>3, <2>4, <2>5, <2>6 DEF Prepared
  <1>15. PICK x : x = Running(p)
    OBVIOUS
  <1>16. /\ x \in Seq(Entries) /\ Len(x) = Len(p) /\ DOMAIN x = DOMAIN p
         /\ \A i \in DOMAIN p : x[i].order = p[i].order /\ x[i].cancel = p[i].cancel
         /\ x[1].state = "running"
         /\ Linked(x) /\ Swept(x)
         /\ StartedIn(x, DOMAIN x) = StartedIn(p, DOMAIN p) \cup {Kind(p[1].order)}
    <2>1. p \in Seq(Entries) /\ p # <<>> /\ Linked(p) /\ Swept(p)
      BY <1>4, <1>5
    <2> QED
      BY <1>15, <2>1, FrontSet
  <1>17. PICK w : w = [u EXCEPT !.queue = x]
    OBVIOUS
  <1>18. /\ w \in Components /\ Moved(u, w) /\ w.queue = x
         /\ w.drivers = u.drivers /\ w.change = u.change
    BY <1>16, <1>17, QueueSet DEF Moved
  <1>19. CASE /\ p[1].state = "suspended"
              /\ r = [unit |-> [u EXCEPT !.queue = [p EXCEPT ![1].state = "running"]], gain |-> 0]
    <2>1. r.unit = w /\ r.gain = 0
      BY <1>15, <1>17, <1>19 DEF Running
    <2>2. StartedIn(x, DOMAIN x) = StartedIn(q, DOMAIN q)
      <3>1. Kind(p[1].order) \in StartedIn(p, DOMAIN p)
        BY <1>5, <1>19 DEF StartedIn, Started
      <3> QED
        BY <1>7, <1>16, <3>1
    <2>3. Driven(w)
      <3>1. /\ w.crossing => u.crossing /\ w.aboard = u.aboard /\ w.queue[1].order = u.queue[1].order
            /\ StartedIn(w.queue, DOMAIN w.queue) = StartedIn(u.queue, DOMAIN u.queue)
        BY <1>12, <1>16, <1>18, <2>2
      <3> QED
        BY <1>18, <3>1, DrivenSet
    <2>4. Trimmed(q, j, w.queue)
      BY <1>12, <1>16, <1>18
    <2> QED
      BY <1>8, <1>9, <1>10, <1>16, <1>18, <2>1, <2>3, <2>4 DEF Prepared
  <1>20. CASE /\ p[1].state = "new" /\ Conduct(u, p[1]) # "holds"
              /\ r = [unit |-> Begin([u EXCEPT !.queue = [p EXCEPT ![1].state = "running"]], p[1].order, clear),
                      gain |-> IF p[1].order = "Morph" /\ clear THEN -1 ELSE 0]
    <2>1. PICK o : o = p[1].order
      OBVIOUS
    <2>2. o \in Order
      BY <1>5, <2>1, EntryIs
    <2>3. PICK v : v = Begin(w, o, clear)
      OBVIOUS
    <2>4. r.unit = v /\ r.gain = IF o = "Morph" /\ clear THEN -1 ELSE 0
      BY <1>15, <1>17, <1>20, <2>1, <2>3 DEF Running
    <2>5. w \in Components
      BY <1>18
    <2>6. Begun(w, o, clear, v)
      BY <2>2, <2>3, <2>5, BeginIs
    <2>7. /\ Moved(w, v) /\ v.queue = w.queue
          /\ o = "Morph" => /\ v.drivers = w.drivers
                            /\ v.change = IF clear THEN "underWay" ELSE "clearing"
          /\ o # "Morph" => /\ v.change = w.change
                            /\ v.drivers = IF o = "Die" THEN w.drivers
                                           ELSE w.drivers \cup {Kind(o)}
      BY <2>6 DEF Begun
    <2>8. Moved(u, v) /\ v.queue = x /\ v \in Components
      BY <1>18, <2>7 DEF Moved
    <2>9. Starts(u, q[k], clear, funds)
      BY <1>5, <1>20 DEF Ready
    <2>10. o = "Morph" /\ clear => funds > 0
      BY <1>5, <2>1, <2>9 DEF Starts
    <2>11. p[1].state = "new" => u.change = "none" /\ ~u.crossing
      BY <1>2, <1>5, <1>9, <1>10
    <2>12. u.change = "none" /\ ~u.crossing /\ ~v.crossing
      BY <1>20, <2>8, <2>11 DEF Moved
    <2>13. StartedIn(x, DOMAIN x) = StartedIn(q, DOMAIN q) \cup {Kind(o)}
      BY <1>7, <1>16, <2>1
    <2>14. Driven(v)
      <3>1. u.drivers = StartedIn(q, DOMAIN q) \ {"Morph", "Die"} /\ "Morph" \notin StartedIn(q, DOMAIN q)
        BY <2>12 DEF Driven
      <3>2. CASE o = "Morph"
        <4>1. v.drivers = u.drivers /\ v.change # "none" /\ Kind(o) = "Morph"
          BY <1>18, <2>2, <2>7, <3>2, Kinds
        <4> QED
          BY <2>8, <2>12, <2>13, <3>1, <4>1 DEF Driven
      <3>3. CASE o # "Morph"
        <4>1. v.change = "none" /\ Kind(o) # "Morph" /\ (Kind(o) = "Die" <=> o = "Die")
              /\ v.drivers = IF o = "Die" THEN u.drivers ELSE u.drivers \cup {Kind(o)}
          BY <1>18, <2>2, <2>7, <2>12, <3>3, Kinds
        <4> QED
          BY <2>8, <2>12, <2>13, <3>1, <4>1 DEF Driven
      <3> QED
        BY <3>2, <3>3
    <2>15. Trimmed(q, j, v.queue)
      BY <1>12, <1>16, <2>8
    <2>16. \/ r.gain = 0 /\ (v.change = u.change \/ (u.change = "none" /\ v.change = "clearing"))
           \/ r.gain = -1 /\ funds > 0 /\ u.change = "none" /\ v.change = "underWay"
      <3>1. CASE o = "Morph" /\ clear
        BY <2>4, <2>7, <2>10, <2>12, <3>1
      <3>2. CASE o = "Morph" /\ ~clear
        BY <2>4, <2>7, <2>12, <3>2
      <3>3. CASE o # "Morph"
        BY <1>18, <2>4, <2>7, <3>3
      <3> QED
        BY <3>1, <3>2, <3>3
    <2> QED
      BY <1>8, <1>9, <1>10, <1>16, <2>4, <2>8, <2>14, <2>15, <2>16 DEF Prepared
  <1> QED
    BY <1>13, <1>14, <1>19, <1>20

\* The front is prepared.
LEMMA PrepareFrontIs ==
  ASSUME NEW u \in Components, Linked(u.queue), Swept(u.queue), Driven(u),
         NEW clear \in BOOLEAN, NEW funds \in Int
  PROVE  Prepared(u, clear, funds, PrepareFront(u, clear, funds))
  <1> DEFINE q == u.queue
  <1>1. /\ q \in Seq(Entries) /\ Len(q) \in Nat /\ DOMAIN q = 1 .. Len(q)
        /\ \A i \in DOMAIN q : q[i] \in Entries
    BY UnitQueue, QueueDomain
  <1>2. PICK k \in 0 .. Len(u.queue) :
           /\ \A i \in DOMAIN u.queue : k = 0 \/ i < k => ~Ready(u, clear, funds, u.queue[i])
           /\ k # 0 => Ready(u, clear, funds, u.queue[k])
           /\ PrepareFront(u, clear, funds) = Fronted(u, clear, k)
    BY PrepareSteps
  <1>3. PICK r : r = Fronted(u, clear, k)
    OBVIOUS
  <1>4. CASE k # 0
    <2>1. k \in 1 .. Len(u.queue) /\ Ready(u, clear, funds, u.queue[k])
          /\ \A i \in DOMAIN u.queue : i < k => ~Ready(u, clear, funds, u.queue[i])
      BY <1>1, <1>2, <1>4
    <2>2. Prepared(u, clear, funds, r)
      BY <1>3, <2>1, FrontedIs
    <2> QED
      BY <1>2, <1>3, <2>2
  <1>5. CASE k = 0
    <2>1. PICK p : p = <<>>
      OBVIOUS
    <2>2. p \in Seq(Entries) /\ Len(p) = 0 /\ DOMAIN p = {}
      BY <2>1
    <2>3. PICK v : v = [u EXCEPT !.queue = p]
      OBVIOUS
    <2>4. r.unit = v /\ r.gain = 0
      BY <1>3, <1>5, <2>1, <2>3 DEF Fronted
    <2>5. /\ v \in Components /\ Moved(u, v) /\ v.queue = p
          /\ v.drivers = u.drivers /\ v.change = u.change
      BY <2>2, <2>3, QueueSet, ZenonT(30) DEF Moved
    <2>6. \A i \in DOMAIN q : q[i].state = "new" /\ ~Started(q[i])
      BY <1>2, <1>5 DEF Ready, Started
    <2>7. StartedIn(q, DOMAIN q) = {} /\ StartedIn(p, DOMAIN p) = {}
      BY <2>2, <2>6 DEF StartedIn
    <2>8. u.drivers = {} /\ u.change = "none" /\ ~u.crossing
      BY <2>7 DEF Driven
    <2>9. Driven(v)
      BY <2>5, <2>7, <2>8 DEF Driven, Moved
    <2>10. Linked(p) /\ Swept(p)
      BY <2>2 DEF Linked, Swept
    <2>11. Len(q) \in 0 .. Len(q) /\ Trimmed(q, Len(q), p)
      BY <1>1, <2>2 DEF Trimmed
    <2>12. \A i \in 1 .. Len(q) : i \in DOMAIN q /\ ~Ready(u, clear, funds, q[i])
      BY <1>1, <1>2, <1>5
    <2> HIDE DEF q
    <2>13. Prepared(u, clear, funds, r)
      BY <2>1, <2>4, <2>5, <2>8, <2>9, <2>10, <2>11, <2>12 DEF Prepared, q
    <2> QED
      BY <1>2, <1>3, <2>13
  <1> QED
    BY <1>4, <1>5

\* Production that was paid for starts, or waits to.
LEMMA TrainReady ==
  ASSUME NEW u \in Components, NEW entry \in Entries, entry.order = "Train", u.paid # <<>>,
         Trains[u.form] # {}, u.change = "none", NEW clear, NEW funds
  PROVE  Ready(u, clear, funds, entry)
  <1>1. Kind("Train") = "Train"
    BY OrdersAssumption DEF Kind
  <1>2. u.outage # "none" => Conduct(u, entry) = "holds"
    BY <1>1 DEF Conduct, Queued
  <1>3. u.outage = "none" => Starts(u, entry, clear, funds)
    BY <1>1 DEF Starts, CanStart, Queued, Changing
  <1> QED
    BY <1>2, <1>3 DEF Ready

\* A living unit stays fit when its front is prepared, and what was unmarked is.
LEMMA FitPrepared ==
  ASSUME NEW u, Fit(u), u.life = "alive", NEW clear, NEW funds, NEW r,
         Prepared(u, clear, funds, r)
  PROVE  /\ Fit(r.unit) /\ r.unit.life = "alive"
         /\ (\A i \in DOMAIN u.queue : ~Marked(u.queue[i]))
              => \A i \in DOMAIN r.unit.queue : ~Marked(r.unit.queue[i])
  <1> DEFINE q == u.queue
  <1>1. PICK v : v = r.unit
    OBVIOUS
  <1>2. PICK p : p = v.queue
    OBVIOUS
  <1>3. u \in Components /\ q \in Seq(Entries) /\ Living(u) /\ Len(q) \in Nat /\ DOMAIN q = 1 .. Len(q)
    BY UnitQueue, QueueDomain DEF Fit
  <1>4. Moved(u, v) /\ Linked(p) /\ Swept(p) /\ Driven(v)
    BY <1>1, <1>2 DEF Prepared
  <1>5. PICK j \in 0 .. Len(q) :
          /\ Trimmed(q, j, p)
          /\ \A i \in 1 .. j : i \in DOMAIN q /\ ~Ready(u, clear, funds, q[i])
          /\ j > 0 => u.change = "none"
    BY <1>1, <1>2 DEF Prepared
  <1>6. v \in Components /\ v.form = u.form /\ v.life = u.life /\ v.paid = u.paid /\ v.owner = u.owner
    BY <1>4 DEF Moved
  <1>7. p \in Seq(Entries) /\ Len(p) = Len(q) - j /\ DOMAIN p = 1 .. Len(q) - j
    BY <1>2, <1>5, <1>6, UnitQueue, QueueDomain DEF Trimmed
  <1>8. \A i \in DOMAIN p : /\ i + j \in DOMAIN q
                            /\ p[i].order = q[i + j].order /\ p[i].cancel = q[i + j].cancel
    BY <1>5 DEF Trimmed
  <1>9. \A i \in DOMAIN p : p[i].order # "Die" /\ (p[i].cancel = "force" => p[i].order \in Topic)
    BY <1>3, <1>8 DEF Living
  <1>10. \A a, b \in DOMAIN p : p[a].order \in Topic /\ p[a].order = p[b].order => a = b
    <2> TAKE a, b \in DOMAIN p
    <2> HAVE p[a].order \in Topic /\ p[a].order = p[b].order
    <2>1. a + j = b + j
      BY <1>3, <1>8 DEF Living
    <2>2. a \in Int /\ b \in Int /\ j \in Int
      BY <1>3, <1>7
    <2> QED
      BY <2>1, <2>2
  <1>11. ASSUME v.paid # <<>> PROVE Trains[v.form] # {} /\ \E i \in DOMAIN p : p[i].order = "Train"
    <2>1. u.paid # <<>> /\ Trains[u.form] # {}
      BY <1>3, <1>6, <1>11 DEF Living
    <2>2. PICK i \in DOMAIN q : q[i].order = "Train"
      BY <1>3, <2>1 DEF Living
    <2>3. q[i] \in Entries
      BY <1>3, QueueDomain
    <2>4. ~(i \in 1 .. j)
      <3> SUFFICES ASSUME i \in 1 .. j PROVE FALSE
        OBVIOUS
      <3>1. j > 0 /\ ~Ready(u, clear, funds, q[i])
        BY <1>3, <1>5
      <3>2. u.change = "none"
        BY <1>5, <3>1
      <3> QED
        BY <1>3, <2>1, <2>2, <2>3, <3>1, <3>2, TrainReady
    <2>5. i - j \in 1 .. Len(q) - j /\ (i - j) + j = i
      BY <1>3, <2>4
    <2>6. i - j \in DOMAIN p
      BY <1>7, <2>5
    <2>7. p[i - j].order = q[(i - j) + j].order
      BY <1>8, <2>6
    <2> QED
      BY <1>6, <2>1, <2>2, <2>5, <2>6, <2>7
  <1>12. Living(v)
    BY <1>2, <1>9, <1>10, <1>11 DEF Living
  <1>13. Fit(v) /\ v.life = "alive"
    BY <1>2, <1>4, <1>6, <1>12 DEF Fit
  <1> QED
    BY <1>1, <1>2, <1>8, <1>13 DEF Marked

\* The living, whatever of theirs is marked.
Sound(u) ==
  LET q == u.queue IN
  /\ \A i \in DOMAIN q : q[i].order # "Die"
  /\ \A i, j \in DOMAIN q : q[i].order \in Topic /\ q[i].order = q[j].order => i = j
  /\ u.paid # <<>> => Trains[u.form] # {} /\ \E i \in DOMAIN q : q[i].order = "Train"

\* A unit with nothing left but its death.
LEMMA FitDie ==
  ASSUME NEW v \in Components, v.life = "dying", v.queue = <<Entry("Die")>>, v.drivers = {},
         ~v.crossing, v.change = "none"
  PROVE  Fit(v)
  <1>1. PICK p : p = v.queue
    OBVIOUS
  <1>2. Len(p) = 1 /\ DOMAIN p = {1} /\ p[1] = Entry("Die") /\ p # <<>>
    BY <1>1
  <1>3. p[1].order = "Die" /\ p[1].state = "new" /\ ~Marked(p[1]) /\ ~Started(p[1])
    BY <1>2 DEF Entry, Marked, Started
  <1>4. StartedIn(p, DOMAIN p) = {}
    BY <1>2, <1>3 DEF StartedIn
  <1>5. Linked(p) /\ Swept(p)
    BY <1>2, <1>3 DEF Linked, Swept
  <1>6. Driven(v)
    BY <1>1, <1>4 DEF Driven
  <1>7. Leaving(v)
    BY <1>1, <1>2, <1>3 DEF Leaving
  <1> QED
    BY <1>1, <1>5, <1>6, <1>7 DEF Fit

\* What is left of a queue tells its entries apart, as the queue does.
LEMMA EmbedsOnce ==
  ASSUME NEW q \in Seq(Entries), NEW p \in Seq(Entries), NEW J,
         NEW h \in [DOMAIN p -> DOMAIN q], From(q, J, p, h)
  PROVE  /\ \A a, b \in DOMAIN p : h[a] = h[b] => a = b
         /\ \A a \in DOMAIN p : /\ h[a] \in J /\ p[a].order = q[h[a]].order
                                /\ p[a].state = q[h[a]].state /\ p[a].cancel = Unmarked
         /\ \A j \in J : \E a \in DOMAIN p : h[a] = j
  <1>1. DOMAIN p = 1 .. Len(p) /\ DOMAIN q = 1 .. Len(q) /\ Len(p) \in Nat /\ Len(q) \in Nat
    BY QueueDomain
  <1>2. ASSUME NEW a \in DOMAIN p, NEW b \in DOMAIN p, h[a] = h[b] PROVE a = b
    <2>1. a \in Int /\ b \in Int /\ h[a] \in Int /\ h[b] \in Int
      BY <1>1
    <2>2. ~(a < b) /\ ~(b < a)
      BY <1>2, <2>1 DEF From
    <2> QED
      BY <2>1, <2>2
  <1>3. ASSUME NEW a \in DOMAIN p
        PROVE  /\ h[a] \in J /\ p[a].order = q[h[a]].order
               /\ p[a].state = q[h[a]].state /\ p[a].cancel = Unmarked
    <2>1. q[h[a]] \in Entries
      BY QueueDomain
    <2>2. p[a] = [q[h[a]] EXCEPT !.cancel = Unmarked]
      BY DEF From
    <2>3. PICK entry \in Entries : entry = q[h[a]]
      BY <2>1
    <2>4. p[a].order = entry.order /\ p[a].state = entry.state /\ p[a].cancel = Unmarked
      BY <2>2, <2>3, ClearIs
    <2> QED
      BY <2>3, <2>4 DEF From
  <1>4. \A j \in J : \E a \in DOMAIN p : h[a] = j
    BY DEF From
  <1> QED
    BY <1>2, <1>3, <1>4

\* A living unit that is flushed lives on, with nothing marked, or dies.
LEMMA FitFlushed ==
  ASSUME NEW u \in Components, Linked(u.queue), Swept(u.queue), Driven(u), u.life = "alive",
         Sound(u), NEW doomed \in BOOLEAN, NEW r, r = FlushCanceled(u, doomed)
  PROVE  /\ Fit(r.unit) /\ r.unit.owner = u.owner
         /\ \/ r.unit.life = "alive" /\ Flushed(u, r)
            \/ doomed /\ r.unit.queue = <<Entry("Die")>> /\ Killed(u, r)
  <1> DEFINE q == u.queue
  <1>1. \A i \in DOMAIN u.queue : u.queue[i].order # "Die"
    BY DEF Sound
  <1>2. Flushed(u, r) \/ (doomed /\ Killed(u, r))
    BY <1>1, FlushIs
  <1>3. PICK v : v = r.unit
    OBVIOUS
  <1>4. CASE doomed /\ Killed(u, r)
    <2>1. /\ v \in Components /\ v.life = "dying" /\ v.queue = <<Entry("Die")>> /\ v.drivers = {}
          /\ ~v.crossing /\ v.change = "none" /\ v.owner = u.owner
      BY <1>3, <1>4 DEF Killed
    <2>2. Fit(v)
      BY <2>1, FitDie
    <2> QED
      BY <1>3, <1>4, <2>1, <2>2
  <1>5. CASE Flushed(u, r)
    <2>1. PICK p : p = v.queue
      OBVIOUS
    <2>2. /\ v \in Components /\ v.owner = u.owner /\ v.form = u.form /\ v.life = u.life
          /\ Linked(p) /\ Swept(p) /\ Driven(v)
          /\ \A i \in DOMAIN p : ~Marked(p[i])
          /\ Embeds(q, Staying(u), p)
          /\ v.paid = IF \E j \in DOMAIN q : q[j].order = "Train" /\ q[j].cancel = "force"
                      THEN <<>> ELSE u.paid
      BY <1>3, <1>5, <2>1 DEF Flushed
    <2>3. p \in Seq(Entries) /\ q \in Seq(Entries)
      BY <2>1, <2>2, UnitQueue
    <2>4. PICK h \in [DOMAIN p -> DOMAIN q] : From(q, Staying(u), p, h)
      BY <2>2 DEF Embeds
    <2>5. /\ \A a, b \in DOMAIN p : h[a] = h[b] => a = b
          /\ \A a \in DOMAIN p : /\ h[a] \in Staying(u) /\ p[a].order = q[h[a]].order
                                 /\ p[a].state = q[h[a]].state /\ p[a].cancel = Unmarked
          /\ \A j \in Staying(u) : \E a \in DOMAIN p : h[a] = j
      <3> HIDE DEF q
      <3> QED
        BY <2>3, <2>4, EmbedsOnce
    <2>6. \A i \in DOMAIN p : p[i].order # "Die" /\ (p[i].cancel = "force" => p[i].order \in Topic)
      <3>1. Unmarked # "force"
        BY DEF Unmarked
      <3> QED
        BY <1>1, <2>5, <3>1
    <2>7. \A i, j \in DOMAIN p : p[i].order \in Topic /\ p[i].order = p[j].order => i = j
      BY <2>5 DEF Sound
    <2>8. ASSUME v.paid # <<>> PROVE Trains[v.form] # {} /\ \E i \in DOMAIN p : p[i].order = "Train"
      <3>1. u.paid # <<>> /\ \A j \in DOMAIN q : q[j].order = "Train" => q[j].cancel # "force"
        BY <2>2, <2>8
      <3>2. PICK i \in DOMAIN q : q[i].order = "Train"
        BY <3>1 DEF Sound
      <3>3. q[i].cancel \in {"soft", Unmarked} /\ Kind("Train") = "Train"
        BY <2>3, <3>1, <3>2, QueueDomain, EntryIs, OrdersAssumption DEF Kind
      <3>4. i \in Staying(u)
        BY <3>2, <3>3 DEF Staying, Stays, Marked, Queued
      <3>5. PICK a \in DOMAIN p : h[a] = i
        BY <2>5, <3>4
      <3> QED
        BY <2>2, <2>5, <3>1, <3>2, <3>5 DEF Sound
    <2>9. Living(v)
      BY <2>1, <2>6, <2>7, <2>8 DEF Living
    <2>10. Fit(v) /\ v.life = "alive"
      BY <2>1, <2>2, <2>9 DEF Fit
    <2> QED
      BY <1>3, <1>5, <2>2, <2>10
  <1> QED
    BY <1>2, <1>4, <1>5

\* A queue with nothing but a death.
Dies(q) == Len(q) = 1 /\ q[1].order = "Die" /\ ~Marked(q[1])

\* Of a dying unit a flush leaves the Die.
LEMMA FlushedDying ==
  ASSUME NEW u \in Components, Linked(u.queue), Swept(u.queue), Driven(u), u.life = "dying",
         Leaving(u), NEW r, r = FlushCanceled(u, FALSE)
  PROVE  /\ Flushed(u, r) /\ r.gain = 0
         /\ Dies(r.unit.queue)
  <1> DEFINE q == u.queue
  <1>1. Flushed(u, r)
    BY FlushIs
  <1>2. PICK p : p = r.unit.queue
    OBVIOUS
  <1>3. p \in Seq(Entries) /\ q \in Seq(Entries) /\ Embeds(q, Staying(u), p)
        /\ \A i \in DOMAIN p : ~Marked(p[i])
    BY <1>1, <1>2, UnitQueue DEF Flushed
  <1>4. PICK h \in [DOMAIN p -> DOMAIN q] : From(q, Staying(u), p, h)
    BY <1>3 DEF Embeds
  <1>5. /\ \A a, b \in DOMAIN p : h[a] = h[b] => a = b
        /\ \A a \in DOMAIN p : h[a] \in Staying(u) /\ p[a].order = q[h[a]].order
        /\ \A j \in Staying(u) : \E a \in DOMAIN p : h[a] = j
    <2> HIDE DEF q
    <2> QED
      BY <1>3, <1>4, EmbedsOnce
  <1>6. /\ Len(q) \in Nat /\ DOMAIN q = 1 .. Len(q) /\ Len(q) \in DOMAIN q
        /\ Len(p) \in Nat /\ DOMAIN p = 1 .. Len(p)
    <2>1. Len(q) \in Nat /\ DOMAIN q = 1 .. Len(q) /\ (q = <<>> <=> Len(q) = 0)
      BY <1>3, QueueDomain
    <2>2. q # <<>>
      BY DEF Leaving
    <2> QED
      BY <1>3, <2>1, <2>2, QueueDomain
  <1>7. ASSUME NEW i \in DOMAIN q, Stays(u, q[i]) PROVE i = Len(q)
    <2> SUFFICES ASSUME i # Len(q) PROVE FALSE
      OBVIOUS
    <2>1. i < Len(q)
      BY <1>6
    <2>2. q[i].cancel = "force" /\ q[i].order # "Die"
      BY <2>1 DEF Leaving
    <2> QED
      BY <1>7, <2>2 DEF Stays, Marked, Unmarked
  <1>8. Len(q) \in Staying(u)
    BY <1>6 DEF Leaving, Staying, Stays
  <1>9. \A a \in DOMAIN p : h[a] = Len(q) /\ p[a].order = "Die"
    BY <1>5, <1>6, <1>7 DEF Staying, Leaving
  <1>10. Len(p) = 1
    <2>1. Len(p) >= 1
      BY <1>5, <1>6, <1>8
    <2>2. ~(Len(p) >= 2)
      <3> SUFFICES ASSUME Len(p) >= 2 PROVE FALSE
        OBVIOUS
      <3>1. 1 \in DOMAIN p /\ 2 \in DOMAIN p
        BY <1>6
      <3>2. h[1] = h[2]
        BY <1>9, <3>1
      <3> QED
        BY <1>5, <3>1, <3>2
    <2> QED
      BY <1>6, <2>1, <2>2
  <1>11. 1 \in DOMAIN p
    BY <1>6, <1>10
  <1>12. r.gain = 0
    BY <1>1 DEF Flushed, Back
  <1> QED
    BY <1>1, <1>2, <1>3, <1>9, <1>10, <1>11, <1>12 DEF Dies

\* An outage marks what it does not let run.
SweepQueue(u) ==
  IF u.outage = "none" THEN u.queue
  ELSE [i \in DOMAIN u.queue |->
          IF Conduct(u, u.queue[i]) = "cancels"
          THEN [u.queue[i] EXCEPT !.cancel = "force"] ELSE u.queue[i]]

\* What is cancelled in an outage: nothing that queues, and all that walks.
LEMMA Cancelled ==
  ASSUME NEW u \in Components, NEW entry \in Entries
  PROVE  /\ Conduct(u, entry) = "cancels" => entry.order \notin Topic \cup {"Train", "Die"}
         /\ entry.order \in OnFoot =>
              (Conduct(u, entry) = "cancels" <=> ~u.aboard /\ u.outage # "none")
  <1>1. entry.order \in Order
    BY EntryIs
  <1>2. /\ entry.order \in Topic => Kind(entry.order) \in Queued
        /\ entry.order = "Train" => Kind(entry.order) \in Queued
        /\ entry.order \in OnFoot =>
             Kind(entry.order) \notin Queued /\ entry.order \notin {"Die", "Morph"}
    BY <1>1, Kinds DEF Queued, OnFoot, Legs
  <1> QED
    BY <1>2 DEF Conduct

\* A queue an outage has swept is linked as it was.
LEMMA SweepIs ==
  ASSUME NEW u \in Components, Linked(u.queue), Swept(u.queue), NEW p, p = SweepQueue(u)
  PROVE  /\ p \in Seq(Entries) /\ Alike(u.queue, p) /\ DOMAIN p = DOMAIN u.queue
         /\ Linked(p) /\ Swept(p)
         /\ \A i \in DOMAIN p : /\ p[i].cancel = u.queue[i].cancel \/ p[i].cancel = "force"
                                /\ p[i].order \in Topic \cup {"Train", "Die"} => p[i] = u.queue[i]
  <1> DEFINE q == u.queue
             off(i) == u.outage # "none" /\ Conduct(u, q[i]) = "cancels"
  <1>1. /\ q \in Seq(Entries) /\ Len(q) \in Nat /\ DOMAIN q = 1 .. Len(q)
        /\ \A i \in DOMAIN q : q[i] \in Entries
    BY UnitQueue, QueueDomain
  <1>2. DOMAIN p = DOMAIN q
        /\ \A i \in DOMAIN q : p[i] = IF off(i) THEN [q[i] EXCEPT !.cancel = "force"] ELSE q[i]
    BY DEF SweepQueue
  <1>3. \A i \in DOMAIN q : /\ p[i] \in Entries
                            /\ p[i].order = q[i].order /\ p[i].state = q[i].state
                            /\ p[i].cancel = IF off(i) THEN "force" ELSE q[i].cancel
    <2> TAKE i \in DOMAIN q
    <2>1. PICK entry \in Entries : entry = q[i]
      BY <1>1
    <2>2. PICK c : c = [entry EXCEPT !.cancel = "force"]
      OBVIOUS
    <2>3. c \in Entries /\ c.order = entry.order /\ c.state = entry.state /\ c.cancel = "force"
      BY <2>2 DEF Entries, OrderEntry, Policy
    <2>4. p[i] = IF off(i) THEN c ELSE entry
      BY <1>2, <2>1, <2>2
    <2> HIDE DEF off
    <2> QED
      BY <2>1, <2>3, <2>4
  <1>4. \A i \in DOMAIN q : /\ off(i) => q[i].order \notin Topic \cup {"Train", "Die"}
                            /\ q[i].order \in OnFoot => (off(i) <=> ~u.aboard /\ u.outage # "none")
    BY <1>1, Cancelled
  <1>5. p \in Seq(Entries) /\ Len(p) = Len(q)
    <2>1. CASE u.outage = "none"
      BY <1>1, <2>1 DEF SweepQueue
    <2>2. CASE u.outage # "none"
      <3>1. p = [i \in DOMAIN q |-> IF off(i) THEN [q[i] EXCEPT !.cancel = "force"] ELSE q[i]]
        BY <2>2 DEF SweepQueue
      <3>2. \A i \in DOMAIN q : (IF off(i) THEN [q[i] EXCEPT !.cancel = "force"] ELSE q[i]) \in Entries
        BY <1>2, <1>3
      <3>3. p \in [1 .. Len(q) -> Entries]
        <4> HIDE DEF off
        <4> QED
          BY <1>1, <3>1, <3>2
      <3> QED
        BY <1>1, <3>3, QueueOf
    <2> QED
      BY <2>1, <2>2
  <1> HIDE DEF off
  <1>6. Alike(q, p)
    BY <1>3, <1>5 DEF Alike
  <1>7. \A i \in DOMAIN q : Marked(p[i]) <=> off(i) \/ Marked(q[i])
    BY <1>3 DEF Marked, Unmarked
  <1>8. Linked(p)
    <2>1. ASSUME NEW i \in DOMAIN q, NEW j \in DOMAIN q, i < j, q[j].state = "suspended"
          PROVE  Marked(p[i]) <=> Marked(p[j])
      <3>1. /\ q[i].order \in OnFoot /\ q[j].order \in OnFoot
            /\ Marked(q[i]) <=> Marked(q[j])
        BY <1>1, <2>1, ChainIs
      <3> QED
        BY <1>4, <1>7, <3>1
    <2>2. q \in Seq(Entries) /\ Linked(q)
      BY <1>1
    <2> HIDE DEF q
    <2> QED
      BY <1>5, <1>6, <2>1, <2>2, AlikeLinked
  <1>9. Swept(p)
    <2>1. ASSUME NEW i \in DOMAIN q, NEW j \in DOMAIN q, i < j,
                 q[i].order \in OnFoot, q[j].order \in OnFoot
          PROVE  /\ Marked(p[j]) => Marked(p[i])
                 /\ p[j].cancel = "force" => p[i].cancel = "force"
      <3>1. /\ Marked(q[j]) => Marked(q[i])
            /\ q[j].cancel = "force" => q[i].cancel = "force"
        BY <2>1 DEF Swept
      <3> QED
        BY <1>3, <1>4, <1>7, <2>1, <3>1
    <2>2. \A i, j \in DOMAIN q : q[i].order = "Train" /\ q[j].order = "Train" => i = j
      BY DEF Swept
    <2> HIDE DEF q
    <2> QED
      BY <1>2, <1>3, <2>1, <2>2 DEF Swept
  <1>10. \A i \in DOMAIN p : /\ p[i].cancel = q[i].cancel \/ p[i].cancel = "force"
                             /\ p[i].order \in Topic \cup {"Train", "Die"} => p[i] = q[i]
    <2> USE DEF off
    <2> QED
      BY <1>2, <1>3, <1>4
  <1> QED
    BY <1>2, <1>5, <1>6, <1>8, <1>9, <1>10

\* The unit an outage has swept.
LEMMA SweptUnit ==
  ASSUME NEW u \in Components, Linked(u.queue), Swept(u.queue), Driven(u),
         NEW w, w = [u EXCEPT !.queue = SweepQueue(u)]
  PROVE  /\ Moved(u, w) /\ w.drivers = u.drivers /\ w.change = u.change
         /\ Linked(w.queue) /\ Swept(w.queue) /\ Driven(w)
         /\ w.queue = SweepQueue(u) /\ Alike(u.queue, w.queue) /\ DOMAIN w.queue = DOMAIN u.queue
         /\ \A i \in DOMAIN w.queue :
              /\ w.queue[i].cancel = u.queue[i].cancel \/ w.queue[i].cancel = "force"
              /\ w.queue[i].order \in Topic \cup {"Train", "Die"} => w.queue[i] = u.queue[i]
  <1>1. PICK p : p = SweepQueue(u)
    OBVIOUS
  <1>2. /\ p \in Seq(Entries) /\ Alike(u.queue, p) /\ DOMAIN p = DOMAIN u.queue
        /\ Linked(p) /\ Swept(p)
        /\ \A i \in DOMAIN p : /\ p[i].cancel = u.queue[i].cancel \/ p[i].cancel = "force"
                               /\ p[i].order \in Topic \cup {"Train", "Die"} => p[i] = u.queue[i]
    BY <1>1, SweepIs
  <1>3. w = [u EXCEPT !.queue = p]
    BY <1>1
  <1>4. /\ w \in Components /\ Moved(u, w) /\ w.queue = p /\ w.drivers = u.drivers
        /\ w.change = u.change /\ w.crossing = u.crossing /\ w.aboard = u.aboard
    <2>1. p \in Seq(Entries)
      BY <1>2
    <2> QED
      BY <1>3, <2>1 DEF Moved, Components, Entries
  <1>5. StartedIn(p, DOMAIN p) = StartedIn(u.queue, DOMAIN u.queue)
    BY <1>2, UnitQueue, AlikeStarted
  <1>6. u.crossing => p[1].order = u.queue[1].order
    <2> HAVE u.crossing
    <2>1. u.queue # <<>>
      BY CrossingQueue
    <2>2. 1 \in DOMAIN u.queue
      BY <2>1, UnitQueue, QueueDomain
    <2> QED
      BY <1>2, <2>2 DEF Alike
  <1>7. Driven(w)
    BY <1>4, <1>5, <1>6, DrivenSet
  <1> QED
    BY <1>1, <1>2, <1>4, <1>7

\* What becomes of a unit u in the tick of its death.
DeathRuns(u, r) ==
  /\ Fit(r.unit) /\ r.unit.life = "dying" /\ r.gain = 0
  /\ r.unit.owner = u.owner /\ r.unit.left = u.left
  /\ Dies(r.unit.queue) /\ r.unit.queue[1].state = "running"

\* A death in front is prepared: it starts, and nothing is paid.
LEMMA FitPreparedDying ==
  ASSUME NEW u \in Components, u.life = "dying", Dies(u.queue),
         NEW clear, NEW funds, NEW r, Prepared(u, clear, funds, r)
  PROVE  DeathRuns(u, r)
  <1> DEFINE q == u.queue
  <1>1. PICK v : v = r.unit
    OBVIOUS
  <1>2. PICK p : p = v.queue
    OBVIOUS
  <1>3. Moved(u, v) /\ Linked(p) /\ Swept(p) /\ Driven(v)
    BY <1>1, <1>2 DEF Prepared
  <1>4. PICK j \in 0 .. Len(q) :
          /\ Trimmed(q, j, p)
          /\ \A i \in 1 .. j : i \in DOMAIN q /\ ~Ready(u, clear, funds, q[i])
    BY <1>1, <1>2 DEF Prepared
  <1>5. v \in Components /\ v.life = "dying" /\ v.owner = u.owner /\ v.left = u.left
    BY <1>3 DEF Moved
  <1>6. p \in Seq(Entries) /\ DOMAIN p = 1 .. Len(p) /\ (p = <<>> <=> Len(p) = 0)
    BY <1>2, <1>5, UnitQueue, QueueDomain
  <1>7. j = 0
    <2> SUFFICES ASSUME j # 0 PROVE FALSE
      OBVIOUS
    <2>1. 1 \in 1 .. j
      BY <1>4
    <2>2. ~Ready(u, clear, funds, q[1])
      BY <1>4, <2>1
    <2>3. Starts(u, q[1], clear, funds)
      BY DEF Starts, CanStart, Dies
    <2> QED
      BY <2>2, <2>3 DEF Ready
  <1>8. Len(p) = 1 /\ DOMAIN p = {1} /\ p # <<>>
    BY <1>4, <1>6, <1>7 DEF Trimmed, Dies
  <1>9. p[1].order = "Die" /\ ~Marked(p[1])
    BY <1>4, <1>7, <1>8 DEF Trimmed, Marked, Dies
  <1>10. p[1].state = "running"
    <2>1. Conduct(v, p[1]) # "holds"
      BY <1>9 DEF Conduct
    <2> QED
      BY <1>1, <1>2, <1>8, <2>1 DEF Prepared
  <1>11. Leaving(v)
    BY <1>2, <1>8, <1>9 DEF Leaving
  <1>12. Fit(v)
    BY <1>2, <1>3, <1>5, <1>11 DEF Fit
  <1>13. "Morph" \notin StartedIn(p, DOMAIN p)
    BY <1>8, <1>9, OrdersAssumption DEF StartedIn, Kind
  <1>14. v.change = "none"
    BY <1>2, <1>3, <1>13 DEF Driven
  <1>15. r.gain = 0
    BY <1>1, <1>14 DEF Prepared
  <1> QED
    BY <1>1, <1>2, <1>5, <1>8, <1>9, <1>10, <1>12, <1>15 DEF DeathRuns, Dies

\* The front of a living unit runs or waits, and nothing of it is marked.
Poised(u) ==
  /\ u.queue # <<>> => u.queue[1].state = "running" \/ Conduct(u, u.queue[1]) = "holds"
  /\ \A i \in DOMAIN u.queue : ~Marked(u.queue[i])

\* A tick of a living unit: it is swept, flushed and prepared.
Ticked(u, clear, doomed, funds, r, w, f, g) ==
  /\ w = [u EXCEPT !.queue = SweepQueue(u)]
  /\ Moved(u, w) /\ w.drivers = u.drivers /\ w.change = u.change
  /\ Linked(w.queue) /\ Swept(w.queue) /\ Driven(w) /\ Sound(w)
  /\ w.queue = SweepQueue(u)
  /\ f = FlushCanceled(w, doomed) /\ f.gain \in 0 .. 1
  /\ r.unit = g.unit /\ r.gain = f.gain + g.gain
  /\ Fit(f.unit) /\ f.unit.owner = u.owner
  /\ \/ f.unit.life = "alive" /\ Flushed(w, f)
     \/ doomed /\ f.unit.queue = <<Entry("Die")>> /\ Killed(w, f)
  /\ Prepared(f.unit, clear, funds + f.gain, g)

\* The steps of a tick.
LEMMA TickSteps ==
  ASSUME NEW u, Fit(u), u.life = "alive", NEW clear \in BOOLEAN, NEW doomed \in BOOLEAN,
         NEW funds \in Nat, NEW r, r = PrepareTick(u, clear, doomed, funds)
  PROVE  \E w, f, g : Ticked(u, clear, doomed, funds, r, w, f, g)
  <1>1. PICK w : w = [u EXCEPT !.queue = SweepQueue(u)]
    OBVIOUS
  <1>2. u \in Components /\ Linked(u.queue) /\ Swept(u.queue) /\ Driven(u) /\ Living(u)
    BY DEF Fit
  <1>3. /\ Moved(u, w) /\ w.drivers = u.drivers /\ w.change = u.change
        /\ Linked(w.queue) /\ Swept(w.queue) /\ Driven(w)
        /\ w.queue = SweepQueue(u) /\ Alike(u.queue, w.queue) /\ DOMAIN w.queue = DOMAIN u.queue
    BY <1>1, <1>2, SweptUnit
  <1>4. w \in Components /\ w.life = "alive" /\ w.paid = u.paid /\ w.form = u.form /\ w.owner = u.owner
    BY <1>3 DEF Moved
  <1>5. Sound(w)
    <2>1. \A i \in DOMAIN u.queue : w.queue[i].order = u.queue[i].order
      BY <1>3 DEF Alike
    <2> QED
      BY <1>2, <1>3, <1>4, <2>1 DEF Living, Sound
  <1>6. PICK f : f = FlushCanceled(w, doomed)
    OBVIOUS
  <1>7. /\ Fit(f.unit) /\ f.unit.owner = w.owner
        /\ \/ f.unit.life = "alive" /\ Flushed(w, f)
           \/ doomed /\ f.unit.queue = <<Entry("Die")>> /\ Killed(w, f)
    BY <1>3, <1>4, <1>5, <1>6, FitFlushed
  <1>8. f.gain \in 0 .. 1
    BY <1>7 DEF Flushed, Killed, Back
  <1>9. PICK g : g = PrepareFront(f.unit, clear, funds + f.gain)
    OBVIOUS
  <1>10. Prepared(f.unit, clear, funds + f.gain, g)
    <2>1. /\ f.unit \in Components /\ Linked(f.unit.queue) /\ Swept(f.unit.queue)
          /\ Driven(f.unit)
      BY <1>7 DEF Fit
    <2>2. funds + f.gain \in Int
      BY <1>8
    <2> QED
      BY <1>9, <2>1, <2>2, PrepareFrontIs
  <1>11. r.unit = g.unit /\ r.gain = f.gain + g.gain
    BY <1>1, <1>6, <1>9 DEF PrepareTick, SweepQueue
  <1> QED
    BY <1>1, <1>3, <1>4, <1>5, <1>6, <1>7, <1>8, <1>9, <1>10, <1>11 DEF Ticked

\* A living unit comes out of its tick fit and poised, or dying; its owner can pay.
LEMMA FitTick ==
  ASSUME NEW u, Fit(u), u.life = "alive", NEW clear \in BOOLEAN, NEW doomed \in BOOLEAN,
         NEW funds \in Nat, NEW r, r = PrepareTick(u, clear, doomed, funds)
  PROVE  /\ Fit(r.unit) /\ r.unit.owner = u.owner
         /\ r.unit.life = "alive" => Poised(r.unit)
         /\ funds + r.gain \in Nat
  <1>1. PICK w, f, g : Ticked(u, clear, doomed, funds, r, w, f, g)
    BY TickSteps
  <1>2. /\ f.gain \in 0 .. 1
        /\ r.unit = g.unit /\ r.gain = f.gain + g.gain
        /\ Fit(f.unit) /\ f.unit.owner = u.owner
        /\ \/ f.unit.life = "alive" /\ Flushed(w, f)
           \/ doomed /\ f.unit.queue = <<Entry("Die")>> /\ Killed(w, f)
        /\ Prepared(f.unit, clear, funds + f.gain, g)
    BY <1>1 DEF Ticked
  <1>3. g.unit.owner = u.owner
    BY <1>2 DEF Prepared, Moved
  <1>4. funds + r.gain \in Nat
    BY <1>2 DEF Prepared
  <1>5. CASE f.unit.life = "alive" /\ Flushed(w, f)
    <2>1. \A i \in DOMAIN f.unit.queue : ~Marked(f.unit.queue[i])
      BY <1>5 DEF Flushed
    <2>2. Fit(g.unit) /\ \A i \in DOMAIN g.unit.queue : ~Marked(g.unit.queue[i])
      BY <1>2, <1>5, <2>1, FitPrepared
    <2>3. Poised(g.unit)
      BY <1>2, <2>2 DEF Poised, Prepared
    <2> QED
      BY <1>2, <1>3, <1>4, <2>2, <2>3
  <1>6. CASE doomed /\ f.unit.queue = <<Entry("Die")>> /\ Killed(w, f)
    <2>1. /\ f.unit \in Components /\ f.unit.life = "dying" /\ Dies(f.unit.queue)
      BY <1>6 DEF Killed, Entry, Marked, Dies
    <2>2. Fit(g.unit) /\ g.unit.life = "dying"
      BY <1>2, <2>1, FitPreparedDying DEF DeathRuns
    <2> QED
      BY <1>2, <1>3, <1>4, <2>2
  <1> QED
    BY <1>2, <1>5, <1>6

\* The tick of a dying unit leaves it its death, which runs.
LEMMA FitTickDying ==
  ASSUME NEW u, Fit(u), u.life = "dying", NEW r, r = PrepareTick(u, TRUE, FALSE, 0)
  PROVE  DeathRuns(u, r)
  <1>1. PICK w : w = [u EXCEPT !.queue = SweepQueue(u)]
    OBVIOUS
  <1>2. u \in Components /\ Linked(u.queue) /\ Swept(u.queue) /\ Driven(u) /\ Leaving(u)
    BY DEF Fit
  <1>3. /\ Moved(u, w) /\ Linked(w.queue) /\ Swept(w.queue) /\ Driven(w)
        /\ w.queue = SweepQueue(u) /\ Alike(u.queue, w.queue) /\ DOMAIN w.queue = DOMAIN u.queue
        /\ \A i \in DOMAIN w.queue :
              /\ w.queue[i].cancel = u.queue[i].cancel \/ w.queue[i].cancel = "force"
              /\ w.queue[i].order \in Topic \cup {"Train", "Die"} => w.queue[i] = u.queue[i]
    BY <1>1, <1>2, SweptUnit
  <1>4. w \in Components /\ w.life = "dying" /\ w.left = u.left /\ w.owner = u.owner
    BY <1>3 DEF Moved
  <1>5. Leaving(w)
    <2>1. /\ u.queue # <<>> /\ Len(w.queue) = Len(u.queue)
          /\ Len(u.queue) \in Nat /\ DOMAIN u.queue = 1 .. Len(u.queue) /\ (u.queue = <<>> <=> Len(u.queue) = 0)
          /\ (w.queue = <<>> <=> Len(w.queue) = 0)
      BY <1>2, <1>3, <1>4, UnitQueue, QueueDomain DEF Leaving, Alike
    <2>2. Len(u.queue) \in DOMAIN u.queue
      BY <2>1
    <2>3. w.queue[Len(u.queue)] = u.queue[Len(u.queue)]
      BY <1>2, <1>3, <2>2 DEF Leaving, Alike
    <2>4. \A i \in DOMAIN w.queue : w.queue[i].order = u.queue[i].order
      BY <1>3 DEF Alike
    <2> QED
      BY <1>2, <1>3, <2>1, <2>3, <2>4 DEF Leaving
  <1>6. PICK f : f = FlushCanceled(w, FALSE)
    OBVIOUS
  <1>7. Flushed(w, f) /\ f.gain = 0 /\ Dies(f.unit.queue)
    BY <1>3, <1>4, <1>5, <1>6, FlushedDying
  <1>8. /\ f.unit \in Components /\ f.unit.life = "dying" /\ f.unit.left = u.left
        /\ f.unit.owner = u.owner
        /\ Linked(f.unit.queue) /\ Swept(f.unit.queue) /\ Driven(f.unit)
    BY <1>4, <1>7 DEF Flushed
  <1>9. PICK g : g = PrepareFront(f.unit, TRUE, 0 + f.gain)
    OBVIOUS
  <1>10. PICK d : d = f.unit
    OBVIOUS
  <1>11. PICK n : n = 0 + f.gain
    OBVIOUS
  <1>12. Prepared(d, TRUE, n, g)
    <2>1. n \in Int /\ TRUE \in BOOLEAN
      BY <1>7, <1>11
    <2>2. d \in Components /\ Linked(d.queue) /\ Swept(d.queue) /\ Driven(d)
      BY <1>8, <1>10
    <2>3. g = PrepareFront(d, TRUE, n)
      BY <1>9, <1>10, <1>11
    <2> QED
      BY <2>1, <2>2, <2>3, PrepareFrontIs
  <1>13. r.unit = g.unit /\ r.gain = f.gain + g.gain
    BY <1>1, <1>6, <1>9 DEF PrepareTick, SweepQueue
  <1>14. DeathRuns(d, g)
    <2>1. d \in Components /\ d.life = "dying" /\ Dies(d.queue)
      BY <1>7, <1>8, <1>10
    <2> QED
      BY <1>12, <2>1, FitPreparedDying
  <1>15. d.owner = u.owner /\ d.left = u.left
    BY <1>8, <1>10
  <1>16. f.gain = 0 /\ g.gain = 0 /\ r.unit = g.unit
    BY <1>7, <1>13, <1>14 DEF DeathRuns
  <1>17. r.gain = 0
    <2>1. PICK a \in Int : a = f.gain
      BY <1>16
    <2>2. PICK b \in Int : b = g.gain
      BY <1>16
    <2>3. r.gain = a + b
      BY <1>13, <2>1, <2>2
    <2>4. a = 0 /\ b = 0
      BY <1>16, <2>1, <2>2
    <2>5. a + b = 0
      BY <2>4
    <2> QED
      BY <2>3, <2>5
  <1> QED
    BY <1>14, <1>15, <1>16, <1>17 DEF DeathRuns

\* A queue dropped from outside but for its first entries.
DropQueue(u, policy, kept) ==
  [i \in DOMAIN u.queue |->
     IF i <= kept THEN [u.queue[i] EXCEPT !.cancel = Unmarked]
     ELSE Mark(u.queue[i], IF policy = "soft" /\ ~SurvivesSoftCancel(u.queue[i].order)
                           THEN "force" ELSE policy)]

\* What is dropped: everything is marked but a change of form that goes on.
LEMMA DropEntries ==
  ASSUME NEW u \in Components, NEW policy \in Policy, NEW kept \in 0 .. 1,
         NEW p, p = DropQueue(u, policy, kept)
  PROVE  /\ p \in Seq(Entries) /\ Alike(u.queue, p) /\ DOMAIN p = DOMAIN u.queue
         /\ \A i \in DOMAIN p :
              /\ kept = 1 /\ i = 1 => p[i].cancel = Unmarked
              /\ kept = 0 \/ i # 1 =>
                   /\ Marked(p[i])
                   /\ policy = "force" \/ p[i].order \in OnFoot => p[i].cancel = "force"
                   /\ p[i].order \in Topic \cup {"Train"} /\ policy = "soft" =>
                        (p[i].cancel = "force" <=> u.queue[i].cancel = "force")
  <1> DEFINE q == u.queue
             how(i) == IF policy = "soft" /\ ~SurvivesSoftCancel(q[i].order) THEN "force" ELSE policy
  <1>1. /\ q \in Seq(Entries) /\ Len(q) \in Nat /\ DOMAIN q = 1 .. Len(q)
        /\ \A i \in DOMAIN q : q[i] \in Entries
    BY UnitQueue, QueueDomain
  <1>2. p = [i \in DOMAIN q |-> IF i <= kept THEN [q[i] EXCEPT !.cancel = Unmarked]
                                ELSE Mark(q[i], how(i))]
    BY DEF DropQueue
  <1>3. \A i \in DOMAIN q : /\ how(i) \in Policy
                            /\ policy = "force" \/ q[i].order \in OnFoot => how(i) = "force"
                            /\ q[i].order \in Topic \cup {"Train"} => how(i) = policy
    <2> TAKE i \in DOMAIN q
    <2>1. q[i].order \in Order
      BY <1>1, EntryIs
    <2>2. /\ q[i].order \in OnFoot => Kind(q[i].order) \notin Queued \cup {"Die"}
          /\ q[i].order \in Topic \cup {"Train"} => Kind(q[i].order) \in Queued
      BY <2>1, Kinds DEF OnFoot, Legs, Queued
    <2> QED
      BY <2>2 DEF SurvivesSoftCancel, Policy
  <1> HIDE DEF how
  <1>4. \A i \in DOMAIN q :
           /\ p[i] \in Entries /\ p[i].order = q[i].order /\ p[i].state = q[i].state
           /\ i <= kept => p[i].cancel = Unmarked
           /\ ~(i <= kept) =>
                /\ Marked(p[i])
                /\ how(i) = "force" => p[i].cancel = "force"
                /\ how(i) = "soft" => (p[i].cancel = "force" <=> q[i].cancel = "force")
    <2> TAKE i \in DOMAIN q
    <2>1. PICK entry \in Entries : entry = q[i]
      BY <1>1
    <2>2. CASE i <= kept
      <3>1. p[i] = [entry EXCEPT !.cancel = Unmarked]
        BY <1>2, <2>1, <2>2
      <3> QED
        BY <2>1, <2>2, <3>1, ClearIs
    <2>3. CASE ~(i <= kept)
      <3>1. PICK m \in Policy : m = how(i)
        BY <1>3
      <3>2. p[i] = Mark(entry, m)
        BY <1>2, <2>1, <2>3, <3>1
      <3>3. /\ Mark(entry, m) \in Entries
            /\ Mark(entry, m).order = entry.order /\ Mark(entry, m).state = entry.state
            /\ Marked(Mark(entry, m))
            /\ m = "force" => Mark(entry, m).cancel = "force"
            /\ m = "soft" =>
                 Mark(entry, m).cancel = IF entry.cancel = "force" THEN "force" ELSE "soft"
        BY MarkIs
      <3> QED
        BY <2>1, <2>3, <3>1, <3>2, <3>3
    <2> QED
      BY <2>2, <2>3
  <1>5. p \in [1 .. Len(q) -> Entries]
    <2>1. DOMAIN p = DOMAIN q /\ p = [i \in DOMAIN q |-> p[i]]
      BY <1>2
    <2> QED
      BY <1>1, <1>4, <2>1
  <1>6. p \in Seq(Entries) /\ Len(p) = Len(q) /\ DOMAIN p = DOMAIN q
    BY <1>1, <1>5, QueueOf
  <1>7. Alike(q, p)
    BY <1>4, <1>6 DEF Alike
  <1>8. \A i \in DOMAIN q : i <= kept <=> kept = 1 /\ i = 1
    BY <1>1
  <1>9. ASSUME NEW i \in DOMAIN p
        PROVE  /\ kept = 1 /\ i = 1 => p[i].cancel = Unmarked
               /\ kept = 0 \/ i # 1 =>
                    /\ Marked(p[i])
                    /\ policy = "force" \/ p[i].order \in OnFoot => p[i].cancel = "force"
                    /\ p[i].order \in Topic \cup {"Train"} /\ policy = "soft" =>
                         (p[i].cancel = "force" <=> q[i].cancel = "force")
    BY <1>3, <1>4, <1>6, <1>8
  <1> QED
    BY <1>6, <1>7, <1>9

\* The front of a unit whose form changes.
LEMMA ChangingFront ==
  ASSUME NEW u \in Components, Linked(u.queue), Driven(u), u.change # "none"
  PROVE  /\ u.queue # <<>> /\ 1 \in DOMAIN u.queue
         /\ u.queue[1].order = "Morph" /\ Started(u.queue[1]) /\ ~u.crossing
         /\ \A i \in DOMAIN u.queue : i # 1 => u.queue[i].state = "new"
  <1> DEFINE q == u.queue
  <1>1. q \in Seq(Entries) /\ DOMAIN q \in SUBSET DOMAIN q /\ Linked(q)
    BY UnitQueue
  <1>2. "Morph" \in StartedIn(q, DOMAIN q)
    BY DEF Driven
  <1>3. 1 \in DOMAIN q /\ q[1].order = "Morph" /\ Started(q[1])
    <2> HIDE DEF q
    <2> QED
      BY <1>1, <1>2, MorphFront
  <1>4. q # <<>>
    BY <1>3
  <1>5. ~u.crossing
    BY <1>3, CrossingQueue
  <1>6. q[1].order \notin OnFoot
    BY <1>3 DEF OnFoot, Legs
  <1>7. \A i \in DOMAIN q : i # 1 => q[i].state = "new"
    <2> HIDE DEF q
    <2> QED
      BY <1>1, <1>6, FrontAlone
  <1> QED
    BY <1>3, <1>4, <1>5, <1>7

\* The unit whose queue is dropped.
LEMMA DropUnit ==
  ASSUME NEW u \in Components, Linked(u.queue), Swept(u.queue), Driven(u), NEW policy \in Policy,
         NEW kept \in 0 .. 1, kept = 1 => Changing(u),
         NEW w, w = [u EXCEPT !.queue = DropQueue(u, policy, kept)]
  PROVE  /\ Moved(u, w) /\ w.drivers = u.drivers /\ w.change = u.change
         /\ Linked(w.queue) /\ Swept(w.queue) /\ Driven(w)
         /\ w.queue = DropQueue(u, policy, kept)
         /\ DOMAIN w.queue = DOMAIN u.queue
         /\ \A i \in DOMAIN u.queue : w.queue[i].order = u.queue[i].order
  <1> DEFINE q == u.queue
  <1>1. PICK p : p = DropQueue(u, policy, kept)
    OBVIOUS
  <1>2. /\ p \in Seq(Entries) /\ Alike(u.queue, p) /\ DOMAIN p = DOMAIN u.queue
        /\ \A i \in DOMAIN p :
              /\ kept = 1 /\ i = 1 => p[i].cancel = Unmarked
              /\ kept = 0 \/ i # 1 =>
                   /\ Marked(p[i])
                   /\ policy = "force" \/ p[i].order \in OnFoot => p[i].cancel = "force"
                   /\ p[i].order \in Topic \cup {"Train"} /\ policy = "soft" =>
                        (p[i].cancel = "force" <=> u.queue[i].cancel = "force")
    BY <1>1, DropEntries
  <1>3. w = [u EXCEPT !.queue = p]
    BY <1>1
  <1>4. /\ w \in Components /\ Moved(u, w) /\ w.queue = p /\ w.drivers = u.drivers
        /\ w.change = u.change /\ w.crossing = u.crossing /\ w.aboard = u.aboard
    <2>1. p \in Seq(Entries)
      BY <1>2
    <2> QED
      BY <1>3, <2>1 DEF Moved, Components, Entries
  <1>5. kept = 1 => /\ 1 \in DOMAIN q /\ q[1].order = "Morph" /\ ~u.crossing
                    /\ \A i \in DOMAIN q : i # 1 => q[i].state = "new"
    BY ChangingFront DEF Changing
  <1>6. q \in Seq(Entries) /\ Linked(q) /\ Swept(q) /\ DOMAIN q = 1 .. Len(q) /\ Len(q) \in Nat
    BY UnitQueue, QueueDomain
  <1>7. \A i \in DOMAIN q : p[i].order = q[i].order
    BY <1>2 DEF Alike
  <1>8. \A i, j \in DOMAIN q : i < j /\ q[j].state = "suspended" => (Marked(p[i]) <=> Marked(p[j]))
    <2> TAKE i, j \in DOMAIN q
    <2> HAVE i < j /\ q[j].state = "suspended"
    <2>1. j # 1
      BY <1>6
    <2>2. kept = 0
      BY <1>5, <2>1
    <2> QED
      BY <1>2, <2>2
  <1>9. Linked(p)
    <2>1. Alike(q, p) /\ p \in Seq(Entries)
      BY <1>2
    <2> HIDE DEF q
    <2> QED
      BY <1>6, <1>8, <2>1, AlikeLinked
  <1>10. \A i \in DOMAIN p : p[i].order \in OnFoot => Marked(p[i]) /\ p[i].cancel = "force"
    <2>1. "Morph" \notin OnFoot
      BY DEF OnFoot, Legs
    <2> QED
      BY <1>2, <1>5, <1>7, <2>1
  <1>11. Swept(p)
    BY <1>2, <1>6, <1>7, <1>10 DEF Swept
  <1>12. StartedIn(p, DOMAIN p) = StartedIn(u.queue, DOMAIN u.queue)
    BY <1>2, UnitQueue, AlikeStarted
  <1>13. u.crossing => p[1].order = u.queue[1].order
    <2> HAVE u.crossing
    <2>1. u.queue # <<>>
      BY CrossingQueue
    <2>2. 1 \in DOMAIN u.queue
      BY <2>1, UnitQueue, QueueDomain
    <2> QED
      BY <1>7, <2>2
  <1>14. Driven(w)
    BY <1>4, <1>12, <1>13, DrivenSet, ZenonT(30)
  <1> QED
    BY <1>1, <1>2, <1>4, <1>7, <1>9, <1>11, <1>14

\* What is left of a unit whose orders were dropped from outside.
DropLeaves(u, policy, kept, r) ==
  LET v == r.unit IN
  /\ Fit(v) /\ v.life = "alive" /\ v.owner = u.owner /\ r.gain = 0
  /\ kept = 0 => ~v.crossing
  /\ policy = "force" => \A i \in DOMAIN v.queue : v.queue[i].order \notin Topic

\* Orders dropped from outside leave a unit fit, with no walk that crosses, and
\* after a mandatory drop with no topic.
LEMMA FitDrop ==
  ASSUME NEW u, Fit(u), u.life = "alive", NEW policy \in Policy,
         NEW kept \in 0 .. 1, kept = 1 <=> Changing(u), NEW r, r = DropOrders(u, policy, kept, FALSE)
  PROVE  DropLeaves(u, policy, kept, r)
  <1>1. u \in Components /\ Linked(u.queue) /\ Swept(u.queue) /\ Driven(u) /\ Living(u)
    BY DEF Fit
  <1>2. PICK w : w = [u EXCEPT !.queue = DropQueue(u, policy, kept)]
    OBVIOUS
  <1>3. /\ Moved(u, w) /\ w.drivers = u.drivers /\ w.change = u.change
        /\ Linked(w.queue) /\ Swept(w.queue) /\ Driven(w)
        /\ w.queue = DropQueue(u, policy, kept)
        /\ DOMAIN w.queue = DOMAIN u.queue
        /\ \A i \in DOMAIN u.queue : w.queue[i].order = u.queue[i].order
    BY <1>1, <1>2, DropUnit
  <1>4. w \in Components /\ w.life = "alive" /\ w.paid = u.paid /\ w.form = u.form /\ w.owner = u.owner
    BY <1>3 DEF Moved
  <1>5. Sound(w)
    BY <1>1, <1>3, <1>4 DEF Living, Sound
  <1>6. r = FlushCanceled(w, FALSE)
    BY <1>2 DEF DropOrders, DropQueue
  <1>7. Fit(r.unit) /\ r.unit.owner = w.owner /\ r.unit.life = "alive" /\ Flushed(w, r)
    <2>1. FALSE \in BOOLEAN
      OBVIOUS
    <2> QED
      BY <1>3, <1>4, <1>5, <1>6, <2>1, FitFlushed
  <1>8. PICK p : p = r.unit.queue
    OBVIOUS
  <1>9. PICK q : q = w.queue
    OBVIOUS
  <1>10. p \in Seq(Entries) /\ q \in Seq(Entries) /\ Embeds(q, Staying(w), p)
    BY <1>4, <1>7, <1>8, <1>9, UnitQueue DEF Flushed
  <1>11. PICK h \in [DOMAIN p -> DOMAIN q] : From(q, Staying(w), p, h)
    BY <1>10 DEF Embeds
  <1>12. \A a \in DOMAIN p : h[a] \in Staying(w) /\ p[a].order = q[h[a]].order
    BY <1>10, <1>11, EmbedsOnce
  <1>13. \A i \in DOMAIN q :
              /\ kept = 0 \/ i # 1 =>
                   /\ Marked(q[i])
                   /\ policy = "force" \/ q[i].order \in OnFoot => q[i].cancel = "force"
              /\ kept = 1 /\ i = 1 => q[i].cancel = Unmarked
    BY <1>1, <1>3, <1>9, DropEntries
  <1>14. ASSUME NEW i \in DOMAIN q, q[i].cancel = "force", q[i].order # "Die" PROVE i \notin Staying(w)
    BY <1>9, <1>14 DEF Staying, Stays, Marked, Unmarked
  <1>15. \A i \in DOMAIN q : q[i].order # "Die"
    BY <1>5, <1>9 DEF Sound
  <1>16. kept = 0 => ~r.unit.crossing
    <2> SUFFICES ASSUME kept = 0, r.unit.crossing PROVE FALSE
      OBVIOUS
    <2>1. p # <<>> /\ p[1].order = "Move"
      BY <1>7, <1>8, CrossingQueue DEF Fit
    <2>2. 1 \in DOMAIN p
      BY <1>10, <2>1, QueueDomain
    <2>3. q[h[1]].order = "Move" /\ h[1] \in Staying(w) /\ h[1] \in DOMAIN q
      BY <1>12, <2>1, <2>2
    <2>4. q[h[1]].cancel = "force"
      BY <1>13, <2>3 DEF OnFoot
    <2> QED
      BY <1>14, <1>15, <2>3, <2>4
  <1>17. policy = "force" => \A a \in DOMAIN p : p[a].order \notin Topic
    <2> SUFFICES ASSUME policy = "force", NEW a \in DOMAIN p, p[a].order \in Topic PROVE FALSE
      OBVIOUS
    <2>1. q[h[a]].order \in Topic /\ h[a] \in Staying(w) /\ h[a] \in DOMAIN q
      BY <1>12
    <2>2. ~(kept = 1 /\ h[a] = 1)
      <3> SUFFICES ASSUME kept = 1, h[a] = 1 PROVE FALSE
        OBVIOUS
      <3>1. u.queue[1].order = "Morph" /\ 1 \in DOMAIN u.queue
        BY <1>1, ChangingFront DEF Changing
      <3>2. q[1].order = "Morph"
        BY <1>3, <1>9, <3>1
      <3> QED
        BY <2>1, <3>2, OrdersAssumption
    <2>3. q[h[a]].cancel = "force"
      BY <1>13, <2>1, <2>2
    <2> QED
      BY <1>14, <1>15, <2>1, <2>3
  <1>18. r.gain = 0
    <2>1. r.gain = Back(w)
      BY <1>7 DEF Flushed
    <2>2. ~(Turns(w) /\ w.change # "clearing")
      <3> SUFFICES ASSUME Turns(w), w.change # "clearing" PROVE FALSE
        OBVIOUS
      <3>1. q # <<>> /\ q[1].order = "Morph" /\ Started(q[1]) /\ ~Stays(w, q[1])
        BY <1>9 DEF Turns
      <3>2. 1 \in DOMAIN q
        BY <1>10, <3>1, QueueDomain
      <3>3. "Morph" \in StartedIn(q, DOMAIN q)
        <4>1. Kind("Morph") = "Morph"
          BY OrdersAssumption DEF Kind
        <4> QED
          BY <3>1, <3>2, <4>1 DEF StartedIn
      <3>4. w.change # "none"
        BY <1>3, <1>9, <3>3 DEF Driven
      <3>5. Changing(u)
        BY <1>3, <1>4, <3>4 DEF Components, Changing
      <3>6. q[1].cancel = Unmarked
        BY <1>13, <3>2, <3>5
      <3> QED
        BY <3>1, <3>6 DEF Stays, Marked
    <2> QED
      BY <2>1, <2>2 DEF Back
  <1> QED
    BY <1>4, <1>7, <1>8, <1>16, <1>17, <1>18 DEF DropLeaves, Moved

\* A unit under another owner.
LEMMA FitOwner ==
  ASSUME NEW u, Fit(u), NEW p \in Player, NEW v, v = [u EXCEPT !.owner = p]
  PROVE  Fit(v) /\ v.life = u.life /\ v.owner = p /\ v.queue = u.queue /\ v.paid = u.paid
  <1>1. /\ v \in Components /\ v.queue = u.queue /\ v.life = u.life /\ v.drivers = u.drivers
        /\ v.change = u.change /\ v.crossing = u.crossing /\ v.aboard = u.aboard
        /\ v.paid = u.paid /\ v.form = u.form /\ v.owner = p
    BY DEF Fit, Components
  <1>2. Driven(v)
    BY <1>1 DEF Fit, Driven
  <1>3. v.life = "alive" => Living(v)
    BY <1>1 DEF Fit, Living
  <1>4. v.life = "dying" => Leaving(v)
    BY <1>1 DEF Fit, Leaving
  <1> QED
    BY <1>1, <1>2, <1>3, <1>4 DEF Fit

\* What comes of a unit whose front is prepared between two ticks.
Sent(u, r) ==
  /\ Fit(r.unit) /\ r.unit.life = "alive" /\ r.unit.owner = u.owner /\ r.gain = 0
  /\ r.unit.paid = u.paid /\ r.unit.form = u.form

\* A unit that is sent is fit, and poised when nothing was marked.
LEMMA FitSent ==
  ASSUME NEW u, Fit(u), u.life = "alive", NEW r, r = PrepareFront(u, TRUE, 0)
  PROVE  Sent(u, r) /\ ((\A i \in DOMAIN u.queue : ~Marked(u.queue[i])) => Poised(r.unit))
  <1>1. Prepared(u, TRUE, 0, r)
    <2>1. u \in Components /\ Linked(u.queue) /\ Swept(u.queue) /\ Driven(u)
      BY DEF Fit
    <2>2. TRUE \in BOOLEAN /\ 0 \in Int
      OBVIOUS
    <2> QED
      BY <2>1, <2>2, PrepareFrontIs
  <1>2. /\ Fit(r.unit) /\ r.unit.life = "alive"
        /\ (\A i \in DOMAIN u.queue : ~Marked(u.queue[i]))
              => \A i \in DOMAIN r.unit.queue : ~Marked(r.unit.queue[i])
    BY <1>1, FitPrepared
  <1>3. r.gain = 0 /\ r.unit.owner = u.owner /\ r.unit.paid = u.paid /\ r.unit.form = u.form
    <2>1. r.unit.owner = u.owner /\ r.unit.paid = u.paid /\ r.unit.form = u.form
      BY <1>1 DEF Prepared, Moved
    <2>2. r.gain = 0 \/ 0 > 0
      BY <1>1 DEF Prepared
    <2>3. ~(0 > 0)
      OBVIOUS
    <2> QED
      BY <2>1, <2>2, <2>3
  <1>4. (\A i \in DOMAIN u.queue : ~Marked(u.queue[i])) => Poised(r.unit)
    BY <1>1, <1>2 DEF Poised, Prepared
  <1> QED
    BY <1>2, <1>3, <1>4 DEF Sent

\* An idle unit that is sent off.
LEMMA FitMakesWay ==
  ASSUME NEW u, Fit(u), u.life = "alive", u.queue = <<>>,
         NEW r, r = PrepareFront([u EXCEPT !.queue = <<Entry("Move")>>], TRUE, 0)
  PROVE  Sent(u, r)
  <1>1. PICK w : w = [u EXCEPT !.queue = Push(@, "Move", Unmarked)]
    OBVIOUS
  <1>2. Push(u.queue, "Move", Unmarked) = <<Entry("Move")>>
    BY DEF Push
  <1>3. Fit(w)
    <2>1. "Move" \in OnFoot \cup {"Morph"} /\ Unmarked \in {Unmarked, "soft"}
      BY DEF OnFoot
    <2> QED
      BY <1>1, <2>1, FitIssue
  <1>4. w.life = "alive" /\ w.owner = u.owner /\ w.paid = u.paid /\ w.form = u.form
    BY <1>1 DEF Fit, Components
  <1>5. r = PrepareFront(w, TRUE, 0)
    BY <1>1, <1>2
  <1>6. Sent(w, r)
    BY <1>3, <1>4, <1>5, FitSent
  <1> QED
    BY <1>4, <1>6 DEF Sent

\* The walk of an attack-move gives way to the attack on whom it came upon.
Fighting(q) == <<Entry("Attack")>> \o Tail(q)

\* Such a queue is a queue, and the front has yet to start.
LEMMA FightingIs ==
  ASSUME NEW q \in Seq(Entries), Linked(q), Swept(q), Len(q) > 1, q[2].state = "suspended",
         q[2].order = "AttackMove", q[1].order = "Move", \A i \in DOMAIN q : ~Marked(q[i]),
         NEW p, p = Fighting(q)
  PROVE  /\ p \in Seq(Entries) /\ Len(p) = Len(q) /\ DOMAIN p = DOMAIN q
         /\ p[1] = Entry("Attack") /\ \A i \in DOMAIN q : i # 1 => p[i] = q[i]
         /\ Linked(p) /\ Swept(p) /\ \A i \in DOMAIN p : ~Marked(p[i])
         /\ StartedIn(p, DOMAIN p) = StartedIn(q, DOMAIN q) \ {"Move"}
  <1>1. /\ Len(q) \in Nat /\ DOMAIN q = 1 .. Len(q) /\ 1 \in DOMAIN q /\ 2 \in DOMAIN q
        /\ \A i \in DOMAIN q : q[i] \in Entries /\ q # <<>>
    BY QueueDomain
  <1>2. Entry("Attack") \in Entries /\ "Attack" \in OnFoot /\ "Attack" # "Train"
    BY EntryTyped DEF Order, OnFoot
  <1>3. PICK one : one = <<Entry("Attack")>>
    OBVIOUS
  <1>4. one \in Seq(Entries) /\ Len(one) = 1 /\ one[1] = Entry("Attack")
    BY <1>2, <1>3
  <1>5. PICK rest : rest = Tail(q)
    OBVIOUS
  <1>6. rest \in Seq(Entries) /\ Len(rest) = Len(q) - 1 /\ \A i \in 1 .. Len(rest) : rest[i] = q[i + 1]
    BY <1>1, <1>5, HeadTailProperties
  <1>7. p = one \o rest
    BY <1>3, <1>5 DEF Fighting
  <1>8. /\ p \in Seq(Entries) /\ Len(p) = Len(one) + Len(rest)
        /\ \A i \in 1 .. Len(one) + Len(rest) :
              p[i] = IF i <= Len(one) THEN one[i] ELSE rest[i - Len(one)]
    <2>1. one \in Seq(Entries) /\ rest \in Seq(Entries)
      BY <1>4, <1>6
    <2> QED
      BY <1>7, <2>1, ConcatProperties
  <1>9. Len(p) = Len(q) /\ DOMAIN p = DOMAIN q
    <2>1. Len(p) = Len(q)
      BY <1>1, <1>4, <1>6, <1>8
    <2>2. DOMAIN p = 1 .. Len(p)
      BY <1>8, QueueDomain
    <2> QED
      BY <1>1, <2>1, <2>2
  <1>10. p[1] = Entry("Attack")
    BY <1>1, <1>4, <1>6, <1>8
  <1>11. ASSUME NEW i \in DOMAIN q, i # 1 PROVE p[i] = q[i]
    <2>1. /\ i \in Int /\ i >= 2 /\ i <= Len(q) /\ i - 1 \in 1 .. Len(rest) /\ (i - 1) + 1 = i
          /\ i \in 1 .. 1 + Len(rest) /\ ~(i <= 1)
      BY <1>1, <1>6, <1>11
    <2>2. p[i] = rest[i - 1]
      BY <1>4, <1>8, <2>1
    <2> QED
      BY <1>6, <2>1, <2>2
  <1>12. /\ p[1].order = "Attack" /\ p[1].state = "new" /\ ~Marked(p[1]) /\ ~Started(p[1])
    BY <1>10 DEF Entry, Marked, Started
  <1>13. \A i \in DOMAIN p : ~Marked(p[i])
    BY <1>9, <1>11, <1>12
  <1>14. Linked(p)
    <2>1. ASSUME NEW i \in DOMAIN p, p[i].state = "running" PROVE i = 1
      BY <1>9, <1>11, <2>1 DEF Linked
    <2>2. ASSUME NEW i \in DOMAIN p, p[i].state = "suspended" PROVE p[i].order \in OnFoot \ {"Move"}
      BY <1>9, <1>11, <1>12, <2>2 DEF Linked
    <2>3. ASSUME NEW i \in DOMAIN p \ {1}, p[i].state = "suspended"
          PROVE  /\ p[i - 1].order \in SubOrders(p[i].order)
                 /\ i > 2 => p[i - 1].state = "suspended"
                 /\ Marked(p[i]) <=> Marked(p[i - 1])
      <3>1. i \in DOMAIN q \ {1} /\ i - 1 \in DOMAIN q /\ q[i].state = "suspended" /\ p[i] = q[i]
        BY <1>1, <1>9, <1>11, <2>3
      <3>2. CASE i = 2
        <4>1. i - 1 = 1 /\ ~(i > 2)
          BY <3>2
        <4>2. p[i - 1].order \in SubOrders(p[i].order)
          BY <1>12, <3>1, <3>2, <4>1 DEF SubOrders
        <4> QED
          BY <1>9, <1>13, <3>1, <4>1, <4>2
      <3>3. CASE i # 2
        <4>1. i - 1 # 1 /\ i > 2
          BY <1>1, <3>1, <3>3
        <4>2. p[i - 1] = q[i - 1]
          BY <1>11, <3>1, <4>1
        <4> QED
          BY <3>1, <4>2 DEF Linked
      <3> QED
        BY <3>2, <3>3
    <2> QED
      BY <2>1, <2>2, <2>3 DEF Linked
  <1>15. Swept(p)
    <2>1. \A i \in DOMAIN p : p[i].cancel # "force"
      BY <1>13 DEF Marked, Unmarked
    <2>2. ASSUME NEW i \in DOMAIN p, NEW j \in DOMAIN p, p[i].order = "Train", p[j].order = "Train"
          PROVE  i = j
      <3>1. i # 1 /\ j # 1
        BY <1>12, <2>2
      <3> QED
        BY <1>9, <1>11, <2>2, <3>1 DEF Swept
    <2> QED
      BY <1>13, <2>1, <2>2 DEF Swept
  <1>16. StartedIn(p, DOMAIN p) = StartedIn(q, DOMAIN q) \ {"Move"}
    <2>1. ASSUME NEW i \in DOMAIN q, i # 1, Started(q[i]) PROVE Kind(q[i].order) # "Move"
      <3>1. q[i].state = "suspended"
        BY <1>1, <2>1 DEF Linked, Started
      <3>2. q[i].order \in OnFoot \ {"Move"} /\ q[i].order \in Order
        BY <1>1, <3>1, EntryIs DEF Linked
      <3> QED
        BY <3>2, Kinds
    <2>2. Kind("Move") = "Move"
      BY OrdersAssumption DEF Kind, OnFoot
    <2>3. ASSUME NEW x \in StartedIn(p, DOMAIN p) PROVE x \in StartedIn(q, DOMAIN q) \ {"Move"}
      <3>1. PICK i \in DOMAIN p : Started(p[i]) /\ x = Kind(p[i].order)
        BY <2>3 DEF StartedIn
      <3>2. i # 1 /\ i \in DOMAIN q /\ p[i] = q[i]
        BY <1>9, <1>11, <1>12, <3>1
      <3> QED
        BY <2>1, <3>1, <3>2 DEF StartedIn
    <2>4. ASSUME NEW x \in StartedIn(q, DOMAIN q) \ {"Move"} PROVE x \in StartedIn(p, DOMAIN p)
      <3>1. PICK i \in DOMAIN q : Started(q[i]) /\ x = Kind(q[i].order)
        BY <2>4 DEF StartedIn
      <3>2. i # 1
        BY <2>2, <2>4, <3>1
      <3> QED
        BY <1>9, <1>11, <3>1, <3>2 DEF StartedIn
    <2> QED
      BY <2>3, <2>4
  <1> QED
    BY <1>8, <1>9, <1>10, <1>11, <1>13, <1>14, <1>15, <1>16

\* A unit whose front is another order on foot lives as before.
LEMMA LivingFront ==
  ASSUME NEW u, Living(u), NEW w, w.paid = u.paid, w.form = u.form,
         DOMAIN w.queue = DOMAIN u.queue, \A i \in DOMAIN u.queue : i # 1 => w.queue[i] = u.queue[i],
         w.queue[1].order = "Attack", w.queue[1].cancel # "force", u.queue[1].order = "Move"
  PROVE  Living(w)
  <1> DEFINE q == u.queue
             p == w.queue
  <1>1. "Attack" \notin Topic
    BY OrdersAssumption DEF OnFoot
  <1>2. \A i \in DOMAIN p : p[i].order # "Die" /\ (p[i].cancel = "force" => p[i].order \in Topic)
    BY DEF Living
  <1>3. \A i, j \in DOMAIN p : p[i].order \in Topic /\ p[i].order = p[j].order => i = j
    BY <1>1 DEF Living
  <1>4. u.paid # <<>> => \E i \in DOMAIN p : p[i].order = "Train"
    <2> HAVE u.paid # <<>>
    <2>1. PICK i \in DOMAIN q : q[i].order = "Train"
      BY DEF Living
    <2>2. i # 1
      BY <2>1
    <2> QED
      BY <2>1, <2>2
  <1> QED
    BY <1>2, <1>3, <1>4 DEF Living

\* What a unit is that came upon an enemy.
Fights(u, w) ==
  /\ Fit(w) /\ w.life = u.life /\ w.owner = u.owner
  /\ w.form = u.form /\ w.paid = u.paid /\ w.change = u.change
  /\ DOMAIN w.queue = DOMAIN u.queue /\ \A i \in DOMAIN w.queue : ~Marked(w.queue[i])
  /\ w.queue[1].order = "Attack" /\ \A i \in DOMAIN u.queue : i # 1 => w.queue[i] = u.queue[i]

\* A poised unit that comes upon an enemy stays fit.
LEMMA FitFights ==
  ASSUME NEW u, Fit(u), u.life = "alive", Poised(u), Engages(u),
         NEW w, w = [CancelMove(u, u.queue[1], "force").unit EXCEPT !.queue = Fighting(@)]
  PROVE  Fights(u, w)
  <1> DEFINE q == u.queue
  <1>1. /\ u \in Components /\ q \in Seq(Entries) /\ Linked(q) /\ Swept(q) /\ Driven(u) /\ Living(u)
        /\ Len(q) \in Nat /\ DOMAIN q = 1 .. Len(q)
    BY UnitQueue, QueueDomain DEF Fit
  <1>2. /\ Len(q) > 1 /\ q[2].state = "suspended" /\ q[2].order = "AttackMove"
        /\ q[1].order = "Move" /\ ~u.crossing
        /\ \A i \in DOMAIN q : ~Marked(q[i])
    BY DEF Engages, Poised
  <1>3. PICK a : a = Without(u, "Move")
    OBVIOUS
  <1>4. /\ a \in Components /\ a.queue = u.queue
        /\ a.owner = u.owner /\ a.form = u.form /\ a.life = u.life
        /\ a.drivers = u.drivers \ {Kind("Move")} /\ a.paid = u.paid /\ a.change = u.change
    BY <1>1, <1>3, WithoutIs DEF Kept
  <1>5. PICK b : b = [[a EXCEPT !.crossing = FALSE] EXCEPT !.winding = FALSE]
    OBVIOUS
  <1>6. /\ b \in Components /\ b.queue = u.queue
        /\ b.owner = u.owner /\ b.form = u.form /\ b.life = u.life
        /\ b.drivers = u.drivers \ {Kind("Move")} /\ b.paid = u.paid /\ b.change = u.change
        /\ ~b.crossing
    BY <1>4, <1>5 DEF Components
  <1>7. CancelMove(u, q[1], "force").unit = b
    BY <1>3, <1>5 DEF CancelMove, Ended, Result
  <1>8. PICK p : p = Fighting(q)
    OBVIOUS
  <1>9. /\ p \in Seq(Entries) /\ Len(p) = Len(q) /\ DOMAIN p = DOMAIN q
        /\ p[1] = Entry("Attack") /\ \A i \in DOMAIN q : i # 1 => p[i] = q[i]
        /\ Linked(p) /\ Swept(p) /\ \A i \in DOMAIN p : ~Marked(p[i])
        /\ StartedIn(p, DOMAIN p) = StartedIn(q, DOMAIN q) \ {"Move"}
    <2> HIDE DEF q
    <2> QED
      BY <1>1, <1>2, <1>8, FightingIs
  <1>10. w = [b EXCEPT !.queue = p]
    BY <1>6, <1>7, <1>8
  <1>11. /\ w \in Components /\ w.queue = p
         /\ w.owner = u.owner /\ w.form = u.form /\ w.life = u.life
         /\ w.drivers = u.drivers \ {Kind("Move")} /\ w.paid = u.paid /\ w.change = u.change
         /\ ~w.crossing
    <2>1. p \in Seq(Entries)
      BY <1>9
    <2> QED
      BY <1>6, <1>10, <2>1 DEF Components, Entries
  <1>12. Kind("Move") = "Move"
    BY OrdersAssumption DEF Kind, OnFoot
  <1>13. Driven(w)
    BY <1>1, <1>9, <1>11, <1>12 DEF Driven
  <1>14. p[1].order = "Attack" /\ p[1].cancel # "force" /\ "Attack" \notin Topic
    BY <1>9, OrdersAssumption DEF Entry, OnFoot, Unmarked
  <1>15. Living(w)
    <2>1. /\ w.paid = u.paid /\ w.form = u.form /\ DOMAIN w.queue = DOMAIN u.queue
          /\ \A i \in DOMAIN u.queue : i # 1 => w.queue[i] = u.queue[i]
          /\ w.queue[1].order = "Attack" /\ w.queue[1].cancel # "force"
      BY <1>9, <1>11, <1>14
    <2>2. Living(u) /\ u.queue[1].order = "Move"
      BY <1>1, <1>2
    <2> QED
      BY <2>1, <2>2, LivingFront, ZenonT(30)
  <1>16. Fit(w) /\ w.life = "alive" /\ \A i \in DOMAIN w.queue : ~Marked(w.queue[i])
    BY <1>9, <1>11, <1>13, <1>15 DEF Fit
  <1> QED
    BY <1>9, <1>11, <1>14, <1>16 DEF Fights

\* It is poised again when the front is prepared.
LEMMA FitWatch ==
  ASSUME NEW u, Fit(u), u.life = "alive", Poised(u), Engages(u),
         NEW w, w = [CancelMove(u, u.queue[1], "force").unit EXCEPT !.queue = Fighting(@)],
         NEW r, r = PrepareFront(w, TRUE, 0)
  PROVE  Sent(u, r) /\ Poised(r.unit)
  <1>1. Fights(u, w)
    BY FitFights
  <1>2. Fit(w) /\ w.life = "alive" /\ \A i \in DOMAIN w.queue : ~Marked(w.queue[i])
    BY <1>1 DEF Fights
  <1>3. Sent(w, r) /\ Poised(r.unit)
    BY <1>2, FitSent
  <1>4. w.owner = u.owner /\ w.form = u.form /\ w.paid = u.paid
    BY <1>1 DEF Fights
  <1> QED
    BY <1>3, <1>4 DEF Sent

\* A walk between two cells, and in one.
LEMMA FitCrossing ==
  ASSUME NEW u, Fit(u), u.life = "alive", u.queue # <<>>, u.queue[1].order = "Move",
         u.queue[1].state = "running", ~u.aboard, NEW crossing \in BOOLEAN,
         NEW v, v = [u EXCEPT !.crossing = crossing]
  PROVE  Fit(v) /\ v.life = "alive" /\ v.owner = u.owner /\ v.queue = u.queue /\ v.paid = u.paid
  <1>1. /\ v \in Components /\ v.queue = u.queue /\ v.life = u.life /\ v.drivers = u.drivers
        /\ v.change = u.change /\ v.aboard = u.aboard
        /\ v.paid = u.paid /\ v.form = u.form /\ v.owner = u.owner
    BY DEF Fit, Components
  <1>2. Kind("Move") = "Move"
    BY OrdersAssumption DEF Kind, OnFoot
  <1>3. 1 \in DOMAIN u.queue
    BY <1>1, UnitQueue, QueueDomain
  <1>4. "Move" \in StartedIn(u.queue, DOMAIN u.queue)
    BY <1>2, <1>3 DEF StartedIn, Started
  <1>5. Driven(v)
    BY <1>1, <1>4 DEF Fit, Driven
  <1>6. Living(v)
    BY <1>1 DEF Fit, Living
  <1> QED
    BY <1>1, <1>5, <1>6 DEF Fit

\* A walk that ends.
LEMMA FitArrived ==
  ASSUME NEW u, Fit(u), u.life = "alive", u.queue # <<>>, u.queue[1].order = "Move",
         u.queue[1].state = "running",
         NEW v, v = [Finished(u) EXCEPT !.crossing = FALSE, !.winding = FALSE]
  PROVE  Fit(v) /\ v.life = "alive" /\ v.owner = u.owner /\ v.paid = u.paid
  <1>1. u \in Components /\ Linked(u.queue) /\ Driven(u) /\ Living(u)
    BY DEF Fit
  <1>2. PICK w : w = Finished(u)
    OBVIOUS
  <1>3. /\ w \in Components /\ w.queue = Tail(u.queue)
        /\ w.owner = u.owner /\ w.form = u.form
        /\ w.life = u.life /\ w.paid = u.paid
        /\ w.drivers = u.drivers \ {Kind(u.queue[1].order)}
        /\ w.change = u.change
    BY <1>1, <1>2, FinishedIs
  <1>4. v = [w EXCEPT !.crossing = FALSE, !.winding = FALSE]
    BY <1>2
  <1>5. /\ v \in Components /\ v.queue = w.queue
        /\ v.owner = w.owner /\ v.form = w.form /\ v.life = w.life /\ v.paid = w.paid
        /\ v.drivers = w.drivers /\ v.change = w.change /\ ~v.crossing
    BY <1>3, <1>4 DEF Components
  <1>6. v.change = "none"
    BY <1>1, <1>3, <1>5, FrontIs
  <1>7. v.paid # <<>> => Trains[v.form] # {} /\ u.paid # <<>>
    BY <1>1, <1>3, <1>5 DEF Living
  <1> QED
    BY <1>3, <1>5, <1>6, <1>7, FitEnded

\* A change of form that waited for its ground.
LEMMA FitBegun ==
  ASSUME NEW u, Fit(u), u.life = "alive", u.change # "none", NEW v, v = [u EXCEPT !.change = "underWay"]
  PROVE  /\ Fit(v) /\ v.life = "alive" /\ v.owner = u.owner /\ v.paid = u.paid /\ v.queue = u.queue
         /\ v.form = u.form /\ v.change = "underWay"
  <1>1. /\ v \in Components /\ v.queue = u.queue /\ v.life = u.life /\ v.drivers = u.drivers
        /\ v.change = "underWay" /\ v.aboard = u.aboard /\ v.crossing = u.crossing
        /\ v.paid = u.paid /\ v.form = u.form /\ v.owner = u.owner
    BY DEF Fit, Components
  <1>2. Driven(v)
    BY <1>1 DEF Fit, Driven
  <1>3. Living(v)
    BY <1>1 DEF Fit, Living
  <1> QED
    BY <1>1, <1>2, <1>3 DEF Fit

\* A change of form that ends, with the form the unit has then and what that
\* leaves of its production.
LEMMA FitChanged ==
  ASSUME NEW u, Fit(u), u.life = "alive", u.change # "none", u.queue[1].state = "running",
         NEW form \in Form, NEW paid \in Seq(UnitType),
         paid # <<>> => Trains[form] # {} /\ u.paid # <<>>,
         NEW w, w = Finished(u),
         NEW v \in Components, Kept([w EXCEPT !.form = form], v), v.drivers = w.drivers,
         v.crossing = w.crossing, v.change = "none", v.paid = paid
  PROVE  Fit(v) /\ v.life = "alive" /\ v.owner = u.owner /\ v.paid = paid
  <1>1. u \in Components /\ Linked(u.queue) /\ Driven(u) /\ Living(u)
    BY DEF Fit
  <1>2. u.queue # <<>> /\ u.queue[1].order = "Morph" /\ ~u.crossing
    BY <1>1, ChangingFront
  <1>3. /\ w \in Components /\ w.queue = Tail(u.queue)
        /\ w.owner = u.owner /\ w.life = u.life
        /\ w.drivers = u.drivers \ {Kind(u.queue[1].order)} /\ w.crossing = u.crossing
    BY <1>1, <1>2, FinishedIs
  <1>4. v.queue = w.queue /\ v.owner = w.owner /\ v.form = form /\ v.life = w.life
    BY <1>3 DEF Kept, Components
  <1>5. v.paid # <<>> => Trains[v.form] # {} /\ u.paid # <<>>
    BY <1>4
  <1>6. /\ v.queue = Tail(u.queue) /\ v.life = "alive" /\ ~v.crossing
        /\ v.drivers = u.drivers \ {Kind(u.queue[1].order)}
    BY <1>2, <1>3, <1>4
  <1>7. Fit(v)
    BY <1>2, <1>5, <1>6, FitEnded
  <1> QED
    BY <1>3, <1>4, <1>7

-----------------------------------------------------------------------------
(* The inductive invariant, and the steps.                                  *)

\* Whose queue has been prepared in this tick and not advanced yet.
Past(e) == (stage = "prepare" /\ e < turn) \/ stage = "watch"

\* Every unit is whole, and who has been prepared is ready to advance.
UnitsInv ==
  /\ OrdersTypeOK
  /\ \A e \in Entity : Fit(unit[e])
  /\ \A e \in Entity : Past(e) /\ Alive(e) => Poised(unit[e])

\* A turn taken: the stage and the turn that follow, and who has been prepared.
LEMMA AdvanceIs ==
  ASSUME OrdersTypeOK, Advance
  PROVE  /\ stage' \in DOMAIN Following /\ turn' \in Entity
         /\ \A e \in Entity : Past(e)' => Past(e) \/ (stage = "prepare" /\ e = turn)
  <1> DEFINE N == Cardinality(Entity)
  <1>1. N \in Nat /\ Entity = 1 .. N /\ N >= 1
    <2>1. IsFiniteSet(Entity) /\ Entity = 1 .. N /\ Entity # {}
      BY OrdersAssumption
    <2>2. N \in Nat
      BY <2>1, FS_CardinalityType
    <2> HIDE DEF N
    <2> QED
      BY <2>1, <2>2
  <1>2. /\ stage \in {"commands", "dying", "prepare", "watch", "process"} /\ turn \in 1 .. N
        /\ DOMAIN Following = {"commands", "dying", "prepare", "watch", "process"}
        /\ Following["commands"] = "dying" /\ Following["dying"] = "prepare"
        /\ Following["prepare"] = "watch" /\ Following["watch"] = "process"
        /\ Following["process"] = "commands"
    BY <1>1 DEF OrdersTypeOK, Following
  <1>3. CASE turn = N \/ stage = "commands"
    <2>1. stage' = Following[stage] /\ turn' = 1
      BY <1>3 DEF Advance
    <2>2. stage' \in DOMAIN Following /\ turn' \in Entity
      BY <1>1, <1>2, <2>1
    <2>3. ASSUME NEW e \in Entity, Past(e)' PROVE Past(e) \/ (stage = "prepare" /\ e = turn)
      <3>1. (stage' = "prepare" /\ e < 1) \/ stage' = "watch"
        BY <2>1, <2>3 DEF Past
      <3>2. e \in 1 .. N
        BY <1>1
      <3>3. stage' = "watch"
        BY <1>1, <3>1, <3>2
      <3>4. stage = "prepare"
        BY <1>2, <2>1, <3>3
      <3>5. turn = N
        BY <1>3, <3>4
      <3>6. e < turn \/ e = turn
        BY <1>1, <3>2, <3>5
      <3> QED
        BY <3>4, <3>6 DEF Past
    <2> QED
      BY <2>2, <2>3
  <1>4. CASE ~(turn = N \/ stage = "commands")
    <2>1. stage' = stage /\ turn' = turn + 1
      BY <1>4 DEF Advance
    <2>2. stage' \in DOMAIN Following /\ turn' \in Entity
      <3> HIDE DEF N
      <3> QED
        BY <1>1, <1>2, <1>4, <2>1
    <2>3. ASSUME NEW e \in Entity, Past(e)' PROVE Past(e) \/ (stage = "prepare" /\ e = turn)
      <3>1. (stage = "prepare" /\ e < turn + 1) \/ stage = "watch"
        BY <2>1, <2>3 DEF Past
      <3>2. e \in Int /\ turn \in Int
        BY <1>1, <1>2
      <3> QED
        BY <3>1, <3>2 DEF Past
    <2> QED
      BY <2>2, <2>3
  <1> QED
    BY <1>3, <1>4

\* One unit becomes another that is whole, and ready where it has to be.
LEMMA UnitStep ==
  ASSUME UnitsInv, NEW e \in Entity, NEW v, Fit(v), unit' = [unit EXCEPT ![e] = v],
         stock' \in [Player -> Nat], made' \in [Player -> Nat], done' \in [Player -> SUBSET Topic],
         stage' \in DOMAIN Following, turn' \in Entity, deeds' \in Nat,
         \A f \in Entity : Past(f)' => Past(f) \/ f = e,
         Past(e)' /\ v.life = "alive" => Poised(v)
  PROVE  UnitsInv'
  <1>1. unit \in [Entity -> Components] /\ v \in Components
    BY DEF UnitsInv, OrdersTypeOK, Fit
  <1>2. unit' \in [Entity -> Components] /\ unit'[e] = v
        /\ \A f \in Entity : f # e => unit'[f] = unit[f]
    BY <1>1
  <1>3. OrdersTypeOK'
    BY <1>2 DEF OrdersTypeOK
  <1>4. ASSUME NEW f \in Entity PROVE Fit(unit'[f]) /\ (Past(f)' /\ unit'[f].life = "alive" => Poised(unit'[f]))
    <2>1. CASE f = e
      BY <1>2, <2>1
    <2>2. CASE f # e
      <3>1. unit'[f] = unit[f]
        BY <1>2, <2>2
      <3>2. Fit(unit[f]) /\ (Past(f) /\ unit[f].life = "alive" => Poised(unit[f]))
        BY DEF UnitsInv, Alive
      <3> QED
        BY <2>2, <3>1, <3>2
    <2> QED
      BY <2>1, <2>2
  <1> QED
    BY <1>3, <1>4 DEF UnitsInv, Alive

\* What a player has after it is paid, or pays what it has.
LEMMA Paying ==
  ASSUME OrdersTypeOK, NEW e \in Entity, NEW r, Becoming(e, r),
         stock[unit[e].owner] + r.gain \in Nat
  PROVE  stock' \in [Player -> Nat]
  <1>1. stock \in [Player -> Nat]
    BY DEF OrdersTypeOK
  <1>2. stock' = [stock EXCEPT ![unit[e].owner] = @ + r.gain]
    BY DEF Becoming
  <1> QED
    BY <1>1, <1>2

\* A step between the turns.
LEMMA AmidStep ==
  ASSUME UnitsInv, NEW e \in Entity, NEW r, Becoming(e, r), Fit(r.unit),
         stock[unit[e].owner] + r.gain \in Nat, Same, Waits, Commands \/ Amid(e)
  PROVE  UnitsInv'
  <1>1. /\ stage \in DOMAIN Following /\ turn \in Entity /\ deeds \in Nat
        /\ made \in [Player -> Nat] /\ done \in [Player -> SUBSET Topic]
    BY DEF UnitsInv, OrdersTypeOK
  <1>2. stage \in {"commands", "process"} /\ deeds' \in Nat
    BY <1>1 DEF Commands, Amid
  <1>3. stage' = stage /\ turn' = turn /\ made' = made /\ done' = done
    BY DEF Waits, Same
  <1>4. \A f \in Entity : ~Past(f)'
    BY <1>2, <1>3 DEF Past
  <1>5. stock' \in [Player -> Nat]
    BY Paying DEF UnitsInv
  <1>6. unit' = [unit EXCEPT ![e] = r.unit]
    BY DEF Becoming
  <1>7. PICK v : v = r.unit
    OBVIOUS
  <1>8. Fit(v) /\ unit' = [unit EXCEPT ![e] = v]
    BY <1>6, <1>7
  <1>9. stage' \in DOMAIN Following /\ turn' \in Entity /\ made' \in [Player -> Nat]
        /\ done' \in [Player -> SUBSET Topic]
    BY <1>1, <1>3
  <1> QED
    BY <1>2, <1>4, <1>5, <1>8, <1>9, UnitStep

\* A step in an entity's turn.
LEMMA TurnStep ==
  ASSUME UnitsInv, NEW e \in Entity, NEW s, Turn(s, e), NEW v, Fit(v), unit' = [unit EXCEPT ![e] = v],
         stock' \in [Player -> Nat], made' \in [Player -> Nat], done' \in [Player -> SUBSET Topic],
         s \in {"prepare", "watch"} /\ v.life = "alive" => Poised(v)
  PROVE  UnitsInv'
  <1>1. OrdersTypeOK /\ Advance /\ stage = s /\ turn = e /\ deeds' = deeds /\ deeds \in Nat
    BY DEF UnitsInv, OrdersTypeOK, Turn, Phase
  <1>2. /\ stage' \in DOMAIN Following /\ turn' \in Entity
        /\ \A f \in Entity : Past(f)' => Past(f) \/ (stage = "prepare" /\ f = turn)
    BY <1>1, AdvanceIs
  <1>3. Past(e)' => s \in {"prepare", "watch"}
    BY <1>1, <1>2 DEF Past
  <1>4. \A f \in Entity : Past(f)' => Past(f) \/ f = e
    BY <1>1, <1>2
  <1> QED
    BY <1>1, <1>2, <1>3, <1>4, UnitStep

\* A step in an entity's turn that pays, or is paid for, or neither.
LEMMA TurnPays ==
  ASSUME UnitsInv, NEW e \in Entity, NEW s, Turn(s, e), NEW r, Becoming(e, r), Fit(r.unit),
         stock[unit[e].owner] + r.gain \in Nat, Same,
         s \in {"prepare", "watch"} /\ r.unit.life = "alive" => Poised(r.unit)
  PROVE  UnitsInv'
  <1>1. made' \in [Player -> Nat] /\ done' \in [Player -> SUBSET Topic]
    BY DEF UnitsInv, OrdersTypeOK, Same
  <1>2. stock' \in [Player -> Nat]
    BY Paying DEF UnitsInv
  <1>3. PICK v : v = r.unit
    OBVIOUS
  <1>4. Fit(v) /\ unit' = [unit EXCEPT ![e] = v]
    BY <1>3 DEF Becoming
  <1>5. s \in {"prepare", "watch"} /\ v.life = "alive" => Poised(v)
    BY <1>3
  <1> QED
    BY <1>1, <1>2, <1>4, <1>5, TurnStep

\* What an entity is, and what its owner has.
LEMMA UnitIs ==
  ASSUME UnitsInv, NEW e \in Entity
  PROVE  /\ Fit(unit[e]) /\ unit[e] \in Components
         /\ unit[e].owner \in Player /\ stock[unit[e].owner] \in Nat
         /\ unit[e].queue \in Seq(Entries) /\ unit[e].paid \in Seq(UnitType)
         /\ unit[e].form \in Form
  BY DEF UnitsInv, OrdersTypeOK, Components, Entries

\* A unit that becomes another, and nothing is paid.
LEMMA BareIs ==
  ASSUME NEW v
  PROVE  Bare(v).unit = v /\ Bare(v).gain = 0
  BY DEF Bare

\* A step between the turns in which nothing is paid.
LEMMA AmidBare ==
  ASSUME UnitsInv, NEW e \in Entity, NEW v, Becoming(e, Bare(v)), Fit(v), Same, Waits,
         Commands \/ Amid(e)
  PROVE  UnitsInv'
  <1>1. PICK r : r = Bare(v)
    OBVIOUS
  <1>2. r.unit = v /\ r.gain = 0
    BY <1>1, BareIs
  <1>3. stock[unit[e].owner] + r.gain \in Nat
    BY <1>2, UnitIs
  <1> QED
    BY <1>1, <1>2, <1>3, AmidStep

\* An order given to an entity.
LEMMA StepIssue ==
  ASSUME UnitsInv, NEW e \in Entity, NEW o \in OnFoot \cup {"Morph"},
         NEW flush \in {Unmarked, "soft"}, Issue(e, o, flush)
  PROVE  UnitsInv'
  <1>1. PICK u : u = unit[e]
    OBVIOUS
  <1>2. PICK v : v = [u EXCEPT !.queue = Push(@, o, flush)]
    OBVIOUS
  <1>3. Becoming(e, Bare(v)) /\ Same /\ Waits /\ Commands /\ u.life = "alive"
    BY <1>1, <1>2 DEF Issue, Commanded, Alive
  <1>4. Fit(u)
    BY <1>1, UnitIs
  <1>5. Fit(v)
    BY <1>2, <1>3, <1>4, FitIssue
  <1> QED
    BY <1>3, <1>5, AmidBare

\* Everything an entity was told is called off.
LEMMA StepStop ==
  ASSUME UnitsInv, NEW e \in Entity, Stop(e)
  PROVE  UnitsInv'
  <1>1. PICK u : u = unit[e]
    OBVIOUS
  <1>2. PICK v : v = [u EXCEPT !.queue = MarkAll(@, "soft")]
    OBVIOUS
  <1>3. Becoming(e, Bare(v)) /\ Same /\ Waits /\ Commands /\ u.life = "alive"
    BY <1>1, <1>2 DEF Stop, Commanded, Alive
  <1>4. Fit(u)
    BY <1>1, UnitIs
  <1>5. Fit(v)
    BY <1>2, <1>3, <1>4, FitStop
  <1> QED
    BY <1>3, <1>5, AmidBare

\* A change of form called off.
LEMMA StepCancelChange ==
  ASSUME UnitsInv, NEW e \in Entity, CancelChange(e)
  PROVE  UnitsInv'
  <1>1. PICK u : u = unit[e]
    OBVIOUS
  <1>2. PICK v : v = [u EXCEPT !.queue[1].cancel = "soft"]
    OBVIOUS
  <1>3. Becoming(e, Bare(v)) /\ Same /\ Waits /\ Commands /\ u.life = "alive"
        /\ u.queue # <<>> /\ u.queue[1].order = "Morph"
    BY <1>1, <1>2 DEF CancelChange, Commanded, Alive
  <1>4. Fit(u) /\ u.queue \in Seq(Entries)
    BY <1>1, UnitIs
  <1>5. 1 \in DOMAIN u.queue
    BY <1>3, <1>4
  <1>6. u.queue[1].order \notin OnFoot
    BY <1>3 DEF OnFoot, Legs
  <1>7. Fit(v)
    BY <1>2, <1>3, <1>4, <1>5, <1>6, FitRemark
  <1> QED
    BY <1>3, <1>7, AmidBare

\* A unit put on the list of what is trained, and paid for.
LEMMA StepTrainEntity ==
  ASSUME UnitsInv, NEW e \in Entity, NEW type \in UnitType, TrainEntity(e, type)
  PROVE  UnitsInv'
  <1>1. PICK u : u = unit[e]
    OBVIOUS
  <1>2. PICK v : v = [u EXCEPT !.paid = Append(@, type),
                               !.queue = IF Holds(@, "Train") THEN @ ELSE Append(@, Entry("Train"))]
    OBVIOUS
  <1>3. PICK r : r = [unit |-> v, gain |-> -1]
    OBVIOUS
  <1>4. Becoming(e, r) /\ Same /\ Waits /\ Commands /\ u.life = "alive"
        /\ stock[u.owner] > 0 /\ type \in Trains[u.form]
    BY <1>1, <1>2, <1>3 DEF TrainEntity, Commanded, Alive
  <1>5. Fit(u) /\ stock[u.owner] \in Nat
    BY <1>1, UnitIs
  <1>6. Trains[u.form] # {}
    BY <1>4
  <1>7. Fit(v)
    BY <1>2, <1>4, <1>5, <1>6, FitTrain
  <1>8. Fit(r.unit) /\ stock[unit[e].owner] + r.gain \in Nat
    BY <1>1, <1>3, <1>4, <1>5, <1>7
  <1> QED
    BY <1>4, <1>8, AmidStep

\* A unit taken off that list, and paid back.
LEMMA StepCancelTrain ==
  ASSUME UnitsInv, NEW e \in Entity, NEW slot, CancelTrain(e, slot)
  PROVE  UnitsInv'
  <1>1. PICK u : u = unit[e]
    OBVIOUS
  <1>2. PICK fewer : fewer = RemoveAt(u.paid, slot)
    OBVIOUS
  <1>3. PICK v : v = [u EXCEPT !.paid = fewer]
    OBVIOUS
  <1>4. PICK r : r = [unit |-> v, gain |-> 1]
    OBVIOUS
  <1>5. Becoming(e, r) /\ Same /\ Waits /\ Commands /\ u.life = "alive" /\ slot \in DOMAIN u.paid
    BY <1>1, <1>2, <1>3, <1>4 DEF CancelTrain, Alive
  <1>6. Fit(u) /\ stock[u.owner] \in Nat /\ u.paid \in Seq(UnitType)
    BY <1>1, UnitIs
  <1>7. fewer \in Seq(UnitType)
    BY <1>2, <1>5, <1>6 DEF RemoveAt
  <1>8. u.paid # <<>>
    BY <1>5
  <1>9. Trains[u.form] # {} /\ Holds(u.queue, "Train")
    BY <1>5, <1>6, <1>8 DEF Fit, Living, Holds
  <1>10. Fit(v)
    BY <1>3, <1>5, <1>6, <1>7, <1>9, FitPaid
  <1>11. Fit(r.unit) /\ stock[unit[e].owner] + r.gain \in Nat
    BY <1>1, <1>4, <1>6, <1>10
  <1> QED
    BY <1>5, <1>11, AmidStep

\* A topic taken up, and paid for.
LEMMA StepStartResearch ==
  ASSUME UnitsInv, NEW e \in Entity, NEW t \in Topic, StartResearch(e, t)
  PROVE  UnitsInv'
  <1>1. PICK u : u = unit[e]
    OBVIOUS
  <1>2. PICK v : v = [u EXCEPT !.queue = Append(@, Entry(t))]
    OBVIOUS
  <1>3. PICK r : r = [unit |-> v, gain |-> -1]
    OBVIOUS
  <1>4. Becoming(e, r) /\ Same /\ Waits /\ Commands /\ u.life = "alive"
        /\ stock[u.owner] > 0 /\ ~InFlight(u.owner, t)
    BY <1>1, <1>2, <1>3 DEF StartResearch, Commanded, Alive
  <1>5. Fit(u) /\ stock[u.owner] \in Nat
    BY <1>1, UnitIs
  <1>6. ~Holds(u.queue, t)
    BY <1>1, <1>4 DEF InFlight, Owned, Alive
  <1>7. Fit(v)
    BY <1>2, <1>4, <1>5, <1>6, FitResearch
  <1>8. Fit(r.unit) /\ stock[unit[e].owner] + r.gain \in Nat
    BY <1>1, <1>3, <1>4, <1>5, <1>7
  <1> QED
    BY <1>4, <1>8, AmidStep

\* The entry a cancel of a topic marks.
LEMMA TopicFound ==
  ASSUME NEW e \in Entity, NEW t \in Topic, CancelResearch(e, t), unit[e].queue \in Seq(Entries)
  PROVE  \E k \in DOMAIN unit[e].queue :
           /\ unit[e].queue[k].order = t /\ unit[e].queue[k].cancel # "force"
           /\ Becoming(e, [unit |-> [unit[e] EXCEPT !.queue[k].cancel = "force"], gain |-> 1])
  <1> DEFINE q == unit[e].queue
             R == {i \in 1 .. Len(q) : q[i].order = t}
             k == IF R # {} THEN Min(R) ELSE 0
  <1>1. Len(q) \in Nat /\ DOMAIN q = 1 .. Len(q)
    BY QueueDomain
  <1>2. R # {} => Min(R) \in R
    <2> HAVE R # {}
    <2>1. R \subseteq Nat
      BY <1>1
    <2>2. \E x \in R : \A i \in R : x <= i
      BY <2>1, LeastNatural
    <2> QED
      BY <2>2 DEF Min
  <1>3. SelectInSeq(q, LAMBDA entry : entry.order = t) = k
    BY DEF SelectInSeq
  <1>4. k > 0 => k \in DOMAIN q /\ q[k].order = t
    BY <1>1, <1>2
  <1> HIDE DEF k
  <1>5. /\ k > 0 /\ q[k].cancel # "force"
        /\ Becoming(e, [unit |-> [unit[e] EXCEPT !.queue[k].cancel = "force"], gain |-> 1])
    BY <1>3 DEF CancelResearch
  <1> QED
    BY <1>4, <1>5

\* A topic called off, and paid back.
LEMMA StepCancelResearch ==
  ASSUME UnitsInv, NEW e \in Entity, NEW t \in Topic, CancelResearch(e, t)
  PROVE  UnitsInv'
  <1>1. PICK u : u = unit[e]
    OBVIOUS
  <1>2. Fit(u) /\ u.queue \in Seq(Entries) /\ stock[u.owner] \in Nat
    BY <1>1, UnitIs
  <1>3. PICK k \in DOMAIN u.queue :
           /\ u.queue[k].order = t /\ u.queue[k].cancel # "force"
           /\ Becoming(e, [unit |-> [u EXCEPT !.queue[k].cancel = "force"], gain |-> 1])
    BY <1>1, <1>2, TopicFound
  <1>4. PICK v : v = [u EXCEPT !.queue[k].cancel = "force"]
    OBVIOUS
  <1>5. PICK r : r = [unit |-> v, gain |-> 1]
    OBVIOUS
  <1>6. Becoming(e, r) /\ Same /\ Waits /\ Commands /\ u.life = "alive"
    BY <1>1, <1>3, <1>4, <1>5 DEF CancelResearch, Alive
  <1>7. u.queue[k].order \notin OnFoot
    BY <1>3, OrdersAssumption
  <1>8. Fit(v)
    BY <1>2, <1>3, <1>4, <1>6, <1>7, FitRemark
  <1>9. Fit(r.unit) /\ stock[unit[e].owner] + r.gain \in Nat
    BY <1>1, <1>2, <1>5, <1>8
  <1> QED
    BY <1>6, <1>9, AmidStep

\* What an owner tells an entity.
LEMMA StepCommand ==
  ASSUME UnitsInv, Command
  PROVE  UnitsInv'
  <1>1. PICK e \in Entity :
          \/ \E o \in OnFoot \cup {"Morph"}, flush \in {Unmarked, "soft"} : Issue(e, o, flush)
          \/ Stop(e) \/ CancelChange(e)
          \/ \E type \in UnitType : TrainEntity(e, type)
          \/ \E slot \in 1..MaxPaid : CancelTrain(e, slot)
          \/ \E t \in Topic : StartResearch(e, t) \/ CancelResearch(e, t)
    BY DEF Command
  <1>2. CASE \E o \in OnFoot \cup {"Morph"}, flush \in {Unmarked, "soft"} : Issue(e, o, flush)
    BY <1>2, StepIssue
  <1>3. CASE Stop(e) \/ CancelChange(e)
    BY <1>3, StepStop, StepCancelChange
  <1>4. CASE \/ \E type \in UnitType : TrainEntity(e, type)
             \/ \E slot \in 1..MaxPaid : CancelTrain(e, slot)
    BY <1>4, StepTrainEntity, StepCancelTrain
  <1>5. CASE \E t \in Topic : StartResearch(e, t) \/ CancelResearch(e, t)
    BY <1>5, StepStartResearch, StepCancelResearch
  <1> QED
    BY <1>1, <1>2, <1>3, <1>4, <1>5

\* A field or a buff switches an entity off or on.
LEMMA StepOutage ==
  ASSUME UnitsInv, NEW e \in Entity, NEW outage \in {"none", "field", "orphaned"},
         Outage(e, outage)
  PROVE  UnitsInv'
  <1>1. PICK u : u = unit[e]
    OBVIOUS
  <1>2. PICK v : v = [u EXCEPT !.outage = outage]
    OBVIOUS
  <1>3. Becoming(e, Bare(v)) /\ Same /\ Waits /\ Commands
    BY <1>1, <1>2 DEF Outage
  <1>4. Fit(u)
    BY <1>1, UnitIs
  <1>5. Fit(v)
    BY <1>2, <1>4, FitOutage
  <1> QED
    BY <1>3, <1>5, AmidBare

\* A topic given to a player.
LEMMA StepGrant ==
  ASSUME UnitsInv, NEW p \in Player, NEW t \in Topic, Grant(p, t)
  PROVE  UnitsInv'
  <1>1. OrdersTypeOK /\ stage = "commands" /\ done \in [Player -> SUBSET Topic] /\ deeds \in Nat
    BY DEF UnitsInv, OrdersTypeOK, Grant, Commands
  <1>2. unit' = unit /\ stock' = stock /\ made' = made /\ stage' = stage /\ turn' = turn
        /\ deeds' = deeds - 1 /\ deeds > 0 /\ done' = [done EXCEPT ![p] = @ \cup {t}]
    BY DEF Grant, Waits, Commands
  <1>3. done' \in [Player -> SUBSET Topic]
    BY <1>1, <1>2
  <1>4. deeds' \in Nat
    BY <1>1, <1>2
  <1>5. OrdersTypeOK'
    BY <1>1, <1>2, <1>3, <1>4 DEF OrdersTypeOK
  <1>6. \A e \in Entity : ~Past(e)'
    BY <1>1, <1>2 DEF Past
  <1> QED
    BY <1>2, <1>5, <1>6 DEF UnitsInv

\* A death from outside.
LEMMA StepKill ==
  ASSUME UnitsInv, NEW e \in Entity, Kill(e)
  PROVE  UnitsInv'
  <1>1. PICK u : u = unit[e]
    OBVIOUS
  <1>2. PICK v : v = [StartDying(u) EXCEPT !.queue = Push(@, "Die", "force")]
    OBVIOUS
  <1>3. Becoming(e, Bare(v)) /\ Same /\ Waits /\ Amid(e) /\ u.life = "alive"
    BY <1>1, <1>2 DEF Kill, Amid, Alive
  <1>4. Fit(u)
    BY <1>1, UnitIs
  <1>5. u \in Components /\ Linked(u.queue) /\ Swept(u.queue) /\ Driven(u)
        /\ \A i \in DOMAIN u.queue : u.queue[i].order # "Die"
    BY <1>3, <1>4 DEF Fit, Living
  <1>6. Fit(v)
    BY <1>2, <1>5, FitDies
  <1> QED
    BY <1>3, <1>6, AmidBare

\* A capture.
LEMMA StepChangeOwner ==
  ASSUME UnitsInv, NEW e \in Entity, NEW p \in Player, ChangeOwner(e, p)
  PROVE  UnitsInv'
  <1>1. PICK u : u = unit[e]
    OBVIOUS
  <1>2. PICK kept \in 0 .. 1 : kept = IF Changing(u) THEN 1 ELSE 0
    OBVIOUS
  <1>3. PICK r : r = DropOrders(u, "force", kept, FALSE)
    OBVIOUS
  <1>4. PICK w : w = r.unit
    OBVIOUS
  <1>5. PICK v : v = [w EXCEPT !.owner = p]
    OBVIOUS
  <1>6. Amid(e) /\ Same /\ Waits /\ u.life = "alive" /\ stock' = stock
        /\ unit' = [unit EXCEPT ![e] = v]
    BY <1>1, <1>2, <1>3, <1>4, <1>5 DEF ChangeOwner, Amid, Alive
  <1>7. Fit(u)
    BY <1>1, UnitIs
  <1>8. DropLeaves(u, "force", kept, r)
    <2>1. "force" \in Policy
      BY DEF Policy
    <2>2. kept = 1 <=> Changing(u)
      BY <1>2
    <2>3. u.life = "alive"
      BY <1>6
    <2> QED
      BY <1>3, <1>7, <2>1, <2>2, <2>3, FitDrop
  <1>9. Fit(w)
    BY <1>4, <1>8 DEF DropLeaves
  <1>10. Fit(v)
    BY <1>5, <1>9, FitOwner
  <1>11. /\ stage = "process" /\ stage' = stage /\ turn' = turn /\ made' = made /\ done' = done
         /\ deeds' \in Nat
    BY <1>6 DEF Amid, Waits, Same, UnitsInv, OrdersTypeOK
  <1>12. \A f \in Entity : ~Past(f)'
    BY <1>11 DEF Past
  <1>13. /\ stock' \in [Player -> Nat] /\ made' \in [Player -> Nat]
         /\ done' \in [Player -> SUBSET Topic] /\ stage' \in DOMAIN Following /\ turn' \in Entity
    BY <1>6, <1>11 DEF UnitsInv, OrdersTypeOK
  <1> QED
    BY <1>6, <1>10, <1>11, <1>12, <1>13, UnitStep

\* An entity taken aboard, or set down elsewhere.
LEMMA StepDisplace ==
  ASSUME UnitsInv, NEW e \in Entity, NEW aboard \in BOOLEAN, Displace(e, aboard)
  PROVE  UnitsInv'
  <1>1. PICK u : u = unit[e]
    OBVIOUS
  <1>2. PICK r : r = DropOrders(u, "soft", 0, FALSE)
    OBVIOUS
  <1>3. PICK w : w = r.unit
    OBVIOUS
  <1>4. PICK v : v = [w EXCEPT !.aboard = aboard]
    OBVIOUS
  <1>5. PICK s : s = [r EXCEPT !.unit.aboard = aboard]
    OBVIOUS
  <1>6. Amid(e) /\ Same /\ Waits /\ u.life = "alive" /\ ~Changing(u) /\ Becoming(e, s)
    BY <1>1, <1>2, <1>5 DEF Displace, Amid, Alive
  <1>7. Fit(u) /\ stock[u.owner] \in Nat
    BY <1>1, UnitIs
  <1>8. DropLeaves(u, "soft", 0, r)
    <2>1. "soft" \in Policy /\ 0 \in 0 .. 1
      BY DEF Policy
    <2>2. 0 = 1 <=> Changing(u)
      BY <1>6
    <2>3. u.life = "alive" /\ Fit(u)
      BY <1>6, <1>7
    <2> QED
      BY <1>2, <2>1, <2>2, <2>3, FitDrop
  <1>9. Fit(w) /\ ~w.crossing /\ r.gain = 0
    BY <1>3, <1>8 DEF DropLeaves
  <1>10. Fit(v)
    BY <1>4, <1>9, FitAboard
  <1>11. r = [unit |-> w, gain |-> 0]
    <2>1. r.unit = w /\ r.gain = 0
      BY <1>3, <1>9
    <2>2. \E a, b : r = [unit |-> a, gain |-> b]
      BY <1>2 DEF DropOrders, FlushCanceled
    <2> QED
      BY <2>1, <2>2
  <1>12. s.unit = v /\ s.gain = 0
    BY <1>4, <1>5, <1>11
  <1>13. Fit(s.unit) /\ stock[unit[e].owner] + s.gain \in Nat
    BY <1>1, <1>7, <1>10, <1>12
  <1> QED
    BY <1>6, <1>13, AmidStep

\* An entity let out of its holder.
LEMMA StepLetOut ==
  ASSUME UnitsInv, NEW e \in Entity, NEW sent \in BOOLEAN, LetOut(e, sent)
  PROVE  UnitsInv'
  <1>1. PICK u : u = unit[e]
    OBVIOUS
  <1>2. PICK v : v = [u EXCEPT !.aboard = FALSE,
                               !.queue = IF sent THEN Push(@, "Move", Unmarked) ELSE @]
    OBVIOUS
  <1>3. Becoming(e, Bare(v)) /\ Same /\ Waits /\ Amid(e) /\ u.life = "alive" /\ u.aboard
    BY <1>1, <1>2 DEF LetOut, Amid, Alive
  <1>4. Fit(u)
    BY <1>1, UnitIs
  <1>5. Fit(v)
    BY <1>2, <1>3, <1>4, FitLetOut
  <1> QED
    BY <1>3, <1>5, AmidBare

\* An idle entity asked out of the way.
LEMMA StepMakeWay ==
  ASSUME UnitsInv, NEW e \in Entity, MakeWay(e)
  PROVE  UnitsInv'
  <1>1. PICK u : u = unit[e]
    OBVIOUS
  <1>2. PICK r : r = PrepareFront([u EXCEPT !.queue = <<Entry("Move")>>], TRUE, 0)
    OBVIOUS
  <1>3. Becoming(e, r) /\ Same /\ Waits /\ Amid(e) /\ u.life = "alive" /\ u.queue = <<>>
    BY <1>1, <1>2 DEF MakeWay, Amid, Alive
  <1>4. Fit(u) /\ stock[u.owner] \in Nat
    BY <1>1, UnitIs
  <1>5. Sent(u, r)
    BY <1>2, <1>3, <1>4, FitMakesWay
  <1>6. Fit(r.unit) /\ stock[unit[e].owner] + r.gain \in Nat
    BY <1>1, <1>4, <1>5 DEF Sent
  <1> QED
    BY <1>3, <1>6, AmidStep

\* What falls on an entity from outside its queue.
LEMMA StepOutside ==
  ASSUME UnitsInv, Outside
  PROVE  UnitsInv'
  <1>1. CASE \E p \in Player, t \in Topic : Grant(p, t)
    BY <1>1, StepGrant
  <1>2. CASE \E e \in Entity :
               \/ \E outage \in {"none", "field", "orphaned"} : Outage(e, outage)
               \/ Kill(e) \/ MakeWay(e)
               \/ \E p \in Player : ChangeOwner(e, p)
               \/ \E flag \in BOOLEAN : Displace(e, flag) \/ LetOut(e, flag)
    <2>1. PICK e \in Entity :
               \/ \E outage \in {"none", "field", "orphaned"} : Outage(e, outage)
               \/ Kill(e) \/ MakeWay(e)
               \/ \E p \in Player : ChangeOwner(e, p)
               \/ \E flag \in BOOLEAN : Displace(e, flag) \/ LetOut(e, flag)
      BY <1>2
    <2>2. CASE \E outage \in {"none", "field", "orphaned"} : Outage(e, outage)
      BY <2>2, StepOutage
    <2>3. CASE Kill(e) \/ MakeWay(e)
      BY <2>3, StepKill, StepMakeWay
    <2>4. CASE \E p \in Player : ChangeOwner(e, p)
      BY <2>4, StepChangeOwner
    <2>5. CASE \E flag \in BOOLEAN : Displace(e, flag) \/ LetOut(e, flag)
      BY <2>5, StepDisplace, StepLetOut
    <2> QED
      BY <2>1, <2>2, <2>3, <2>4, <2>5
  <1> QED
    BY <1>1, <1>2 DEF Outside

\* A turn that leaves every unit as it is.
LEMMA TurnIdle ==
  ASSUME UnitsInv, Advance, UNCHANGED deeds, UNCHANGED unit,
         stock' \in [Player -> Nat], made' \in [Player -> Nat], done' \in [Player -> SUBSET Topic],
         stage = "prepare" => ~Alive(turn)
  PROVE  UnitsInv'
  <1>1. OrdersTypeOK /\ unit' = unit /\ deeds' \in Nat
    BY DEF UnitsInv, OrdersTypeOK
  <1>2. /\ stage' \in DOMAIN Following /\ turn' \in Entity
        /\ \A e \in Entity : Past(e)' => Past(e) \/ (stage = "prepare" /\ e = turn)
    BY <1>1, AdvanceIs
  <1>3. OrdersTypeOK'
    BY <1>1, <1>2 DEF OrdersTypeOK
  <1>4. \A e \in Entity : Fit(unit'[e])
    BY <1>1 DEF UnitsInv
  <1>5. ASSUME NEW e \in Entity, Past(e)', unit'[e].life = "alive" PROVE Poised(unit'[e])
    <2>1. Alive(e)
      BY <1>1, <1>5 DEF Alive
    <2>2. Past(e)
      BY <1>2, <1>5, <2>1
    <2> QED
      BY <1>1, <2>1, <2>2 DEF UnitsInv
  <1> QED
    BY <1>3, <1>4, <1>5 DEF UnitsInv, Alive

\* The last command of a tick, and a turn that reaches nobody.
LEMMA StepPass ==
  ASSUME UnitsInv, EndCommands \/ \E e \in Entity : Pass(e)
  PROVE  UnitsInv'
  <1>1. Advance /\ UNCHANGED <<unit, stock, done, made, deeds>>
    BY DEF EndCommands, Pass, Turn
  <1>2. stage = "prepare" => ~Alive(turn)
    BY DEF EndCommands, Pass, Turn, Phase, Alive
  <1>3. /\ stock' \in [Player -> Nat] /\ made' \in [Player -> Nat]
        /\ done' \in [Player -> SUBSET Topic]
    BY <1>1 DEF UnitsInv, OrdersTypeOK
  <1> QED
    BY <1>1, <1>2, <1>3, TurnIdle

\* Behind the last entry there is nothing.
LEMMA OneLeft ==
  ASSUME NEW q \in Seq(Entries), Len(q) = 1
  PROVE  q # <<>> /\ Tail(q) = <<>> /\ Tail(q) \in Seq(OrderEntry(Order))
  <1>1. q # <<>>
    OBVIOUS
  <1>2. Tail(q) \in Seq(Entries) /\ Len(Tail(q)) = Len(q) - 1
    BY <1>1, HeadTailProperties
  <1>3. PICK t : t = Tail(q)
    OBVIOUS
  <1>4. t \in Seq(Entries) /\ Len(t) = 0
    BY <1>2, <1>3
  <1>5. t = <<>>
    BY <1>4
  <1> QED
    BY <1>1, <1>2, <1>3, <1>5 DEF Entries

\* The tick of a death: it goes on for a while, or is over.
LEMMA FitGone ==
  ASSUME NEW u, NEW r, DeathRuns(u, r),
         NEW v, v = [r.unit EXCEPT !.queue = Tail(@), !.life = "gone", !.aboard = FALSE]
  PROVE  Fit(v) /\ v.queue = <<>> /\ v.drivers = {} /\ v.life = "gone" /\ v.owner = u.owner
  <1>1. PICK w : w = r.unit
    OBVIOUS
  <1>2. /\ w \in Components /\ Driven(w) /\ w.queue \in Seq(Entries)
        /\ w.owner = u.owner
        /\ Len(w.queue) = 1 /\ w.queue[1].order = "Die"
    BY <1>1 DEF DeathRuns, Fit, Dies, Components, Entries
  <1>3. DOMAIN w.queue = {1}
    <2>1. DOMAIN w.queue = 1 .. Len(w.queue)
      BY <1>2, QueueDomain
    <2> QED
      BY <1>2, <2>1
  <1>4. StartedIn(w.queue, DOMAIN w.queue) \subseteq {"Die"}
    <2>1. Kind("Die") = "Die"
      BY Kinds DEF Order
    <2> QED
      BY <1>2, <1>3, <2>1 DEF StartedIn
  <1>5. w.drivers = {} /\ w.change = "none" /\ ~w.crossing
    BY <1>2, <1>4 DEF Driven, Components
  <1>6. PICK t : t = Tail(w.queue)
    OBVIOUS
  <1>7. t = <<>> /\ t \in Seq(OrderEntry(Order))
    BY <1>2, <1>6, OneLeft
  <1>8. v = [w EXCEPT !.queue = t, !.life = "gone", !.aboard = FALSE]
    BY <1>1, <1>6
  <1>9. /\ v \in Components /\ v.queue = <<>> /\ v.drivers = {} /\ v.change = "none"
        /\ ~v.crossing /\ v.life = "gone" /\ v.owner = u.owner
    BY <1>2, <1>5, <1>7, <1>8 DEF Components
  <1>10. StartedIn(v.queue, DOMAIN v.queue) = {}
    BY <1>9 DEF StartedIn
  <1>11. Linked(v.queue) /\ Swept(v.queue) /\ Driven(v)
    BY <1>9, <1>10 DEF Linked, Swept, Driven
  <1> QED
    BY <1>9, <1>11 DEF Fit

\* A death that goes on.
LEMMA FitFades ==
  ASSUME NEW u \in Components, NEW r, DeathRuns(u, r), r.unit.left > 0,
         NEW v, v = [r.unit EXCEPT !.left = @ - 1]
  PROVE  Fit(v) /\ v.life = "dying" /\ v.owner = u.owner /\ v.queue = r.unit.queue
  <1>1. PICK w : w = r.unit
    OBVIOUS
  <1>2. w \in Components /\ Fit(w) /\ w.life = "dying" /\ w.owner = u.owner /\ w.left > 0
    BY <1>1 DEF DeathRuns, Fit
  <1>3. DyingTime \in Nat /\ w.left \in 0 .. DyingTime
    BY <1>2, OrdersAssumption DEF Components
  <1>4. w.left - 1 \in 0 .. DyingTime
    BY <1>2, <1>3
  <1>5. v = [w EXCEPT !.left = @ - 1]
    BY <1>1
  <1>6. /\ v \in Components /\ v.queue = w.queue /\ v.drivers = w.drivers /\ v.change = w.change
        /\ v.crossing = w.crossing /\ v.aboard = w.aboard /\ v.life = w.life /\ v.owner = w.owner
    BY <1>2, <1>4, <1>5 DEF Components
  <1>7. Driven(v)
    BY <1>2, <1>6 DEF Fit, Driven
  <1>8. Leaving(v)
    BY <1>2, <1>6 DEF Fit, Leaving
  <1>9. Linked(v.queue) /\ Swept(v.queue)
    BY <1>2, <1>6 DEF Fit
  <1> QED
    BY <1>1, <1>2, <1>6, <1>7, <1>8, <1>9 DEF Fit

\* What a unit becomes in a result that pays nothing.
LEMMA Rebare ==
  ASSUME NEW w, NEW v, NEW r, r = [unit |-> w, gain |-> 0]
  PROVE  [r EXCEPT !.unit = v] = Bare(v)
  BY DEF Bare

\* The death of u goes on, or is over.
Fades(e, r) ==
  \E v : /\ Becoming(e, Bare(v))
         /\ \/ r.unit.left > 0 /\ v = [r.unit EXCEPT !.left = @ - 1]
            \/ v = [r.unit EXCEPT !.queue = Tail(@), !.life = "gone", !.aboard = FALSE]

\* A turn of the dying: the death goes on, or is over.
LEMMA DeathTurn ==
  ASSUME UnitsInv, NEW e \in Entity, ProcessDying(e), NEW u, u = unit[e],
         NEW r, r = PrepareTick(u, TRUE, FALSE, 0)
  PROVE  /\ DeathRuns(u, r) /\ u.life = "dying" /\ Turn("dying", e) /\ Same
         /\ Fades(e, r)
  <1>1. Fit(u) /\ u.life = "dying" /\ Turn("dying", e) /\ Same
    BY UnitIs DEF ProcessDying
  <1>2. DeathRuns(u, r)
    BY <1>1, FitTickDying
  <1>3. r.unit.queue # <<>> /\ r.unit.queue[1].order = "Die" /\ r.gain = 0
    <2>1. Len(r.unit.queue) = 1 /\ r.unit.queue[1].order = "Die" /\ r.gain = 0
      BY <1>2 DEF DeathRuns, Dies
    <2>2. r.unit.queue \in Seq(Entries)
      BY <1>2 DEF DeathRuns, Fit, Components, Entries
    <2>3. r.unit.queue # <<>>
      BY <2>1, <2>2, OneLeft
    <2> QED
      BY <2>1, <2>3
  <1>4. \E a, b : r = [unit |-> a, gain |-> b]
    BY DEF PrepareTick
  <1>5. PICK w : w = r.unit
    OBVIOUS
  <1>6. r = [unit |-> w, gain |-> 0]
    BY <1>3, <1>4, <1>5
  <1>7. PICK v : v = IF w.left > 0 THEN [w EXCEPT !.left = @ - 1]
                     ELSE [w EXCEPT !.queue = Tail(@), !.life = "gone", !.aboard = FALSE]
    OBVIOUS
  <1>8. Becoming(e, [r EXCEPT !.unit = v])
    BY <1>3, <1>5, <1>7 DEF ProcessDying
  <1>9. [r EXCEPT !.unit = v] = Bare(v)
    BY <1>6, Rebare
  <1>10. Becoming(e, Bare(v))
    BY <1>8, <1>9
  <1> QED
    BY <1>1, <1>2, <1>5, <1>7, <1>10 DEF Fades

\* The dying, on their turn.
LEMMA StepProcessDying ==
  ASSUME UnitsInv, NEW e \in Entity, ProcessDying(e)
  PROVE  UnitsInv'
  <1>1. PICK u : u = unit[e]
    OBVIOUS
  <1>2. PICK r : r = PrepareTick(u, TRUE, FALSE, 0)
    OBVIOUS
  <1>3. PICK v : /\ Becoming(e, Bare(v))
                 /\ \/ r.unit.left > 0 /\ v = [r.unit EXCEPT !.left = @ - 1]
                    \/ v = [r.unit EXCEPT !.queue = Tail(@), !.life = "gone", !.aboard = FALSE]
    <2>1. Fades(e, r)
      BY <1>1, <1>2, DeathTurn
    <2> QED
      BY <2>1 DEF Fades
  <1>4. DeathRuns(u, r) /\ Turn("dying", e) /\ Same
    BY <1>1, <1>2, DeathTurn
  <1>5. u \in Components /\ stock[u.owner] \in Nat
    BY <1>1, UnitIs
  <1>6. Fit(v)
    BY <1>3, <1>4, <1>5, FitFades, FitGone
  <1>7. PICK s : s = Bare(v)
    OBVIOUS
  <1>8. s.unit = v /\ s.gain = 0
    BY <1>7, BareIs
  <1>9. Becoming(e, s) /\ Fit(s.unit) /\ stock[unit[e].owner] + s.gain \in Nat
    BY <1>1, <1>3, <1>5, <1>6, <1>7, <1>8
  <1>10. "dying" \notin {"prepare", "watch"}
    OBVIOUS
  <1> QED
    BY <1>4, <1>9, <1>10, TurnPays

\* A queue flushed and its front prepared.
LEMMA StepPrepare ==
  ASSUME UnitsInv, NEW e \in Entity, Prepare(e)
  PROVE  UnitsInv'
  <1>1. PICK u : u = unit[e]
    OBVIOUS
  <1>2. PICK funds : funds = stock[u.owner]
    OBVIOUS
  <1>3. PICK clear \in BOOLEAN, doomed \in BOOLEAN :
          Becoming(e, PrepareTick(u, clear, doomed, funds))
    BY <1>1, <1>2 DEF Prepare
  <1>4. PICK r : r = PrepareTick(u, clear, doomed, funds)
    OBVIOUS
  <1>5. Becoming(e, r) /\ Turn("prepare", e) /\ Same /\ u.life = "alive"
    BY <1>1, <1>3, <1>4 DEF Prepare, Alive
  <1>6. Fit(u) /\ funds \in Nat
    BY <1>1, <1>2, UnitIs
  <1>7. Fit(r.unit) /\ (r.unit.life = "alive" => Poised(r.unit)) /\ funds + r.gain \in Nat
    BY <1>4, <1>5, <1>6, FitTick
  <1>8. stock[unit[e].owner] + r.gain \in Nat
    BY <1>1, <1>2, <1>7
  <1> QED
    BY <1>5, <1>7, <1>8, TurnPays

\* A walk broken off for an enemy.
LEMMA StepWatch ==
  ASSUME UnitsInv, NEW e \in Entity, Watch(e)
  PROVE  UnitsInv'
  <1>1. PICK u : u = unit[e]
    OBVIOUS
  <1>2. PICK w : w = [CancelMove(u, u.queue[1], "force").unit EXCEPT !.queue = Fighting(@)]
    OBVIOUS
  <1>3. PICK r : r = PrepareFront(w, TRUE, 0)
    OBVIOUS
  <1>4. /\ Turn("watch", e) /\ Same /\ u.life = "alive"
        /\ UNCHANGED <<unit, stock>> \/ (Engages(u) /\ Becoming(e, r))
    BY <1>1, <1>2, <1>3 DEF Watch, Alive, Fighting
  <1>5. Fit(u) /\ stock[u.owner] \in Nat
    BY <1>1, UnitIs
  <1>6. CASE UNCHANGED <<unit, stock>>
    <2>1. Advance /\ UNCHANGED deeds /\ stage = "watch"
      BY <1>4 DEF Turn, Phase
    <2>2. /\ stock' \in [Player -> Nat] /\ made' \in [Player -> Nat]
          /\ done' \in [Player -> SUBSET Topic]
      BY <1>4, <1>6 DEF UnitsInv, OrdersTypeOK, Same
    <2> QED
      BY <1>6, <2>1, <2>2, TurnIdle
  <1>7. CASE Engages(u) /\ Becoming(e, r)
    <2>1. Poised(u)
      BY <1>1, <1>4 DEF UnitsInv, Past, Turn, Phase, Alive
    <2>2. Sent(u, r) /\ Poised(r.unit)
      BY <1>2, <1>3, <1>4, <1>5, <1>7, <2>1, FitWatch
    <2>3. Fit(r.unit) /\ stock[unit[e].owner] + r.gain \in Nat
      BY <1>1, <1>5, <2>2 DEF Sent
    <2> QED
      BY <1>4, <1>7, <2>2, <2>3, TurnPays
  <1> QED
    BY <1>4, <1>6, <1>7

\* A front that advances without paying.
LEMMA ProcessBare ==
  ASSUME UnitsInv, NEW e \in Entity, Turn("process", e), NEW v, Becoming(e, Bare(v)), Fit(v), Same
  PROVE  UnitsInv'
  <1>1. PICK s : s = Bare(v)
    OBVIOUS
  <1>2. s.unit = v /\ s.gain = 0
    BY <1>1, BareIs
  <1>3. Becoming(e, s) /\ Fit(s.unit) /\ stock[unit[e].owner] + s.gain \in Nat
    BY <1>1, <1>2, UnitIs
  <1>4. "process" \notin {"prepare", "watch"}
    OBVIOUS
  <1> QED
    BY <1>3, <1>4, TurnPays

\* A front that advances and leaves the unit as it is.
LEMMA ProcessSame ==
  ASSUME UnitsInv, NEW e \in Entity, Turn("process", e), UNCHANGED unit,
         stock' \in [Player -> Nat], made' \in [Player -> Nat], done' \in [Player -> SUBSET Topic]
  PROVE  UnitsInv'
  <1>1. Advance /\ UNCHANGED deeds /\ stage = "process"
    BY DEF Turn, Phase
  <1>2. stage = "prepare" => ~Alive(turn)
    BY <1>1
  <1> QED
    BY <1>1, <1>2, TurnIdle

\* The order a front runs, and the unit that runs it.
LEMMA AdvancesIs ==
  ASSUME UnitsInv, NEW e \in Entity, NEW kinds, Advances(e, kinds), NEW u, u = unit[e]
  PROVE  /\ Turn("process", e) /\ Fit(u) /\ u \in Components /\ u.life = "alive"
         /\ u.queue \in Seq(Entries) /\ u.queue # <<>> /\ 1 \in DOMAIN u.queue
         /\ u.queue[1].state = "running" /\ u.queue[1].order \in Order
         /\ Kind(u.queue[1].order) \in kinds
         /\ u.queue[1].order # "Die" /\ ~u.aboard
         /\ stock[u.owner] \in Nat /\ u.owner \in Player
  <1>1. /\ Turn("process", e) /\ u.life = "alive" /\ u.queue # <<>>
        /\ u.queue[1].state = "running" /\ Kind(u.queue[1].order) \in kinds
        /\ Conduct(u, u.queue[1]) = "completes"
    BY DEF Advances, Runs, Alive
  <1>2. Fit(u) /\ u \in Components /\ u.queue \in Seq(Entries) /\ stock[u.owner] \in Nat
        /\ u.owner \in Player
    BY UnitIs
  <1>3. 1 \in DOMAIN u.queue
    BY <1>1, <1>2
  <1>4. u.queue[1] \in Entries
    BY <1>2, <1>3
  <1>5. u.queue[1].order \in Order
    BY <1>4, EntryIs
  <1>6. u.queue[1].order # "Die"
    BY <1>1, <1>2, <1>3 DEF Fit, Living
  <1>7. ~u.aboard
    BY <1>1, <1>6 DEF Conduct
  <1> QED
    BY <1>1, <1>2, <1>3, <1>5, <1>6, <1>7

\* A walk goes on, or is over.
LEMMA StepProcessMove ==
  ASSUME UnitsInv, NEW e \in Entity, ProcessMove(e)
  PROVE  UnitsInv'
  <1>1. PICK u : u = unit[e]
    OBVIOUS
  <1>2. Advances(e, {"Move"}) /\ Same
    BY DEF ProcessMove
  <1>3. /\ Turn("process", e) /\ Fit(u) /\ u.life = "alive" /\ u.queue # <<>>
        /\ u.queue[1].state = "running" /\ u.queue[1].order \in Order
        /\ Kind(u.queue[1].order) = "Move" /\ ~u.aboard
    BY <1>1, <1>2, AdvancesIs
  <1>4. u.queue[1].order = "Move"
    BY <1>3 DEF Kind
  <1>5. \/ \E crossing \in BOOLEAN : Becoming(e, Bare([u EXCEPT !.crossing = crossing]))
        \/ Becoming(e, Bare([Finished(u) EXCEPT !.crossing = FALSE, !.winding = FALSE]))
    BY <1>1 DEF ProcessMove
  <1>6. CASE \E crossing \in BOOLEAN : Becoming(e, Bare([u EXCEPT !.crossing = crossing]))
    <2>1. PICK crossing \in BOOLEAN : Becoming(e, Bare([u EXCEPT !.crossing = crossing]))
      BY <1>6
    <2>2. PICK v : v = [u EXCEPT !.crossing = crossing]
      OBVIOUS
    <2>3. Fit(v)
      BY <1>3, <1>4, <2>2, FitCrossing
    <2>4. Becoming(e, Bare(v))
      BY <2>1, <2>2
    <2> QED
      BY <1>2, <1>3, <2>3, <2>4, ProcessBare
  <1>7. CASE Becoming(e, Bare([Finished(u) EXCEPT !.crossing = FALSE, !.winding = FALSE]))
    <2>1. PICK v : v = [Finished(u) EXCEPT !.crossing = FALSE, !.winding = FALSE]
      OBVIOUS
    <2>2. Fit(v)
      BY <1>3, <1>4, <2>1, FitArrived
    <2>3. Becoming(e, Bare(v))
      BY <1>7, <2>1
    <2> QED
      BY <1>2, <1>3, <2>2, <2>3, ProcessBare
  <1> QED
    BY <1>5, <1>6, <1>7

\* An order on foot waits for a sub-order, goes on, or is over.
LEMMA StepProcessOnFoot ==
  ASSUME UnitsInv, NEW e \in Entity, ProcessOnFoot(e)
  PROVE  UnitsInv'
  <1>1. PICK u : u = unit[e]
    OBVIOUS
  <1>2. Advances(e, OnFoot \ {"Move", "Patrol"}) /\ Same
    BY DEF ProcessOnFoot
  <1>3. /\ Turn("process", e) /\ Fit(u) /\ u.life = "alive" /\ u.queue # <<>>
        /\ u.queue[1].state = "running" /\ u.queue[1].order \in Order
        /\ Kind(u.queue[1].order) \in OnFoot \ {"Move", "Patrol"}
    BY <1>1, <1>2, AdvancesIs
  <1>4. u.queue[1].order \notin {"Move", "Morph", "Train"}
    BY <1>3 DEF Kind, OnFoot, Legs
  <1>5. \/ \E o \in SubOrders(u.queue[1].order) : Becoming(e, Bare(Suspended(u, o)))
        \/ Becoming(e, Bare(u))
        \/ Becoming(e, Bare(Finished(u)))
    BY <1>1 DEF ProcessOnFoot
  <1>6. CASE \E o \in SubOrders(u.queue[1].order) : Becoming(e, Bare(Suspended(u, o)))
    <2>1. PICK o \in SubOrders(u.queue[1].order) : Becoming(e, Bare(Suspended(u, o)))
      BY <1>6
    <2>2. PICK v : v = Suspended(u, o)
      OBVIOUS
    <2>3. Fit(v)
      BY <1>3, <2>2, FitSuspended
    <2>4. Becoming(e, Bare(v))
      BY <2>1, <2>2
    <2> QED
      BY <1>2, <1>3, <2>3, <2>4, ProcessBare
  <1>7. CASE Becoming(e, Bare(u))
    BY <1>2, <1>3, <1>7, ProcessBare
  <1>8. CASE Becoming(e, Bare(Finished(u)))
    <2>1. PICK v : v = Finished(u)
      OBVIOUS
    <2>2. Fit(v)
      BY <1>3, <1>4, <2>1, FitFinished
    <2>3. Becoming(e, Bare(v))
      BY <1>8, <2>1
    <2> QED
      BY <1>2, <1>3, <2>2, <2>3, ProcessBare
  <1> QED
    BY <1>5, <1>6, <1>7, <1>8

\* A patrol turns into its next leg.
LEMMA StepProcessPatrol ==
  ASSUME UnitsInv, NEW e \in Entity, ProcessPatrol(e)
  PROVE  UnitsInv'
  <1>1. PICK u : u = unit[e]
    OBVIOUS
  <1>2. Advances(e, {"Patrol"}) /\ Same
    BY DEF ProcessPatrol
  <1>3. /\ Turn("process", e) /\ Fit(u) /\ u.life = "alive" /\ u.queue # <<>>
        /\ u.queue[1].state = "running" /\ u.queue[1].order \in Order
        /\ Kind(u.queue[1].order) = "Patrol"
    BY <1>1, <1>2, AdvancesIs
  <1>4. "AttackMove" \in SubOrders(u.queue[1].order)
    BY <1>3 DEF Kind, SubOrders
  <1>5. PICK v : v = Suspended(u, "AttackMove")
    OBVIOUS
  <1>6. Becoming(e, Bare(u)) \/ Becoming(e, Bare(v))
    BY <1>1, <1>5 DEF ProcessPatrol
  <1>7. Fit(v)
    BY <1>3, <1>4, <1>5, FitSuspended
  <1> QED
    BY <1>2, <1>3, <1>6, <1>7, ProcessBare

\* What an entity that goes aboard leaves behind.
LEMMA FitBoards ==
  ASSUME NEW u, Fit(u), u.life = "alive", u.queue # <<>>, u.queue[1].state = "running",
         u.queue[1].order = "Board",
         NEW w, w = Finished(u), NEW r, r = DropOrders(w, "soft", 0, FALSE)
  PROVE  Fit(w) /\ w.owner = u.owner /\ w.paid = u.paid /\ w.life = "alive"
         /\ ~Changing(w) /\ DropLeaves(w, "soft", 0, r)
  <1>1. Fit(w) /\ w.life = "alive" /\ w.owner = u.owner /\ w.paid = u.paid
    BY FitFinished
  <1>2. ~Changing(u)
    <2>1. u \in Components /\ Linked(u.queue) /\ Driven(u)
      BY DEF Fit
    <2>2. u.change = "none"
      BY <2>1, ChangingFront
    <2> QED
      BY <2>2 DEF Changing
  <1>3. w.change = u.change
    <2>1. u \in Components
      BY DEF Fit
    <2> QED
      BY <2>1 DEF Finished, Without, Components
  <1>4. ~Changing(w)
    BY <1>2, <1>3 DEF Changing
  <1>5. "soft" \in Policy /\ 0 \in 0 .. 1 /\ (0 = 1 <=> Changing(w))
    BY <1>4 DEF Policy
  <1>6. DropLeaves(w, "soft", 0, r)
    BY <1>1, <1>5, FitDrop
  <1> QED
    BY <1>1, <1>4, <1>6

\* The result of a drop is a unit and what is paid back.
LEMMA DropShape ==
  ASSUME NEW u, NEW policy, NEW kept, NEW doomed, NEW r, r = DropOrders(u, policy, kept, doomed),
         r.gain = 0
  PROVE  r = [unit |-> r.unit, gain |-> 0]
  <1>1. \E a, b : r = [unit |-> a, gain |-> b]
    BY DEF DropOrders, FlushCanceled
  <1> QED
    BY <1>1

\* An entity that goes aboard.
LEMMA StepBoardHolder ==
  ASSUME UnitsInv, NEW e \in Entity, BoardHolder(e)
  PROVE  UnitsInv'
  <1>1. PICK u : u = unit[e]
    OBVIOUS
  <1>2. Advances(e, {"Board"}) /\ Same
    BY DEF BoardHolder
  <1>3. /\ Turn("process", e) /\ Fit(u) /\ u.life = "alive" /\ u.queue # <<>>
        /\ u.queue[1].state = "running" /\ u.queue[1].order \in Order
        /\ Kind(u.queue[1].order) = "Board"
    BY <1>1, <1>2, AdvancesIs
  <1>4. u.queue[1].order = "Board"
    BY <1>3 DEF Kind
  <1>5. PICK w : w = Finished(u)
    OBVIOUS
  <1>6. PICK r : r = DropOrders(w, "soft", 0, FALSE)
    OBVIOUS
  <1>7. PICK x : x = r.unit
    OBVIOUS
  <1>8. PICK v : v = [x EXCEPT !.aboard = TRUE]
    OBVIOUS
  <1>9. DropLeaves(w, "soft", 0, r)
    BY <1>3, <1>4, <1>5, <1>6, FitBoards
  <1>10. Fit(x) /\ ~x.crossing /\ r.gain = 0
    BY <1>7, <1>9 DEF DropLeaves
  <1>11. Fit(v)
    BY <1>8, <1>10, FitAboard
  <1>12. r = [unit |-> x, gain |-> 0]
    BY <1>6, <1>7, <1>10, DropShape
  <1>13. PICK s : s = [r EXCEPT !.unit.aboard = TRUE]
    OBVIOUS
  <1>14. Becoming(e, s)
    BY <1>1, <1>5, <1>6, <1>13 DEF BoardHolder
  <1>15. s.unit = v /\ s.gain = 0
    BY <1>8, <1>12, <1>13
  <1>16. Becoming(e, Bare(v))
    BY <1>14, <1>15, BareIs DEF Becoming
  <1> QED
    BY <1>2, <1>3, <1>11, <1>16, ProcessBare

\* The front of a queue of units, and what is behind it.
LEMMA PaidTail ==
  ASSUME NEW paid \in Seq(UnitType), paid # <<>>
  PROVE  Tail(paid) \in Seq(UnitType) /\ Len(Tail(paid)) = Len(paid) - 1
  BY HeadTailProperties

\* A trained unit stands, or the one in progress is dropped.
LEMMA FitTrained ==
  ASSUME NEW u, Fit(u), u.life = "alive", u.queue # <<>>, u.queue[1].state = "running",
         u.queue[1].order = "Train", u.paid # <<>>,
         NEW fewer, fewer = [u EXCEPT !.paid = Tail(@)]
  PROVE  /\ Fit(fewer) /\ fewer.life = "alive" /\ fewer.owner = u.owner
         /\ fewer.queue = u.queue /\ fewer.paid = Tail(u.paid)
         /\ fewer.paid = <<>> => Fit(Finished(fewer))
  <1>1. u \in Components /\ u.paid \in Seq(UnitType) /\ u.queue \in Seq(Entries)
    BY DEF Fit, Components, Entries
  <1>2. PICK t : t = Tail(u.paid)
    OBVIOUS
  <1>3. t \in Seq(UnitType)
    BY <1>1, <1>2, PaidTail
  <1>4. fewer = [u EXCEPT !.paid = t]
    BY <1>2
  <1>5. Trains[u.form] # {}
    BY DEF Fit, Living
  <1>6. Holds(u.queue, "Train")
    <2>1. 1 \in DOMAIN u.queue
      BY <1>1
    <2> QED
      BY <2>1 DEF Holds
  <1>7. Fit(fewer)
    BY <1>3, <1>4, <1>5, <1>6, FitPaid
  <1>8. fewer.life = "alive" /\ fewer.owner = u.owner /\ fewer.queue = u.queue /\ fewer.paid = t
    BY <1>1, <1>4 DEF Components
  <1>9. ASSUME fewer.paid = <<>> PROVE Fit(Finished(fewer))
    <2>1. fewer.queue # <<>> /\ fewer.queue[1].state = "running"
          /\ fewer.queue[1].order \notin {"Move", "Morph"}
      BY <1>8
    <2> QED
      BY <1>7, <1>8, <1>9, <2>1, FitFinished
  <1> QED
    BY <1>2, <1>7, <1>8, <1>9

\* Production of units: it waits, stands, drops what the form cannot train, or is over.
LEMMA StepProcessTrain ==
  ASSUME UnitsInv, NEW e \in Entity, ProcessTrain(e)
  PROVE  UnitsInv'
  <1>1. PICK u : u = unit[e]
    OBVIOUS
  <1>2. Advances(e, {"Train"}) /\ UNCHANGED <<stock, done>>
    BY DEF ProcessTrain
  <1>3. /\ Turn("process", e) /\ Fit(u) /\ u.life = "alive" /\ u.queue # <<>>
        /\ u.queue[1].state = "running" /\ u.queue[1].order \in Order
        /\ Kind(u.queue[1].order) = "Train" /\ u.owner \in Player
    BY <1>1, <1>2, AdvancesIs
  <1>4. u.queue[1].order = "Train"
    BY <1>3 DEF Kind
  <1>5. PICK fewer : fewer = [u EXCEPT !.paid = Tail(@)]
    OBVIOUS
  <1>6. PICK v : v = IF fewer.paid = <<>> THEN Finished(fewer) ELSE fewer
    OBVIOUS
  <1>7. \/ u.paid = <<>> /\ unit' = [unit EXCEPT ![e] = Finished(u)] /\ UNCHANGED made
        \/ UNCHANGED <<unit, made>>
        \/ u.paid # <<>> /\ unit' = [unit EXCEPT ![e] = v] /\ made' = [made EXCEPT ![u.owner] = @ + 1]
        \/ u.paid # <<>> /\ unit' = [unit EXCEPT ![e] = fewer] /\ UNCHANGED made
    BY <1>1, <1>5, <1>6 DEF ProcessTrain
  <1>8. /\ stock' \in [Player -> Nat] /\ done' \in [Player -> SUBSET Topic]
        /\ made \in [Player -> Nat] /\ made' \in [Player -> Nat]
    <2>1. made \in [Player -> Nat]
      BY DEF UnitsInv, OrdersTypeOK
    <2>2. made' = made \/ made' = [made EXCEPT ![u.owner] = @ + 1]
      BY <1>7
    <2>3. made' \in [Player -> Nat]
      BY <2>1, <2>2
    <2> QED
      BY <1>2, <2>1, <2>3 DEF UnitsInv, OrdersTypeOK
  <1>9. "process" \notin {"prepare", "watch"}
    OBVIOUS
  <1>10. CASE UNCHANGED <<unit, made>>
    BY <1>3, <1>8, <1>10, ProcessSame
  <1>11. CASE u.paid = <<>> /\ unit' = [unit EXCEPT ![e] = Finished(u)]
    <2>1. PICK w : w = Finished(u)
      OBVIOUS
    <2>2. Fit(w)
      BY <1>3, <1>4, <1>11, <2>1, FitFinished
    <2>3. unit' = [unit EXCEPT ![e] = w]
      BY <1>11, <2>1
    <2> QED
      BY <1>3, <1>8, <1>9, <2>2, <2>3, TurnStep
  <1>12. CASE u.paid # <<>> /\ unit' = [unit EXCEPT ![e] = v]
    <2>1. Fit(fewer) /\ (fewer.paid = <<>> => Fit(Finished(fewer)))
      BY <1>3, <1>4, <1>5, <1>12, FitTrained
    <2>2. Fit(v)
      BY <1>6, <2>1
    <2> QED
      BY <1>3, <1>8, <1>9, <1>12, <2>2, TurnStep
  <1>13. CASE u.paid # <<>> /\ unit' = [unit EXCEPT ![e] = fewer]
    <2>1. Fit(fewer)
      BY <1>3, <1>4, <1>5, <1>13, FitTrained
    <2> QED
      BY <1>3, <1>8, <1>9, <1>13, <2>1, TurnStep
  <1> QED
    BY <1>7, <1>10, <1>11, <1>12, <1>13

\* A topic goes on, is completed, or is paid back.
LEMMA StepProcessResearch ==
  ASSUME UnitsInv, NEW e \in Entity, ProcessResearch(e)
  PROVE  UnitsInv'
  <1>1. PICK u : u = unit[e]
    OBVIOUS
  <1>2. Advances(e, {"Research"}) /\ UNCHANGED made
    BY DEF ProcessResearch
  <1>3. /\ Turn("process", e) /\ Fit(u) /\ u.life = "alive" /\ u.queue # <<>>
        /\ u.queue[1].state = "running" /\ u.queue[1].order \in Order
        /\ Kind(u.queue[1].order) = "Research" /\ u.owner \in Player /\ stock[u.owner] \in Nat
    BY <1>1, <1>2, AdvancesIs
  <1>4. u.queue[1].order \in Topic /\ u.queue[1].order \notin {"Move", "Morph", "Train"}
    <2>1. u.queue[1].order \in Topic
      BY <1>3, Kinds DEF OnFoot, Legs
    <2> QED
      BY <2>1, OrdersAssumption DEF OnFoot
  <1>5. PICK v : v = Finished(u)
    OBVIOUS
  <1>6. PICK t \in Topic : t = u.queue[1].order
    BY <1>4
  <1>7. PICK r : r = [unit |-> v, gain |-> 1]
    OBVIOUS
  <1>8. \/ Becoming(e, r) /\ UNCHANGED done
        \/ UNCHANGED <<unit, stock, done>>
        \/ Becoming(e, Bare(v)) /\ done' = [done EXCEPT ![u.owner] = @ \cup {t}]
    BY <1>1, <1>5, <1>6, <1>7 DEF ProcessResearch
  <1>9. Fit(v)
    BY <1>3, <1>4, <1>5, FitFinished
  <1>10. /\ made' \in [Player -> Nat] /\ stock \in [Player -> Nat]
         /\ done' \in [Player -> SUBSET Topic]
    <2>1. done \in [Player -> SUBSET Topic] /\ stock \in [Player -> Nat] /\ made \in [Player -> Nat]
      BY DEF UnitsInv, OrdersTypeOK
    <2>2. done' = done \/ done' = [done EXCEPT ![u.owner] = @ \cup {t}]
      BY <1>8
    <2>3. done' \in [Player -> SUBSET Topic]
      BY <2>1, <2>2
    <2> QED
      BY <1>2, <2>1, <2>3
  <1>11. "process" \notin {"prepare", "watch"}
    OBVIOUS
  <1>12. CASE UNCHANGED <<unit, stock, done>>
    BY <1>3, <1>10, <1>12, ProcessSame
  <1>13. CASE Becoming(e, r) /\ UNCHANGED done
    <2>1. Fit(r.unit) /\ stock[unit[e].owner] + r.gain \in Nat
      BY <1>1, <1>3, <1>7, <1>9
    <2>2. Same
      BY <1>2, <1>13 DEF Same
    <2> QED
      BY <1>3, <1>11, <1>13, <2>1, <2>2, TurnPays
  <1>14. CASE Becoming(e, Bare(v))
    <2>1. PICK s : s = Bare(v)
      OBVIOUS
    <2>2. s.unit = v /\ s.gain = 0 /\ Becoming(e, s)
      BY <1>14, <2>1, BareIs
    <2>3. stock' \in [Player -> Nat]
      <3>1. stock[unit[e].owner] + s.gain \in Nat
        BY <1>1, <1>3, <2>2
      <3> QED
        BY <2>2, <3>1, Paying DEF UnitsInv
    <2>4. unit' = [unit EXCEPT ![e] = v]
      BY <2>2 DEF Becoming
    <2> QED
      BY <1>3, <1>9, <1>10, <1>11, <2>3, <2>4, TurnStep
  <1> QED
    BY <1>8, <1>12, <1>13, <1>14

\* The unit left by a change of form that is given up, or over without a new form.
AsItWas(u) == [Finished(u) EXCEPT !.change = "none"]

\* It is whole.
LEMMA FitStays ==
  ASSUME NEW u, Fit(u), u.life = "alive", u.change # "none", u.queue[1].state = "running",
         NEW v, v = AsItWas(u)
  PROVE  Fit(v) /\ v.life = "alive" /\ v.owner = u.owner /\ v.paid = u.paid
         /\ v.change = "none" /\ v.queue = Tail(u.queue)
  <1>1. PICK w : w = Finished(u)
    OBVIOUS
  <1>2. PICK form : form = u.form
    OBVIOUS
  <1>3. PICK paid : paid = u.paid
    OBVIOUS
  <1>4. u \in Components /\ Linked(u.queue) /\ Driven(u) /\ Living(u)
    BY DEF Fit
  <1>5. u.queue # <<>>
    BY <1>4, ChangingFront
  <1>6. w \in Components /\ w.queue = Tail(u.queue) /\ w.form = form /\ w.paid = paid
    BY <1>1, <1>2, <1>3, <1>4, <1>5, FinishedIs
  <1>7. v = [w EXCEPT !.change = "none"]
    BY <1>1 DEF AsItWas
  <1>8. /\ v \in Components /\ Kept([w EXCEPT !.form = form], v) /\ v.drivers = w.drivers
        /\ v.crossing = w.crossing /\ v.change = "none" /\ v.paid = paid
        /\ v.queue = Tail(u.queue)
    BY <1>6, <1>7 DEF Kept, Components
  <1>9. form \in Form /\ paid \in Seq(UnitType)
    BY <1>2, <1>3, <1>4 DEF Components
  <1>10. paid # <<>> => Trains[form] # {} /\ u.paid # <<>>
    BY <1>2, <1>3, <1>4 DEF Living
  <1>11. Fit(v) /\ v.life = "alive" /\ v.owner = u.owner /\ v.paid = paid
    BY <1>1, <1>8, <1>9, <1>10, FitChanged
  <1> QED
    BY <1>3, <1>8, <1>11

\* A change of form that lands.
LEMMA FitLanded ==
  ASSUME NEW u, Fit(u), u.life = "alive", u.change # "none", u.queue[1].state = "running",
         NEW v, v = Landed(u)
  PROVE  /\ Fit(v) /\ v.life = "alive" /\ v.owner = u.owner /\ v.change = "none"
         /\ v.paid = u.paid \/ v.paid = <<>>
         /\ v.queue = Tail(u.queue)
  <1>1. PICK w : w = Finished(u)
    OBVIOUS
  <1>2. PICK form : form = Becomes[u.form]
    OBVIOUS
  <1>3. PICK paid : paid = IF Trains[form] # {} THEN u.paid ELSE <<>>
    OBVIOUS
  <1>4. u \in Components /\ Linked(u.queue) /\ Driven(u) /\ Living(u)
    BY DEF Fit
  <1>5. u.queue # <<>>
    BY <1>4, ChangingFront
  <1>6. w \in Components /\ w.queue = Tail(u.queue) /\ w.paid = u.paid
    BY <1>1, <1>4, <1>5, FinishedIs
  <1>7. form \in Form /\ paid \in Seq(UnitType)
    BY <1>2, <1>3, <1>4, OrdersAssumption DEF Components
  <1>8. v = [w EXCEPT !.form = form, !.change = "none", !.paid = paid]
    BY <1>1, <1>2, <1>3, <1>6 DEF Landed
  <1>9. /\ v \in Components /\ Kept([w EXCEPT !.form = form], v) /\ v.drivers = w.drivers
        /\ v.crossing = w.crossing /\ v.change = "none" /\ v.paid = paid
        /\ v.queue = Tail(u.queue)
    BY <1>6, <1>7, <1>8 DEF Kept, Components
  <1>10. paid # <<>> => Trains[form] # {} /\ u.paid # <<>>
    BY <1>3
  <1>11. Fit(v) /\ v.life = "alive" /\ v.owner = u.owner /\ v.paid = paid
    BY <1>1, <1>7, <1>9, <1>10, FitChanged
  <1> QED
    BY <1>3, <1>9, <1>11

\* A change of form that kills.
LEMMA FitPerishes ==
  ASSUME NEW w, Fit(w), w.life = "alive",
         NEW v, v = [StartDying(w) EXCEPT !.queue = Push(@, "Die", "force")]
  PROVE  Fit(v) /\ v.life = "dying" /\ v.owner = w.owner
  <1>1. w \in Components /\ Linked(w.queue) /\ Swept(w.queue) /\ Driven(w)
        /\ \A i \in DOMAIN w.queue : w.queue[i].order # "Die"
    BY DEF Fit, Living
  <1> QED
    BY <1>1, FitDies

\* A change of form that still waits for its ground begins, waits, or gives up.
LEMMA StepProcessClearing ==
  ASSUME UnitsInv, NEW e \in Entity, ProcessClearing(e)
  PROVE  UnitsInv'
  <1>1. PICK u : u = unit[e]
    OBVIOUS
  <1>2. Advances(e, {"Morph"}) /\ Same /\ u.change = "clearing"
    BY <1>1 DEF ProcessClearing
  <1>3. /\ Turn("process", e) /\ Fit(u) /\ u.life = "alive"
        /\ u.queue[1].state = "running" /\ stock[u.owner] \in Nat
    BY <1>1, <1>2, AdvancesIs
  <1>4. u.change # "none"
    BY <1>2
  <1>5. PICK x : x = [u EXCEPT !.change = "underWay"]
    OBVIOUS
  <1>6. PICK v : v = AsItWas(u)
    OBVIOUS
  <1>7. PICK r : r = [unit |-> x, gain |-> -1]
    OBVIOUS
  <1>8. \/ stock[u.owner] > 0 /\ Becoming(e, r)
        \/ Becoming(e, Bare(u))
        \/ Becoming(e, Bare(v))
    BY <1>1, <1>5, <1>6, <1>7 DEF ProcessClearing, AsItWas
  <1>9. CASE stock[u.owner] > 0 /\ Becoming(e, r)
    <2>1. Fit(x)
      BY <1>3, <1>4, <1>5, FitBegun
    <2>2. Fit(r.unit) /\ stock[unit[e].owner] + r.gain \in Nat
      BY <1>1, <1>3, <1>7, <1>9, <2>1
    <2>3. "process" \notin {"prepare", "watch"}
      OBVIOUS
    <2> QED
      BY <1>2, <1>3, <1>9, <2>2, <2>3, TurnPays
  <1>10. CASE Becoming(e, Bare(u))
    BY <1>2, <1>3, <1>10, ProcessBare
  <1>11. CASE Becoming(e, Bare(v))
    <2>1. Fit(v)
      BY <1>3, <1>4, <1>6, FitStays
    <2> QED
      BY <1>2, <1>3, <1>11, <2>1, ProcessBare
  <1> QED
    BY <1>8, <1>9, <1>10, <1>11

\* A change of form under way goes on, lands, fizzles out, or kills.
LEMMA StepProcessMorph ==
  ASSUME UnitsInv, NEW e \in Entity, ProcessMorph(e)
  PROVE  UnitsInv'
  <1>1. PICK u : u = unit[e]
    OBVIOUS
  <1>2. Advances(e, {"Morph"}) /\ Same /\ Changing(u)
    BY <1>1 DEF ProcessMorph
  <1>3. /\ Turn("process", e) /\ Fit(u) /\ u.life = "alive"
        /\ u.queue[1].state = "running" /\ stock[u.owner] \in Nat
    BY <1>1, <1>2, AdvancesIs
  <1>4. u.change # "none"
    BY <1>2 DEF Changing
  <1>5. PICK w : w = AsItWas(u)
    OBVIOUS
  <1>6. PICK back \in 0 .. 1 : back = IF Terms[u.form] = "refundable" THEN 1 ELSE 0
    OBVIOUS
  <1>7. PICK x : x = [StartDying(w) EXCEPT !.queue = Push(@, "Die", "force")]
    OBVIOUS
  <1>8. PICK y : y = Landed(u)
    OBVIOUS
  <1>9. \/ Becoming(e, Bare(u)) \/ Becoming(e, Bare(y))
        \/ \E v \in {w, x} : Becoming(e, [unit |-> v, gain |-> back])
    BY <1>1, <1>5, <1>6, <1>7, <1>8 DEF ProcessMorph, AsItWas
  <1>10. Fit(w) /\ w.life = "alive"
    BY <1>3, <1>4, <1>5, FitStays
  <1>11. Fit(x)
    BY <1>7, <1>10, FitPerishes
  <1>12. Fit(y)
    BY <1>3, <1>4, <1>8, FitLanded
  <1>13. CASE Becoming(e, Bare(u)) \/ Becoming(e, Bare(y))
    BY <1>2, <1>3, <1>12, <1>13, ProcessBare
  <1>14. CASE \E v \in {w, x} : Becoming(e, [unit |-> v, gain |-> back])
    <2>1. PICK v \in {w, x} : Becoming(e, [unit |-> v, gain |-> back])
      BY <1>14
    <2>2. PICK r : r = [unit |-> v, gain |-> back]
      OBVIOUS
    <2>3. Becoming(e, r) /\ Fit(r.unit)
      BY <1>10, <1>11, <2>1, <2>2
    <2>4. stock[unit[e].owner] + r.gain \in Nat
      BY <1>1, <1>3, <1>6, <2>2
    <2>5. "process" \notin {"prepare", "watch"}
      OBVIOUS
    <2> QED
      BY <1>2, <1>3, <2>3, <2>4, <2>5, TurnPays
  <1> QED
    BY <1>9, <1>13, <1>14

\* Who has nothing to run.
LEMMA StepIdles ==
  ASSUME UnitsInv, NEW e \in Entity, Idles(e)
  PROVE  UnitsInv'
  <1>1. Turn("process", e) /\ UNCHANGED <<unit, stock, done, made>>
    BY DEF Idles
  <1>2. /\ stock' \in [Player -> Nat] /\ made' \in [Player -> Nat]
        /\ done' \in [Player -> SUBSET Topic]
    BY <1>1 DEF UnitsInv, OrdersTypeOK
  <1> QED
    BY <1>1, <1>2, ProcessSame

\* A front on its turn.
LEMMA StepProcess ==
  ASSUME UnitsInv, NEW e \in Entity, Process(e)
  PROVE  UnitsInv'
  <1>1. \/ Idles(e) \/ ProcessMove(e) \/ ProcessOnFoot(e) \/ ProcessPatrol(e)
        \/ BoardHolder(e) \/ ProcessTrain(e) \/ ProcessResearch(e)
        \/ ProcessClearing(e) \/ ProcessMorph(e)
    BY DEF Process
  <1>2. CASE Idles(e) \/ ProcessMove(e) \/ ProcessOnFoot(e) \/ ProcessPatrol(e)
    BY <1>2, StepIdles, StepProcessMove, StepProcessOnFoot, StepProcessPatrol
  <1>3. CASE BoardHolder(e) \/ ProcessTrain(e) \/ ProcessResearch(e)
    BY <1>3, StepBoardHolder, StepProcessTrain, StepProcessResearch
  <1>4. CASE ProcessClearing(e) \/ ProcessMorph(e)
    BY <1>4, StepProcessClearing, StepProcessMorph
  <1> QED
    BY <1>1, <1>2, <1>3, <1>4

\* A tick of the schedule.
LEMMA StepTick ==
  ASSUME UnitsInv, Tick
  PROVE  UnitsInv'
  <1>1. CASE EndCommands \/ \E e \in Entity : Pass(e)
    BY <1>1, StepPass
  <1>2. CASE \E e \in Entity : ProcessDying(e) \/ Prepare(e) \/ Watch(e) \/ Process(e)
    BY <1>2, StepProcessDying, StepPrepare, StepWatch, StepProcess
  <1> QED
    BY <1>1, <1>2 DEF Tick

\* A unit just spawned is whole.
LEMMA FitStanding ==
  ASSUME NEW who, who.owner \in Player, who.form \in Form, who.life \in {"alive", "gone"},
         NEW u, u = Standing(who)
  PROVE  Fit(u)
  <1>1. DyingTime \in Nat
    BY OrdersAssumption
  <1>2. <<>> \in Seq(OrderEntry(Order)) /\ <<>> \in Seq(UnitType) /\ 0 \in 0 .. DyingTime
    BY <1>1
  <1>3. /\ u \in Components /\ u.queue = <<>> /\ u.drivers = {} /\ u.paid = <<>> /\ ~u.crossing
        /\ u.change = "none" /\ u.life \in {"alive", "gone"}
    BY <1>2 DEF Standing, Components
  <1>4. DOMAIN u.queue = {}
    BY <1>3
  <1>5. StartedIn(u.queue, DOMAIN u.queue) = {}
    BY <1>4 DEF StartedIn
  <1>6. Linked(u.queue) /\ Swept(u.queue) /\ Driven(u) /\ Living(u)
    BY <1>3, <1>4, <1>5 DEF Linked, Swept, Driven, Living
  <1> QED
    BY <1>3, <1>6 DEF Fit

\* Every unit is whole at the start.
LEMMA UnitsInit ==
  ASSUME OrdersInit
  PROVE  UnitsInv
  <1>1. PICK squad \in Squads : /\ unit = [e \in Entity |-> Standing(squad.units[e])]
                                /\ deeds = squad.deeds
    BY DEF OrdersInit
  <1>2. /\ squad.units \in [Entity -> [owner: Player, form: Form, life: {"alive", "gone"}]]
        /\ squad.deeds \in Nat
    BY OrdersAssumption
  <1>3. ASSUME NEW e \in Entity PROVE Fit(unit[e])
    <2>1. PICK who : who = squad.units[e]
      OBVIOUS
    <2>2. who \in [owner: Player, form: Form, life: {"alive", "gone"}]
      BY <1>2, <2>1
    <2>3. who.owner \in Player /\ who.form \in Form /\ who.life \in {"alive", "gone"}
      BY <2>2
    <2>4. unit[e] = Standing(who)
      BY <1>1, <2>1
    <2> QED
      BY <2>3, <2>4, FitStanding
  <1>4. unit \in [Entity -> Components]
    BY <1>1, <1>3 DEF Fit
  <1>5. 1 \in Entity
    <2>1. PICK n : n = Cardinality(Entity)
      OBVIOUS
    <2>2. n \in Nat /\ Entity = 1 .. n /\ Entity # {}
      BY <2>1, OrdersAssumption, FS_CardinalityType
    <2> QED
      BY <2>2
  <1>6. OrdersTypeOK
    <2>1. Stock \in Nat
      BY OrdersAssumption
    <2>2. stock \in [Player -> Nat] /\ made \in [Player -> Nat] /\ done \in [Player -> SUBSET Topic]
      BY <2>1 DEF OrdersInit
    <2>3. stage \in DOMAIN Following /\ turn \in Entity
      BY <1>5 DEF OrdersInit, Following
    <2> QED
      BY <1>1, <1>2, <1>4, <2>2, <2>3 DEF OrdersTypeOK
  <1>7. \A e \in Entity : ~Past(e)
    BY DEF OrdersInit, Past
  <1> QED
    BY <1>3, <1>6, <1>7 DEF UnitsInv

\* A step in which nothing changes.
LEMMA UnitsStutter ==
  ASSUME UnitsInv, UNCHANGED ordersVars
  PROVE  UnitsInv'
  <1>1. /\ unit' = unit /\ stock' = stock /\ done' = done /\ made' = made
        /\ stage' = stage /\ turn' = turn /\ deeds' = deeds
    BY DEF ordersVars
  <1> QED
    BY <1>1 DEF UnitsInv, OrdersTypeOK, Past, Alive

\* What the units are throughout.
THEOREM OrdersUnits == OrdersSpec => []UnitsInv
  <1>1. OrdersInit => UnitsInv
    BY UnitsInit
  <1>2. UnitsInv /\ [OrdersNext]_ordersVars => UnitsInv'
    BY StepCommand, StepOutside, StepTick, UnitsStutter DEF OrdersNext
  <1> QED
    BY <1>1, <1>2, PTL DEF OrdersSpec

-----------------------------------------------------------------------------
(* What it says of the runs' invariants.                                    *)

\* Whole units have the drivers of the orders they have started.
LEMMA UnitsDrivers ==
  ASSUME UnitsInv
  PROVE  DriversMatch
  <1>1. \A e \in Entity : Driven(unit[e])
    BY DEF UnitsInv, Fit
  <1> QED
    BY <1>1 DEF DriversMatch, Driven, StartedIn

\* The driver components on an entity are those of the orders it has started and
\* not ended (cancel_processing of every kind).
THEOREM DriversOnly == OrdersSpec => []DriversMatch
  BY OrdersUnits, UnitsDrivers, PTL

\* Whole units have no order that waits for one that is not its own.
LEMMA UnitsChain ==
  ASSUME UnitsInv
  PROVE  ChainIntact
  <1> SUFFICES ASSUME NEW e \in Entity
               PROVE  LET q == unit[e].queue IN
                 /\ \A i \in DOMAIN q : q[i].state = "running" => i = 1
                 /\ \A i \in DOMAIN q \ {1} :
                       q[i].state = "suspended" =>
                         q[i - 1].order \in SubOrders(q[i].order) /\ (i > 2 => q[i - 1].state = "suspended")
                 /\ unit[e].change # "none" => Len(q) < 2 \/ q[2].state = "new"
    BY DEF ChainIntact
  <1>1. PICK u : u = unit[e]
    OBVIOUS
  <1>2. Fit(u) /\ u \in Components /\ u.queue \in Seq(Entries)
    BY <1>1, UnitIs
  <1>3. Linked(u.queue) /\ Driven(u)
    BY <1>2 DEF Fit
  <1>4. ASSUME u.change # "none" PROVE Len(u.queue) < 2 \/ u.queue[2].state = "new"
    <2>1. \A i \in DOMAIN u.queue : i # 1 => u.queue[i].state = "new"
      BY <1>2, <1>3, <1>4, ChangingFront
    <2>2. Len(u.queue) \in Nat /\ DOMAIN u.queue = 1 .. Len(u.queue)
      BY <1>2, QueueDomain
    <2>3. Len(u.queue) < 2 \/ 2 \in DOMAIN u.queue
      BY <2>2
    <2> QED
      BY <2>1, <2>3
  <1> QED
    BY <1>1, <1>3, <1>4 DEF Linked

\* Only the front runs, and who is suspended stands right behind the sub-order it
\* asked for (process_tick, watch_tick, drop_orders).
THEOREM ChainUnbroken == OrdersSpec => []ChainIntact
  BY OrdersUnits, UnitsChain, PTL

\* Whole units have the Move that finishes a crossing.
LEMMA UnitsCrossing ==
  ASSUME UnitsInv
  PROVE  CrossingHasMove
  <1>1. \A e \in Entity : Driven(unit[e])
    BY DEF UnitsInv, Fit
  <1> QED
    BY <1>1 DEF CrossingHasMove, Driven

\* A body between two cells has the Move that finishes its crossing
\* (settle_crossing, watch_tick, start_dying).
THEOREM CrossingSettled == OrdersSpec => []CrossingHasMove
  BY OrdersUnits, UnitsCrossing, PTL

\* Whole units have the order that works off what was paid for.
LEMMA UnitsPaid ==
  ASSUME UnitsInv
  PROVE  PaidHasOrder
  <1> SUFFICES ASSUME NEW e \in Entity, Alive(e), unit[e].paid # <<>>
               PROVE  \E i \in DOMAIN unit[e].queue :
                        unit[e].queue[i].order = "Train" /\ unit[e].queue[i].cancel # "force"
    BY DEF PaidHasOrder
  <1>1. Living(unit[e])
    BY DEF UnitsInv, Fit, Alive
  <1>2. PICK i \in DOMAIN unit[e].queue : unit[e].queue[i].order = "Train"
    BY <1>1 DEF Living
  <1>3. "Train" \notin Topic
    BY OrdersAssumption
  <1>4. unit[e].queue[i].cancel # "force"
    BY <1>1, <1>2, <1>3 DEF Living
  <1> QED
    BY <1>2, <1>4

\* Whole units are ready when the fronts advance.
LEMMA UnitsReady ==
  ASSUME UnitsInv
  PROVE  FrontReady
  BY DEF UnitsInv, FrontReady, Past, Alive, Poised, Marked

\* Every queue is of its types, ready when its turn comes, and has the order that
\* works off what was paid (prepare_tick, train_entity).
THEOREM OrdersHold == OrdersSpec => []OrdersInv
  <1>1. UnitsInv => OrdersInv
    BY UnitsPaid, UnitsReady DEF OrdersInv, UnitsInv
  <1> QED
    BY <1>1, OrdersUnits, PTL

-----------------------------------------------------------------------------
(* What a unit may still cost and pay back.                                 *)

\* The topics a unit researches, and those of them not paid back yet.
Topics(u) == {t \in Topic : Holds(u.queue, t)}
Pending(u) ==
  {t \in Topic : \E i \in DOMAIN u.queue : u.queue[i].order = t /\ u.queue[i].cancel # "force"}

\* What a change of form under way is still worth.
Bound(u) ==
  IF u.life = "alive" /\ Changing(u) /\ Terms[u.form] = "refundable" THEN 1 ELSE 0

\* Every topic of p is one of q, and paid back if it was in q.
Stems(q, p) ==
  \A i \in DOMAIN p : p[i].order \in Topic =>
    \E j \in DOMAIN q : /\ q[j].order = p[i].order
                        /\ q[j].cancel = "force" => p[i].cancel = "force"

\* A step of a unit that pays `gain`: it takes up no topic, has no more in
\* production, and no more to be paid back than it leaves behind.
Eased(u, v, gain) ==
  /\ v.life = "alive" => /\ u.life = "alive"
                         /\ Topics(v) \subseteq Topics(u) /\ Pending(v) \subseteq Pending(u)
                         /\ Len(v.paid) <= Len(u.paid)
                         /\ v.owner = u.owner \/ (Topics(v) = {} /\ v.paid = <<>>)
  /\ Bound(v) + gain <= Bound(u)

\* The worth of a change is a number.
LEMMA BoundIs ==
  ASSUME NEW u
  PROVE  /\ Bound(u) \in 0 .. 1
         /\ u.change = "none" \/ u.life # "alive" => Bound(u) = 0
  BY DEF Bound, Changing

\* Topics that stem from others are among them.
LEMMA StemsTopics ==
  ASSUME NEW u, NEW v, Stems(u.queue, v.queue)
  PROVE  Topics(v) \subseteq Topics(u) /\ Pending(v) \subseteq Pending(u)
  <1>1. ASSUME NEW t \in Topics(v) PROVE t \in Topics(u)
    <2>1. PICK i \in DOMAIN v.queue : v.queue[i].order = t /\ t \in Topic
      BY DEF Topics, Holds
    <2>2. PICK j \in DOMAIN u.queue : u.queue[j].order = v.queue[i].order
      BY <2>1 DEF Stems
    <2> QED
      BY <2>1, <2>2 DEF Topics, Holds
  <1>2. ASSUME NEW t \in Pending(v) PROVE t \in Pending(u)
    <2>1. PICK i \in DOMAIN v.queue : v.queue[i].order = t /\ t \in Topic /\ v.queue[i].cancel # "force"
      BY <1>2 DEF Pending
    <2>2. PICK j \in DOMAIN u.queue : /\ u.queue[j].order = v.queue[i].order
                                      /\ u.queue[j].cancel = "force" => v.queue[i].cancel = "force"
      BY <2>1 DEF Stems
    <2> QED
      BY <2>1, <2>2 DEF Pending
  <1> QED
    BY <1>1, <1>2

\* A step that keeps the owner.
LEMMA EasedBy ==
  ASSUME NEW u, NEW v, NEW gain, Stems(u.queue, v.queue), v.owner = u.owner,
         v.life = "alive" => u.life = "alive" /\ Len(v.paid) <= Len(u.paid),
         Bound(v) + gain <= Bound(u)
  PROVE  Eased(u, v, gain)
  BY StemsTopics DEF Eased

\* One such step after another.
LEMMA EasedTwice ==
  ASSUME NEW u, NEW w, NEW v, NEW g \in Int, NEW h \in Int, NEW k, k = g + h,
         Eased(u, w, g), Eased(w, v, h),
         u.paid \in Seq(UnitType), w.paid \in Seq(UnitType), v.paid \in Seq(UnitType)
  PROVE  Eased(u, v, k)
  <1>1. Bound(u) \in Int /\ Bound(w) \in Int /\ Bound(v) \in Int
    BY BoundIs
  <1>2. Bound(v) + k <= Bound(u)
    <2>1. Bound(v) + h <= Bound(w) /\ Bound(w) + g <= Bound(u)
      BY DEF Eased
    <2> QED
      BY <1>1, <2>1
  <1>3. ASSUME v.life = "alive"
        PROVE  /\ u.life = "alive"
               /\ Topics(v) \subseteq Topics(u) /\ Pending(v) \subseteq Pending(u)
               /\ Len(v.paid) <= Len(u.paid)
               /\ v.owner = u.owner \/ (Topics(v) = {} /\ v.paid = <<>>)
    <2>1. /\ w.life = "alive" /\ Topics(v) \subseteq Topics(w) /\ Pending(v) \subseteq Pending(w)
          /\ Len(v.paid) <= Len(w.paid)
          /\ v.owner = w.owner \/ (Topics(v) = {} /\ v.paid = <<>>)
      BY <1>3 DEF Eased
    <2>2. /\ u.life = "alive" /\ Topics(w) \subseteq Topics(u) /\ Pending(w) \subseteq Pending(u)
          /\ Len(w.paid) <= Len(u.paid)
          /\ w.owner = u.owner \/ (Topics(w) = {} /\ w.paid = <<>>)
      BY <2>1 DEF Eased
    <2>3. Len(v.paid) <= Len(u.paid)
      <3>1. Len(v.paid) \in Nat /\ Len(w.paid) \in Nat /\ Len(u.paid) \in Nat
        OBVIOUS
      <3> QED
        BY <2>1, <2>2, <3>1
    <2>4. w.paid = <<>> => v.paid = <<>>
      <3> HAVE w.paid = <<>>
      <3>1. Len(v.paid) = 0
        <4>1. Len(v.paid) \in Nat /\ Len(w.paid) = 0
          OBVIOUS
        <4> QED
          BY <2>1, <4>1
      <3> QED
        BY <3>1
    <2>5. v.owner = u.owner \/ (Topics(v) = {} /\ v.paid = <<>>)
      BY <2>1, <2>2, <2>4
    <2> QED
      BY <2>1, <2>2, <2>3, <2>5
  <1> QED
    BY <1>2, <1>3 DEF Eased

\* A unit that is none of the living eases what it was.
LEMMA EasedDead ==
  ASSUME NEW u, NEW v, v.life # "alive", NEW gain \in Int, gain <= Bound(u)
  PROVE  Eased(u, v, gain)
  <1>1. Bound(v) = 0
    BY BoundIs
  <1>2. Bound(v) + gain <= Bound(u)
    BY <1>1, BoundIs
  <1> QED
    BY <1>2 DEF Eased

\* Topics stem from a queue of which some entries were dropped.
LEMMA StemsEmbedded ==
  ASSUME NEW u \in Components, NEW p \in Seq(Entries), Embeds(u.queue, Staying(u), p)
  PROVE  Stems(u.queue, p)
  <1>1. PICK q : q = u.queue
    OBVIOUS
  <1>2. q \in Seq(Entries)
    BY <1>1, UnitQueue
  <1>3. PICK h \in [DOMAIN p -> DOMAIN q] : From(q, Staying(u), p, h)
    BY <1>1 DEF Embeds
  <1>4. \A a \in DOMAIN p : h[a] \in Staying(u) /\ p[a].order = q[h[a]].order
    BY <1>2, <1>3, EmbedsOnce
  <1>5. ASSUME NEW a \in DOMAIN p, p[a].order \in Topic
        PROVE  \E j \in DOMAIN q : /\ q[j].order = p[a].order
                                   /\ q[j].cancel = "force" => p[a].cancel = "force"
    <2>1. h[a] \in DOMAIN q /\ q[h[a]].order \in Topic /\ h[a] \in Staying(u)
      BY <1>3, <1>4, <1>5
    <2>2. q[h[a]].order \notin {"Die", "Move", "Morph"}
      BY <2>1, OrdersAssumption DEF OnFoot
    <2>3. q[h[a]].cancel # "force"
      BY <1>1, <2>1, <2>2 DEF Staying, Stays, Marked, Unmarked
    <2> QED
      BY <1>4, <2>1, <2>3
  <1> QED
    BY <1>1, <1>5 DEF Stems

\* Topics stem from a queue whose first entries are gone.
LEMMA StemsTrimmed ==
  ASSUME NEW q, NEW p, NEW j, Trimmed(q, j, p)
  PROVE  Stems(q, p)
  BY DEF Trimmed, Stems

\* A flush pays back no more than a change of form was worth.
LEMMA EaseFlushed ==
  ASSUME NEW u \in Components, Linked(u.queue), Driven(u), NEW r, Flushed(u, r)
  PROVE  Eased(u, r.unit, r.gain)
  <1>1. PICK v : v = r.unit
    OBVIOUS
  <1>2. /\ v \in Components /\ v.owner = u.owner /\ v.form = u.form /\ v.life = u.life
        /\ Embeds(u.queue, Staying(u), v.queue)
        /\ v.change = IF Turns(u) THEN "none" ELSE u.change
        /\ v.paid = <<>> \/ v.paid = u.paid
        /\ r.gain = Back(u)
    BY <1>1 DEF Flushed
  <1>3. v.queue \in Seq(Entries) /\ u.paid \in Seq(UnitType)
    BY <1>2, UnitQueue DEF Components
  <1>4. Stems(u.queue, v.queue)
    BY <1>2, <1>3, StemsEmbedded
  <1>5. Len(v.paid) <= Len(u.paid)
    <2>1. Len(u.paid) \in Nat
      BY <1>3
    <2>2. Len(<<>>) = 0
      OBVIOUS
    <2> QED
      BY <1>2, <2>1, <2>2
  <1>6. Bound(v) + r.gain <= Bound(u)
    <2>1. CASE Turns(u)
      <3>1. Bound(v) = 0
        BY <1>2, <2>1, BoundIs
      <3>2. Back(u) <= Bound(u)
        <4>1. CASE Back(u) = 0
          BY <4>1, BoundIs
        <4>2. CASE Back(u) # 0
          <5>1. Back(u) = 1 /\ u.change # "clearing" /\ u.life = "alive" /\ Terms[u.form] = "refundable"
            BY <4>2 DEF Back
          <5>2. u.change # "none"
            <6>1. u.queue # <<>> /\ u.queue[1].order = "Morph" /\ Started(u.queue[1])
              BY <2>1 DEF Turns
            <6>2. 1 \in DOMAIN u.queue
              BY <6>1, UnitQueue, QueueDomain
            <6>3. Kind("Morph") = "Morph"
              BY OrdersAssumption DEF Kind
            <6>4. "Morph" \in StartedIn(u.queue, DOMAIN u.queue)
              BY <6>1, <6>2, <6>3 DEF StartedIn
            <6> QED
              BY <6>4 DEF Driven
          <5>3. Changing(u)
            BY <5>1, <5>2 DEF Changing, Components
          <5>4. Bound(u) = 1
            BY <5>1, <5>3 DEF Bound
          <5> QED
            BY <5>1, <5>4
        <4> QED
          BY <4>1, <4>2
      <3>3. Bound(u) \in Int /\ Back(u) \in Int
        BY BoundIs DEF Back
      <3> QED
        BY <1>2, <3>1, <3>2, <3>3
    <2>2. CASE ~Turns(u)
      <3>1. Back(u) = 0
        BY <2>2 DEF Back
      <3>2. Bound(v) = Bound(u)
        BY <1>2, <2>2 DEF Bound, Changing
      <3> QED
        BY <1>2, <3>1, <3>2, BoundIs
    <2> QED
      BY <2>1, <2>2
  <1>7. v.life = "alive" => u.life = "alive" /\ Len(v.paid) <= Len(u.paid)
    BY <1>2, <1>5
  <1>8. Eased(u, v, r.gain)
    BY <1>2, <1>4, <1>6, <1>7, EasedBy
  <1> QED
    BY <1>1, <1>8

\* A flush that kills pays back no more either.
LEMMA EaseKilled ==
  ASSUME NEW u \in Components, NEW r, Killed(u, r)
  PROVE  Eased(u, r.unit, r.gain)
  <1>1. r.unit.life # "alive" /\ r.gain = Back(u) /\ Changing(u) /\ u.life = "alive"
    BY DEF Killed
  <1>2. Back(u) \in Int /\ Back(u) <= Bound(u)
    BY <1>1 DEF Back, Bound
  <1> QED
    BY <1>1, <1>2, EasedDead

\* A front prepared: a change of form that begins is paid for.
LEMMA EasePrepared ==
  ASSUME NEW u \in Components, NEW clear, NEW funds, NEW r, Prepared(u, clear, funds, r)
  PROVE  Eased(u, r.unit, r.gain)
  <1>1. PICK v : v = r.unit
    OBVIOUS
  <1>2. v.owner = u.owner /\ v.form = u.form /\ v.life = u.life /\ v.paid = u.paid
    BY <1>1 DEF Prepared, Moved
  <1>3. \E j : Trimmed(u.queue, j, v.queue)
    BY <1>1 DEF Prepared
  <1>4. Stems(u.queue, v.queue)
    BY <1>3, StemsTrimmed
  <1>5. \/ r.gain = 0 /\ (v.change = u.change \/ (u.change = "none" /\ v.change = "clearing"))
        \/ r.gain = -1 /\ u.change = "none" /\ v.change = "underWay"
    BY <1>1 DEF Prepared
  <1>6. Bound(v) + r.gain <= Bound(u)
    <2>1. CASE r.gain = 0 /\ v.change = u.change
      <3>1. Bound(v) = Bound(u)
        BY <1>2, <2>1 DEF Bound, Changing
      <3> QED
        BY <2>1, <3>1, BoundIs
    <2>2. CASE r.gain = 0 /\ v.change = "clearing"
      <3>1. Bound(v) = 0
        BY <2>2 DEF Bound, Changing
      <3> QED
        BY <2>2, <3>1, BoundIs
    <2>3. CASE r.gain = -1
      <3>1. Bound(v) \in 0 .. 1 /\ Bound(u) \in 0 .. 1
        BY BoundIs
      <3> QED
        BY <2>3, <3>1
    <2> QED
      BY <1>5, <2>1, <2>2, <2>3
  <1>7. Len(v.paid) <= Len(u.paid)
    <2>1. Len(u.paid) \in Nat
      BY DEF Components
    <2> QED
      BY <1>2, <2>1
  <1>8. v.life = "alive" => u.life = "alive" /\ Len(v.paid) <= Len(u.paid)
    BY <1>2, <1>7
  <1>9. Eased(u, v, r.gain)
    BY <1>2, <1>4, <1>6, <1>8, EasedBy
  <1> QED
    BY <1>1, <1>9

\* A queue marked anew, its topics not more strictly undone than they were.
LEMMA EaseRemarked ==
  ASSUME NEW u \in Components, NEW w, Moved(u, w), w.change = u.change, Stems(u.queue, w.queue)
  PROVE  Eased(u, w, 0)
  <1>1. w.owner = u.owner /\ w.form = u.form /\ w.life = u.life /\ w.paid = u.paid
    BY DEF Moved
  <1>2. Bound(w) = Bound(u)
    BY <1>1 DEF Bound, Changing
  <1>3. Bound(w) + 0 <= Bound(u)
    BY <1>2, BoundIs
  <1>4. Len(w.paid) <= Len(u.paid)
    <2>1. Len(u.paid) \in Nat
      BY DEF Components
    <2> QED
      BY <1>1, <2>1
  <1>5. w.life = "alive" => u.life = "alive" /\ Len(w.paid) <= Len(u.paid)
    BY <1>1, <1>4
  <1> QED
    BY <1>1, <1>3, <1>5, EasedBy

\* What a unit gives up to an outage is no topic.
LEMMA EaseSwept ==
  ASSUME NEW u, Fit(u), NEW w, w = [u EXCEPT !.queue = SweepQueue(u)]
  PROVE  Eased(u, w, 0) /\ w \in Components
  <1>1. u \in Components /\ Linked(u.queue) /\ Swept(u.queue) /\ Driven(u)
    BY DEF Fit
  <1>2. /\ Moved(u, w) /\ w.change = u.change /\ DOMAIN w.queue = DOMAIN u.queue
        /\ \A i \in DOMAIN w.queue :
              w.queue[i].order \in Topic \cup {"Train", "Die"} => w.queue[i] = u.queue[i]
    BY <1>1, SweptUnit
  <1>3. Stems(u.queue, w.queue)
    BY <1>2 DEF Stems
  <1> QED
    BY <1>1, <1>2, <1>3, EaseRemarked DEF Moved

\* A unit's tick: what is paid back was bound up in the unit, what begins is paid for.
LEMMA EaseTick ==
  ASSUME NEW u, Fit(u), u.life = "alive", NEW clear \in BOOLEAN, NEW doomed \in BOOLEAN,
         NEW funds \in Nat, NEW r, r = PrepareTick(u, clear, doomed, funds)
  PROVE  Eased(u, r.unit, r.gain)
  <1>1. PICK w, f, g : Ticked(u, clear, doomed, funds, r, w, f, g)
    BY TickSteps
  <1>2. /\ w = [u EXCEPT !.queue = SweepQueue(u)]
        /\ Linked(w.queue) /\ Driven(w)
        /\ f.gain \in 0 .. 1 /\ r.unit = g.unit /\ r.gain = f.gain + g.gain
        /\ Fit(f.unit)
        /\ Flushed(w, f) \/ Killed(w, f)
        /\ Prepared(f.unit, clear, funds + f.gain, g)
    BY <1>1 DEF Ticked
  <1>3. Eased(u, w, 0) /\ w \in Components
    BY <1>2, EaseSwept
  <1>4. Eased(w, f.unit, f.gain)
    BY <1>2, <1>3, EaseFlushed, EaseKilled
  <1>5. PICK x : x = f.unit
    OBVIOUS
  <1>6. PICK v : v = g.unit
    OBVIOUS
  <1>7. x \in Components /\ v \in Components /\ u \in Components
    BY <1>2, <1>5, <1>6 DEF Fit, Prepared, Moved
  <1>8. Eased(x, v, g.gain)
    BY <1>2, <1>5, <1>6, <1>7, EasePrepared
  <1>9. PICK a \in Int : a = f.gain
    BY <1>2
  <1>10. PICK b \in Int : b = g.gain
    BY <1>2 DEF Prepared
  <1>11. u.paid \in Seq(UnitType) /\ w.paid \in Seq(UnitType) /\ x.paid \in Seq(UnitType)
         /\ v.paid \in Seq(UnitType)
    BY <1>3, <1>7 DEF Components
  <1>12. Eased(u, x, a)
    <2>1. Eased(w, x, a) /\ a = 0 + a /\ 0 \in Int
      BY <1>4, <1>5, <1>9
    <2> QED
      BY <1>3, <1>11, <2>1, EasedTwice
  <1>13. PICK c : c = a + b
    OBVIOUS
  <1>14. Eased(u, v, c)
    BY <1>8, <1>10, <1>11, <1>12, <1>13, EasedTwice
  <1> QED
    BY <1>2, <1>6, <1>9, <1>10, <1>13, <1>14

\* What a drop of a unit's orders leaves of what it may cost and pay back.
DropEases(u, policy, r) ==
  /\ Eased(u, r.unit, 0) /\ r.unit \in Components
  /\ \A i \in DOMAIN r.unit.queue : ~Marked(r.unit.queue[i])
  /\ policy = "force" => r.unit.paid = <<>> /\ Topics(r.unit) = {}

\* A capture leaves nothing in production.
LEMMA EaseDrop ==
  ASSUME NEW u, Fit(u), u.life = "alive", NEW policy \in Policy,
         NEW kept \in 0 .. 1, kept = 1 <=> Changing(u), NEW r, r = DropOrders(u, policy, kept, FALSE)
  PROVE  DropEases(u, policy, r)
  <1>1. u \in Components /\ Linked(u.queue) /\ Swept(u.queue) /\ Driven(u) /\ Living(u)
    BY DEF Fit
  <1>2. PICK w : w = [u EXCEPT !.queue = DropQueue(u, policy, kept)]
    OBVIOUS
  <1>3. /\ Moved(u, w) /\ w.drivers = u.drivers /\ w.change = u.change
        /\ Linked(w.queue) /\ Swept(w.queue) /\ Driven(w)
        /\ w.queue = DropQueue(u, policy, kept)
        /\ DOMAIN w.queue = DOMAIN u.queue
        /\ \A i \in DOMAIN u.queue : w.queue[i].order = u.queue[i].order
    BY <1>1, <1>2, DropUnit
  <1>4. w \in Components /\ w.life = "alive" /\ w.paid = u.paid /\ w.form = u.form /\ w.owner = u.owner
    BY <1>3 DEF Moved
  <1>5. Sound(w)
    BY <1>1, <1>3, <1>4 DEF Living, Sound
  <1>6. r = FlushCanceled(w, FALSE)
    BY <1>2 DEF DropOrders, DropQueue
  <1>7. Flushed(w, r)
    <2>1. FALSE \in BOOLEAN
      OBVIOUS
    <2> QED
      BY <1>3, <1>4, <1>5, <1>6, <2>1, FitFlushed
  <1>8. DropLeaves(u, policy, kept, r)
    BY FitDrop
  <1>9. \A i \in DOMAIN w.queue :
          /\ kept = 1 /\ i = 1 => w.queue[i].cancel = Unmarked
          /\ kept = 0 \/ i # 1 =>
               /\ policy = "force" => w.queue[i].cancel = "force"
               /\ w.queue[i].order \in Topic \cup {"Train"} /\ policy = "soft" =>
                    (w.queue[i].cancel = "force" <=> u.queue[i].cancel = "force")
    BY <1>1, <1>3, DropEntries
  <1>10. kept = 1 => u.queue[1].order = "Morph" /\ "Morph" \notin Topic
    BY <1>1, ChangingFront, OrdersAssumption DEF Changing
  <1>11. Stems(u.queue, w.queue)
    <2> SUFFICES ASSUME NEW i \in DOMAIN w.queue, w.queue[i].order \in Topic
                 PROVE  u.queue[i].cancel = "force" => w.queue[i].cancel = "force"
      BY <1>3 DEF Stems
    <2>1. kept = 0 \/ i # 1
      BY <1>3, <1>10
    <2>2. policy = "force" \/ policy = "soft"
      BY DEF Policy
    <2> QED
      BY <1>9, <2>1, <2>2
  <1>12. Eased(u, w, 0)
    BY <1>1, <1>3, <1>11, EaseRemarked
  <1>13. r.gain = 0
    BY <1>8 DEF DropLeaves
  <1>14. Eased(w, r.unit, 0)
    <2>1. Eased(w, r.unit, r.gain)
      BY <1>3, <1>4, <1>7, EaseFlushed
    <2> QED
      BY <1>13, <2>1
  <1>15. PICK v : v = r.unit
    OBVIOUS
  <1>16. v \in Components /\ \A i \in DOMAIN v.queue : ~Marked(v.queue[i])
    BY <1>7, <1>15 DEF Flushed
  <1>17. Eased(u, v, 0)
    <2>1. u.paid \in Seq(UnitType) /\ w.paid \in Seq(UnitType) /\ v.paid \in Seq(UnitType)
      BY <1>1, <1>4, <1>16 DEF Components
    <2>2. 0 \in Int /\ 0 = 0 + 0
      OBVIOUS
    <2> QED
      BY <1>12, <1>14, <1>15, <2>1, <2>2, EasedTwice
  <1>18. ASSUME policy = "force" PROVE v.paid = <<>> /\ Topics(v) = {}
    <2>1. \A i \in DOMAIN v.queue : v.queue[i].order \notin Topic
      BY <1>8, <1>15, <1>18 DEF DropLeaves
    <2>2. Topics(v) = {}
      BY <2>1 DEF Topics, Holds
    <2>3. CASE u.paid = <<>>
      BY <1>4, <1>7, <1>15, <2>3, <2>2 DEF Flushed
    <2>4. CASE u.paid # <<>>
      <3>1. PICK i \in DOMAIN u.queue : u.queue[i].order = "Train"
        BY <1>1, <2>4 DEF Living
      <3>2. kept = 0 \/ i # 1
        BY <1>10, <3>1
      <3>3. i \in DOMAIN w.queue /\ w.queue[i].order = "Train" /\ w.queue[i].cancel = "force"
        BY <1>3, <1>9, <1>18, <3>1, <3>2
      <3>4. v.paid = <<>>
        BY <1>7, <1>15, <3>3 DEF Flushed
      <3> QED
        BY <2>2, <3>4
    <2> QED
      BY <2>3, <2>4
  <1> QED
    BY <1>15, <1>16, <1>17, <1>18 DEF DropEases

\* A unit sent off takes up nothing.
LEMMA EaseSent ==
  ASSUME NEW u, Fit(u), NEW r, r = PrepareFront(u, TRUE, 0)
  PROVE  Eased(u, r.unit, r.gain)
  <1>1. u \in Components /\ Linked(u.queue) /\ Swept(u.queue) /\ Driven(u)
    BY DEF Fit
  <1>2. TRUE \in BOOLEAN /\ 0 \in Int
    OBVIOUS
  <1>3. Prepared(u, TRUE, 0, r)
    BY <1>1, <1>2, PrepareFrontIs
  <1> QED
    BY <1>1, <1>3, EasePrepared

\* A queue without its front stems from it.
LEMMA StemsTail ==
  ASSUME NEW q \in Seq(Entries), q # <<>>
  PROVE  Stems(q, Tail(q))
  <1>1. PICK p : p = Tail(q)
    OBVIOUS
  <1>2. /\ Tail(q) \in Seq(Entries) /\ Len(Tail(q)) = Len(q) - 1
        /\ \A i \in 1 .. Len(Tail(q)) : Tail(q)[i] = q[i + 1]
    BY HeadTailProperties
  <1>3. DOMAIN p = 1 .. Len(q) - 1 /\ \A i \in 1 .. Len(q) - 1 : p[i] = q[i + 1]
    <2>1. p \in Seq(Entries) /\ Len(p) = Len(q) - 1
      BY <1>1, <1>2
    <2>2. DOMAIN p = 1 .. Len(p)
      BY <2>1, QueueDomain
    <2> QED
      BY <1>1, <1>2, <2>1, <2>2
  <1>4. Len(q) \in Nat /\ DOMAIN q = 1 .. Len(q)
    BY QueueDomain
  <1>5. \A i \in DOMAIN p : i + 1 \in DOMAIN q /\ p[i] = q[i + 1]
    BY <1>3, <1>4
  <1>6. Stems(q, p)
    BY <1>5 DEF Stems
  <1> QED
    BY <1>1, <1>6

\* A front over: the unit gives up its topic, its production or its change at most.
LEMMA EaseFinished ==
  ASSUME NEW u, u \in Components, u.queue # <<>>, NEW v, v \in Components, v.queue = Tail(u.queue),
         v.owner = u.owner, v.life = u.life, Len(v.paid) <= Len(u.paid),
         NEW gain \in Int, Bound(v) + gain <= Bound(u)
  PROVE  Eased(u, v, gain)
  <1>1. u.queue \in Seq(Entries)
    BY UnitQueue
  <1>2. Stems(u.queue, v.queue)
    BY <1>1, StemsTail
  <1> QED
    BY <1>2, EasedBy

\* A unit whose queue, production and change stay.
LEMMA EaseSame ==
  ASSUME NEW u \in Components, NEW v, v.queue = u.queue, v.owner = u.owner, v.life = u.life,
         v.paid = u.paid, v.change = u.change, v.form = u.form
  PROVE  Eased(u, v, 0)
  <1>1. Stems(u.queue, v.queue)
    BY DEF Stems
  <1>2. Bound(v) = Bound(u)
    BY DEF Bound, Changing
  <1>3. Bound(v) + 0 <= Bound(u)
    BY <1>2, BoundIs
  <1>4. Len(v.paid) <= Len(u.paid)
    <2>1. Len(u.paid) \in Nat
      BY DEF Components
    <2> QED
      BY <2>1
  <1> QED
    BY <1>1, <1>3, <1>4, EasedBy

\* The entries of a unit that are topics not paid back, one for each such topic.
LEMMA PendingIs ==
  ASSUME NEW u \in Components, Living(u),
         NEW I, I = {i \in DOMAIN u.queue : u.queue[i].order \in Topic
                                            /\ u.queue[i].cancel # "force"}
  PROVE  IsFiniteSet(Pending(u)) /\ Cardinality(I) = Cardinality(Pending(u))
  <1>1. IsFiniteSet(DOMAIN u.queue)
    <2>1. DOMAIN u.queue = 1 .. Len(u.queue) /\ Len(u.queue) \in Nat
      BY UnitQueue, QueueDomain
    <2> QED
      BY <2>1, FS_Interval
  <1>2. IsFiniteSet(I)
    BY <1>1, FS_Subset
  <1> DEFINE f == [i \in I |-> u.queue[i].order]
  <1>3. \A i \in I : f[i] \in Pending(u)
    BY DEF Pending
  <1>4. \A t \in Pending(u) : \E i \in I : f[i] = t
    BY DEF Pending
  <1>5. \A i, j \in I : f[i] = f[j] => i = j
    BY DEF Living
  <1>6. f \in [I -> Pending(u)]
    BY <1>3
  <1> HIDE DEF f
  <1>7. f \in Surjection(I, Pending(u))
    BY <1>4, <1>6 DEF Surjection
  <1>8. f \in Injection(I, Pending(u))
    BY <1>5, <1>6 DEF Injection, IsInjective
  <1> QED
    BY <1>2, <1>7, <1>8, FS_Surjection

\* What a living unit could still have paid back.
LEMMA HeldIs ==
  ASSUME NEW u, Fit(u)
  PROVE  /\ Held(u) \in Nat
         /\ u.life # "alive" => Held(u) = 0
         /\ u.life = "alive" =>
              /\ IsFiniteSet(Pending(u)) /\ Cardinality(Pending(u)) \in Nat /\ Len(u.paid) \in Nat
              /\ Held(u) = Len(u.paid) + Cardinality(Pending(u)) + Bound(u)
  <1>1. CASE u.life # "alive"
    <2>1. Held(u) = 0
      BY <1>1 DEF Held
    <2> QED
      BY <1>1, <2>1
  <1>2. CASE u.life = "alive"
    <2>1. u \in Components /\ Living(u)
      BY <1>2 DEF Fit
    <2>2. PICK I : I = {i \in DOMAIN u.queue : u.queue[i].order \in Topic
                                               /\ u.queue[i].cancel # "force"}
      OBVIOUS
    <2>3. IsFiniteSet(Pending(u)) /\ Cardinality(I) = Cardinality(Pending(u))
      BY <2>1, <2>2, PendingIs
    <2>4. Held(u) = Len(u.paid) + Cardinality(I) + Bound(u)
      BY <1>2, <2>2 DEF Held, Bound
    <2>5. Cardinality(Pending(u)) \in Nat
      BY <2>3, FS_CardinalityType
    <2>6. Len(u.paid) \in Nat
      BY <2>1 DEF Components
    <2> QED
      BY <1>2, <2>3, <2>4, <2>5, <2>6, BoundIs
  <1> QED
    BY <1>1, <1>2

\* A step of a unit that pays `gain`: it takes up no topic, has no more in
\* production, and holds no more than it did, what is paid back taken off.
Lighter(u, v, gain) ==
  /\ v.life = "alive" => /\ u.life = "alive" /\ Topics(v) \subseteq Topics(u)
                         /\ Len(v.paid) <= Len(u.paid)
                         /\ v.owner = u.owner \/ (Topics(v) = {} /\ v.paid = <<>>)
  /\ Held(v) + gain <= Held(u)

\* It holds less, and so do its parts.
LEMMA EasedLighter ==
  ASSUME NEW u, Fit(u), NEW v, Fit(v), NEW gain \in Int, Eased(u, v, gain)
  PROVE  Lighter(u, v, gain)
  <1>1. Bound(v) \in Int /\ Bound(u) \in Int /\ Bound(v) + gain <= Bound(u)
    BY BoundIs DEF Eased
  <1>2. CASE v.life = "alive"
    <2>1. u.life = "alive" /\ Pending(v) \subseteq Pending(u) /\ Len(v.paid) <= Len(u.paid)
      BY <1>2 DEF Eased
    <2>2. /\ IsFiniteSet(Pending(u)) /\ Cardinality(Pending(u)) \in Nat /\ Len(u.paid) \in Nat
          /\ Held(u) = Len(u.paid) + Cardinality(Pending(u)) + Bound(u)
      BY <2>1, HeldIs
    <2>3. /\ Cardinality(Pending(v)) \in Nat /\ Len(v.paid) \in Nat
          /\ Held(v) = Len(v.paid) + Cardinality(Pending(v)) + Bound(v)
      BY <1>2, HeldIs
    <2>4. Cardinality(Pending(v)) <= Cardinality(Pending(u))
      BY <2>1, <2>2, FS_Subset
    <2>5. Held(v) + gain <= Held(u)
      BY <1>1, <2>1, <2>2, <2>3, <2>4
    <2> QED
      BY <2>5 DEF Eased, Lighter
  <1>3. CASE v.life # "alive"
    <2>1. Held(v) = 0 /\ Bound(v) = 0
      BY <1>3, HeldIs, BoundIs
    <2>2. Bound(u) <= Held(u) /\ Held(u) \in Int
      <3>1. CASE u.life = "alive"
        BY <1>1, <3>1, HeldIs
      <3>2. CASE u.life # "alive"
        BY <3>2, HeldIs, BoundIs
      <3> QED
        BY <3>1, <3>2
    <2>3. Held(v) + gain <= Held(u)
      BY <1>1, <2>1, <2>2
    <2> QED
      BY <1>3, <2>3 DEF Lighter
  <1> QED
    BY <1>2, <1>3

\* Two units that ease each other hold the same.
LEMMA EasedEven ==
  ASSUME NEW u, Fit(u), NEW v, Fit(v), Eased(u, v, 0), Eased(v, u, 0)
  PROVE  Held(v) = Held(u)
  <1>1. 0 \in Int
    OBVIOUS
  <1>2. Held(v) + 0 <= Held(u) /\ Held(u) + 0 <= Held(v)
    BY <1>1, EasedLighter DEF Lighter
  <1>3. Held(u) \in Nat /\ Held(v) \in Nat
    BY HeldIs
  <1> QED
    BY <1>2, <1>3

-----------------------------------------------------------------------------
(* Steps that take nothing up.                                              *)

\* A unit of which nothing is marked.
Pure(u) == \A i \in DOMAIN u.queue : ~Marked(u.queue[i])

\* Whose front is to advance yet in this tick.
Ahead(e) == stage = "process" /\ turn <= e

\* Nothing that is to advance is marked.
CleanInv == \A e \in Entity : Ahead(e) /\ Alive(e) => Pure(unit[e])

\* Unit e becomes v, `gain` goes to its owner, and v takes nothing up.
Steps(e, v, gain) ==
  /\ unit' = [unit EXCEPT ![e] = v] /\ Fit(v) /\ gain \in Int
  /\ stock' = [stock EXCEPT ![unit[e].owner] = @ + gain]
  /\ Lighter(unit[e], v, gain)
  /\ Ahead(e)' /\ v.life = "alive" => Pure(v)

\* Some unit does, or none changes.
Lightens ==
  \/ UNCHANGED <<unit, stock>>
  \/ \E e \in Entity : \E v, gain : Steps(e, v, gain)

\* Who is ahead after a turn.
LEMMA AheadIs ==
  ASSUME OrdersTypeOK, Advance, NEW e \in Entity, Ahead(e)'
  PROVE  stage = "watch" \/ (Ahead(e) /\ e # turn)
  <1> DEFINE N == Cardinality(Entity)
  <1>1. N \in Nat /\ Entity = 1 .. N
    BY OrdersAssumption, FS_CardinalityType
  <1>2. /\ stage \in {"commands", "dying", "prepare", "watch", "process"} /\ turn \in 1 .. N
        /\ Following["commands"] = "dying" /\ Following["dying"] = "prepare"
        /\ Following["prepare"] = "watch" /\ Following["process"] = "commands"
    BY <1>1 DEF OrdersTypeOK, Following
  <1>3. stage' = "process" /\ turn' <= e
    BY DEF Ahead
  <1>4. CASE turn = N \/ stage = "commands"
    <2>1. stage' = Following[stage]
      BY <1>4 DEF Advance
    <2> QED
      BY <1>2, <1>3, <2>1
  <1>5. CASE ~(turn = N \/ stage = "commands")
    <2>1. stage' = stage /\ turn' = turn + 1
      BY <1>5 DEF Advance
    <2>2. turn \in Int /\ e \in Int
      BY <1>1, <1>2
    <2>3. turn <= e /\ e # turn
      BY <1>3, <2>1, <2>2
    <2> QED
      BY <1>3, <2>1, <2>3 DEF Ahead
  <1> QED
    BY <1>4, <1>5

\* Who is ahead after a turn of its own was asked for an enemy.
LEMMA AheadWatched ==
  ASSUME UnitsInv, NEW e \in Entity, NEW s, Turn(s, e), Ahead(e)'
  PROVE  s = "watch"
  <1>1. OrdersTypeOK /\ Advance /\ stage = s /\ turn = e
    BY DEF UnitsInv, Turn, Phase
  <1> QED
    BY <1>1, AheadIs

\* A step between the turns changes nobody's place in the tick.
LEMMA AheadWaits ==
  ASSUME Waits, NEW e \in Entity
  PROVE  Ahead(e)' <=> Ahead(e)
  BY DEF Waits, Ahead

\* What is to advance is not marked, whatever step is taken.
LEMMA CleanStep ==
  ASSUME UnitsInv, CleanInv, Lightens, \A e \in Entity : Ahead(e)' => stage = "watch" \/ Ahead(e)
  PROVE  CleanInv'
  <1>1. \A e \in Entity : Ahead(e)' /\ unit[e].life = "alive" => Pure(unit[e])
    <2> SUFFICES ASSUME NEW e \in Entity, Ahead(e)', unit[e].life = "alive"
                 PROVE  Pure(unit[e])
      OBVIOUS
    <2>1. CASE stage = "watch"
      BY <2>1 DEF UnitsInv, Past, Alive, Poised, Pure
    <2>2. CASE Ahead(e)
      BY <2>2 DEF CleanInv, Alive
    <2> QED
      BY <2>1, <2>2
  <1> SUFFICES ASSUME NEW e \in Entity, Ahead(e)', unit'[e].life = "alive"
               PROVE  Pure(unit'[e])
    BY DEF CleanInv, Alive
  <1>2. CASE UNCHANGED unit
    BY <1>1, <1>2
  <1>3. CASE \E f \in Entity : \E v, gain : Steps(f, v, gain)
    <2> PICK f \in Entity : \E v, gain : Steps(f, v, gain)
      BY <1>3
    <2>1. PICK v, gain : Steps(f, v, gain)
      OBVIOUS
    <2>2. unit' = [unit EXCEPT ![f] = v] /\ (Ahead(f)' /\ v.life = "alive" => Pure(v))
      BY <2>1 DEF Steps
    <2>3. unit \in [Entity -> Components]
      BY DEF UnitsInv, OrdersTypeOK
    <2>4. CASE e = f
      <3>1. unit'[e] = v
        BY <2>2, <2>3, <2>4
      <3> QED
        BY <2>2, <2>4, <3>1
    <2>5. CASE e # f
      <3>1. unit'[e] = unit[e]
        BY <2>2, <2>3, <2>5
      <3> QED
        BY <1>1, <3>1
    <2> QED
      BY <2>4, <2>5
  <1> QED
    BY <1>2, <1>3 DEF Lightens

\* A unit that becomes another and eases what it was.
LEMMA LightBy ==
  ASSUME UnitsInv, NEW e \in Entity, NEW r, Becoming(e, r), Fit(r.unit), r.gain \in Int,
         Eased(unit[e], r.unit, r.gain), Ahead(e)' /\ r.unit.life = "alive" => Pure(r.unit)
  PROVE  Lightens
  <1>1. PICK u : u = unit[e]
    OBVIOUS
  <1>2. PICK v : v = r.unit
    OBVIOUS
  <1>3. PICK gain \in Int : gain = r.gain
    OBVIOUS
  <1>4. Fit(u)
    BY <1>1, UnitIs
  <1>5. Lighter(u, v, gain)
    BY <1>1, <1>2, <1>3, <1>4, EasedLighter
  <1>6. unit' = [unit EXCEPT ![e] = v] /\ stock' = [stock EXCEPT ![unit[e].owner] = @ + gain]
    BY <1>2, <1>3 DEF Becoming
  <1>7. Steps(e, v, gain)
    BY <1>1, <1>2, <1>5, <1>6 DEF Steps
  <1> QED
    BY <1>7 DEF Lightens

\* The same, when nothing is paid.
LEMMA LightBare ==
  ASSUME UnitsInv, NEW e \in Entity, NEW v, Becoming(e, Bare(v)), Fit(v), Eased(unit[e], v, 0),
         Ahead(e)' /\ v.life = "alive" => Pure(v)
  PROVE  Lightens
  <1>1. PICK r : r = Bare(v)
    OBVIOUS
  <1>2. r.unit = v /\ r.gain = 0
    BY <1>1, BareIs
  <1>3. r.gain \in Int
    BY <1>2
  <1> QED
    BY <1>1, <1>2, <1>3, LightBy

\* A queue with an entry more that is no topic, and not marked.
LEMMA EaseIssued ==
  ASSUME NEW u \in Components, NEW o \in OnFoot \cup {"Morph"}, NEW v \in Components,
         v.queue = Push(u.queue, o, Unmarked), v.owner = u.owner, v.life = u.life,
         v.paid = u.paid, v.change = u.change, v.form = u.form
  PROVE  Eased(u, v, 0) /\ (Pure(u) => Pure(v))
  <1>1. PICK q : q = u.queue
    OBVIOUS
  <1>2. PICK p : p = Append(q, Entry(o))
    OBVIOUS
  <1>3. o \in Order /\ o \notin Topic
    BY OrdersAssumption DEF Order, OnFoot
  <1>4. q \in Seq(Entries) /\ v.queue = p
    BY <1>1, <1>2, UnitQueue DEF Push
  <1>5. Entry(o) \in Entries
    BY <1>3, EntryTyped
  <1>6. p \in Seq(Entries) /\ Len(p) = Len(q) + 1 /\ p[Len(q) + 1] = Entry(o)
        /\ \A i \in 1 .. Len(q) : p[i] = q[i]
    BY <1>2, <1>4, <1>5, AppendProperties
  <1>7. DOMAIN q = 1 .. Len(q) /\ DOMAIN p = 1 .. Len(q) + 1 /\ Len(q) \in Nat
    BY <1>4, <1>6, QueueDomain
  <1>8. Entry(o).order = o /\ ~Marked(Entry(o))
    BY DEF Entry, Marked
  <1>9. \A i \in DOMAIN p : i \in DOMAIN q \/ i = Len(q) + 1
    BY <1>7
  <1>10. Stems(q, p)
    BY <1>3, <1>6, <1>7, <1>8, <1>9 DEF Stems
  <1>11. Pure(u) => Pure(v)
    BY <1>1, <1>4, <1>6, <1>7, <1>8, <1>9 DEF Pure
  <1>12. Bound(v) + 0 <= Bound(u)
    <2>1. Bound(v) = Bound(u)
      BY DEF Bound, Changing
    <2> QED
      BY <2>1, BoundIs
  <1>13. Len(v.paid) <= Len(u.paid)
    <2>1. Len(u.paid) \in Nat
      BY DEF Components
    <2> QED
      BY <2>1
  <1> QED
    BY <1>1, <1>4, <1>10, <1>11, <1>12, <1>13, EasedBy

\* A field, or a trainer lost, takes nothing up.
LEMMA LightOutage ==
  ASSUME UnitsInv, NEW e \in Entity, NEW outage \in {"none", "field", "orphaned"},
         Outage(e, outage)
  PROVE  Lightens
  <1>1. PICK u : u = unit[e]
    OBVIOUS
  <1>2. PICK v : v = [u EXCEPT !.outage = outage]
    OBVIOUS
  <1>3. Becoming(e, Bare(v)) /\ Waits /\ stage = "commands"
    BY <1>1, <1>2 DEF Outage, Commands
  <1>4. Fit(u) /\ u \in Components
    BY <1>1, UnitIs
  <1>5. Fit(v)
    BY <1>2, <1>4, FitOutage
  <1>6. v.queue = u.queue /\ v.owner = u.owner /\ v.life = u.life
        /\ v.paid = u.paid /\ v.change = u.change /\ v.form = u.form
    BY <1>2, <1>4 DEF Components
  <1>7. Eased(u, v, 0)
    BY <1>4, <1>6, EaseSame
  <1>8. ~Ahead(e)'
    BY <1>3 DEF Waits, Ahead
  <1> QED
    BY <1>1, <1>3, <1>5, <1>7, <1>8, LightBare

\* Nor does a death from outside.
LEMMA LightKill ==
  ASSUME UnitsInv, NEW e \in Entity, Kill(e)
  PROVE  Lightens
  <1>1. PICK u : u = unit[e]
    OBVIOUS
  <1>2. PICK v : v = [StartDying(u) EXCEPT !.queue = Push(@, "Die", "force")]
    OBVIOUS
  <1>3. Becoming(e, Bare(v)) /\ u.life = "alive"
    BY <1>1, <1>2 DEF Kill, Amid, Alive
  <1>4. Fit(u)
    BY <1>1, UnitIs
  <1>5. Fit(v) /\ v.life = "dying"
    BY <1>2, <1>3, <1>4, FitPerishes
  <1>6. Eased(u, v, 0)
    <2>1. 0 \in Int /\ 0 <= Bound(u) /\ v.life # "alive"
      BY <1>5, BoundIs
    <2> QED
      BY <2>1, EasedDead
  <1> QED
    BY <1>1, <1>3, <1>5, <1>6, LightBare

\* Nor an entity let out of its holder.
LEMMA LightLetOut ==
  ASSUME UnitsInv, CleanInv, NEW e \in Entity, NEW sent \in BOOLEAN, LetOut(e, sent)
  PROVE  Lightens
  <1>1. PICK u : u = unit[e]
    OBVIOUS
  <1>2. PICK v : v = [u EXCEPT !.aboard = FALSE,
                               !.queue = IF sent THEN Push(@, "Move", Unmarked) ELSE @]
    OBVIOUS
  <1>3. Becoming(e, Bare(v)) /\ Waits /\ u.life = "alive" /\ u.aboard
    BY <1>1, <1>2 DEF LetOut, Amid, Alive
  <1>4. Fit(u) /\ u \in Components
    BY <1>1, UnitIs
  <1>5. Fit(v)
    BY <1>2, <1>3, <1>4, FitLetOut
  <1>6. v \in Components
    BY <1>5 DEF Fit
  <1>7. v.queue = (IF sent THEN Push(u.queue, "Move", Unmarked) ELSE u.queue)
        /\ v.owner = u.owner /\ v.life = u.life
        /\ v.paid = u.paid /\ v.change = u.change /\ v.form = u.form
    BY <1>2, <1>4 DEF Components
  <1>8. Eased(u, v, 0) /\ (Pure(u) => Pure(v))
    <2>1. CASE sent
      <3>1. "Move" \in OnFoot \cup {"Morph"} /\ v.queue = Push(u.queue, "Move", Unmarked)
        BY <1>7, <2>1 DEF OnFoot
      <3> QED
        BY <1>4, <1>6, <1>7, <3>1, EaseIssued
    <2>2. CASE ~sent
      <3>1. v.queue = u.queue
        BY <1>7, <2>2
      <3> QED
        BY <1>4, <1>7, <3>1, EaseSame DEF Pure
    <2> QED
      BY <2>1, <2>2
  <1>9. Ahead(e)' => Pure(u)
    BY <1>1, <1>3, AheadWaits DEF CleanInv, Alive
  <1> QED
    BY <1>1, <1>3, <1>5, <1>8, <1>9, LightBare

\* Nor an idle entity asked out of the way.
LEMMA LightMakeWay ==
  ASSUME UnitsInv, NEW e \in Entity, MakeWay(e)
  PROVE  Lightens
  <1>1. PICK u : u = unit[e]
    OBVIOUS
  <1>2. PICK w : w = [u EXCEPT !.queue = Push(@, "Move", Unmarked)]
    OBVIOUS
  <1>3. PICK r : r = PrepareFront(w, TRUE, 0)
    OBVIOUS
  <1>4. u.life = "alive" /\ u.queue = <<>>
    BY <1>1 DEF MakeWay, Amid, Alive
  <1>5. Push(u.queue, "Move", Unmarked) = <<Entry("Move")>>
    BY <1>4 DEF Push
  <1>6. w = [u EXCEPT !.queue = <<Entry("Move")>>]
    BY <1>2, <1>5
  <1>7. Becoming(e, r)
    BY <1>1, <1>3, <1>6 DEF MakeWay
  <1>8. Fit(u) /\ u \in Components
    BY <1>1, UnitIs
  <1>9. "Move" \in OnFoot \cup {"Morph"} /\ Unmarked \in {Unmarked, "soft"}
    BY DEF OnFoot
  <1>10. Fit(w)
    BY <1>2, <1>4, <1>8, <1>9, FitIssue
  <1>11. w \in Components
    BY <1>10 DEF Fit
  <1>12. w.queue = Push(u.queue, "Move", Unmarked) /\ w.owner = u.owner /\ w.life = u.life
         /\ w.paid = u.paid /\ w.change = u.change /\ w.form = u.form
    BY <1>2, <1>8 DEF Components
  <1>13. Eased(u, w, 0) /\ (Pure(u) => Pure(w))
    BY <1>8, <1>9, <1>11, <1>12, EaseIssued
  <1>14. Sent(w, r) /\ (Pure(w) => Poised(r.unit))
    BY <1>3, <1>4, <1>10, <1>12, FitSent DEF Pure
  <1>15. Eased(w, r.unit, r.gain)
    BY <1>3, <1>10, EaseSent
  <1>16. Fit(r.unit) /\ r.gain = 0 /\ r.unit \in Components
    BY <1>14 DEF Sent, Fit
  <1>17. Eased(u, r.unit, r.gain)
    <2>1. u.paid \in Seq(UnitType) /\ w.paid \in Seq(UnitType) /\ r.unit.paid \in Seq(UnitType)
      BY <1>8, <1>11, <1>16 DEF Components
    <2>2. 0 \in Int /\ r.gain \in Int /\ r.gain = 0 + r.gain
      BY <1>16
    <2> QED
      BY <1>13, <1>15, <2>1, <2>2, EasedTwice
  <1>18. Pure(r.unit)
    <2>1. Pure(u)
      BY <1>4 DEF Pure
    <2> QED
      BY <1>13, <1>14, <2>1 DEF Poised, Pure
  <1>19. r.gain \in Int
    BY <1>16
  <1> QED
    BY <1>1, <1>7, <1>16, <1>17, <1>18, <1>19, LightBy

\* Nor a capture.
LEMMA LightChangeOwner ==
  ASSUME UnitsInv, NEW e \in Entity, NEW p \in Player, ChangeOwner(e, p)
  PROVE  Lightens
  <1>1. PICK u : u = unit[e]
    OBVIOUS
  <1>2. PICK kept \in 0 .. 1 : kept = IF Changing(u) THEN 1 ELSE 0
    OBVIOUS
  <1>3. PICK r : r = DropOrders(u, "force", kept, FALSE)
    OBVIOUS
  <1>4. PICK w : w = r.unit
    OBVIOUS
  <1>5. PICK v : v = [w EXCEPT !.owner = p]
    OBVIOUS
  <1>6. u.life = "alive" /\ stock' = stock /\ unit' = [unit EXCEPT ![e] = v]
    BY <1>1, <1>2, <1>3, <1>4, <1>5 DEF ChangeOwner, Amid, Alive
  <1>7. Fit(u) /\ u.owner \in Player
    BY <1>1, UnitIs
  <1>8. "force" \in Policy /\ (kept = 1 <=> Changing(u))
    BY <1>2 DEF Policy
  <1>9. DropLeaves(u, "force", kept, r) /\ DropEases(u, "force", r)
    BY <1>3, <1>6, <1>7, <1>8, FitDrop, EaseDrop
  <1>10. Fit(w) /\ w \in Components /\ Eased(u, w, 0) /\ w.paid = <<>> /\ Topics(w) = {} /\ Pure(w)
    BY <1>4, <1>9 DEF DropLeaves, DropEases, Pure
  <1>11. Fit(v)
    BY <1>5, <1>10, FitOwner
  <1>12. v.queue = w.queue /\ v.paid = w.paid /\ v.life = w.life /\ v.change = w.change
         /\ v.form = w.form
    BY <1>5, <1>10 DEF Components
  <1>13. Topics(v) = Topics(w) /\ Pending(v) = Pending(w) /\ Bound(v) = Bound(w)
         /\ (Pure(v) <=> Pure(w))
    BY <1>12 DEF Topics, Pending, Bound, Changing, Pure
  <1>14. Eased(u, v, 0)
    BY <1>10, <1>12, <1>13 DEF Eased
  <1>15. Becoming(e, Bare(v))
    <2>1. stock \in [Player -> Nat]
      BY DEF UnitsInv, OrdersTypeOK
    <2>2. PICK s : s = Bare(v)
      OBVIOUS
    <2>3. s.unit = v /\ s.gain = 0
      BY <2>2, BareIs
    <2>4. stock' = [stock EXCEPT ![unit[e].owner] = @ + s.gain]
      <3>1. stock[unit[e].owner] + s.gain = stock[unit[e].owner]
        BY <1>1, <1>7, <2>1, <2>3
      <3>2. PICK o : o = unit[e].owner
        OBVIOUS
      <3>3. stock = [stock EXCEPT ![o] = stock[o]]
        BY <2>1
      <3> QED
        BY <1>6, <3>1, <3>2, <3>3
    <2>5. Becoming(e, s)
      BY <1>6, <2>3, <2>4 DEF Becoming
    <2> QED
      BY <2>2, <2>5
  <1> QED
    BY <1>1, <1>10, <1>11, <1>13, <1>14, <1>15, LightBare

\* Nor does a unit that drops its orders, and is somewhere else then.
LEMMA LightDropped ==
  ASSUME UnitsInv, NEW e \in Entity, NEW w, Fit(w), w.life = "alive", ~Changing(w),
         Eased(unit[e], w, 0), NEW r, r = DropOrders(w, "soft", 0, FALSE),
         NEW aboard \in BOOLEAN, Becoming(e, [r EXCEPT !.unit.aboard = aboard])
  PROVE  Lightens
  <1>1. "soft" \in Policy /\ 0 \in 0 .. 1 /\ (0 = 1 <=> Changing(w))
    BY DEF Policy
  <1>2. DropLeaves(w, "soft", 0, r) /\ DropEases(w, "soft", r)
    BY <1>1, FitDrop, EaseDrop
  <1>3. PICK x : x = r.unit
    OBVIOUS
  <1>4. Fit(x) /\ ~x.crossing /\ r.gain = 0 /\ x \in Components /\ Eased(w, x, 0) /\ Pure(x)
    BY <1>2, <1>3 DEF DropLeaves, DropEases, Pure
  <1>5. PICK v : v = [x EXCEPT !.aboard = aboard]
    OBVIOUS
  <1>6. Fit(v)
    BY <1>4, <1>5, FitAboard
  <1>7. r = [unit |-> x, gain |-> 0]
    BY <1>3, <1>4, DropShape
  <1>8. PICK s : s = [r EXCEPT !.unit.aboard = aboard]
    OBVIOUS
  <1>9. s.unit = v /\ s.gain = 0
    BY <1>5, <1>7, <1>8
  <1>10. Becoming(e, Bare(v))
    BY <1>8, <1>9, BareIs DEF Becoming
  <1>11. v.queue = x.queue /\ v.owner = x.owner /\ v.life = x.life
         /\ v.paid = x.paid /\ v.change = x.change /\ v.form = x.form
    BY <1>4, <1>5 DEF Components
  <1>12. Eased(x, v, 0) /\ Pure(v)
    BY <1>4, <1>11, EaseSame DEF Pure
  <1>13. Eased(unit[e], v, 0)
    <2>1. PICK u : u = unit[e]
      OBVIOUS
    <2>2. u \in Components /\ w \in Components /\ v \in Components
      BY <1>6, <2>1, UnitIs DEF Fit
    <2>3. u.paid \in Seq(UnitType) /\ w.paid \in Seq(UnitType) /\ x.paid \in Seq(UnitType)
          /\ v.paid \in Seq(UnitType)
      BY <1>4, <2>2 DEF Components
    <2>4. 0 \in Int /\ 0 = 0 + 0
      OBVIOUS
    <2>5. Eased(u, w, 0)
      BY <2>1
    <2>6. Eased(u, x, 0)
      BY <1>4, <2>3, <2>4, <2>5, EasedTwice
    <2>7. Eased(u, v, 0)
      BY <1>12, <2>3, <2>4, <2>6, EasedTwice
    <2> QED
      BY <2>1, <2>7
  <1> QED
    BY <1>6, <1>10, <1>12, <1>13, LightBare

\* Taken aboard, or set down elsewhere.
LEMMA LightDisplace ==
  ASSUME UnitsInv, NEW e \in Entity, NEW aboard \in BOOLEAN, Displace(e, aboard)
  PROVE  Lightens
  <1>1. PICK u : u = unit[e]
    OBVIOUS
  <1>2. PICK r : r = DropOrders(u, "soft", 0, FALSE)
    OBVIOUS
  <1>3. u.life = "alive" /\ ~Changing(u) /\ Becoming(e, [r EXCEPT !.unit.aboard = aboard])
    BY <1>1, <1>2 DEF Displace, Amid, Alive
  <1>4. Fit(u) /\ u \in Components
    BY <1>1, UnitIs
  <1>5. Eased(unit[e], u, 0)
    BY <1>1, <1>4, EaseSame
  <1> QED
    BY <1>2, <1>3, <1>4, <1>5, LightDropped

\* A turn that leaves a unit's place in the tick behind it.
LEMMA LightTurn ==
  ASSUME UnitsInv, NEW e \in Entity, NEW s, Turn(s, e), s # "watch", NEW r, Becoming(e, r),
         Fit(r.unit), r.gain \in Int, Eased(unit[e], r.unit, r.gain)
  PROVE  Lightens
  <1>1. ~Ahead(e)'
    BY AheadWatched
  <1> QED
    BY <1>1, LightBy

\* The same, when nothing is paid.
LEMMA LightTurnBare ==
  ASSUME UnitsInv, NEW e \in Entity, NEW s, Turn(s, e), s # "watch", NEW v, Becoming(e, Bare(v)),
         Fit(v), Eased(unit[e], v, 0)
  PROVE  Lightens
  <1>1. ~Ahead(e)'
    BY AheadWatched
  <1> QED
    BY <1>1, LightBare

\* The dying take nothing up.
LEMMA LightProcessDying ==
  ASSUME UnitsInv, NEW e \in Entity, ProcessDying(e)
  PROVE  Lightens
  <1>1. PICK u : u = unit[e]
    OBVIOUS
  <1>2. PICK r : r = PrepareTick(u, TRUE, FALSE, 0)
    OBVIOUS
  <1>3. Fades(e, r) /\ DeathRuns(u, r) /\ Turn("dying", e)
    BY <1>1, <1>2, DeathTurn
  <1>4. PICK v : /\ Becoming(e, Bare(v))
                 /\ \/ r.unit.left > 0 /\ v = [r.unit EXCEPT !.left = @ - 1]
                    \/ v = [r.unit EXCEPT !.queue = Tail(@), !.life = "gone", !.aboard = FALSE]
    BY <1>3 DEF Fades
  <1>5. u \in Components
    BY <1>1, UnitIs
  <1>6. Fit(v) /\ v.life # "alive"
    BY <1>3, <1>4, <1>5, FitFades, FitGone
  <1>7. Eased(u, v, 0)
    <2>1. 0 \in Int /\ 0 <= Bound(u)
      BY BoundIs
    <2> QED
      BY <1>6, <2>1, EasedDead
  <1>8. Eased(unit[e], v, 0)
    BY <1>1, <1>7
  <1>9. Becoming(e, Bare(v))
    BY <1>4
  <1> QED
    BY <1>3, <1>6, <1>8, <1>9, LightTurnBare

\* Nor does a queue that is flushed and prepared: a change that begins is paid for.
LEMMA LightPrepare ==
  ASSUME UnitsInv, NEW e \in Entity, Prepare(e)
  PROVE  Lightens
  <1>1. PICK u : u = unit[e]
    OBVIOUS
  <1>2. PICK funds : funds = stock[u.owner]
    OBVIOUS
  <1>3. PICK clear \in BOOLEAN, doomed \in BOOLEAN :
          Becoming(e, PrepareTick(u, clear, doomed, funds))
    BY <1>1, <1>2 DEF Prepare
  <1>4. PICK r : r = PrepareTick(u, clear, doomed, funds)
    OBVIOUS
  <1>5. Becoming(e, r) /\ Turn("prepare", e) /\ u.life = "alive"
    BY <1>1, <1>3, <1>4 DEF Prepare, Alive
  <1>6. Fit(u) /\ funds \in Nat
    BY <1>1, <1>2, UnitIs
  <1>7. Fit(r.unit) /\ funds + r.gain \in Nat
    BY <1>4, <1>5, <1>6, FitTick
  <1>8. Eased(u, r.unit, r.gain)
    BY <1>4, <1>5, <1>6, EaseTick
  <1>9. r.gain \in Int
    <2>1. PICK w, f, g : Ticked(u, clear, doomed, funds, r, w, f, g)
      BY <1>4, <1>5, <1>6, TickSteps
    <2>2. f.gain \in 0 .. 1 /\ r.gain = f.gain + g.gain /\ Prepared(f.unit, clear, funds + f.gain, g)
      BY <2>1 DEF Ticked
    <2>3. g.gain \in {0, -1}
      BY <2>2 DEF Prepared
    <2> QED
      BY <2>2, <2>3
  <1>10. Eased(unit[e], r.unit, r.gain) /\ "prepare" # "watch"
    BY <1>1, <1>8
  <1> QED
    BY <1>5, <1>7, <1>9, <1>10, LightTurn

\* A walk broken off for an enemy takes nothing up.
LEMMA EaseFights ==
  ASSUME NEW u, Fit(u), u.life = "alive", NEW w, Fights(u, w), NEW r, r = PrepareFront(w, TRUE, 0)
  PROVE  Eased(u, r.unit, r.gain)
  <1>1. /\ Fit(w) /\ w.life = u.life /\ w.owner = u.owner
        /\ w.form = u.form /\ w.paid = u.paid /\ w.change = u.change
        /\ DOMAIN w.queue = DOMAIN u.queue
        /\ w.queue[1].order = "Attack" /\ \A i \in DOMAIN u.queue : i # 1 => w.queue[i] = u.queue[i]
    BY DEF Fights
  <1>2. u \in Components /\ w \in Components
    BY <1>1 DEF Fit
  <1>3. r.unit \in Components /\ r.gain = 0
    <2>1. Sent(w, r)
      BY <1>1, FitSent
    <2> QED
      BY <2>1 DEF Sent, Fit
  <1>4. Stems(u.queue, w.queue)
    <2>1. "Attack" \notin Topic
      BY OrdersAssumption DEF OnFoot
    <2> QED
      BY <1>1, <2>1 DEF Stems
  <1>5. Bound(w) + 0 <= Bound(u)
    <2>1. Bound(w) = Bound(u)
      BY <1>1 DEF Bound, Changing
    <2> QED
      BY <2>1, BoundIs
  <1>6. u.paid \in Seq(UnitType) /\ w.paid \in Seq(UnitType) /\ r.unit.paid \in Seq(UnitType)
    BY <1>2, <1>3 DEF Components
  <1>7. Len(w.paid) <= Len(u.paid)
    <2>1. Len(u.paid) \in Nat
      BY <1>6
    <2> QED
      BY <1>1, <2>1
  <1>8. Eased(u, w, 0)
    BY <1>1, <1>4, <1>5, <1>7, EasedBy
  <1>9. Eased(w, r.unit, r.gain)
    BY <1>1, EaseSent
  <1>10. PICK g : g = r.gain
    OBVIOUS
  <1>11. g = 0
    BY <1>3, <1>10
  <1>12. g = 0 + g /\ 0 \in Int /\ g \in Int
    BY <1>11
  <1>13. PICK v : v = r.unit
    OBVIOUS
  <1>14. Eased(w, v, g) /\ v.paid \in Seq(UnitType)
    BY <1>6, <1>9, <1>10, <1>13
  <1>15. Eased(u, v, g)
    BY <1>6, <1>8, <1>12, <1>14, EasedTwice
  <1> QED
    BY <1>10, <1>13, <1>15

\* As a step of the system.
LEMMA LightWatch ==
  ASSUME UnitsInv, NEW e \in Entity, Watch(e)
  PROVE  Lightens
  <1>1. PICK u : u = unit[e]
    OBVIOUS
  <1>2. PICK w : w = [CancelMove(u, u.queue[1], "force").unit EXCEPT !.queue = Fighting(@)]
    OBVIOUS
  <1>3. PICK r : r = PrepareFront(w, TRUE, 0)
    OBVIOUS
  <1>4. /\ Turn("watch", e) /\ u.life = "alive"
        /\ UNCHANGED <<unit, stock>> \/ (Engages(u) /\ Becoming(e, r))
    BY <1>1, <1>2, <1>3 DEF Watch, Alive, Fighting
  <1>5. Fit(u) /\ u \in Components
    BY <1>1, UnitIs
  <1>6. CASE UNCHANGED <<unit, stock>>
    BY <1>6 DEF Lightens
  <1>7. CASE Engages(u) /\ Becoming(e, r)
    <2>1. Poised(u)
      BY <1>1, <1>4 DEF UnitsInv, Past, Turn, Phase, Alive
    <2>2. Sent(u, r) /\ Poised(r.unit)
      BY <1>2, <1>3, <1>4, <1>5, <1>7, <2>1, FitWatch
    <2>3. Fit(r.unit) /\ r.gain = 0 /\ r.unit.owner = u.owner /\ r.unit.life = u.life
          /\ r.unit.paid = u.paid /\ r.unit.form = u.form
      BY <1>4, <2>2 DEF Sent
    <2>4. Eased(u, r.unit, r.gain)
      BY <1>2, <1>3, <1>4, <1>5, <1>7, <2>1, FitFights, EaseFights
    <2>5. Pure(r.unit) /\ r.gain \in Int
      BY <2>2, <2>3 DEF Poised, Pure
    <2> QED
      BY <1>1, <1>7, <2>3, <2>4, <2>5, LightBy
  <1> QED
    BY <1>4, <1>6, <1>7

\* An order that suspends itself for another takes up no topic.
LEMMA EaseSuspended ==
  ASSUME NEW u, Fit(u), u.queue # <<>>, NEW o \in OnFoot, NEW v, v = Suspended(u, o)
  PROVE  Eased(u, v, 0)
  <1>1. u \in Components /\ u.queue \in Seq(Entries)
    BY UnitQueue DEF Fit
  <1>2. PICK q : q = u.queue
    OBVIOUS
  <1>3. PICK p : p = Split(q, o)
    OBVIOUS
  <1>4. o \in Order /\ o \notin Topic
    BY OrdersAssumption DEF Order
  <1>5. v.queue = p /\ v.owner = u.owner /\ v.life = u.life /\ v.paid = u.paid
        /\ v.change = u.change /\ v.form = u.form
    BY <1>1, <1>2, <1>3 DEF Suspended, Split, Components
  <1>6. q \in Seq(Entries) /\ q # <<>>
    BY <1>1, <1>2
  <1>7. /\ p \in Seq(Entries) /\ Len(p) = Len(q) + 1 /\ DOMAIN p = 1 .. Len(q) + 1
        /\ p[1].order = o
        /\ p[2].order = q[1].order /\ p[2].cancel = q[1].cancel
        /\ \A i \in 2 .. Len(q) : p[i + 1] = q[i]
    BY <1>3, <1>4, <1>6, SubPushed
  <1>8. Len(q) \in Nat /\ DOMAIN q = 1 .. Len(q) /\ Len(q) >= 1
    BY <1>6, QueueDomain
  <1>9. Stems(q, p)
    <2> SUFFICES ASSUME NEW i \in DOMAIN p, p[i].order \in Topic
                 PROVE  \E j \in DOMAIN q : /\ q[j].order = p[i].order
                                            /\ q[j].cancel = "force" => p[i].cancel = "force"
      BY DEF Stems
    <2>1. i # 1
      BY <1>4, <1>7
    <2>2. CASE i = 2
      <3>1. 1 \in DOMAIN q
        BY <1>8
      <3> QED
        BY <1>7, <2>2, <3>1
    <2>3. CASE i # 2
      <3>1. PICK j : j = i - 1
        OBVIOUS
      <3>2. j \in 2 .. Len(q) /\ i = j + 1
        BY <1>7, <1>8, <2>1, <2>3, <3>1
      <3>3. j \in DOMAIN q /\ p[i] = q[j]
        BY <1>7, <1>8, <3>2
      <3> QED
        BY <3>3
    <2> QED
      BY <2>2, <2>3
  <1>10. Bound(v) + 0 <= Bound(u)
    <2>1. Bound(v) = Bound(u)
      BY <1>5 DEF Bound, Changing
    <2> QED
      BY <2>1, BoundIs
  <1>11. Len(v.paid) <= Len(u.paid)
    <2>1. Len(u.paid) \in Nat
      BY <1>1 DEF Components
    <2> QED
      BY <1>5, <2>1
  <1> QED
    BY <1>2, <1>5, <1>9, <1>10, <1>11, EasedBy

\* Nor does one that ends.
LEMMA EaseEnded ==
  ASSUME NEW u, Fit(u), u.queue # <<>>, NEW v, v = Finished(u)
  PROVE  Eased(u, v, 0)
  <1>1. u \in Components
    BY DEF Fit
  <1>2. /\ v \in Components /\ v.queue = Tail(u.queue) /\ v.owner = u.owner /\ v.form = u.form
        /\ v.life = u.life /\ v.paid = u.paid /\ v.change = u.change
    BY <1>1, FinishedIs
  <1>3. Bound(v) + 0 <= Bound(u)
    <2>1. Bound(v) = Bound(u)
      BY <1>2 DEF Bound, Changing
    <2> QED
      BY <2>1, BoundIs
  <1>4. Len(v.paid) <= Len(u.paid) /\ 0 \in Int
    <2>1. Len(u.paid) \in Nat
      BY <1>1 DEF Components
    <2> QED
      BY <1>2, <2>1
  <1> QED
    BY <1>1, <1>2, <1>3, <1>4, EaseFinished

\* A walk takes nothing up.
LEMMA LightProcessMove ==
  ASSUME UnitsInv, NEW e \in Entity, ProcessMove(e)
  PROVE  Lightens
  <1>1. PICK u : u = unit[e]
    OBVIOUS
  <1>2. Advances(e, {"Move"})
    BY DEF ProcessMove
  <1>3. /\ Turn("process", e) /\ Fit(u) /\ u \in Components /\ u.life = "alive" /\ u.queue # <<>>
        /\ u.queue[1].state = "running" /\ u.queue[1].order \in Order
        /\ Kind(u.queue[1].order) = "Move" /\ ~u.aboard
    BY <1>1, <1>2, AdvancesIs
  <1>4. u.queue[1].order = "Move" /\ "process" # "watch"
    BY <1>3 DEF Kind
  <1>5. \/ \E crossing \in BOOLEAN : Becoming(e, Bare([u EXCEPT !.crossing = crossing]))
        \/ Becoming(e, Bare([Finished(u) EXCEPT !.crossing = FALSE, !.winding = FALSE]))
    BY <1>1 DEF ProcessMove
  <1>6. CASE \E crossing \in BOOLEAN : Becoming(e, Bare([u EXCEPT !.crossing = crossing]))
    <2>1. PICK crossing \in BOOLEAN : Becoming(e, Bare([u EXCEPT !.crossing = crossing]))
      BY <1>6
    <2>2. PICK v : v = [u EXCEPT !.crossing = crossing]
      OBVIOUS
    <2>3. Fit(v)
      BY <1>3, <1>4, <2>2, FitCrossing
    <2>4. Becoming(e, Bare(v))
      BY <2>1, <2>2
    <2>5. v.queue = u.queue /\ v.owner = u.owner /\ v.life = u.life
          /\ v.paid = u.paid /\ v.change = u.change /\ v.form = u.form
      BY <1>3, <2>2 DEF Components
    <2>6. Eased(unit[e], v, 0)
      BY <1>1, <1>3, <2>5, EaseSame
    <2> QED
      BY <1>3, <1>4, <2>3, <2>4, <2>6, LightTurnBare
  <1>7. CASE Becoming(e, Bare([Finished(u) EXCEPT !.crossing = FALSE, !.winding = FALSE]))
    <2>1. PICK w : w = Finished(u)
      OBVIOUS
    <2>2. PICK v : v = [w EXCEPT !.crossing = FALSE, !.winding = FALSE]
      OBVIOUS
    <2>3. Fit(v)
      BY <1>3, <1>4, <2>1, <2>2, FitArrived
    <2>4. Becoming(e, Bare(v))
      BY <1>7, <2>1, <2>2
    <2>5. w \in Components
      BY <1>3, <2>1, FinishedIs
    <2>6. v.queue = w.queue /\ v.owner = w.owner /\ v.life = w.life
          /\ v.paid = w.paid /\ v.change = w.change /\ v.form = w.form /\ v \in Components
      BY <2>2, <2>5 DEF Components
    <2>7. Eased(u, w, 0) /\ Eased(w, v, 0)
      BY <1>3, <2>1, <2>5, <2>6, EaseEnded, EaseSame
    <2>8. u.paid \in Seq(UnitType) /\ w.paid \in Seq(UnitType) /\ v.paid \in Seq(UnitType)
          /\ 0 \in Int /\ 0 = 0 + 0
      BY <1>3, <2>5, <2>6 DEF Components
    <2>9. Eased(unit[e], v, 0)
      BY <1>1, <2>7, <2>8, EasedTwice
    <2> QED
      BY <1>3, <1>4, <2>3, <2>4, <2>9, LightTurnBare
  <1> QED
    BY <1>5, <1>6, <1>7

\* Nor does any other order on foot.
LEMMA LightProcessOnFoot ==
  ASSUME UnitsInv, NEW e \in Entity, ProcessOnFoot(e)
  PROVE  Lightens
  <1>1. PICK u : u = unit[e]
    OBVIOUS
  <1>2. Advances(e, OnFoot \ {"Move", "Patrol"})
    BY DEF ProcessOnFoot
  <1>3. /\ Turn("process", e) /\ Fit(u) /\ u \in Components /\ u.life = "alive" /\ u.queue # <<>>
        /\ u.queue[1].state = "running" /\ u.queue[1].order \in Order
        /\ Kind(u.queue[1].order) \in OnFoot \ {"Move", "Patrol"}
    BY <1>1, <1>2, AdvancesIs
  <1>4. u.queue[1].order \notin {"Move", "Morph", "Train"} /\ "process" # "watch"
    BY <1>3 DEF Kind, OnFoot, Legs
  <1>5. \/ \E o \in SubOrders(u.queue[1].order) : Becoming(e, Bare(Suspended(u, o)))
        \/ Becoming(e, Bare(u))
        \/ Becoming(e, Bare(Finished(u)))
    BY <1>1 DEF ProcessOnFoot
  <1>6. CASE \E o \in SubOrders(u.queue[1].order) : Becoming(e, Bare(Suspended(u, o)))
    <2>1. PICK o \in SubOrders(u.queue[1].order) : Becoming(e, Bare(Suspended(u, o)))
      BY <1>6
    <2>2. PICK v : v = Suspended(u, o)
      OBVIOUS
    <2>3. Fit(v)
      BY <1>3, <2>2, FitSuspended
    <2>4. Becoming(e, Bare(v))
      BY <2>1, <2>2
    <2>5. o \in OnFoot
      BY DEF SubOrders, OnFoot, Legs
    <2>6. Eased(unit[e], v, 0)
      BY <1>1, <1>3, <2>2, <2>5, EaseSuspended
    <2> QED
      BY <1>3, <1>4, <2>3, <2>4, <2>6, LightTurnBare
  <1>7. CASE Becoming(e, Bare(u))
    <2>1. Eased(unit[e], u, 0)
      BY <1>1, <1>3, EaseSame
    <2> QED
      BY <1>3, <1>4, <1>7, <2>1, LightTurnBare
  <1>8. CASE Becoming(e, Bare(Finished(u)))
    <2>1. PICK v : v = Finished(u)
      OBVIOUS
    <2>2. Fit(v)
      BY <1>3, <1>4, <2>1, FitFinished
    <2>3. Becoming(e, Bare(v))
      BY <1>8, <2>1
    <2>4. Eased(unit[e], v, 0)
      BY <1>1, <1>3, <2>1, EaseEnded
    <2> QED
      BY <1>3, <1>4, <2>2, <2>3, <2>4, LightTurnBare
  <1> QED
    BY <1>5, <1>6, <1>7, <1>8

\* Nor a patrol.
LEMMA LightProcessPatrol ==
  ASSUME UnitsInv, NEW e \in Entity, ProcessPatrol(e)
  PROVE  Lightens
  <1>1. PICK u : u = unit[e]
    OBVIOUS
  <1>2. Advances(e, {"Patrol"})
    BY DEF ProcessPatrol
  <1>3. /\ Turn("process", e) /\ Fit(u) /\ u \in Components /\ u.life = "alive" /\ u.queue # <<>>
        /\ u.queue[1].state = "running" /\ u.queue[1].order \in Order
        /\ Kind(u.queue[1].order) = "Patrol"
    BY <1>1, <1>2, AdvancesIs
  <1>4. "AttackMove" \in SubOrders(u.queue[1].order) /\ "AttackMove" \in OnFoot
    BY <1>3 DEF Kind, SubOrders, OnFoot, Legs
  <1>5. PICK v : v = Suspended(u, "AttackMove")
    OBVIOUS
  <1>6. Becoming(e, Bare(u)) \/ Becoming(e, Bare(v))
    BY <1>1, <1>5 DEF ProcessPatrol
  <1>7. Fit(v)
    BY <1>3, <1>4, <1>5, FitSuspended
  <1>8. Eased(unit[e], v, 0) /\ Eased(unit[e], u, 0)
    BY <1>1, <1>3, <1>4, <1>5, EaseSuspended, EaseSame
  <1>9. "process" # "watch"
    OBVIOUS
  <1> QED
    BY <1>3, <1>6, <1>7, <1>8, <1>9, LightTurnBare

\* A unit that becomes another while nobody pays.
LEMMA BareBecomes ==
  ASSUME UnitsInv, NEW e \in Entity, NEW v, unit' = [unit EXCEPT ![e] = v], UNCHANGED stock
  PROVE  Becoming(e, Bare(v))
  <1>1. stock \in [Player -> Nat] /\ unit[e].owner \in Player
    BY UnitIs DEF UnitsInv, OrdersTypeOK
  <1>2. PICK s : s = Bare(v)
    OBVIOUS
  <1>3. s.unit = v /\ s.gain = 0
    BY <1>2, BareIs
  <1>4. stock' = [stock EXCEPT ![unit[e].owner] = @ + s.gain]
    <2>1. PICK o \in Player : o = unit[e].owner
      BY <1>1
    <2>2. stock[o] + s.gain = stock[o]
      BY <1>1, <1>3
    <2>3. stock = [stock EXCEPT ![o] = stock[o]]
      BY <1>1
    <2> QED
      BY <2>1, <2>2, <2>3
  <1>5. Becoming(e, s)
    BY <1>3, <1>4 DEF Becoming
  <1> QED
    BY <1>2, <1>5

\* An entity that goes aboard takes nothing up.
LEMMA LightBoardHolder ==
  ASSUME UnitsInv, NEW e \in Entity, BoardHolder(e)
  PROVE  Lightens
  <1>1. PICK u : u = unit[e]
    OBVIOUS
  <1>2. Advances(e, {"Board"})
    BY DEF BoardHolder
  <1>3. /\ Turn("process", e) /\ Fit(u) /\ u.life = "alive" /\ u.queue # <<>>
        /\ u.queue[1].state = "running" /\ u.queue[1].order \in Order
        /\ Kind(u.queue[1].order) = "Board"
    BY <1>1, <1>2, AdvancesIs
  <1>4. u.queue[1].order = "Board"
    BY <1>3 DEF Kind
  <1>5. PICK w : w = Finished(u)
    OBVIOUS
  <1>6. PICK r : r = DropOrders(w, "soft", 0, FALSE)
    OBVIOUS
  <1>7. Becoming(e, [r EXCEPT !.unit.aboard = TRUE])
    BY <1>1, <1>5, <1>6 DEF BoardHolder
  <1>8. Fit(w) /\ w.life = "alive" /\ ~Changing(w)
    BY <1>3, <1>4, <1>5, <1>6, FitBoards
  <1>9. Eased(unit[e], w, 0) /\ TRUE \in BOOLEAN
    BY <1>1, <1>3, <1>5, EaseEnded
  <1> QED
    BY <1>6, <1>7, <1>8, <1>9, LightDropped

\* A unit that drops the first it was paid for.
LEMMA EaseTrained ==
  ASSUME NEW u, Fit(u), u.life = "alive", u.queue # <<>>, u.queue[1].state = "running",
         u.queue[1].order = "Train", u.paid # <<>>,
         NEW fewer, fewer = [u EXCEPT !.paid = Tail(@)],
         NEW v, v = fewer \/ (fewer.paid = <<>> /\ v = Finished(fewer))
  PROVE  /\ Fit(v) /\ Eased(u, v, 0) /\ v.owner = u.owner /\ v.life = "alive"
         /\ Len(v.paid) = Len(u.paid) - 1
  <1>1. /\ Fit(fewer) /\ fewer.life = "alive" /\ fewer.owner = u.owner
        /\ fewer.queue = u.queue /\ fewer.paid = Tail(u.paid)
        /\ fewer.paid = <<>> => Fit(Finished(fewer))
    BY FitTrained
  <1>2. u \in Components /\ fewer \in Components
    BY <1>1 DEF Fit
  <1>3. fewer.change = u.change /\ fewer.form = u.form
    BY <1>2 DEF Components
  <1>4. Len(fewer.paid) = Len(u.paid) - 1 /\ Len(fewer.paid) <= Len(u.paid)
    <2>1. u.paid \in Seq(UnitType)
      BY <1>2 DEF Components
    <2>2. PICK t : t = Tail(u.paid)
      OBVIOUS
    <2>3. t \in Seq(UnitType) /\ Len(t) = Len(u.paid) - 1 /\ Len(u.paid) \in Nat
      BY <2>1, <2>2, PaidTail
    <2> QED
      BY <1>1, <2>2, <2>3
  <1>5. Stems(u.queue, fewer.queue)
    BY <1>1 DEF Stems
  <1>6. Bound(fewer) + 0 <= Bound(u)
    <2>1. Bound(fewer) = Bound(u)
      BY <1>1, <1>3 DEF Bound, Changing
    <2> QED
      BY <2>1, BoundIs
  <1>7. Eased(u, fewer, 0)
    BY <1>1, <1>4, <1>5, <1>6, EasedBy
  <1>8. CASE v = fewer
    BY <1>1, <1>4, <1>7, <1>8
  <1>9. CASE fewer.paid = <<>> /\ v = Finished(fewer)
    <2>1. fewer.queue # <<>>
      BY <1>1
    <2>2. Eased(fewer, v, 0)
      BY <1>1, <1>9, <2>1, EaseEnded
    <2>3. v \in Components /\ v.owner = fewer.owner /\ v.life = fewer.life /\ v.paid = fewer.paid
      BY <1>2, <1>9, <2>1, FinishedIs, ZenonT(30)
    <2>4. u.paid \in Seq(UnitType) /\ fewer.paid \in Seq(UnitType) /\ v.paid \in Seq(UnitType)
          /\ 0 \in Int /\ 0 = 0 + 0
      BY <1>2, <2>3 DEF Components
    <2>5. Eased(u, v, 0)
      BY <1>7, <2>2, <2>4, EasedTwice
    <2> QED
      BY <1>1, <1>4, <1>9, <2>3, <2>5
  <1> QED
    BY <1>8, <1>9

\* Production of units takes nothing up.
LEMMA LightProcessTrain ==
  ASSUME UnitsInv, NEW e \in Entity, ProcessTrain(e)
  PROVE  Lightens
  <1>1. PICK u : u = unit[e]
    OBVIOUS
  <1>2. Advances(e, {"Train"}) /\ UNCHANGED stock
    BY DEF ProcessTrain
  <1>3. /\ Turn("process", e) /\ Fit(u) /\ u.life = "alive" /\ u.queue # <<>>
        /\ u.queue[1].state = "running" /\ u.queue[1].order \in Order
        /\ Kind(u.queue[1].order) = "Train"
    BY <1>1, <1>2, AdvancesIs
  <1>4. u.queue[1].order = "Train" /\ "process" # "watch"
    BY <1>3 DEF Kind
  <1>5. PICK fewer : fewer = [u EXCEPT !.paid = Tail(@)]
    OBVIOUS
  <1>6. PICK v : v = IF fewer.paid = <<>> THEN Finished(fewer) ELSE fewer
    OBVIOUS
  <1>7. \/ u.paid = <<>> /\ unit' = [unit EXCEPT ![e] = Finished(u)]
        \/ UNCHANGED unit
        \/ u.paid # <<>> /\ \E w \in {v, fewer} : unit' = [unit EXCEPT ![e] = w]
    BY <1>1, <1>5, <1>6 DEF ProcessTrain
  <1>8. CASE UNCHANGED unit
    BY <1>2, <1>8 DEF Lightens
  <1>9. CASE u.paid = <<>> /\ unit' = [unit EXCEPT ![e] = Finished(u)]
    <2>1. PICK w : w = Finished(u)
      OBVIOUS
    <2>2. Fit(w)
      BY <1>3, <1>4, <1>9, <2>1, FitFinished
    <2>3. unit' = [unit EXCEPT ![e] = w]
      BY <1>9, <2>1
    <2>4. Becoming(e, Bare(w))
      BY <1>2, <2>3, BareBecomes
    <2>5. Eased(unit[e], w, 0)
      BY <1>1, <1>3, <2>1, EaseEnded
    <2> QED
      BY <1>3, <1>4, <2>2, <2>4, <2>5, LightTurnBare
  <1>10. CASE u.paid # <<>> /\ \E w \in {v, fewer} : unit' = [unit EXCEPT ![e] = w]
    <2>1. PICK w \in {v, fewer} : unit' = [unit EXCEPT ![e] = w]
      BY <1>10
    <2>2. w = fewer \/ (fewer.paid = <<>> /\ w = Finished(fewer))
      BY <1>6, <2>1
    <2>3. Fit(w) /\ Eased(u, w, 0)
      BY <1>3, <1>4, <1>5, <1>10, <2>2, EaseTrained
    <2>4. Becoming(e, Bare(w))
      BY <1>2, <2>1, BareBecomes
    <2>5. Eased(unit[e], w, 0)
      BY <1>1, <2>3
    <2> QED
      BY <1>3, <1>4, <2>3, <2>4, <2>5, LightTurnBare
  <1> QED
    BY <1>7, <1>8, <1>9, <1>10

\* A topic paid back for is one that could be, and once.
LEMMA TopicPaidBack ==
  ASSUME NEW u, Fit(u), u.life = "alive", u.queue # <<>>, u.queue[1].state = "running",
         u.queue[1].order \in Topic, u.queue[1].cancel # "force", NEW v, v = Finished(u)
  PROVE  Lighter(u, v, 1)
  <1>1. u \in Components /\ Living(u) /\ u.queue \in Seq(Entries)
    BY UnitQueue DEF Fit
  <1>2. Fit(v) /\ v.life = "alive" /\ v.owner = u.owner /\ v.paid = u.paid
    <2>1. u.queue[1].order \notin {"Move", "Morph", "Train"}
      BY OrdersAssumption DEF OnFoot
    <2> QED
      BY <2>1, FitFinished
  <1>3. v.queue = Tail(u.queue) /\ v.form = u.form /\ v.change = u.change
    BY <1>1, FinishedIs
  <1>4. PICK t \in Topic : t = u.queue[1].order
    OBVIOUS
  <1>5. Eased(u, v, 0)
    BY EaseEnded
  <1>6. t \in Pending(u)
    <2>1. 1 \in DOMAIN u.queue
      BY <1>1
    <2> QED
      BY <1>4, <2>1 DEF Pending
  <1>7. t \notin Pending(v)
    <2> SUFFICES ASSUME NEW i \in DOMAIN v.queue, v.queue[i].order = t PROVE FALSE
      BY DEF Pending
    <2>1. PICK q : q = u.queue
      OBVIOUS
    <2>2. PICK p : p = Tail(q)
      OBVIOUS
    <2>3. p \in Seq(Entries) /\ Len(p) = Len(q) - 1 /\ \A j \in 1 .. Len(p) : p[j] = q[j + 1]
      BY <1>1, <2>1, <2>2, HeadTailProperties
    <2>4. /\ DOMAIN q = 1 .. Len(q) /\ Len(q) \in Nat /\ DOMAIN p = 1 .. Len(p)
          /\ v.queue = p
      BY <1>1, <1>3, <2>1, <2>2, <2>3, QueueDomain
    <2>5. i \in 1 .. Len(p) /\ i + 1 \in DOMAIN q /\ 1 \in DOMAIN q /\ i + 1 # 1
      BY <2>3, <2>4
    <2>6. q[i + 1].order = t
      BY <2>3, <2>4, <2>5
    <2> QED
      BY <1>1, <1>4, <2>1, <2>5, <2>6 DEF Living
  <1>8. /\ IsFiniteSet(Pending(u)) /\ Cardinality(Pending(u)) \in Nat /\ Len(u.paid) \in Nat
        /\ Held(u) = Len(u.paid) + Cardinality(Pending(u)) + Bound(u)
    BY HeldIs
  <1>9. /\ Cardinality(Pending(v)) \in Nat
        /\ Held(v) = Len(v.paid) + Cardinality(Pending(v)) + Bound(v)
    BY <1>2, HeldIs
  <1>10. Cardinality(Pending(v)) + 1 <= Cardinality(Pending(u))
    <2>1. Pending(v) \subseteq Pending(u) \ {t}
      BY <1>2, <1>5, <1>7 DEF Eased
    <2>2. IsFiniteSet(Pending(u) \ {t}) /\ Cardinality(Pending(u) \ {t}) = Cardinality(Pending(u)) - 1
      BY <1>6, <1>8, FS_RemoveElement
    <2>3. Cardinality(Pending(v)) <= Cardinality(Pending(u) \ {t})
      BY <2>1, <2>2, FS_Subset
    <2> QED
      BY <1>8, <1>9, <2>2, <2>3
  <1>11. Bound(v) = Bound(u) /\ Bound(u) \in Int
    BY <1>2, <1>3, BoundIs DEF Bound, Changing
  <1>12. Held(v) + 1 <= Held(u)
    BY <1>2, <1>8, <1>9, <1>10, <1>11
  <1> QED
    BY <1>2, <1>5, <1>12 DEF Lighter, Eased

\* Research takes nothing up, and pays back what could be.
LEMMA LightProcessResearch ==
  ASSUME UnitsInv, CleanInv, NEW e \in Entity, ProcessResearch(e)
  PROVE  Lightens
  <1>1. PICK u : u = unit[e]
    OBVIOUS
  <1>2. Advances(e, {"Research"})
    BY DEF ProcessResearch
  <1>3. /\ Turn("process", e) /\ Fit(u) /\ u.life = "alive" /\ u.queue # <<>> /\ 1 \in DOMAIN u.queue
        /\ u.queue[1].state = "running" /\ u.queue[1].order \in Order
        /\ Kind(u.queue[1].order) = "Research"
    BY <1>1, <1>2, AdvancesIs
  <1>4. u.queue[1].order \in Topic /\ u.queue[1].order \notin {"Move", "Morph", "Train"}
    <2>1. u.queue[1].order \in Topic
      BY <1>3, Kinds DEF OnFoot, Legs
    <2> QED
      BY <2>1, OrdersAssumption DEF OnFoot
  <1>5. PICK v : v = Finished(u)
    OBVIOUS
  <1>6. PICK r : r = [unit |-> v, gain |-> 1]
    OBVIOUS
  <1>7. Becoming(e, r) \/ UNCHANGED <<unit, stock>> \/ Becoming(e, Bare(v))
    BY <1>1, <1>5, <1>6 DEF ProcessResearch
  <1>8. Fit(v)
    BY <1>3, <1>4, <1>5, FitFinished
  <1>9. "process" # "watch"
    OBVIOUS
  <1>10. CASE UNCHANGED <<unit, stock>>
    BY <1>10 DEF Lightens
  <1>11. CASE Becoming(e, Bare(v))
    <2>1. Eased(unit[e], v, 0)
      BY <1>1, <1>3, <1>5, EaseEnded
    <2> QED
      BY <1>3, <1>8, <1>9, <1>11, <2>1, LightTurnBare
  <1>12. CASE Becoming(e, r)
    <2>1. Pure(u)
      <3>1. turn = e /\ stage = "process" /\ e \in Int
        BY <1>3, OrdersAssumption, FS_CardinalityType DEF Turn, Phase
      <3>2. Ahead(e)
        BY <3>1 DEF Ahead
      <3> QED
        BY <1>1, <1>3, <3>2 DEF CleanInv, Alive
    <2>2. u.queue[1].cancel # "force"
      BY <1>3, <2>1 DEF Pure, Marked, Unmarked
    <2>3. Lighter(u, v, 1)
      BY <1>3, <1>4, <1>5, <2>2, TopicPaidBack
    <2>4. ~Ahead(e)'
      BY <1>3, <1>9, AheadWatched
    <2>5. PICK gain \in Int : gain = 1
      OBVIOUS
    <2>6. unit' = [unit EXCEPT ![e] = v] /\ stock' = [stock EXCEPT ![unit[e].owner] = @ + gain]
      BY <1>6, <1>12, <2>5 DEF Becoming
    <2>7. Steps(e, v, gain)
      BY <1>1, <1>8, <2>3, <2>4, <2>5, <2>6 DEF Steps
    <2> QED
      BY <2>7 DEF Lightens
  <1> QED
    BY <1>7, <1>10, <1>11, <1>12

\* A change of form that ends pays back no more than it was worth.
LEMMA EaseStays ==
  ASSUME NEW u, Fit(u), u.life = "alive", u.change # "none", u.queue # <<>>,
         u.queue[1].state = "running",
         NEW gain \in 0 .. 1, gain <= Bound(u), NEW v, v = AsItWas(u) \/ v = Landed(u)
  PROVE  Eased(u, v, gain)
  <1>1. /\ Fit(v) /\ v.life = "alive" /\ v.owner = u.owner /\ v.change = "none"
        /\ v.paid = u.paid \/ v.paid = <<>>
        /\ v.queue = Tail(u.queue)
    BY FitStays, FitLanded
  <1>2. u \in Components /\ v \in Components
    BY <1>1 DEF Fit
  <1>3. Bound(v) = 0 /\ Bound(u) \in Int
    BY <1>1, BoundIs
  <1>4. Bound(v) + gain <= Bound(u)
    BY <1>3
  <1>5. Len(v.paid) <= Len(u.paid)
    <2>1. Len(u.paid) \in Nat
      BY <1>2 DEF Components
    <2> QED
      BY <1>1, <2>1
  <1>6. gain \in Int
    OBVIOUS
  <1> QED
    BY <1>1, <1>2, <1>4, <1>5, <1>6, EaseFinished

\* A change of form that still waits takes nothing up: one that begins is paid for.
LEMMA LightProcessClearing ==
  ASSUME UnitsInv, NEW e \in Entity, ProcessClearing(e)
  PROVE  Lightens
  <1>1. PICK u : u = unit[e]
    OBVIOUS
  <1>2. Advances(e, {"Morph"}) /\ u.change = "clearing"
    BY <1>1 DEF ProcessClearing
  <1>3. /\ Turn("process", e) /\ Fit(u) /\ u \in Components /\ u.life = "alive" /\ u.queue # <<>>
        /\ u.queue[1].state = "running"
    BY <1>1, <1>2, AdvancesIs
  <1>4. u.change # "none" /\ "process" # "watch"
    BY <1>2
  <1>5. PICK x : x = [u EXCEPT !.change = "underWay"]
    OBVIOUS
  <1>6. PICK v : v = AsItWas(u)
    OBVIOUS
  <1>7. PICK r : r = [unit |-> x, gain |-> -1]
    OBVIOUS
  <1>8. Becoming(e, r) \/ Becoming(e, Bare(u)) \/ Becoming(e, Bare(v))
    BY <1>1, <1>5, <1>6, <1>7 DEF ProcessClearing, AsItWas
  <1>9. CASE Becoming(e, r)
    <2>1. Fit(x) /\ x.life = "alive" /\ x.owner = u.owner /\ x.paid = u.paid /\ x.queue = u.queue
      BY <1>3, <1>4, <1>5, FitBegun
    <2>2. PICK gain \in Int : gain = -1
      OBVIOUS
    <2>3. r.unit = x /\ r.gain = gain
      BY <1>7, <2>2
    <2>4. Bound(x) + gain <= Bound(u)
      <3>1. Bound(u) = 0
        BY <1>2 DEF Bound, Changing
      <3>2. Bound(x) \in 0 .. 1
        BY BoundIs
      <3> QED
        BY <2>2, <3>1, <3>2
    <2>5. Len(x.paid) <= Len(u.paid)
      <3>1. Len(u.paid) \in Nat
        BY <1>3 DEF Components
      <3> QED
        BY <2>1, <3>1
    <2>6. Stems(u.queue, x.queue)
      BY <2>1 DEF Stems
    <2>7. Eased(u, x, gain)
      BY <1>3, <2>1, <2>4, <2>5, <2>6, EasedBy
    <2>8. Fit(r.unit) /\ r.gain \in Int /\ Eased(unit[e], r.unit, r.gain)
      BY <1>1, <2>1, <2>2, <2>3, <2>7
    <2> QED
      BY <1>3, <1>4, <1>9, <2>8, LightTurn
  <1>10. CASE Becoming(e, Bare(u))
    <2>1. Eased(unit[e], u, 0)
      BY <1>1, <1>3, EaseSame
    <2> QED
      BY <1>3, <1>4, <1>10, <2>1, LightTurnBare
  <1>11. CASE Becoming(e, Bare(v))
    <2>1. Fit(v)
      BY <1>3, <1>4, <1>6, FitStays
    <2>2. Eased(unit[e], v, 0)
      <3>1. 0 \in 0 .. 1 /\ 0 <= Bound(u)
        BY BoundIs
      <3> QED
        BY <1>1, <1>3, <1>4, <1>6, <3>1, EaseStays
    <2> QED
      BY <1>3, <1>4, <1>11, <2>1, <2>2, LightTurnBare
  <1> QED
    BY <1>8, <1>9, <1>10, <1>11

\* A change of form under way takes nothing up.
LEMMA LightProcessMorph ==
  ASSUME UnitsInv, NEW e \in Entity, ProcessMorph(e)
  PROVE  Lightens
  <1>1. PICK u : u = unit[e]
    OBVIOUS
  <1>2. Advances(e, {"Morph"}) /\ Changing(u)
    BY <1>1 DEF ProcessMorph
  <1>3. /\ Turn("process", e) /\ Fit(u) /\ u \in Components /\ u.life = "alive" /\ u.queue # <<>>
        /\ u.queue[1].state = "running"
    BY <1>1, <1>2, AdvancesIs
  <1>4. u.change # "none" /\ "process" # "watch"
    BY <1>2 DEF Changing
  <1>5. PICK w : w = AsItWas(u)
    OBVIOUS
  <1>6. PICK back \in 0 .. 1 : back = IF Terms[u.form] = "refundable" THEN 1 ELSE 0
    OBVIOUS
  <1>7. PICK x : x = [StartDying(w) EXCEPT !.queue = Push(@, "Die", "force")]
    OBVIOUS
  <1>8. PICK y : y = Landed(u)
    OBVIOUS
  <1>9. \/ Becoming(e, Bare(u)) \/ Becoming(e, Bare(y))
        \/ \E v \in {w, x} : Becoming(e, [unit |-> v, gain |-> back])
    BY <1>1, <1>5, <1>6, <1>7, <1>8 DEF ProcessMorph, AsItWas
  <1>10. Fit(w) /\ w.life = "alive"
    BY <1>3, <1>4, <1>5, FitStays
  <1>11. Fit(x) /\ x.life = "dying"
    BY <1>7, <1>10, FitPerishes
  <1>12. Fit(y)
    BY <1>3, <1>4, <1>8, FitLanded
  <1>13. Bound(u) = back
    BY <1>2, <1>3, <1>6 DEF Bound
  <1>14. Eased(u, w, back) /\ Eased(u, x, back) /\ Eased(u, y, 0)
    <2>1. back <= Bound(u) /\ 0 <= Bound(u) /\ 0 \in 0 .. 1 /\ back \in Int
      BY <1>13
    <2>2. Eased(u, w, back)
      BY <1>3, <1>4, <1>5, <2>1, EaseStays
    <2>3. Eased(u, y, 0)
      BY <1>3, <1>4, <1>8, <2>1, EaseStays
    <2>4. Eased(u, x, back)
      BY <1>11, <2>1, EasedDead
    <2> QED
      BY <2>2, <2>3, <2>4
  <1>15. CASE Becoming(e, Bare(u))
    <2>1. Eased(unit[e], u, 0)
      BY <1>1, <1>3, EaseSame
    <2> QED
      BY <1>3, <1>4, <1>15, <2>1, LightTurnBare
  <1>16. CASE Becoming(e, Bare(y))
    <2>1. Eased(unit[e], y, 0)
      BY <1>1, <1>14
    <2> QED
      BY <1>3, <1>4, <1>12, <1>16, <2>1, LightTurnBare
  <1>17. CASE \E v \in {w, x} : Becoming(e, [unit |-> v, gain |-> back])
    <2>1. PICK v \in {w, x} : Becoming(e, [unit |-> v, gain |-> back])
      BY <1>17
    <2>2. PICK r : r = [unit |-> v, gain |-> back]
      OBVIOUS
    <2>3. r.unit = v /\ r.gain = back /\ Becoming(e, r)
      BY <2>1, <2>2
    <2>4. Fit(r.unit) /\ r.gain \in Int /\ Eased(unit[e], r.unit, r.gain)
      BY <1>1, <1>10, <1>11, <1>14, <2>3
    <2> QED
      BY <1>3, <1>4, <2>3, <2>4, LightTurn
  <1> QED
    BY <1>9, <1>15, <1>16, <1>17

\* Nothing from outside the queues takes anything up.
LEMMA LightOutside ==
  ASSUME UnitsInv, CleanInv, Outside
  PROVE  Lightens
  <1>1. CASE \E p \in Player, t \in Topic : Grant(p, t)
    BY <1>1 DEF Grant, Lightens
  <1>2. CASE \E e \in Entity :
               \/ \E outage \in {"none", "field", "orphaned"} : Outage(e, outage)
               \/ Kill(e) \/ MakeWay(e)
               \/ \E p \in Player : ChangeOwner(e, p)
               \/ \E flag \in BOOLEAN : Displace(e, flag) \/ LetOut(e, flag)
    <2>1. PICK e \in Entity :
               \/ \E outage \in {"none", "field", "orphaned"} : Outage(e, outage)
               \/ Kill(e) \/ MakeWay(e)
               \/ \E p \in Player : ChangeOwner(e, p)
               \/ \E flag \in BOOLEAN : Displace(e, flag) \/ LetOut(e, flag)
      BY <1>2
    <2>2. CASE \E outage \in {"none", "field", "orphaned"} : Outage(e, outage)
      BY <2>2, LightOutage
    <2>3. CASE Kill(e) \/ MakeWay(e)
      BY <2>3, LightKill, LightMakeWay
    <2>4. CASE \E p \in Player : ChangeOwner(e, p)
      BY <2>4, LightChangeOwner
    <2>5. CASE \E flag \in BOOLEAN : Displace(e, flag) \/ LetOut(e, flag)
      BY <2>5, LightDisplace, LightLetOut
    <2> QED
      BY <2>1, <2>2, <2>3, <2>4, <2>5
  <1> QED
    BY <1>1, <1>2 DEF Outside

\* Nor does a front on its turn.
LEMMA LightProcess ==
  ASSUME UnitsInv, CleanInv, NEW e \in Entity, Process(e)
  PROVE  Lightens
  <1>1. \/ Idles(e) \/ ProcessMove(e) \/ ProcessOnFoot(e) \/ ProcessPatrol(e)
        \/ BoardHolder(e) \/ ProcessTrain(e) \/ ProcessResearch(e)
        \/ ProcessClearing(e) \/ ProcessMorph(e)
    BY DEF Process
  <1>2. CASE Idles(e)
    BY <1>2 DEF Idles, Lightens
  <1>3. CASE ProcessMove(e) \/ ProcessOnFoot(e) \/ ProcessPatrol(e)
    BY <1>3, LightProcessMove, LightProcessOnFoot, LightProcessPatrol
  <1>4. CASE BoardHolder(e) \/ ProcessTrain(e) \/ ProcessResearch(e)
    BY <1>4, LightBoardHolder, LightProcessTrain, LightProcessResearch
  <1>5. CASE ProcessClearing(e) \/ ProcessMorph(e)
    BY <1>5, LightProcessClearing, LightProcessMorph
  <1> QED
    BY <1>1, <1>2, <1>3, <1>4, <1>5

\* Nor a tick of the schedule.
LEMMA LightTick ==
  ASSUME UnitsInv, CleanInv, Tick
  PROVE  Lightens
  <1>1. CASE EndCommands \/ \E e \in Entity : Pass(e)
    BY <1>1 DEF EndCommands, Pass, Lightens
  <1>2. CASE \E e \in Entity : ProcessDying(e) \/ Prepare(e) \/ Watch(e) \/ Process(e)
    BY <1>2, LightProcessDying, LightPrepare, LightWatch, LightProcess
  <1> QED
    BY <1>1, <1>2 DEF Tick

-----------------------------------------------------------------------------
(* Commands.                                                                *)

\* A command to a unit costs its owner what the unit holds then, takes up a topic
\* nobody else has, and fills no more than the supply.
Trades(e, v, gain) ==
  LET u == unit[e] p == u.owner IN
  /\ unit' = [unit EXCEPT ![e] = v] /\ Fit(v) /\ gain \in Int
  /\ stock' = [stock EXCEPT ![p] = @ + gain]
  /\ Same /\ u.life = "alive" /\ v.life = "alive" /\ v.owner = p
  /\ Held(v) + gain = Held(u)
  /\ \A t \in Topics(v) : t \in Topics(u) \/ ~InFlight(p, t)
  /\ \/ Len(v.paid) <= Len(u.paid)
     \/ Len(v.paid) = Len(u.paid) + 1 /\ made[p] + Reserved(p) + 1 <= Cap

\* Some unit is told something.
Traded == \E e \in Entity : \E v, gain : Trades(e, v, gain)

\* A unit ordered about as before.
LEMMA EasedBothWays ==
  ASSUME NEW u, Fit(u), NEW v, Fit(v), v.life = u.life, v.owner = u.owner, v.form = u.form,
         v.paid = u.paid, v.change = u.change, Stems(u.queue, v.queue), Stems(v.queue, u.queue)
  PROVE  Eased(u, v, 0) /\ Held(v) = Held(u)
  <1>1. Bound(v) + 0 <= Bound(u) /\ Bound(u) + 0 <= Bound(v)
    <2>1. Bound(v) = Bound(u)
      BY DEF Bound, Changing
    <2> QED
      BY <2>1, BoundIs
  <1>2. Len(v.paid) <= Len(u.paid) /\ Len(u.paid) <= Len(v.paid)
    <2>1. Len(u.paid) \in Nat
      BY DEF Fit, Components
    <2> QED
      BY <2>1
  <1>3. Eased(u, v, 0)
    BY <1>1, <1>2, EasedBy
  <1>4. Eased(v, u, 0)
    BY <1>1, <1>2, EasedBy
  <1> QED
    BY <1>3, <1>4, EasedEven

\* The same topics, paid back or not as before.
LEMMA StemsAlike ==
  ASSUME NEW q \in Seq(Entries), NEW p \in Seq(Entries), DOMAIN q \subseteq DOMAIN p,
         \A i \in DOMAIN q : p[i].order = q[i].order /\ (p[i].cancel = "force" <=> q[i].cancel = "force"),
         \A i \in DOMAIN p : i \in DOMAIN q \/ p[i].order \notin Topic
  PROVE  Stems(q, p) /\ Stems(p, q)
  BY DEF Stems

\* A command that pays nothing leaves what the unit holds.
LEMMA TradeBare ==
  ASSUME UnitsInv, NEW e \in Entity, NEW v, Becoming(e, Bare(v)), Same, Fit(v),
         NEW u, u = unit[e], u.life = "alive", v.life = u.life, v.owner = u.owner, v.form = u.form,
         v.paid = u.paid, v.change = u.change, Stems(u.queue, v.queue), Stems(v.queue, u.queue)
  PROVE  Traded
  <1>1. Fit(u) /\ u.paid \in Seq(UnitType)
    BY UnitIs
  <1>2. Eased(u, v, 0) /\ Held(v) = Held(u)
    BY <1>1, EasedBothWays
  <1>3. Held(u) \in Nat
    BY <1>1, HeldIs
  <1>4. PICK gain \in Int : gain = 0
    OBVIOUS
  <1>5. Held(v) + gain = Held(u)
    BY <1>2, <1>3, <1>4
  <1>6. unit' = [unit EXCEPT ![e] = v] /\ stock' = [stock EXCEPT ![u.owner] = @ + gain]
    BY <1>4 DEF Becoming, Bare
  <1>7. Topics(v) \subseteq Topics(u)
    BY <1>2 DEF Eased
  <1>8. Len(v.paid) <= Len(u.paid)
    <2>1. Len(u.paid) \in Nat
      BY <1>1
    <2> QED
      BY <2>1
  <1>9. Trades(e, v, gain)
    BY <1>4, <1>5, <1>6, <1>7, <1>8 DEF Trades
  <1> QED
    BY <1>9 DEF Traded

\* An order given takes no topic up and pays nothing.
LEMMA TradeIssue ==
  ASSUME UnitsInv, NEW e \in Entity, NEW o \in OnFoot \cup {"Morph"},
         NEW flush \in {Unmarked, "soft"}, Issue(e, o, flush)
  PROVE  Traded
  <1>1. PICK u : u = unit[e]
    OBVIOUS
  <1>2. PICK v : v = [u EXCEPT !.queue = Push(@, o, flush)]
    OBVIOUS
  <1>3. Becoming(e, Bare(v)) /\ Same /\ u.life = "alive"
    BY <1>1, <1>2 DEF Issue, Commanded, Alive
  <1>4. Fit(u) /\ u \in Components /\ u.queue \in Seq(Entries)
    BY <1>1, UnitIs
  <1>5. Fit(v)
    BY <1>2, <1>3, <1>4, FitIssue
  <1>6. PICK p : p = Push(u.queue, o, flush)
    OBVIOUS
  <1>7. v.queue = p /\ v.life = u.life /\ v.owner = u.owner /\ v.form = u.form
        /\ v.paid = u.paid /\ v.change = u.change
    BY <1>2, <1>4, <1>6 DEF Components
  <1>8. o \in Order /\ o \notin Topic
    BY OrdersAssumption DEF Order, OnFoot
  <1>9. flush \in Policy \cup {Unmarked} /\ flush # "force"
    BY DEF Policy, Unmarked
  <1>10. PICK q : q = u.queue
    OBVIOUS
  <1>11. q \in Seq(Entries) /\ p = Push(q, o, flush)
    BY <1>4, <1>6, <1>10
  <1>12. /\ p \in Seq(Entries)
         /\ \A i \in DOMAIN q :
              /\ i \in DOMAIN p /\ p[i].order = q[i].order /\ p[i].state = q[i].state
              /\ flush = "force" => p[i].cancel = "force"
              /\ flush # "force" => (p[i].cancel = "force" <=> q[i].cancel = "force")
         /\ p[Len(q) + 1] = Entry(o)
         /\ \A i \in DOMAIN p : i \in DOMAIN q \/ i = Len(q) + 1
    BY <1>8, <1>9, <1>11, PushIs
  <1>13. Entry(o).order \notin Topic
    BY <1>8 DEF Entry
  <1>14. /\ DOMAIN q \subseteq DOMAIN p
         /\ \A i \in DOMAIN q : p[i].order = q[i].order /\ (p[i].cancel = "force" <=> q[i].cancel = "force")
         /\ \A i \in DOMAIN p : i \in DOMAIN q \/ p[i].order \notin Topic
    BY <1>9, <1>12, <1>13
  <1>15. Stems(q, p) /\ Stems(p, q)
    BY <1>11, <1>12, <1>14, StemsAlike
  <1> QED
    BY <1>1, <1>3, <1>5, <1>7, <1>10, <1>15, TradeBare

\* Nor does everything called off.
LEMMA TradeStop ==
  ASSUME UnitsInv, NEW e \in Entity, Stop(e)
  PROVE  Traded
  <1>1. PICK u : u = unit[e]
    OBVIOUS
  <1>2. PICK v : v = [u EXCEPT !.queue = MarkAll(@, "soft")]
    OBVIOUS
  <1>3. Becoming(e, Bare(v)) /\ Same /\ u.life = "alive"
    BY <1>1, <1>2 DEF Stop, Commanded, Alive
  <1>4. Fit(u) /\ u \in Components /\ u.queue \in Seq(Entries)
    BY <1>1, UnitIs
  <1>5. Fit(v)
    BY <1>2, <1>3, <1>4, FitStop
  <1>6. PICK q : q = u.queue
    OBVIOUS
  <1>7. PICK p : p = MarkAll(q, "soft")
    OBVIOUS
  <1>8. v.queue = p /\ v.life = u.life /\ v.owner = u.owner /\ v.form = u.form
        /\ v.paid = u.paid /\ v.change = u.change
    BY <1>2, <1>4, <1>6, <1>7 DEF Components
  <1>9. q \in Seq(Entries) /\ "soft" \in Policy
    BY <1>4, <1>6 DEF Policy
  <1>10. /\ p \in Seq(Entries) /\ Alike(q, p) /\ DOMAIN p = DOMAIN q
         /\ \A i \in DOMAIN q : p[i].cancel = "force" <=> q[i].cancel = "force"
    BY <1>7, <1>9, AllMarked
  <1>11. Stems(q, p) /\ Stems(p, q)
    BY <1>9, <1>10, StemsAlike DEF Alike
  <1> QED
    BY <1>1, <1>3, <1>5, <1>6, <1>8, <1>11, TradeBare

\* Nor a change of form called off.
LEMMA TradeCancelChange ==
  ASSUME UnitsInv, NEW e \in Entity, CancelChange(e)
  PROVE  Traded
  <1>1. PICK u : u = unit[e]
    OBVIOUS
  <1>2. PICK v : v = [u EXCEPT !.queue[1].cancel = "soft"]
    OBVIOUS
  <1>3. Becoming(e, Bare(v)) /\ Same /\ u.life = "alive"
        /\ u.queue # <<>> /\ u.queue[1].order = "Morph"
    BY <1>1, <1>2 DEF CancelChange, Commanded, Alive
  <1>4. Fit(u) /\ u \in Components /\ u.queue \in Seq(Entries)
    BY <1>1, UnitIs
  <1>5. 1 \in DOMAIN u.queue
    BY <1>3, <1>4
  <1>6. u.queue[1].order \notin OnFoot
    BY <1>3 DEF OnFoot, Legs
  <1>7. Fit(v)
    BY <1>2, <1>3, <1>4, <1>5, <1>6, FitRemark
  <1>8. PICK q : q = u.queue
    OBVIOUS
  <1>9. PICK p : p = [q EXCEPT ![1].cancel = "soft"]
    OBVIOUS
  <1>10. v.queue = p /\ v.life = u.life /\ v.owner = u.owner /\ v.form = u.form
         /\ v.paid = u.paid /\ v.change = u.change
    BY <1>2, <1>4, <1>8, <1>9 DEF Components
  <1>11. DOMAIN p = DOMAIN q /\ \A i \in DOMAIN q : i # 1 => p[i] = q[i]
    BY <1>8, <1>9
  <1>12. p[1].order \notin Topic /\ q[1].order \notin Topic
    <2>1. q[1] \in Entries /\ 1 \in DOMAIN q
      BY <1>4, <1>5, <1>8
    <2>2. p[1] = [q[1] EXCEPT !.cancel = "soft"]
      BY <1>9, <2>1
    <2>3. p[1].order = q[1].order
      BY <2>1, <2>2 DEF Entries, OrderEntry
    <2> QED
      BY <1>3, <1>8, <2>3, OrdersAssumption
  <1>13. Stems(q, p) /\ Stems(p, q)
    BY <1>11, <1>12 DEF Stems
  <1> QED
    BY <1>1, <1>3, <1>7, <1>8, <1>10, <1>13, TradeBare

\* What a unit holds, if its production or its topics change.
LEMMA HeldMore ==
  ASSUME NEW u, Fit(u), u.life = "alive", NEW v, Fit(v), v.life = "alive",
         v.change = u.change, v.form = u.form,
         NEW k \in Int, NEW j \in Int,
         Len(v.paid) = Len(u.paid) + k, Cardinality(Pending(v)) = Cardinality(Pending(u)) + j
  PROVE  Held(v) = Held(u) + k + j
  <1>1. /\ Cardinality(Pending(u)) \in Nat /\ Len(u.paid) \in Nat
        /\ Held(u) = Len(u.paid) + Cardinality(Pending(u)) + Bound(u)
    BY HeldIs
  <1>2. Held(v) = Len(v.paid) + Cardinality(Pending(v)) + Bound(v)
    BY HeldIs
  <1>3. Bound(v) = Bound(u) /\ Bound(u) \in Int
    BY BoundIs DEF Bound, Changing
  <1> QED
    BY <1>1, <1>2, <1>3

\* A unit to train is paid for, and leaves room for those that are reserved.
LEMMA TradeTrainEntity ==
  ASSUME UnitsInv, NEW e \in Entity, NEW type \in UnitType, TrainEntity(e, type)
  PROVE  Traded
  <1>1. PICK u : u = unit[e]
    OBVIOUS
  <1>2. PICK v : v = [u EXCEPT !.paid = Append(@, type),
                               !.queue = IF Holds(@, "Train") THEN @ ELSE Append(@, Entry("Train"))]
    OBVIOUS
  <1>3. PICK r : r = [unit |-> v, gain |-> -1]
    OBVIOUS
  <1>4. Becoming(e, r) /\ Same /\ u.life = "alive" /\ type \in Trains[u.form]
        /\ made[u.owner] + Reserved(u.owner) + 1 <= Cap
    BY <1>1, <1>2, <1>3 DEF TrainEntity, Commanded, Alive
  <1>5. Fit(u) /\ u \in Components /\ u.queue \in Seq(Entries) /\ u.paid \in Seq(UnitType)
    BY <1>1, UnitIs
  <1>6. Trains[u.form] # {}
    BY <1>4
  <1>7. Fit(v)
    BY <1>2, <1>4, <1>5, <1>6, FitTrain
  <1>8. PICK q : q = u.queue
    OBVIOUS
  <1>9. PICK p : p = IF Holds(q, "Train") THEN q ELSE Append(q, Entry("Train"))
    OBVIOUS
  <1>10. PICK paid : paid = Append(u.paid, type)
    OBVIOUS
  <1>11. v.queue = p /\ v.paid = paid /\ v.life = u.life /\ v.owner = u.owner /\ v.form = u.form
         /\ v.change = u.change
    BY <1>2, <1>5, <1>8, <1>9, <1>10 DEF Components
  <1>12. Stems(q, p) /\ Stems(p, q)
    <2>1. CASE Holds(q, "Train")
      BY <1>9, <2>1 DEF Stems
    <2>2. CASE ~Holds(q, "Train")
      <3>1. q \in Seq(Entries) /\ p = Append(q, Entry("Train"))
        BY <1>5, <1>8, <1>9, <2>2
      <3>2. /\ p \in Seq(Entries)
            /\ \A i \in DOMAIN q : i \in DOMAIN p /\ p[i] = q[i]
            /\ p[Len(q) + 1] = Entry("Train")
            /\ \A i \in DOMAIN p : i \in DOMAIN q \/ i = Len(q) + 1
        BY <2>2, <3>1, TrainAppended
      <3>3. Entry("Train").order \notin Topic
        BY OrdersAssumption DEF Entry
      <3> QED
        BY <3>1, <3>2, <3>3, StemsAlike
    <2> QED
      BY <2>1, <2>2
  <1>13. Topics(v) = Topics(u) /\ Pending(v) = Pending(u)
    <2>1. Stems(u.queue, v.queue) /\ Stems(v.queue, u.queue)
      BY <1>8, <1>11, <1>12
    <2>2. Topics(v) \subseteq Topics(u) /\ Pending(v) \subseteq Pending(u)
      BY <2>1, StemsTopics
    <2>3. Topics(u) \subseteq Topics(v) /\ Pending(u) \subseteq Pending(v)
      BY <2>1, StemsTopics
    <2> QED
      BY <2>2, <2>3
  <1>14. Len(paid) = Len(u.paid) + 1
    BY <1>5, <1>10, AppendProperties
  <1>15. PICK gain \in Int : gain = -1
    OBVIOUS
  <1>16. Held(v) + gain = Held(u)
    <2>1. Cardinality(Pending(u)) \in Nat
      BY <1>4, <1>5, HeldIs
    <2>2. Cardinality(Pending(v)) = Cardinality(Pending(u)) + 0 /\ 1 \in Int /\ 0 \in Int
      BY <1>13, <2>1
    <2>3. Len(v.paid) = Len(u.paid) + 1
      BY <1>11, <1>14
    <2>4. v.life = "alive"
      BY <1>4, <1>11
    <2>5. Held(v) = Held(u) + 1 + 0
      BY <1>4, <1>5, <1>7, <1>11, <2>2, <2>3, <2>4, HeldMore
    <2>6. Held(u) \in Nat
      BY <1>5, HeldIs
    <2> QED
      BY <1>15, <2>5, <2>6
  <1>17. unit' = [unit EXCEPT ![e] = v] /\ stock' = [stock EXCEPT ![u.owner] = @ + gain]
    BY <1>1, <1>3, <1>4, <1>15 DEF Becoming
  <1>18. Trades(e, v, gain)
    BY <1>1, <1>4, <1>7, <1>11, <1>13, <1>14, <1>15, <1>16, <1>17 DEF Trades
  <1> QED
    BY <1>18 DEF Traded

\* A unit taken off the list is paid back.
LEMMA TradeCancelTrain ==
  ASSUME UnitsInv, NEW e \in Entity, NEW slot, CancelTrain(e, slot)
  PROVE  Traded
  <1>1. PICK u : u = unit[e]
    OBVIOUS
  <1>2. PICK fewer : fewer = RemoveAt(u.paid, slot)
    OBVIOUS
  <1>3. PICK v : v = [u EXCEPT !.paid = fewer]
    OBVIOUS
  <1>4. PICK gain \in Int : gain = 1
    OBVIOUS
  <1>5. PICK r : r = [unit |-> v, gain |-> gain]
    OBVIOUS
  <1>6. Becoming(e, r) /\ Same /\ u.life = "alive" /\ slot \in DOMAIN u.paid
    BY <1>1, <1>2, <1>3, <1>4, <1>5 DEF CancelTrain, Alive
  <1>7. Fit(u) /\ u \in Components /\ u.paid \in Seq(UnitType)
    BY <1>1, UnitIs
  <1>8. fewer \in Seq(UnitType) /\ Len(fewer) = Len(u.paid) - 1
    <2>1. DOMAIN u.paid = 1 .. Len(u.paid) /\ Len(u.paid) \in Nat
      BY <1>7
    <2>2. slot \in 1 .. Len(u.paid)
      BY <1>6, <2>1
    <2>3. PICK n \in Nat : n = Len(u.paid)
      BY <2>1
    <2>4. PICK x : x = u.paid
      OBVIOUS
    <2>5. x \in Seq(UnitType) /\ Len(x) = n /\ slot \in 1 .. n /\ fewer = RemoveAt(x, slot)
      BY <1>2, <1>7, <2>2, <2>3, <2>4
    <2>6. fewer \in Seq(UnitType) /\ Len(fewer) = n - 1
      BY <2>5 DEF RemoveAt
    <2> QED
      BY <2>3, <2>6
  <1>9. Trains[u.form] # {} /\ Holds(u.queue, "Train")
    <2>1. u.paid # <<>>
      BY <1>6
    <2> QED
      BY <1>6, <1>7, <2>1 DEF Fit, Living, Holds
  <1>10. Fit(v)
    BY <1>3, <1>6, <1>7, <1>8, <1>9, FitPaid
  <1>11. v.queue = u.queue /\ v.paid = fewer /\ v.life = u.life /\ v.owner = u.owner
         /\ v.form = u.form /\ v.change = u.change
    BY <1>3, <1>7 DEF Components
  <1>12. Topics(v) = Topics(u) /\ Pending(v) = Pending(u)
    BY <1>11 DEF Topics, Pending
  <1>13. Len(u.paid) \in Nat /\ Cardinality(Pending(u)) \in Nat /\ Held(u) \in Nat
    BY <1>6, <1>7, HeldIs
  <1>14. Held(v) + gain = Held(u)
    <2>1. Cardinality(Pending(v)) = Cardinality(Pending(u)) + 0 /\ -1 \in Int /\ 0 \in Int
      BY <1>12, <1>13
    <2>2. Len(v.paid) = Len(u.paid) + (-1)
      BY <1>8, <1>11, <1>13
    <2>3. v.life = "alive"
      BY <1>6, <1>11
    <2>4. Held(v) = Held(u) + (-1) + 0
      BY <1>6, <1>7, <1>10, <1>11, <2>1, <2>2, <2>3, HeldMore
    <2> QED
      BY <1>4, <1>13, <2>4
  <1>15. Len(v.paid) <= Len(u.paid)
    BY <1>8, <1>11, <1>13
  <1>16. unit' = [unit EXCEPT ![e] = v] /\ stock' = [stock EXCEPT ![u.owner] = @ + gain]
    BY <1>1, <1>5, <1>6 DEF Becoming
  <1>17. Trades(e, v, gain)
    BY <1>1, <1>6, <1>10, <1>11, <1>12, <1>14, <1>15, <1>16 DEF Trades
  <1> QED
    BY <1>17 DEF Traded

\* A topic taken up is paid for, and nobody else of the owner has it.
LEMMA TradeStartResearch ==
  ASSUME UnitsInv, NEW e \in Entity, NEW t \in Topic, StartResearch(e, t)
  PROVE  Traded
  <1>1. PICK u : u = unit[e]
    OBVIOUS
  <1>2. PICK v : v = [u EXCEPT !.queue = Append(@, Entry(t))]
    OBVIOUS
  <1>3. PICK gain \in Int : gain = -1
    OBVIOUS
  <1>4. PICK r : r = [unit |-> v, gain |-> gain]
    OBVIOUS
  <1>5. Becoming(e, r) /\ Same /\ u.life = "alive" /\ ~InFlight(u.owner, t)
    BY <1>1, <1>2, <1>3, <1>4 DEF StartResearch, Commanded, Alive
  <1>6. Fit(u) /\ u \in Components /\ u.queue \in Seq(Entries)
    BY <1>1, UnitIs
  <1>7. ~Holds(u.queue, t)
    BY <1>1, <1>5 DEF InFlight, Owned, Alive
  <1>8. Fit(v)
    BY <1>2, <1>5, <1>6, <1>7, FitResearch
  <1>9. PICK q : q = u.queue
    OBVIOUS
  <1>10. PICK p : p = Append(q, Entry(t))
    OBVIOUS
  <1>11. v.queue = p /\ v.life = u.life /\ v.owner = u.owner /\ v.form = u.form
         /\ v.paid = u.paid /\ v.change = u.change
    BY <1>2, <1>6, <1>9, <1>10 DEF Components
  <1>12. q \in Seq(Entries) /\ t \in Order
    BY <1>6, <1>9 DEF Order
  <1>13. /\ DOMAIN p = 1 .. Len(q) + 1
         /\ \A i \in DOMAIN q : i \in DOMAIN p /\ p[i] = q[i]
         /\ p[Len(q) + 1] = Entry(t)
         /\ \A i \in DOMAIN p : i \in DOMAIN q \/ i = Len(q) + 1
    BY <1>10, <1>12, Appended
  <1>14. Len(q) + 1 \in DOMAIN p /\ Entry(t).order = t /\ Entry(t).cancel # "force"
    <2>1. Len(q) \in Nat
      BY <1>12, QueueDomain
    <2> QED
      BY <1>13, <2>1 DEF Entry, Unmarked
  <1>15. Topics(v) \subseteq Topics(u) \cup {t}
    BY <1>9, <1>11, <1>13, <1>14 DEF Topics, Holds
  <1>16. Pending(v) = Pending(u) \cup {t}
    <2>1. Pending(v) \subseteq Pending(u) \cup {t}
      BY <1>9, <1>11, <1>13, <1>14 DEF Pending
    <2>2. Pending(u) \subseteq Pending(v)
      <3> SUFFICES ASSUME NEW x \in Pending(u) PROVE x \in Pending(v)
        OBVIOUS
      <3>1. PICK i \in DOMAIN q : q[i].order = x /\ q[i].cancel # "force"
        BY <1>9 DEF Pending
      <3>2. i \in DOMAIN p /\ p[i] = q[i] /\ x \in Topic
        BY <1>13, <3>1 DEF Pending
      <3> QED
        BY <1>11, <3>1, <3>2 DEF Pending
    <2>3. t \in Pending(v)
      BY <1>11, <1>13, <1>14 DEF Pending
    <2> QED
      BY <2>1, <2>2, <2>3
  <1>17. t \notin Pending(u)
    BY <1>7 DEF Pending, Holds
  <1>18. /\ IsFiniteSet(Pending(u)) /\ Cardinality(Pending(u)) \in Nat /\ Len(u.paid) \in Nat
         /\ Held(u) \in Nat
    BY <1>5, <1>6, HeldIs
  <1>19. Cardinality(Pending(v)) = Cardinality(Pending(u)) + 1
    BY <1>16, <1>17, <1>18, FS_AddElement
  <1>20. Held(v) + gain = Held(u)
    <2>1. Len(v.paid) = Len(u.paid) + 0 /\ 1 \in Int /\ 0 \in Int
      BY <1>11, <1>18
    <2>2. v.life = "alive"
      BY <1>5, <1>11
    <2>3. Held(v) = Held(u) + 0 + 1
      BY <1>5, <1>6, <1>8, <1>11, <1>19, <2>1, <2>2, HeldMore, ZenonT(30)
    <2> QED
      BY <1>3, <1>18, <2>3
  <1>21. Len(v.paid) <= Len(u.paid)
    BY <1>11, <1>18
  <1>22. unit' = [unit EXCEPT ![e] = v] /\ stock' = [stock EXCEPT ![u.owner] = @ + gain]
    BY <1>1, <1>4, <1>5 DEF Becoming
  <1>23. \A x \in Topics(v) : x \in Topics(u) \/ ~InFlight(u.owner, x)
    BY <1>5, <1>15
  <1>24. Trades(e, v, gain)
    BY <1>1, <1>3, <1>5, <1>8, <1>11, <1>20, <1>21, <1>22, <1>23 DEF Trades
  <1> QED
    BY <1>24 DEF Traded

\* A unit of which one order is marked as paid back.
PaidBack(u, k) == [u EXCEPT !.queue[k].cancel = "force"]

\* A queue of which one topic is marked as paid back.
LEMMA TopicMarked ==
  ASSUME NEW u, Fit(u), u.life = "alive", NEW t \in Topic, NEW k \in DOMAIN u.queue,
         u.queue[k].order = t, u.queue[k].cancel # "force",
         NEW v, v = PaidBack(u, k)
  PROVE  /\ Fit(v) /\ v.paid = u.paid /\ v.life = u.life /\ v.owner = u.owner
         /\ v.form = u.form /\ v.change = u.change /\ Topics(v) = Topics(u)
         /\ t \in Pending(u) /\ Pending(v) = Pending(u) \ {t}
  <1>1. v = [u EXCEPT !.queue[k].cancel = "force"]
    BY DEF PaidBack
  <1>2. u \in Components /\ u.queue \in Seq(Entries) /\ Living(u)
    BY UnitQueue DEF Fit
  <1>3. Fit(v)
    <2>1. u.queue[k].order \notin OnFoot
      BY OrdersAssumption
    <2> QED
      BY <1>1, <2>1, FitRemark
  <1>4. PICK q : q = u.queue
    OBVIOUS
  <1>5. PICK p : p = [q EXCEPT ![k].cancel = "force"]
    OBVIOUS
  <1>6. v.queue = p /\ v.paid = u.paid /\ v.life = u.life /\ v.owner = u.owner
        /\ v.form = u.form /\ v.change = u.change
    BY <1>1, <1>2, <1>4, <1>5 DEF Components
  <1>7. /\ DOMAIN p = DOMAIN q /\ \A i \in DOMAIN q : i # k => p[i] = q[i]
        /\ k \in DOMAIN q /\ q[k].order = t /\ p[k].order = t /\ p[k].cancel = "force"
    <2>1. q[k] \in Entries
      BY <1>2, <1>4
    <2>2. p[k] = [q[k] EXCEPT !.cancel = "force"]
      BY <1>4, <1>5
    <2>3. p[k].order = q[k].order /\ p[k].cancel = "force"
      BY <2>1, <2>2 DEF Entries, OrderEntry
    <2> QED
      BY <1>4, <1>5, <2>3
  <1>8. \A i \in DOMAIN q : q[i].order = t => i = k
    BY <1>2, <1>4, <1>7 DEF Living
  <1>9. Topics(v) = Topics(u)
    <2>1. \A i \in DOMAIN q : p[i].order = q[i].order
      BY <1>7
    <2>2. \A x : Holds(p, x) <=> Holds(q, x)
      BY <1>7, <2>1 DEF Holds
    <2> QED
      BY <1>4, <1>6, <2>2 DEF Topics
  <1>10. t \in Pending(u)
    BY DEF Pending
  <1>11. Pending(v) \subseteq Pending(u) \ {t}
    <2> SUFFICES ASSUME NEW x \in Pending(v) PROVE x \in Pending(u) /\ x # t
      OBVIOUS
    <2>1. PICK i \in DOMAIN p : p[i].order = x /\ p[i].cancel # "force" /\ x \in Topic
      BY <1>6 DEF Pending
    <2>2. i # k /\ i \in DOMAIN q /\ p[i] = q[i]
      BY <1>7, <2>1
    <2>3. x \in Pending(u)
      BY <1>4, <2>1, <2>2 DEF Pending
    <2> QED
      BY <1>8, <2>1, <2>2, <2>3
  <1>12. Pending(u) \ {t} \subseteq Pending(v)
    <2> SUFFICES ASSUME NEW x \in Pending(u), x # t PROVE x \in Pending(v)
      OBVIOUS
    <2>1. PICK i \in DOMAIN q : q[i].order = x /\ q[i].cancel # "force" /\ x \in Topic
      BY <1>4 DEF Pending
    <2>2. i # k /\ i \in DOMAIN p /\ p[i] = q[i]
      BY <1>7, <2>1
    <2> QED
      BY <1>6, <2>1, <2>2 DEF Pending
  <1> QED
    BY <1>3, <1>6, <1>9, <1>10, <1>11, <1>12

\* A topic called off is paid back, once.
LEMMA TradeCancelResearch ==
  ASSUME UnitsInv, NEW e \in Entity, NEW t \in Topic, CancelResearch(e, t)
  PROVE  Traded
  <1>1. PICK u : u = unit[e]
    OBVIOUS
  <1>2. Fit(u) /\ u.queue \in Seq(Entries)
    BY <1>1, UnitIs
  <1>3. PICK k \in DOMAIN u.queue :
           /\ u.queue[k].order = t /\ u.queue[k].cancel # "force"
           /\ Becoming(e, [unit |-> PaidBack(u, k), gain |-> 1])
    <2>1. PICK k \in DOMAIN u.queue :
           /\ u.queue[k].order = t /\ u.queue[k].cancel # "force"
           /\ Becoming(e, [unit |-> [u EXCEPT !.queue[k].cancel = "force"], gain |-> 1])
      BY <1>1, <1>2, TopicFound
    <2> QED
      BY <2>1 DEF PaidBack
  <1>4. PICK v : v = PaidBack(u, k)
    OBVIOUS
  <1>5. PICK gain \in Int : gain = 1
    OBVIOUS
  <1>6. PICK r : r = [unit |-> v, gain |-> gain]
    OBVIOUS
  <1>7. Becoming(e, r) /\ Same /\ u.life = "alive"
    BY <1>1, <1>3, <1>4, <1>5, <1>6 DEF CancelResearch, Alive
  <1>8. /\ Fit(v) /\ v.paid = u.paid /\ v.life = u.life /\ v.owner = u.owner
        /\ v.form = u.form /\ v.change = u.change /\ Topics(v) = Topics(u)
        /\ t \in Pending(u) /\ Pending(v) = Pending(u) \ {t}
    BY <1>2, <1>3, <1>4, <1>7, TopicMarked
  <1>9. /\ IsFiniteSet(Pending(u)) /\ Cardinality(Pending(u)) \in Nat /\ Len(u.paid) \in Nat
        /\ Held(u) \in Nat
    BY <1>2, <1>7, HeldIs
  <1>10. PICK j \in Int : j = -1
    OBVIOUS
  <1>11. Held(v) + gain = Held(u)
    <2>1. Len(v.paid) = Len(u.paid) + 0 /\ 0 \in Int
      BY <1>8, <1>9
    <2>2. /\ Fit(u) /\ u.life = "alive" /\ Fit(v) /\ v.life = "alive"
          /\ v.change = u.change /\ v.form = u.form
      BY <1>2, <1>7, <1>8
    <2>3. Cardinality(Pending(v)) = Cardinality(Pending(u)) + j
      <3>1. Cardinality(Pending(u) \ {t}) = Cardinality(Pending(u)) - 1
        BY <1>8, <1>9, FS_RemoveElement
      <3> QED
        BY <1>8, <1>9, <1>10, <3>1
    <2>4. Held(v) = Held(u) + 0 + j
      BY <2>1, <2>2, <2>3, HeldMore
    <2> QED
      BY <1>5, <1>9, <1>10, <2>4
  <1>12. Len(v.paid) <= Len(u.paid)
    BY <1>8, <1>9
  <1>13. unit' = [unit EXCEPT ![e] = v] /\ stock' = [stock EXCEPT ![u.owner] = @ + gain]
    BY <1>1, <1>6, <1>7 DEF Becoming
  <1>14. Trades(e, v, gain)
    BY <1>1, <1>5, <1>7, <1>8, <1>11, <1>12, <1>13 DEF Trades
  <1> QED
    BY <1>14 DEF Traded

\* What an owner tells an entity is a trade.
LEMMA CommandTrades ==
  ASSUME UnitsInv, Command
  PROVE  Traded
  <1>1. PICK e \in Entity :
          \/ \E o \in OnFoot \cup {"Morph"}, flush \in {Unmarked, "soft"} : Issue(e, o, flush)
          \/ Stop(e) \/ CancelChange(e)
          \/ \E type \in UnitType : TrainEntity(e, type)
          \/ \E slot \in 1..MaxPaid : CancelTrain(e, slot)
          \/ \E t \in Topic : StartResearch(e, t) \/ CancelResearch(e, t)
    BY DEF Command
  <1>2. CASE \E o \in OnFoot \cup {"Morph"}, flush \in {Unmarked, "soft"} : Issue(e, o, flush)
    BY <1>2, TradeIssue
  <1>3. CASE Stop(e) \/ CancelChange(e)
    BY <1>3, TradeStop, TradeCancelChange
  <1>4. CASE \/ \E type \in UnitType : TrainEntity(e, type)
             \/ \E slot \in 1..MaxPaid : CancelTrain(e, slot)
    BY <1>4, TradeTrainEntity, TradeCancelTrain
  <1>5. CASE \E t \in Topic : StartResearch(e, t) \/ CancelResearch(e, t)
    BY <1>5, TradeStartResearch, TradeCancelResearch
  <1> QED
    BY <1>1, <1>2, <1>3, <1>4, <1>5

-----------------------------------------------------------------------------
(* Sums.                                                                    *)

\* A sum adds one number after another.
LEMMA TotalSteps ==
  ASSUME NEW n \in Nat, NEW f
  PROVE  f \in [1 .. n -> Int] =>
           \E h \in [0 .. n -> Int] :
             h[0] = 0 /\ (\A i \in 1 .. n : h[i] = h[i - 1] + f[i]) /\ Total(n, f) = h[n]
  <1>1. SUFFICES ASSUME f \in [1 .. n -> Int]
                 PROVE  \E h \in [0 .. n -> Int] :
                          /\ h[0] = 0 /\ \A i \in 1 .. n : h[i] = h[i - 1] + f[i]
                          /\ Total(n, f) = h[n]
    OBVIOUS
  <1> DEFINE upTo == CHOOSE h : h = [i \in 0 .. n |-> IF i = 0 THEN 0 ELSE h[i - 1] + f[i]]
             S == Int
             b == 0
             N == n
             g == [i \in 1 .. N |-> [a \in S |-> a + f[i]]]
  <1>2. Total(n, f) = upTo[n]
    BY DEF Total
  <1>3. N \in Nat /\ b \in S /\ g \in [1 .. N -> [S -> S]]
    BY <1>1
  <1> HIDE DEF g, S, b, N
  <1>4. PICK h \in [0 .. N -> S] : h[0] = b /\ \A i \in 1 .. N : h[i] = g[i][h[i - 1]]
    BY <1>3, RecursionExists
  <1> USE DEF S, b, N
  <1>5. \A i \in 1 .. n : h[i] = h[i - 1] + f[i]
    <2> TAKE i \in 1 .. n
    <2>1. h[i - 1] \in Int
      OBVIOUS
    <2>2. g[i][h[i - 1]] = h[i - 1] + f[i]
      BY <2>1 DEF g
    <2> QED
      BY <1>4, <2>2
  <1>6. h = [i \in 0 .. n |-> IF i = 0 THEN 0 ELSE h[i - 1] + f[i]]
    BY <1>4, <1>5
  <1>7. upTo = [i \in 0 .. n |-> IF i = 0 THEN 0 ELSE upTo[i - 1] + f[i]]
    BY <1>6
  <1> HIDE DEF upTo
  <1> DEFINE P == {i \in 0 .. n : upTo[i] = h[i]}
  <1>8. upTo[0] = 0 /\ \A i \in 1 .. n : upTo[i] = upTo[i - 1] + f[i]
    BY <1>7
  <1>9. 0 .. n \subseteq P
    <2>1. 0 \in P /\ \A i \in 1 .. n : i - 1 \in P => i \in P
      BY <1>4, <1>5, <1>8
    <2> HIDE DEF P
    <2> QED
      BY <2>1, StaysIn
  <1>10. upTo[n] = h[n]
    BY <1>9
  <1> QED
    BY <1>2, <1>4, <1>5, <1>10

\* A sum of numbers is one.
LEMMA TotalIs ==
  ASSUME NEW n \in Nat, NEW f \in [1 .. n -> Int]
  PROVE  Total(n, f) \in Int
  <1>1. PICK h \in [0 .. n -> Int] :
          h[0] = 0 /\ (\A i \in 1 .. n : h[i] = h[i - 1] + f[i]) /\ Total(n, f) = h[n]
    BY TotalSteps
  <1> QED
    BY <1>1

\* Sums of numbers but one that are the same.
LEMMA TotalMoves ==
  ASSUME NEW n \in Nat, NEW f \in [1 .. n -> Int], NEW g \in [1 .. n -> Int],
         NEW m \in 1 .. n, \A i \in 1 .. n : i # m => g[i] = f[i]
  PROVE  /\ Total(n, f) \in Int /\ Total(n, g) \in Int /\ f[m] \in Int /\ g[m] \in Int
         /\ Total(n, g) = Total(n, f) + g[m] - f[m]
  <1>1. PICK h \in [0 .. n -> Int] :
          h[0] = 0 /\ (\A i \in 1 .. n : h[i] = h[i - 1] + f[i]) /\ Total(n, f) = h[n]
    BY TotalSteps
  <1>2. PICK k \in [0 .. n -> Int] :
          k[0] = 0 /\ (\A i \in 1 .. n : k[i] = k[i - 1] + g[i]) /\ Total(n, g) = k[n]
    BY TotalSteps
  <1>3. PICK d \in Int : d = g[m] - f[m]
    OBVIOUS
  <1> DEFINE P == {i \in 0 .. n : k[i] = IF i < m THEN h[i] ELSE h[i] + d}
  <1>4. 0 \in P
    BY <1>1, <1>2
  <1>5. \A i \in 1 .. n : i - 1 \in P => i \in P
    <2> TAKE i \in 1 .. n
    <2> SUFFICES ASSUME k[i - 1] = IF i - 1 < m THEN h[i - 1] ELSE h[i - 1] + d
                 PROVE  k[i] = IF i < m THEN h[i] ELSE h[i] + d
      OBVIOUS
    <2>1. h[i - 1] \in Int /\ k[i - 1] \in Int /\ f[i] \in Int /\ g[i] \in Int
      BY SMTT(30)
    <2>2. h[i] = h[i - 1] + f[i] /\ k[i] = k[i - 1] + g[i]
      BY <1>1, <1>2
    <2>3. CASE i < m
      BY <2>1, <2>2, <2>3
    <2>4. CASE i = m
      BY <1>3, <2>1, <2>2, <2>4
    <2>5. CASE i > m
      BY <2>1, <2>2, <2>5
    <2> QED
      BY <2>3, <2>4, <2>5
  <1>6. 0 .. n \subseteq P
    <2> HIDE DEF P
    <2> QED
      BY <1>4, <1>5, StaysIn
  <1>7. k[n] = h[n] + d
    BY <1>6
  <1>8. f[m] \in Int /\ g[m] \in Int /\ h[n] \in Int /\ k[n] \in Int
    OBVIOUS
  <1> QED
    BY <1>1, <1>2, <1>3, <1>7, <1>8

\* A sum of nothing.
LEMMA TotalNone ==
  ASSUME NEW n \in Nat, NEW f \in [1 .. n -> Int], \A i \in 1 .. n : f[i] = 0
  PROVE  Total(n, f) = 0
  <1>1. PICK h \in [0 .. n -> Int] :
          h[0] = 0 /\ (\A i \in 1 .. n : h[i] = h[i - 1] + f[i]) /\ Total(n, f) = h[n]
    BY TotalSteps
  <1> DEFINE P == {i \in 0 .. n : h[i] = 0}
  <1>2. 0 \in P /\ \A i \in 1 .. n : i - 1 \in P => i \in P
    BY <1>1
  <1>3. 0 .. n \subseteq P
    <2> HIDE DEF P
    <2> QED
      BY <1>2, StaysIn
  <1> QED
    BY <1>1, <1>3

\* A sum over the entities of which one counts differently.
LEMMA EntityMoves ==
  ASSUME NEW f \in [Entity -> Int], NEW g \in [Entity -> Int], NEW e \in Entity,
         \A x \in Entity : x # e => g[x] = f[x]
  PROVE  /\ EntityTotal(f) \in Int /\ EntityTotal(g) \in Int
         /\ EntityTotal(g) = EntityTotal(f) + g[e] - f[e]
  <1>1. PICK n : n = Cardinality(Entity)
    OBVIOUS
  <1>2. n \in Nat /\ Entity = 1 .. n
    BY <1>1, OrdersAssumption, FS_CardinalityType
  <1>3. Total(n, f) \in Int /\ Total(n, g) \in Int /\ Total(n, g) = Total(n, f) + g[e] - f[e]
    BY <1>2, TotalMoves
  <1> QED
    BY <1>1, <1>3 DEF EntityTotal

\* A sum over the players of which one counts differently.
LEMMA PlayerMoves ==
  ASSUME NEW f \in [Player -> Int], NEW g \in [Player -> Int], NEW p \in Player,
         \A x \in Player : x # p => g[x] = f[x]
  PROVE  /\ Total(Cardinality(Player), f) \in Int /\ Total(Cardinality(Player), g) \in Int
         /\ Total(Cardinality(Player), g) = Total(Cardinality(Player), f) + g[p] - f[p]
  <1>1. PICK n : n = Cardinality(Player)
    OBVIOUS
  <1>2. n \in Nat /\ Player = 1 .. n
    BY <1>1, OrdersAssumption, FS_CardinalityType
  <1>3. Total(n, f) \in Int /\ Total(n, g) \in Int /\ Total(n, g) = Total(n, f) + g[p] - f[p]
    BY <1>2, TotalMoves
  <1> QED
    BY <1>1, <1>3

-----------------------------------------------------------------------------
(* The supply.                                                              *)

\* The supply of p that u fills with what it was paid for.
Share(p, u) == IF u.life = "alive" /\ u.owner = p THEN Len(u.paid) ELSE 0

\* It is a number.
LEMMA ShareIs ==
  ASSUME NEW u, Fit(u), NEW p
  PROVE  Share(p, u) \in Nat
  <1>1. Len(u.paid) \in Nat
    BY DEF Fit, Components
  <1> QED
    BY <1>1 DEF Share

\* When one unit changes, the supply that is reserved changes by its share.
LEMMA ReservedMoves ==
  ASSUME UnitsInv, NEW e \in Entity, NEW v, Fit(v), unit' = [unit EXCEPT ![e] = v],
         NEW p \in Player
  PROVE  /\ Reserved(p) \in Int /\ Reserved(p)' \in Int
         /\ Reserved(p)' = Reserved(p) + Share(p, v) - Share(p, unit[e])
  <1>1. \A x \in Entity : Fit(unit[x])
    BY DEF UnitsInv
  <1>2. unit'[e] = v /\ \A x \in Entity : x # e => unit'[x] = unit[x]
    BY DEF UnitsInv, OrdersTypeOK
  <1>3. PICK f : f = [x \in Entity |-> Share(p, unit[x])]
    OBVIOUS
  <1>4. PICK g : g = [x \in Entity |-> Share(p, unit'[x])]
    OBVIOUS
  <1>5. \A x \in Entity : Share(p, unit[x]) \in Int /\ Share(p, unit'[x]) \in Int
    <2> TAKE x \in Entity
    <2>1. Fit(unit[x]) /\ Fit(unit'[x])
      BY <1>1, <1>2
    <2>2. Share(p, unit[x]) \in Nat
      BY <2>1, ShareIs
    <2>3. Share(p, unit'[x]) \in Nat
      BY <2>1, ShareIs
    <2> QED
      BY <2>2, <2>3
  <1>6. f \in [Entity -> Int] /\ g \in [Entity -> Int]
    BY <1>3, <1>4, <1>5
  <1>7. \A x \in Entity : x # e => g[x] = f[x]
    BY <1>2, <1>3, <1>4
  <1>8. /\ EntityTotal(f) \in Int /\ EntityTotal(g) \in Int
        /\ EntityTotal(g) = EntityTotal(f) + g[e] - f[e]
    BY <1>6, <1>7, EntityMoves
  <1>9. Reserved(p) = EntityTotal(f)
    <2>1. [x \in Entity |-> IF x \in Owned(p) THEN Len(unit[x].paid) ELSE 0] = f
      BY <1>3 DEF Share, Owned, Alive
    <2> QED
      BY <2>1 DEF Reserved
  <1>10. Reserved(p)' = EntityTotal(g)
    <2>1. [x \in Entity |-> IF x \in Owned(p)' THEN Len(unit'[x].paid) ELSE 0] = g
      BY <1>4 DEF Share, Owned, Alive
    <2> QED
      BY <2>1 DEF Reserved, EntityTotal
  <1>11. f[e] = Share(p, unit[e]) /\ g[e] = Share(p, v)
    BY <1>2, <1>3, <1>4
  <1> QED
    BY <1>8, <1>9, <1>10, <1>11

\* What is reserved when no unit changes.
LEMMA ReservedStays ==
  ASSUME UNCHANGED unit, NEW p \in Player
  PROVE  Reserved(p)' = Reserved(p)
  BY DEF Reserved, EntityTotal, Owned, Alive

\* The supply of a unit that takes nothing up.
LEMMA ShareLightens ==
  ASSUME NEW u, Fit(u), NEW v, Fit(v), NEW gain, Lighter(u, v, gain), NEW p
  PROVE  Share(p, v) <= Share(p, u)
  <1>1. Share(p, u) \in Nat
    BY ShareIs
  <1>2. CASE v.life = "alive" /\ v.owner = p
    <2>1. u.life = "alive" /\ Len(v.paid) <= Len(u.paid)
          /\ (v.owner = u.owner \/ v.paid = <<>>)
      BY <1>2 DEF Lighter
    <2>2. Share(p, v) = Len(v.paid)
      BY <1>2 DEF Share
    <2>3. CASE v.owner = u.owner
      <3>1. Share(p, u) = Len(u.paid)
        BY <1>2, <2>1, <2>3 DEF Share
      <3> QED
        BY <2>1, <2>2, <3>1
    <2>4. CASE v.paid = <<>>
      <3>1. Len(v.paid) = 0
        BY <2>4
      <3> QED
        BY <1>1, <2>2, <3>1
    <2> QED
      BY <2>1, <2>3, <2>4
  <1>3. CASE ~(v.life = "alive" /\ v.owner = p)
    <2>1. Share(p, v) = 0
      BY <1>3 DEF Share
    <2> QED
      BY <1>1, <2>1
  <1> QED
    BY <1>2, <1>3

\* A step that takes nothing up reserves no more.
LEMMA SupplyLight ==
  ASSUME UnitsInv, Lightens, UNCHANGED made, SupplyHeld
  PROVE  SupplyHeld'
  <1> SUFFICES ASSUME NEW p \in Player PROVE made'[p] + Reserved(p)' <= Cap
    BY DEF SupplyHeld
  <1>1. made'[p] + Reserved(p) <= Cap
    BY DEF SupplyHeld
  <1>2. made'[p] \in Int /\ Cap \in Int
    BY OrdersAssumption DEF UnitsInv, OrdersTypeOK
  <1>3. CASE UNCHANGED <<unit, stock>>
    <2>1. Reserved(p)' = Reserved(p)
      BY <1>3, ReservedStays
    <2> QED
      BY <1>1, <2>1
  <1>4. CASE \E e \in Entity : \E v, gain : Steps(e, v, gain)
    <2>1. PICK e \in Entity : \E v, gain : Steps(e, v, gain)
      BY <1>4
    <2>2. PICK v, gain : Steps(e, v, gain)
      BY <2>1
    <2>3. PICK u : u = unit[e]
      OBVIOUS
    <2>4. Fit(u)
      BY <2>3, UnitIs
    <2>5. Fit(v) /\ unit' = [unit EXCEPT ![e] = v] /\ Lighter(u, v, gain)
      BY <2>2, <2>3 DEF Steps
    <2>6. /\ Reserved(p) \in Int /\ Reserved(p)' \in Int
          /\ Reserved(p)' = Reserved(p) + Share(p, v) - Share(p, unit[e])
      BY <2>5, ReservedMoves
    <2>7. Share(p, v) <= Share(p, u)
      BY <2>4, <2>5, ShareLightens
    <2>8. Share(p, v) \in Nat
      BY <2>5, ShareIs
    <2>9. Share(p, u) \in Nat
      BY <2>4, ShareIs
    <2> QED
      BY <1>1, <1>2, <2>3, <2>6, <2>7, <2>8, <2>9
  <1> QED
    BY <1>3, <1>4 DEF Lightens

\* A command reserves no more than the supply that is left.
LEMMA SupplyTraded ==
  ASSUME UnitsInv, Traded, SupplyHeld
  PROVE  SupplyHeld'
  <1> SUFFICES ASSUME NEW p \in Player PROVE made'[p] + Reserved(p)' <= Cap
    BY DEF SupplyHeld
  <1>1. PICK e \in Entity : \E v, gain : Trades(e, v, gain)
    BY DEF Traded
  <1>2. PICK v, gain : Trades(e, v, gain)
    BY <1>1
  <1>3. PICK u : u = unit[e]
    OBVIOUS
  <1>4. Fit(u)
    BY <1>3, UnitIs
  <1>5. /\ Fit(v) /\ unit' = [unit EXCEPT ![e] = v] /\ made' = made
        /\ u.life = "alive" /\ v.life = "alive" /\ v.owner = u.owner
    BY <1>2, <1>3 DEF Trades, Same
  <1>6. \/ Len(v.paid) <= Len(u.paid)
        \/ Len(v.paid) = Len(u.paid) + 1 /\ made[u.owner] + Reserved(u.owner) + 1 <= Cap
    BY <1>2, <1>3 DEF Trades
  <1>7. made[p] \in Int /\ Cap \in Int /\ made[p] + Reserved(p) <= Cap
    BY OrdersAssumption DEF UnitsInv, OrdersTypeOK, SupplyHeld
  <1>8. /\ Reserved(p) \in Int /\ Reserved(p)' \in Int
        /\ Reserved(p)' = Reserved(p) + Share(p, v) - Share(p, unit[e])
    BY <1>5, ReservedMoves
  <1>9. CASE p = u.owner
    <2>1. Share(p, v) = Len(v.paid) /\ Share(p, u) = Len(u.paid)
      BY <1>5, <1>9 DEF Share
    <2>2. Len(v.paid) \in Nat /\ Len(u.paid) \in Nat
      BY <1>4, <1>5 DEF Fit, Components
    <2>3. Reserved(p)' = Reserved(p) + Len(v.paid) - Len(u.paid)
      BY <1>3, <1>8, <2>1
    <2>4. CASE Len(v.paid) <= Len(u.paid)
      <3>1. Reserved(p) \in Int /\ Reserved(p)' \in Int /\ made'[p] = made[p]
        BY <1>5, <1>8
      <3>2. PICK k \in Nat, j \in Nat : k = Len(v.paid) /\ j = Len(u.paid)
        BY <2>2
      <3>3. PICK m \in Int, n \in Int : m = Reserved(p)' /\ n = Reserved(p)
        BY <3>1
      <3>4. m = n + k - j /\ k <= j
        BY <2>3, <2>4, <3>2, <3>3
      <3>5. m <= n
        BY <3>4
      <3> QED
        BY <1>7, <3>1, <3>3, <3>5
    <2>5. CASE Len(v.paid) = Len(u.paid) + 1 /\ made[u.owner] + Reserved(u.owner) + 1 <= Cap
      <3>1. made[p] + Reserved(p) + 1 <= Cap
        BY <1>9, <2>5
      <3> QED
        BY <1>5, <1>7, <1>8, <2>2, <2>3, <2>5, <3>1
    <2> QED
      BY <1>6, <2>4, <2>5
  <1>10. CASE p # u.owner
    <2>1. Share(p, v) = 0 /\ Share(p, u) = 0
      BY <1>5, <1>10 DEF Share
    <2>2. Reserved(p)' = Reserved(p)
      BY <1>3, <1>8, <2>1
    <2> QED
      BY <1>5, <1>7, <2>2
  <1> QED
    BY <1>9, <1>10

\* A unit that stands fills the supply it was paid for.
LEMMA SupplyTrained ==
  ASSUME UnitsInv, NEW e \in Entity, ProcessTrain(e), SupplyHeld
  PROVE  SupplyHeld'
  <1>1. PICK u : u = unit[e]
    OBVIOUS
  <1>2. Advances(e, {"Train"}) /\ UNCHANGED stock
    BY DEF ProcessTrain
  <1>3. /\ Fit(u) /\ u.life = "alive" /\ u.queue # <<>>
        /\ u.queue[1].state = "running" /\ Kind(u.queue[1].order) = "Train"
    BY <1>1, <1>2, AdvancesIs
  <1>4. u.queue[1].order = "Train"
    BY <1>3 DEF Kind
  <1>5. CASE UNCHANGED made
    <2>1. Lightens
      BY LightProcessTrain
    <2> QED
      BY <1>5, <2>1, SupplyLight
  <1>6. CASE ~UNCHANGED made
    <2>1. PICK fewer : fewer = [u EXCEPT !.paid = Tail(@)]
      OBVIOUS
    <2>2. PICK v : v = IF fewer.paid = <<>> THEN Finished(fewer) ELSE fewer
      OBVIOUS
    <2>3. u.paid # <<>> /\ unit' = [unit EXCEPT ![e] = v]
          /\ made' = [made EXCEPT ![u.owner] = @ + 1]
      BY <1>1, <1>6, <2>1, <2>2 DEF ProcessTrain
    <2>4. v = fewer \/ (fewer.paid = <<>> /\ v = Finished(fewer))
      BY <2>2
    <2>5. /\ Fit(v) /\ v.owner = u.owner /\ v.life = "alive"
          /\ Len(v.paid) = Len(u.paid) - 1
      <3>1. u.paid # <<>>
        BY <2>3
      <3> QED
        BY <1>3, <1>4, <2>1, <2>4, <3>1, EaseTrained
    <2>6. Len(v.paid) = Len(u.paid) - 1 /\ Len(u.paid) \in Nat
      BY <1>3, <2>5 DEF Fit, Components
    <2> SUFFICES ASSUME NEW p \in Player PROVE made'[p] + Reserved(p)' <= Cap
      BY DEF SupplyHeld
    <2>7. /\ made \in [Player -> Nat] /\ made[p] \in Int /\ Cap \in Int
          /\ made[p] + Reserved(p) <= Cap
      BY OrdersAssumption DEF UnitsInv, OrdersTypeOK, SupplyHeld
    <2>8. /\ Reserved(p) \in Int /\ Reserved(p)' \in Int
          /\ Reserved(p)' = Reserved(p) + Share(p, v) - Share(p, unit[e])
      BY <2>3, <2>5, ReservedMoves
    <2>9. CASE p = u.owner
      <3>1. Share(p, v) = Len(v.paid) /\ Share(p, u) = Len(u.paid)
        BY <1>3, <2>5, <2>9 DEF Share
      <3>2. made'[p] = made[p] + 1
        BY <2>3, <2>7, <2>9
      <3> QED
        BY <1>1, <2>6, <2>7, <2>8, <3>1, <3>2
    <2>10. CASE p # u.owner
      <3>1. Share(p, v) = 0 /\ Share(p, u) = 0
        BY <2>5, <2>10 DEF Share
      <3>2. made'[p] = made[p]
        BY <2>3, <2>7, <2>10
      <3> QED
        BY <1>1, <2>7, <2>8, <3>1, <3>2
    <2> QED
      BY <2>9, <2>10
  <1> QED
    BY <1>5, <1>6

-----------------------------------------------------------------------------
(* Research.                                                                *)

\* No two units of an owner research the same topic.
Apart ==
  \A e, f \in Entity : e # f /\ Alive(e) /\ Alive(f) /\ unit[e].owner = unit[f].owner =>
    \A t \in Topics(unit[e]) : t \notin Topics(unit[f])

\* Nor does one unit research it twice, so a topic is researched once.
LEMMA ApartOne ==
  ASSUME UnitsInv
  PROVE  OneResearchPerTopic <=> Apart
  <1>1. ASSUME OneResearchPerTopic PROVE Apart
    <2> SUFFICES ASSUME NEW e \in Entity, NEW f \in Entity, e # f, Alive(e), Alive(f),
                        unit[e].owner = unit[f].owner,
                        NEW t \in Topics(unit[e]), t \in Topics(unit[f])
                 PROVE  FALSE
      BY DEF Apart
    <2>1. PICK i \in DOMAIN unit[e].queue : unit[e].queue[i].order = t
      BY DEF Topics, Holds
    <2>2. PICK j \in DOMAIN unit[f].queue : unit[f].queue[j].order = t
      BY DEF Topics, Holds
    <2>3. t \in Topic
      BY DEF Topics
    <2> QED
      BY <1>1, <2>1, <2>2, <2>3 DEF OneResearchPerTopic
  <1>2. ASSUME Apart PROVE OneResearchPerTopic
    <2> SUFFICES ASSUME NEW e \in Entity, NEW f \in Entity, Alive(e), Alive(f),
                        unit[e].owner = unit[f].owner,
                        NEW i \in DOMAIN unit[e].queue, NEW j \in DOMAIN unit[f].queue,
                        unit[e].queue[i].order \in Topic,
                        unit[e].queue[i].order = unit[f].queue[j].order
                 PROVE  e = f /\ i = j
      BY DEF OneResearchPerTopic
    <2>1. PICK t : t = unit[e].queue[i].order
      OBVIOUS
    <2>2. t \in Topics(unit[e]) /\ t \in Topics(unit[f])
      BY <2>1 DEF Topics, Holds
    <2>3. e = f
      BY <1>2, <2>2 DEF Apart
    <2>4. Living(unit[e])
      BY DEF UnitsInv, Fit, Alive
    <2> QED
      BY <2>3, <2>4 DEF Living
  <1> QED
    BY <1>1, <1>2

\* A unit that takes up only what nobody else of its owner researches, and hands
\* nothing over to a new owner, stays apart from the others.
LEMMA ApartMoves ==
  ASSUME UnitsInv, Apart, NEW e \in Entity, NEW u, u = unit[e], NEW v,
         unit' = [unit EXCEPT ![e] = v],
         v.life = "alive" => /\ u.life = "alive"
                             /\ v.owner = u.owner \/ Topics(v) = {}
                             /\ \A t \in Topics(v) : t \in Topics(u) \/ ~InFlight(u.owner, t)
  PROVE  Apart'
  <1>1. unit'[e] = v /\ \A f \in Entity : f # e => unit'[f] = unit[f]
    BY DEF UnitsInv, OrdersTypeOK
  <1>2. ASSUME NEW f \in Entity, f # e, unit[f].life = "alive", v.life = "alive",
               v.owner = unit[f].owner, NEW t \in Topics(v), t \in Topics(unit[f])
        PROVE  FALSE
    <2>1. v.owner = u.owner /\ u.life = "alive"
      BY <1>2
    <2>2. t \in Topic /\ Holds(unit[f].queue, t)
      BY <1>2 DEF Topics
    <2>3. InFlight(u.owner, t)
      BY <1>2, <2>1, <2>2 DEF InFlight, Owned, Alive
    <2>4. t \in Topics(u)
      BY <1>2, <2>3
    <2> QED
      BY <1>2, <2>1, <2>4 DEF Apart, Alive
  <1> SUFFICES ASSUME NEW a \in Entity, NEW b \in Entity, a # b,
                      unit'[a].life = "alive", unit'[b].life = "alive",
                      unit'[a].owner = unit'[b].owner,
                      NEW t \in Topics(unit'[a]), t \in Topics(unit'[b])
               PROVE  FALSE
    BY DEF Apart, Alive, Topics
  <1>3. CASE a = e
    <2>1. unit'[b] = unit[b] /\ unit'[a] = v
      BY <1>1, <1>3
    <2> QED
      BY <1>2, <1>3, <2>1
  <1>4. CASE b = e
    <2>1. unit'[a] = unit[a] /\ unit'[b] = v
      BY <1>1, <1>4
    <2> QED
      BY <1>2, <1>4, <2>1
  <1>5. CASE a # e /\ b # e
    <2>1. unit'[a] = unit[a] /\ unit'[b] = unit[b]
      BY <1>1, <1>5
    <2> QED
      BY <2>1 DEF Apart, Alive
  <1> QED
    BY <1>3, <1>4, <1>5

\* A step that takes nothing up takes no topic up.
LEMMA ApartLight ==
  ASSUME UnitsInv, Apart, Lightens
  PROVE  Apart'
  <1>1. CASE UNCHANGED <<unit, stock>>
    BY <1>1 DEF Apart, Alive, Topics
  <1>2. CASE \E e \in Entity : \E v, gain : Steps(e, v, gain)
    <2>1. PICK e \in Entity : \E v, gain : Steps(e, v, gain)
      BY <1>2
    <2>2. PICK v, gain : Steps(e, v, gain)
      BY <2>1
    <2>3. PICK u : u = unit[e]
      OBVIOUS
    <2>4. unit' = [unit EXCEPT ![e] = v] /\ Lighter(u, v, gain)
      BY <2>2, <2>3 DEF Steps
    <2>5. v.life = "alive" => /\ u.life = "alive"
                              /\ v.owner = u.owner \/ Topics(v) = {}
                              /\ \A t \in Topics(v) : t \in Topics(u) \/ ~InFlight(u.owner, t)
      BY <2>4 DEF Lighter
    <2> QED
      BY <2>3, <2>4, <2>5, ApartMoves
  <1> QED
    BY <1>1, <1>2 DEF Lightens

\* Nor does a command, but for one nobody else has.
LEMMA ApartTraded ==
  ASSUME UnitsInv, Apart, Traded
  PROVE  Apart'
  <1>1. PICK e \in Entity : \E v, gain : Trades(e, v, gain)
    BY DEF Traded
  <1>2. PICK v, gain : Trades(e, v, gain)
    BY <1>1
  <1>3. PICK u : u = unit[e]
    OBVIOUS
  <1>4. /\ unit' = [unit EXCEPT ![e] = v] /\ u.life = "alive" /\ v.owner = u.owner
        /\ \A t \in Topics(v) : t \in Topics(u) \/ ~InFlight(u.owner, t)
    BY <1>2, <1>3 DEF Trades
  <1> QED
    BY <1>3, <1>4, ApartMoves

-----------------------------------------------------------------------------
(* What the units are together throughout.                                  *)

\* A command falls between two ticks.
LEMMA CommandPlace ==
  ASSUME Command
  PROVE  stage = "commands" /\ Waits
  <1>1. PICK e \in Entity :
          \/ \E o \in OnFoot \cup {"Morph"}, flush \in {Unmarked, "soft"} : Issue(e, o, flush)
          \/ Stop(e) \/ CancelChange(e)
          \/ \E type \in UnitType : TrainEntity(e, type)
          \/ \E slot \in 1..MaxPaid : CancelTrain(e, slot)
          \/ \E t \in Topic : StartResearch(e, t) \/ CancelResearch(e, t)
    BY DEF Command
  <1>2. CASE \E o \in OnFoot \cup {"Morph"}, flush \in {Unmarked, "soft"} : Issue(e, o, flush)
    BY <1>2 DEF Issue, Commands
  <1>3. CASE Stop(e) \/ CancelChange(e)
    BY <1>3 DEF Stop, CancelChange, Commands
  <1>4. CASE \/ \E type \in UnitType : TrainEntity(e, type)
             \/ \E slot \in 1..MaxPaid : CancelTrain(e, slot)
    BY <1>4 DEF TrainEntity, CancelTrain, Commands
  <1>5. CASE \E t \in Topic : StartResearch(e, t) \/ CancelResearch(e, t)
    BY <1>5 DEF StartResearch, CancelResearch, Commands
  <1> QED
    BY <1>1, <1>2, <1>3, <1>4, <1>5

\* What comes from outside takes nobody's turn, and trains nobody.
LEMMA OutsidePlace ==
  ASSUME Outside
  PROVE  Waits /\ UNCHANGED made
  <1>1. CASE \E p \in Player, t \in Topic : Grant(p, t)
    BY <1>1 DEF Grant
  <1>2. CASE \E e \in Entity :
               \/ \E outage \in {"none", "field", "orphaned"} : Outage(e, outage)
               \/ Kill(e) \/ MakeWay(e)
               \/ \E p \in Player : ChangeOwner(e, p)
               \/ \E flag \in BOOLEAN : Displace(e, flag) \/ LetOut(e, flag)
    BY <1>2 DEF Outage, Kill, MakeWay, ChangeOwner, Displace, LetOut, Same
  <1> QED
    BY <1>1, <1>2 DEF Outside

\* A tick takes a turn, and only production trains.
LEMMA TickPlace ==
  ASSUME Tick
  PROVE  Advance /\ (UNCHANGED made \/ \E e \in Entity : ProcessTrain(e))
  <1>1. CASE EndCommands \/ \E e \in Entity : Pass(e)
    BY <1>1 DEF EndCommands, Pass, Turn
  <1>2. CASE \E e \in Entity : ProcessDying(e) \/ Prepare(e) \/ Watch(e)
    BY <1>2 DEF ProcessDying, Prepare, Watch, Turn, Same
  <1>3. CASE \E e \in Entity : Process(e)
    <2>1. PICK e \in Entity : Process(e)
      BY <1>3
    <2>2. CASE Idles(e)
      BY <2>2 DEF Idles, Turn
    <2>3. CASE ProcessMove(e) \/ ProcessOnFoot(e) \/ ProcessPatrol(e)
      BY <2>3 DEF ProcessMove, ProcessOnFoot, ProcessPatrol, Advances, Turn, Same
    <2>4. CASE BoardHolder(e) \/ ProcessResearch(e)
      BY <2>4 DEF BoardHolder, ProcessResearch, Advances, Turn, Same
    <2>5. CASE ProcessTrain(e)
      BY <2>5 DEF ProcessTrain, Advances, Turn
    <2>6. CASE ProcessClearing(e) \/ ProcessMorph(e)
      BY <2>6 DEF ProcessClearing, ProcessMorph, Advances, Turn, Same
    <2> QED
      BY <2>1, <2>2, <2>3, <2>4, <2>5, <2>6 DEF Process
  <1> QED
    BY <1>1, <1>2, <1>3 DEF Tick

\* What holds of the units together: they are whole, nothing that is to advance is
\* marked, nobody researches what another does, and the supply suffices.
TogetherInv == UnitsInv /\ CleanInv /\ Apart /\ SupplyHeld

\* At the start.
LEMMA TogetherInit ==
  ASSUME OrdersInit
  PROVE  TogetherInv
  <1>1. UnitsInv
    BY UnitsInit
  <1>2. CleanInv
    BY DEF CleanInv, Ahead, OrdersInit
  <1>3. PICK squad \in Squads : unit = [e \in Entity |-> Standing(squad.units[e])]
    BY DEF OrdersInit
  <1>4. \A e \in Entity : unit[e].queue = <<>> /\ unit[e].paid = <<>>
    BY <1>3 DEF Standing
  <1>5. Apart
    <2>1. \A e \in Entity : Topics(unit[e]) = {}
      BY <1>4 DEF Topics, Holds
    <2> QED
      BY <2>1 DEF Apart
  <1>6. SupplyHeld
    <2> SUFFICES ASSUME NEW p \in Player PROVE made[p] + Reserved(p) <= Cap
      BY DEF SupplyHeld
    <2>1. PICK n : n = Cardinality(Entity)
      OBVIOUS
    <2>2. n \in Nat /\ Entity = 1 .. n
      BY <2>1, OrdersAssumption, FS_CardinalityType
    <2>3. PICK f : f = [e \in Entity |-> IF e \in Owned(p) THEN Len(unit[e].paid) ELSE 0]
      OBVIOUS
    <2>4. \A e \in Entity : f[e] = 0
      <3>1. \A e \in Entity : Len(unit[e].paid) = 0
        BY <1>4
      <3> QED
        BY <2>3, <3>1
    <2>5. f \in [1 .. n -> Int] /\ \A i \in 1 .. n : f[i] = 0
      BY <2>2, <2>3, <2>4
    <2>6. Total(n, f) = 0
      BY <2>2, <2>5, TotalNone
    <2>7. Reserved(p) = 0
      BY <2>1, <2>3, <2>6 DEF Reserved, EntityTotal
    <2>8. made[p] = 0 /\ Cap \in Nat
      BY OrdersAssumption DEF OrdersInit
    <2> QED
      BY <2>7, <2>8
  <1> QED
    BY <1>1, <1>2, <1>5, <1>6 DEF TogetherInv

\* After a command.
LEMMA TogetherCommand ==
  ASSUME TogetherInv, Command
  PROVE  TogetherInv'
  <1>1. UnitsInv /\ Apart /\ SupplyHeld
    BY DEF TogetherInv
  <1>2. Traded /\ UnitsInv'
    BY <1>1, CommandTrades, StepCommand
  <1>3. Apart' /\ SupplyHeld'
    BY <1>1, <1>2, ApartTraded, SupplyTraded
  <1>4. stage' = "commands"
    BY CommandPlace DEF Waits
  <1>5. CleanInv'
    BY <1>4 DEF CleanInv, Ahead
  <1> QED
    BY <1>2, <1>3, <1>5 DEF TogetherInv

\* After what comes from outside.
LEMMA TogetherOutside ==
  ASSUME TogetherInv, Outside
  PROVE  TogetherInv'
  <1>1. UnitsInv /\ CleanInv /\ Apart /\ SupplyHeld
    BY DEF TogetherInv
  <1>2. Lightens /\ UnitsInv' /\ Waits /\ UNCHANGED made
    BY <1>1, LightOutside, StepOutside, OutsidePlace
  <1>3. Apart' /\ SupplyHeld'
    BY <1>1, <1>2, ApartLight, SupplyLight
  <1>4. \A e \in Entity : Ahead(e)' => stage = "watch" \/ Ahead(e)
    BY <1>2, AheadWaits
  <1>5. CleanInv'
    BY <1>1, <1>2, <1>4, CleanStep
  <1> QED
    BY <1>2, <1>3, <1>5 DEF TogetherInv

\* After a tick.
LEMMA TogetherTick ==
  ASSUME TogetherInv, Tick
  PROVE  TogetherInv'
  <1>1. UnitsInv /\ CleanInv /\ Apart /\ SupplyHeld /\ OrdersTypeOK
    BY DEF TogetherInv, UnitsInv
  <1>2. Lightens /\ UnitsInv' /\ Advance
    BY <1>1, LightTick, StepTick, TickPlace
  <1>3. Apart'
    BY <1>1, <1>2, ApartLight
  <1>4. SupplyHeld'
    BY <1>1, <1>2, TickPlace, SupplyLight, SupplyTrained
  <1>5. \A e \in Entity : Ahead(e)' => stage = "watch" \/ Ahead(e)
    BY <1>1, <1>2, AheadIs
  <1>6. CleanInv'
    BY <1>1, <1>2, <1>5, CleanStep
  <1> QED
    BY <1>2, <1>3, <1>4, <1>6 DEF TogetherInv

\* After a step in which nothing changes.
LEMMA TogetherStutter ==
  ASSUME TogetherInv, UNCHANGED ordersVars
  PROVE  TogetherInv'
  <1>1. unit' = unit /\ made' = made /\ stage' = stage /\ turn' = turn
    BY DEF ordersVars
  <1>2. UnitsInv'
    BY UnitsStutter DEF TogetherInv
  <1>3. CleanInv' /\ Apart'
    BY <1>1 DEF TogetherInv, CleanInv, Ahead, Alive, Apart, Topics
  <1>4. SupplyHeld'
    <2>1. \A p \in Player : Reserved(p)' = Reserved(p)
      BY <1>1, ReservedStays
    <2> QED
      BY <1>1, <2>1 DEF TogetherInv, SupplyHeld
  <1> QED
    BY <1>2, <1>3, <1>4 DEF TogetherInv

\* What holds of the units together holds throughout.
THEOREM OrdersTogether == OrdersSpec => []TogetherInv
  <1>1. OrdersInit => TogetherInv
    BY TogetherInit
  <1>2. TogetherInv /\ [OrdersNext]_ordersVars => TogetherInv'
    BY TogetherCommand, TogetherOutside, TogetherTick, TogetherStutter DEF OrdersNext
  <1> QED
    BY <1>1, <1>2, PTL DEF OrdersSpec

\* A topic is researched by one entity of a player at most, however it came to be
\* queued, cancelled, captured or displaced (start_research, change_owner).
THEOREM ResearchedOnce == OrdersSpec => []OneResearchPerTopic
  <1>1. TogetherInv => OneResearchPerTopic
    BY ApartOne DEF TogetherInv
  <1> QED
    BY <1>1, OrdersTogether, PTL

\* Trained units and those paid for never exceed the supply (train_entity).
THEOREM SupplySuffices == OrdersSpec => []SupplyHeld
  <1>1. TogetherInv => SupplyHeld
    BY DEF TogetherInv
  <1> QED
    BY <1>1, OrdersTogether, PTL

-----------------------------------------------------------------------------
(* What the players have and could have back.                               *)

\* It is a number.
LEMMA WealthIs ==
  ASSUME UnitsInv
  PROVE  Wealth \in Int
  <1>1. PICK n : n = Cardinality(Entity)
    OBVIOUS
  <1>2. n \in Nat /\ Entity = 1 .. n
    BY <1>1, OrdersAssumption, FS_CardinalityType
  <1>3. PICK m : m = Cardinality(Player)
    OBVIOUS
  <1>4. m \in Nat /\ Player = 1 .. m
    BY <1>3, OrdersAssumption, FS_CardinalityType
  <1>5. PICK f : f = [e \in Entity |-> Held(unit[e])]
    OBVIOUS
  <1>6. f \in [1 .. n -> Int]
    <2>1. \A e \in Entity : Held(unit[e]) \in Nat
      BY HeldIs DEF UnitsInv
    <2> QED
      BY <1>2, <1>5, <2>1
  <1>7. stock \in [1 .. m -> Int]
    BY <1>4 DEF UnitsInv, OrdersTypeOK
  <1>8. Total(n, f) \in Int
    BY <1>2, <1>6, TotalIs
  <1>9. Total(m, stock) \in Int
    BY <1>4, <1>7, TotalIs
  <1>10. Wealth = Total(m, stock) + Total(n, f)
    BY <1>1, <1>3, <1>5 DEF Wealth, EntityTotal
  <1> QED
    BY <1>8, <1>9, <1>10

\* When one unit changes and its owner is paid for it.
LEMMA WealthMoves ==
  ASSUME UnitsInv, NEW e \in Entity, NEW v, Fit(v), NEW gain \in Int,
         unit' = [unit EXCEPT ![e] = v],
         stock' = [stock EXCEPT ![unit[e].owner] = @ + gain]
  PROVE  /\ Wealth \in Int /\ Wealth' \in Int
         /\ Wealth' = Wealth + gain + Held(v) - Held(unit[e])
  <1>1. \A x \in Entity : Fit(unit[x])
    BY DEF UnitsInv
  <1>2. unit'[e] = v /\ \A x \in Entity : x # e => unit'[x] = unit[x]
    BY DEF UnitsInv, OrdersTypeOK
  <1>3. PICK f : f = [x \in Entity |-> Held(unit[x])]
    OBVIOUS
  <1>4. PICK g : g = [x \in Entity |-> Held(unit'[x])]
    OBVIOUS
  <1>5. \A x \in Entity : Held(unit[x]) \in Int /\ Held(unit'[x]) \in Int
    <2> TAKE x \in Entity
    <2>1. Fit(unit[x]) /\ Fit(unit'[x])
      BY <1>1, <1>2
    <2>2. Held(unit[x]) \in Nat
      BY <2>1, HeldIs
    <2>3. Held(unit'[x]) \in Nat
      BY <2>1, HeldIs
    <2> QED
      BY <2>2, <2>3
  <1>6. f \in [Entity -> Int] /\ g \in [Entity -> Int]
    BY <1>3, <1>4, <1>5
  <1>7. \A x \in Entity : x # e => g[x] = f[x]
    BY <1>2, <1>3, <1>4
  <1>8. /\ EntityTotal(f) \in Int /\ EntityTotal(g) \in Int
        /\ EntityTotal(g) = EntityTotal(f) + g[e] - f[e]
    BY <1>6, <1>7, EntityMoves
  <1>9. f[e] = Held(unit[e]) /\ g[e] = Held(v) /\ f[e] \in Int /\ g[e] \in Int
    BY <1>2, <1>3, <1>4, <1>6
  <1>10. PICK p \in Player : p = unit[e].owner
    <2>1. unit[e] \in Components
      BY <1>1 DEF Fit
    <2> QED
      BY <2>1 DEF Components
  <1>11. stock \in [Player -> Nat] /\ stock' = [stock EXCEPT ![p] = @ + gain]
    BY <1>10 DEF UnitsInv, OrdersTypeOK
  <1>12. PICK s : s = stock'
    OBVIOUS
  <1>13. /\ s \in [Player -> Int] /\ stock \in [Player -> Int]
         /\ s[p] = stock[p] + gain /\ stock[p] \in Int
         /\ \A x \in Player : x # p => s[x] = stock[x]
    BY <1>11, <1>12
  <1>14. /\ Total(Cardinality(Player), stock) \in Int /\ Total(Cardinality(Player), s) \in Int
         /\ Total(Cardinality(Player), s) = Total(Cardinality(Player), stock) + s[p] - stock[p]
    BY <1>13, PlayerMoves
  <1>15. Wealth = Total(Cardinality(Player), stock) + EntityTotal(f)
    BY <1>3 DEF Wealth
  <1>16. Wealth' = Total(Cardinality(Player), s) + EntityTotal(g)
    BY <1>4, <1>12 DEF Wealth, Total, EntityTotal
  <1>17. PICK a \in Int, b \in Int, c \in Int, d \in Int :
           /\ a = Total(Cardinality(Player), stock) /\ b = Total(Cardinality(Player), s)
           /\ c = EntityTotal(f) /\ d = EntityTotal(g)
    BY <1>8, <1>14
  <1>18. b = a + gain /\ d = c + g[e] - f[e]
    BY <1>8, <1>13, <1>14, <1>17
  <1>19. Wealth = a + c /\ Wealth' = b + d
    BY <1>15, <1>16, <1>17
  <1> QED
    BY <1>9, <1>18, <1>19

\* A step that takes nothing up brings nobody more.
LEMMA WealthLight ==
  ASSUME UnitsInv, Lightens
  PROVE  Wealth' <= Wealth
  <1>1. CASE UNCHANGED <<unit, stock>>
    <2>1. Wealth' = Wealth
      BY <1>1 DEF Wealth
    <2> QED
      BY <2>1, WealthIs
  <1>2. CASE \E e \in Entity : \E v, gain : Steps(e, v, gain)
    <2>1. PICK e \in Entity : \E v, gain : Steps(e, v, gain)
      BY <1>2
    <2>2. PICK v, gain : Steps(e, v, gain)
      BY <2>1
    <2>3. PICK u : u = unit[e]
      OBVIOUS
    <2>4. /\ Fit(v) /\ gain \in Int /\ unit' = [unit EXCEPT ![e] = v]
          /\ stock' = [stock EXCEPT ![unit[e].owner] = @ + gain]
      BY <2>2 DEF Steps
    <2>5. Held(v) + gain <= Held(u)
      BY <2>2, <2>3 DEF Steps, Lighter
    <2>6. Held(v) \in Nat
      BY <2>4, HeldIs
    <2>7. Held(u) \in Nat
      <3>1. Fit(u)
        BY <2>3, UnitIs
      <3> QED
        BY <3>1, HeldIs
    <2>8. /\ Wealth \in Int /\ Wealth' \in Int
          /\ Wealth' = Wealth + gain + Held(v) - Held(unit[e])
      BY <2>4, WealthMoves
    <2>9. PICK j \in Int : j = gain
      BY <2>4
    <2> QED
      BY <2>3, <2>5, <2>6, <2>7, <2>8, <2>9
  <1> QED
    BY <1>1, <1>2 DEF Lightens

\* A command only moves what a player has.
LEMMA WealthTraded ==
  ASSUME UnitsInv, Traded
  PROVE  Wealth' = Wealth /\ Wealth \in Int
  <1>1. PICK e \in Entity : \E v, gain : Trades(e, v, gain)
    BY DEF Traded
  <1>2. PICK v, gain : Trades(e, v, gain)
    BY <1>1
  <1>3. PICK u : u = unit[e]
    OBVIOUS
  <1>4. /\ Fit(v) /\ gain \in Int /\ unit' = [unit EXCEPT ![e] = v]
        /\ stock' = [stock EXCEPT ![unit[e].owner] = @ + gain]
    BY <1>2 DEF Trades
  <1>5. Held(v) + gain = Held(u)
    BY <1>2, <1>3 DEF Trades
  <1>6. Held(v) \in Nat
    BY <1>4, HeldIs
  <1>7. Held(u) \in Nat
    <2>1. Fit(u)
      BY <1>3, UnitIs
    <2> QED
      BY <2>1, HeldIs
  <1>8. /\ Wealth \in Int /\ Wealth' \in Int
        /\ Wealth' = Wealth + gain + Held(v) - Held(unit[e])
    BY <1>4, WealthMoves
  <1>9. PICK j \in Int : j = gain
    BY <1>4
  <1> QED
    BY <1>3, <1>5, <1>6, <1>7, <1>8, <1>9

\* Nothing is paid back twice, or without having been paid: what the players have
\* and could have back never grows, and a command only moves it (the refunds of
\* cancel_train, cancel_research, process_research and of a change given up).
THEOREM PaidOnce == OrdersSpec => PaidBackOnce
  <1>1. TogetherInv => UnitsInv /\ CleanInv
    BY DEF TogetherInv
  <1>2. ASSUME TogetherInv, OrdersNext
        PROVE  Wealth' <= Wealth /\ (Command => Wealth' = Wealth)
    <2>1. UnitsInv /\ CleanInv
      BY <1>1, <1>2
    <2>2. Command => Wealth' = Wealth /\ Wealth \in Int
      BY <2>1, CommandTrades, WealthTraded
    <2>3. Outside \/ Tick => Wealth' <= Wealth
      BY <2>1, LightOutside, LightTick, WealthLight
    <2> QED
      BY <1>2, <2>2, <2>3 DEF OrdersNext
  <1>3. TogetherInv /\ [OrdersNext]_ordersVars
          => [Wealth' <= Wealth /\ (Command => Wealth' = Wealth)]_ordersVars
    BY <1>2
  <1> QED
    BY <1>3, OrdersTogether, PTL DEF OrdersSpec, PaidBackOnce
=============================================================================
