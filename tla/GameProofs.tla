----------------------------- MODULE GameProofs -----------------------------
(***************************************************************************)
(* Proofs about the two parts of a network game.                           *)
(*                                                                         *)
(* Lobby, for any number of clients and places.  The argument is in three  *)
(* parts: who has a place (the host alone changes the places, one event at *)
(* a time), what is on its way to each client (one ordered stream, the     *)
(* last state in which is the host's), and who has dialed whom once the    *)
(* game begins.                                                            *)
(*                                                                         *)
(* Lockstep, for every number of nodes and players, every latency,         *)
(* topology and elimination schedule: its invariants, and that it          *)
(* implements ReplicatedInput.                                             *)
(***************************************************************************)
EXTENDS Lockstep, Lobby, NaturalFacts, SequenceTheorems, FiniteSetTheorems

(***************************************************************************)
(* The lobby.                                                              *)
(***************************************************************************)

\* Clients, the host and slots are told apart by their numbers.
LEMMA Numbers ==
  /\ Client \subseteq Nat /\ Slot \subseteq Nat /\ Id \subseteq Nat
  /\ Host \notin Client /\ \A c \in Client : Host < c
  /\ Host = 0 /\ Watching \notin Slot
  <1>1. Cardinality(Client) \in Nat /\ Cardinality(Slot) \in Nat
    BY LobbyAssumption, FS_CardinalityType
  <1> QED
    BY <1>1, LobbyAssumption DEF Id, Host, Watching

\* The first of some slots is one of them.
LEMMA FirstSlot ==
  ASSUME NEW S \in SUBSET Slot, S # {}
  PROVE  Min(S) \in S
  <1>1. \E x \in S : \A y \in S : x <= y
    BY Numbers, LeastNatural
  <1> QED
    BY <1>1 DEF Min

\* A stretch of a sequence.
LEMMA Stretch ==
  ASSUME NEW S, NEW q \in Seq(S), NEW m \in 1 .. Len(q) + 1, NEW n \in m - 1 .. Len(q)
  PROVE  /\ SubSeq(q, m, n) \in Seq(S) /\ Len(SubSeq(q, m, n)) = n - m + 1
         /\ DOMAIN SubSeq(q, m, n) = 1 .. n - m + 1
         /\ \A i \in 1 .. n - m + 1 : SubSeq(q, m, n)[i] = q[m + i - 1]
  <1>1. m \in Int /\ n \in Int /\ Len(q) \in Nat
    OBVIOUS
  <1>2. \A i \in m .. n : q[i] \in S
    BY <1>1, ElementOfSeq
  <1> DEFINE r == SubSeq(q, m, n)
  <1>3. /\ r \in Seq(S) /\ Len(r) = IF m <= n THEN n - m + 1 ELSE 0
        /\ \A i \in 1 .. n - m + 1 : r[i] = q[m + i - 1]
    BY <1>1, <1>2, SubSeqProperties
  <1> HIDE DEF r
  <1>4. Len(r) = n - m + 1
    BY <1>3
  <1>5. DOMAIN r = 1 .. n - m + 1
    BY <1>3, <1>4, LenProperties
  <1> QED
    BY <1>3, <1>4, <1>5 DEF r

\* What an entry's removal leaves of a list without repetition.
LEMMA Removed ==
  ASSUME NEW w \in Seq(Id), IsInjective(w), NEW p
  PROVE  /\ RemoveFirst(w, p) \in Seq(Id) /\ IsInjective(RemoveFirst(w, p))
         /\ Range(RemoveFirst(w, p)) = Range(w) \ {p}
  <1> DEFINE I == {i \in 1 .. Len(w) : w[i] = p}
             k == Min(I)
             r == RemoveFirst(w, p)
  <1>1. Len(w) \in Nat /\ DOMAIN w = 1 .. Len(w)
    OBVIOUS
  <1>2. CASE I = {}
    <2>1. r = w /\ p \notin Range(w)
      BY <1>1, <1>2 DEF RemoveFirst, Range
    <2> QED
      BY <2>1
  <1>3. CASE I # {}
    <2>1. \E x \in I : \A y \in I : x <= y
      <3>1. I \in SUBSET Nat
        BY <1>1
      <3> HIDE DEF I
      <3> QED
        BY <3>1, <1>3, LeastNatural
    <2>2. k \in 1 .. Len(w) /\ w[k] = p
      <3>1. k \in I
        BY <2>1 DEF Min
      <3> QED
        BY <3>1
    <2>3. r = SubSeq(w, 1, k - 1) \o SubSeq(w, k + 1, Len(w))
      BY <1>3 DEF RemoveFirst, RemoveAt, SelectInSeq
    <2> HIDE DEF k, I, r
    <2> DEFINE a == SubSeq(w, 1, k - 1)
               b == SubSeq(w, k + 1, Len(w))
               at(i) == IF i < k THEN i ELSE i + 1
    <2>4. a \in Seq(Id) /\ Len(a) = k - 1 /\ \A i \in 1 .. k - 1 : a[i] = w[i]
      BY <1>1, <2>2, Stretch
    <2>5. b \in Seq(Id) /\ Len(b) = Len(w) - k /\ \A i \in 1 .. Len(w) - k : b[i] = w[k + i]
      <3>1. k + 1 \in 1 .. Len(w) + 1 /\ Len(w) \in k + 1 - 1 .. Len(w)
        BY <1>1, <2>2
      <3>2. /\ b \in Seq(Id) /\ Len(b) = Len(w) - (k + 1) + 1
            /\ \A i \in 1 .. Len(w) - (k + 1) + 1 : b[i] = w[k + 1 + i - 1]
        BY <3>1, Stretch
      <3> HIDE DEF b
      <3> QED
        BY <3>2, <2>2, <1>1
    <2> HIDE DEF a, b
    <2>6. /\ r \in Seq(Id) /\ Len(r) = Len(w) - 1
          /\ \A i \in 1 .. Len(w) - 1 : r[i] = IF i <= k - 1 THEN a[i] ELSE b[i - (k - 1)]
      <3>1. r = a \o b
        BY <2>3 DEF a, b
      <3>2. /\ r \in Seq(Id) /\ Len(r) = Len(a) + Len(b)
            /\ \A i \in 1 .. Len(a) + Len(b) : r[i] = IF i <= Len(a) THEN a[i] ELSE b[i - Len(a)]
        BY <3>1, <2>4, <2>5, ConcatProperties
      <3>3. Len(a) + Len(b) = Len(w) - 1
        BY <2>2, <2>4, <2>5, <1>1
      <3> QED
        BY <3>2, <3>3, <2>4
    <2>7. DOMAIN r = 1 .. Len(w) - 1
      BY <2>6, LenProperties
    <2>8. ASSUME NEW i \in 1 .. Len(w) - 1 PROVE r[i] = w[at(i)] /\ at(i) \in 1 .. Len(w) /\ at(i) # k
      <3>1. CASE i < k
        BY <3>1, <2>2, <2>4, <2>6, <1>1
      <3>2. CASE ~(i < k)
        <4>1. i \in Int /\ k \in Int /\ Len(w) \in Int /\ k <= i /\ i <= Len(w) - 1
          BY <3>2, <2>2, <1>1
        <4>2. i - (k - 1) \in 1 .. Len(w) - k /\ ~(i <= k - 1)
          BY <4>1
        <4>3. r[i] = b[i - (k - 1)]
          BY <4>2, <2>6
        <4> QED
          BY <4>1, <4>2, <4>3, <2>2, <2>5, <1>1
      <3> QED
        BY <3>1, <3>2
    <2>9. IsInjective(r)
      <3> SUFFICES ASSUME NEW i \in 1 .. Len(w) - 1, NEW j \in 1 .. Len(w) - 1, r[i] = r[j]
                   PROVE  i = j
        BY <2>7 DEF IsInjective
      <3>1. at(i) = at(j)
        BY <2>8, <1>1 DEF IsInjective
      <3> QED
        BY <3>1, <2>2, <1>1
    <2>10. Range(r) \subseteq Range(w) \ {p}
      <3> SUFFICES ASSUME NEW i \in 1 .. Len(w) - 1 PROVE r[i] \in Range(w) \ {p}
        BY <2>7 DEF Range
      <3> QED
        BY <2>8, <2>2, <1>1 DEF IsInjective, Range
    <2>11. Range(w) \ {p} \subseteq Range(r)
      <3> SUFFICES ASSUME NEW i \in 1 .. Len(w), w[i] # p PROVE w[i] \in Range(r)
        BY <1>1 DEF Range
      <3> DEFINE j == IF i < k THEN i ELSE i - 1
      <3>1. j \in 1 .. Len(w) - 1 /\ at(j) = i
        BY <2>2, <1>1
      <3> HIDE DEF j
      <3>2. r[j] = w[i]
        BY <3>1, <2>8
      <3> QED
        BY <3>1, <3>2, <2>7 DEF Range
    <2> QED
      BY <2>6, <2>9, <2>10, <2>11 DEF r
  <1> QED
    BY <1>2, <1>3
-----------------------------------------------------------------------------
(* Who has a place.                                                         *)

\* OnePlace of any list of places.
OneEach(l) ==
  /\ \A s, t \in Slot : l.slots[s].kind = "human" /\ l.slots[s] = l.slots[t] => s = t
  /\ IsInjective(l.watchers)
  /\ Seated(l) \cap Range(l.watchers) = {}

\* OnePlace says it of the places as the host has them.
LEMMA OnePlaceIs == OnePlace <=> OneEach(lobby)
  BY DEF OnePlace, OneEach

\* A list of places, by its parts.
LEMMA Parts ==
  ASSUME NEW l \in Place
  PROVE  /\ l.slots \in [Slot -> Occupant] /\ l.watchers \in Seq(Id) /\ l.mode \in Mode
         /\ l = [slots |-> l.slots, watchers |-> l.watchers, mode |-> l.mode]
         /\ Len(l.watchers) \in Nat /\ DOMAIN l.watchers = 1 .. Len(l.watchers)
         /\ Placed(l) \subseteq Id
  BY DEF Place, Placed, Seated, Range

\* A change of one part.
LEMMA Edited ==
  ASSUME NEW l \in Place, NEW f, NEW w
  PROVE  /\ [l EXCEPT !.slots = f] = [slots |-> f, watchers |-> l.watchers, mode |-> l.mode]
         /\ [l EXCEPT !.watchers = w] = [slots |-> l.slots, watchers |-> w, mode |-> l.mode]
  BY DEF Place

\* Whoever sits in a slot is seated.
LEMMA SeatedIs ==
  ASSUME NEW l, NEW p
  PROVE  p \in Seated(l) <=> p \in Id /\ \E s \in Slot : l.slots[s] = Human(p)
  BY DEF Seated, SlotsOf

\* A slot given up.
LEMMA VacateKeeps ==
  ASSUME NEW l \in Place, OneEach(l), NEW p \in Id
  PROVE  LET v == Vacate(l, p) IN
         /\ v \in Place /\ OneEach(v) /\ v.watchers = l.watchers /\ v.mode = l.mode
         /\ Seated(v) = Seated(l) \ {p}
  <1> DEFINE f == [s \in Slot |-> IF l.slots[s] = Human(p) THEN Vacant("open") ELSE l.slots[s]]
             v == Vacate(l, p)
  <1>1. v = [slots |-> f, watchers |-> l.watchers, mode |-> l.mode]
    <2>1. v = [l EXCEPT !.slots = f]
      BY DEF Vacate
    <2> HIDE DEF f, v
    <2> QED
      BY <2>1, Edited
  <1>2. Vacant("open") \in Occupant /\ Vacant("open").kind = "open"
    BY DEF Occupant, Vacant
  <1>3. f \in [Slot -> Occupant]
    BY <1>2, Parts
  <1>4. \A s \in Slot : f[s] = IF l.slots[s] = Human(p) THEN Vacant("open") ELSE l.slots[s]
    OBVIOUS
  <1> HIDE DEF f, v
  <1>5. v \in Place /\ v.slots = f /\ v.watchers = l.watchers /\ v.mode = l.mode
    BY <1>1, <1>3, Parts DEF Place
  <1>6. Seated(v) = Seated(l) \ {p}
    <2>1. \A q \in Id, s \in Slot : f[s] = Human(q) <=> l.slots[s] = Human(q) /\ q # p
      BY <1>4 DEF Human, Vacant
    <2> QED
      BY <2>1, <1>5, SeatedIs
  <1>7. \A s, t \in Slot : f[s].kind = "human" /\ f[s] = f[t] => s = t
    BY <1>4, <1>2 DEF OneEach
  <1>8. OneEach(v)
    BY <1>5, <1>6, <1>7 DEF OneEach
  <1> QED
    BY <1>5, <1>6, <1>8 DEF v

\* A slot taken by somebody without a place.
LEMMA TakeKeeps ==
  ASSUME NEW l \in Place, OneEach(l), NEW p \in Id, p \notin Placed(l), Open(l) # {}
  PROVE  LET v == TakeSlot(l, p) IN
         /\ v \in Place /\ OneEach(v) /\ v.watchers = l.watchers /\ v.mode = l.mode
         /\ Seated(v) = Seated(l) \cup {p}
  <1> DEFINE m == Min(Open(l))
             f == [l.slots EXCEPT ![m] = Human(p)]
             v == TakeSlot(l, p)
  <1>1. m \in Slot /\ l.slots[m].kind = "open"
    <2>1. Open(l) \in SUBSET Slot
      BY DEF Open
    <2>2. m \in Open(l)
      BY <2>1, FirstSlot
    <2> QED
      BY <2>2 DEF Open
  <1> HIDE DEF m
  <1>2. v = [slots |-> f, watchers |-> l.watchers, mode |-> l.mode]
    BY Parts DEF TakeSlot, m
  <1>3. Human(p) \in Occupant /\ Human(p).kind = "human"
    BY DEF Occupant, Human
  <1>4. f \in [Slot -> Occupant]
    BY <1>1, <1>3, Parts
  <1>5. \A s \in Slot : f[s] = IF s = m THEN Human(p) ELSE l.slots[s]
    BY <1>1, Parts
  <1> HIDE DEF f, v
  <1>6. v \in Place /\ v.slots = f /\ v.watchers = l.watchers /\ v.mode = l.mode
    BY <1>2, <1>4, Parts DEF Place
  <1>7. Seated(v) = Seated(l) \cup {p}
    <2>1. \A q \in Id, s \in Slot : f[s] = Human(q) <=> (s = m /\ q = p) \/ (s # m /\ l.slots[s] = Human(q))
      BY <1>5 DEF Human
    <2>2. \A q \in Id : l.slots[m] # Human(q)
      BY <1>1 DEF Human
    <2>3. \A q \in Id : q \in Seated(v) <=> q \in Seated(l) \/ q = p
      BY <2>1, <2>2, <1>1, <1>6, SeatedIs
    <2> QED
      BY <2>3 DEF Seated
  <1>8. p \notin Seated(l) /\ p \notin Range(l.watchers)
    BY DEF Placed
  <1>9. \A s, t \in Slot : f[s].kind = "human" /\ f[s] = f[t] => s = t
    <2>1. \A s \in Slot : l.slots[s] # Human(p)
      BY <1>8, SeatedIs
    <2> QED
      BY <2>1, <1>5 DEF OneEach
  <1>10. OneEach(v)
    BY <1>6, <1>7, <1>8, <1>9 DEF OneEach
  <1> QED
    BY <1>6, <1>7, <1>10 DEF v

\* A watcher's place given up.
LEMMA OffKeeps ==
  ASSUME NEW l \in Place, OneEach(l), NEW p \in Id
  PROVE  LET v == OffWatch(l, p) IN
         /\ v \in Place /\ OneEach(v) /\ v.slots = l.slots /\ v.mode = l.mode
         /\ Seated(v) = Seated(l) /\ Range(v.watchers) = Range(l.watchers) \ {p}
  <1> DEFINE w == RemoveFirst(l.watchers, p)
             v == OffWatch(l, p)
  <1>1. v = [slots |-> l.slots, watchers |-> w, mode |-> l.mode]
    BY Parts DEF OffWatch
  <1>2. w \in Seq(Id) /\ IsInjective(w) /\ Range(w) = Range(l.watchers) \ {p}
    BY Parts, Removed DEF OneEach
  <1> HIDE DEF w, v
  <1>3. v \in Place /\ v.slots = l.slots /\ v.watchers = w /\ v.mode = l.mode
    BY <1>1, <1>2, Parts DEF Place
  <1>4. Seated(v) = Seated(l)
    BY <1>3 DEF Seated, SlotsOf
  <1>5. OneEach(v)
    BY <1>2, <1>3, <1>4 DEF OneEach
  <1> QED
    BY <1>2, <1>3, <1>4, <1>5 DEF v

\* A place among the watchers, for somebody who does not watch.
LEMMA WatchKeeps ==
  ASSUME NEW l \in Place, OneEach(l), NEW p \in Id, p \notin Placed(l)
  PROVE  LET v == [l EXCEPT !.watchers = Append(@, p)] IN
         /\ v \in Place /\ OneEach(v) /\ v.mode = l.mode
         /\ Placed(v) = Placed(l) \cup {p}
  <1> DEFINE w == Append(l.watchers, p)
             v == [l EXCEPT !.watchers = Append(@, p)]
             k == Len(l.watchers)
  <1>1. v = [slots |-> l.slots, watchers |-> w, mode |-> l.mode]
    <2> HIDE DEF w
    <2> QED
      BY Edited DEF v, w
  <1>2. /\ w \in Seq(Id) /\ k \in Nat /\ DOMAIN w = 1 .. k + 1
        /\ \A i \in 1 .. k : w[i] = l.watchers[i]
        /\ w[k + 1] = p
    BY Parts, AppendProperties, LenProperties
  <1>3. p \notin Range(l.watchers) /\ p \notin Seated(l)
    BY DEF Placed
  <1> HIDE DEF w, v, k
  <1>4. v \in Place /\ v.slots = l.slots /\ v.watchers = w /\ v.mode = l.mode
    BY <1>1, <1>2, Parts DEF Place
  <1>5. Range(w) = Range(l.watchers) \cup {p}
    BY <1>2, Parts DEF Range, k
  <1>6. Seated(v) = Seated(l)
    BY <1>4 DEF Seated, SlotsOf
  <1>7. IsInjective(w)
    <2>1. \A i \in 1 .. k : l.watchers[i] # p
      BY <1>3, Parts DEF Range, k
    <2>2. \A i, j \in 1 .. k : l.watchers[i] = l.watchers[j] => i = j
      BY Parts DEF OneEach, IsInjective, k
    <2> QED
      BY <2>1, <2>2, <1>2 DEF IsInjective
  <1>8. OneEach(v)
    BY <1>3, <1>4, <1>5, <1>6, <1>7 DEF OneEach
  <1> QED
    BY <1>4, <1>5, <1>6, <1>8 DEF v, Placed

\* What an event or an edit that is about p may make of the places.
About(l, p, v) ==
  /\ v \in Place /\ OneEach(v) /\ v.mode = l.mode
  /\ \A q \in Id \ {p} : q \in Placed(v) <=> q \in Placed(l)

\* Turning to watch moves only the one who asks, and leaves it a place.
LEMMA AdmitKeeps ==
  ASSUME NEW l \in Place, OneEach(l), NEW p \in Id
  PROVE  /\ About(l, p, AdmitWatcher(l, p))
         /\ p \in Placed(l) => p \in Placed(AdmitWatcher(l, p))
  <1> DEFINE u == Vacate(l, p)
             v == AdmitWatcher(l, p)
  <1>1. CASE p \in Range(l.watchers) \/ Len(l.watchers) >= Limit
    BY <1>1 DEF AdmitWatcher, About
  <1>2. CASE ~(p \in Range(l.watchers) \/ Len(l.watchers) >= Limit)
    <2>1. u \in Place /\ OneEach(u) /\ u.watchers = l.watchers /\ u.mode = l.mode /\ Seated(u) = Seated(l) \ {p}
      BY VacateKeeps
    <2>2. v = [u EXCEPT !.watchers = Append(@, p)]
      BY <1>2 DEF AdmitWatcher
    <2> HIDE DEF u, v
    <2>3. p \notin Placed(u) /\ Placed(u) = Placed(l) \ {p}
      BY <2>1, <1>2 DEF Placed
    <2>4. v \in Place /\ OneEach(v) /\ v.mode = u.mode /\ Placed(v) = Placed(u) \cup {p}
      BY <2>1, <2>2, <2>3, WatchKeeps
    <2> QED
      BY <2>1, <2>3, <2>4 DEF About, v
  <1> QED
    BY <1>1, <1>2

\* Turning to play moves only the one who asks, and leaves it a place.
LEMMA SeatWatcherKeeps ==
  ASSUME NEW l \in Place, OneEach(l), NEW p \in Id
  PROVE  /\ About(l, p, SeatWatcher(l, p))
         /\ p \in Placed(l) => p \in Placed(SeatWatcher(l, p))
  <1> DEFINE u == OffWatch(l, p)
             v == SeatWatcher(l, p)
  <1>1. CASE p \notin Range(l.watchers) \/ Open(l) = {}
    BY <1>1 DEF SeatWatcher, About
  <1>2. CASE ~(p \notin Range(l.watchers) \/ Open(l) = {})
    <2>1. /\ u \in Place /\ OneEach(u) /\ u.slots = l.slots /\ u.mode = l.mode
          /\ Seated(u) = Seated(l) /\ Range(u.watchers) = Range(l.watchers) \ {p}
      BY OffKeeps
    <2>2. v = TakeSlot(u, p)
      BY <1>2 DEF SeatWatcher
    <2> HIDE DEF u, v
    <2>3. p \notin Placed(u) /\ Placed(u) = Placed(l) \ {p}
      BY <2>1, <1>2 DEF Placed, OneEach
    <2>4. Open(u) # {}
      BY <2>1, <1>2 DEF Open
    <2>5. /\ v \in Place /\ OneEach(v) /\ v.watchers = u.watchers /\ v.mode = u.mode
          /\ Seated(v) = Seated(u) \cup {p}
      BY <2>1, <2>2, <2>3, <2>4, TakeKeeps
    <2>6. Placed(v) = Placed(u) \cup {p}
      BY <2>5 DEF Placed
    <2> QED
      BY <2>1, <2>3, <2>5, <2>6 DEF About, v
  <1> QED
    BY <1>1, <1>2

\* A newcomer takes a place nobody has, if there is one.
LEMMA SeatKeeps ==
  ASSUME NEW l \in Place, OneEach(l), NEW p \in Id, p \notin Placed(l)
  PROVE  About(l, p, Seat(l, p))
  <1>1. CASE Open(l) = {}
    BY <1>1, AdmitKeeps DEF Seat
  <1>2. CASE Open(l) # {}
    <2> DEFINE v == TakeSlot(l, p)
    <2>1. /\ v \in Place /\ OneEach(v) /\ v.watchers = l.watchers /\ v.mode = l.mode
          /\ Seated(v) = Seated(l) \cup {p}
      BY <1>2, TakeKeeps
    <2>2. Seat(l, p) = v
      BY <1>2 DEF Seat
    <2> HIDE DEF v
    <2> QED
      BY <2>1, <2>2 DEF About, Placed
  <1> QED
    BY <1>1, <1>2

\* Who is unseated has no place, and nobody else loses one.
LEMMA UnseatKeeps ==
  ASSUME NEW l \in Place, OneEach(l), NEW p \in Id
  PROVE  About(l, p, Unseat(l, p)) /\ p \notin Placed(Unseat(l, p))
  <1>1. CASE SlotsOf(l, p) # {}
    <2> DEFINE v == Vacate(l, p)
    <2>1. v \in Place /\ OneEach(v) /\ v.watchers = l.watchers /\ v.mode = l.mode /\ Seated(v) = Seated(l) \ {p}
      BY VacateKeeps
    <2>2. Unseat(l, p) = v
      BY <1>1 DEF Unseat
    <2>3. p \notin Range(l.watchers)
      BY <1>1 DEF OneEach, Seated
    <2> HIDE DEF v
    <2> QED
      BY <2>1, <2>2, <2>3 DEF About, Placed
  <1>2. CASE SlotsOf(l, p) = {}
    <2> DEFINE v == OffWatch(l, p)
    <2>1. /\ v \in Place /\ OneEach(v) /\ v.slots = l.slots /\ v.mode = l.mode
          /\ Seated(v) = Seated(l) /\ Range(v.watchers) = Range(l.watchers) \ {p}
      BY OffKeeps
    <2>2. Unseat(l, p) = v
      BY <1>2 DEF Unseat
    <2>3. p \notin Seated(l)
      BY <1>2 DEF Seated
    <2> HIDE DEF v
    <2> QED
      BY <2>1, <2>2, <2>3 DEF About, Placed
  <1> QED
    BY <1>1, <1>2

\* An event moves only the client it comes from, and takes its place away only
\* when it is gone or refused.
LEMMA MovedKeeps ==
  ASSUME NEW l \in Place, OneEach(l), NEW e \in Event,
         e.kind = "connected" => e.from \notin Placed(l)
  PROVE  LET v == Moved(l, e)
             out == Refused(e) \/ e.kind = "lost" IN
         /\ About(l, e.from, v)
         /\ out => e.from \notin Placed(v)
         /\ ~out /\ e.from \in Placed(l) => e.from \in Placed(v)
  <1> DEFINE p == e.from
             v == Moved(l, e)
  <1>1. p \in Id /\ e.kind \in {"connected", "lost", "join", "observe", "play"}
    BY DEF Event, Id
  <1> HIDE DEF p
  <1>2. CASE e.kind = "connected"
    <2>1. v = Seat(l, p) /\ ~Refused(e)
      BY <1>2 DEF Moved, Refused, p
    <2> QED
      BY <1>1, <1>2, <2>1, SeatKeeps DEF p
  <1>3. CASE e.kind = "lost" \/ Refused(e)
    <2>1. v = Unseat(l, p)
      BY <1>3 DEF Moved, Refused, p
    <2> QED
      BY <1>1, <1>3, <2>1, UnseatKeeps DEF p
  <1>4. CASE e.kind = "join" /\ ~Refused(e)
    <2>1. v = l
      BY <1>4 DEF Moved, Refused
    <2>2. About(l, p, l)
      BY DEF About
    <2> QED
      BY <1>4, <2>1, <2>2 DEF p
  <1>5. CASE e.kind = "observe"
    <2>1. v = AdmitWatcher(l, p) /\ ~Refused(e)
      BY <1>5 DEF Moved, Refused, p
    <2> QED
      BY <1>1, <1>5, <2>1, AdmitKeeps DEF p
  <1>6. CASE e.kind = "play"
    <2>1. v = SeatWatcher(l, p) /\ ~Refused(e)
      BY <1>6 DEF Moved, Refused, p
    <2> QED
      BY <1>1, <1>6, <2>1, SeatWatcherKeeps DEF p
  <1> QED
    BY <1>1, <1>2, <1>3, <1>4, <1>5, <1>6

\* The host's menu moves nobody but the host.
LEMMA CycleKeeps ==
  ASSUME NEW l \in Place, OneEach(l), NEW s \in Slot, l.slots[s].kind # "human"
  PROVE  LET v == [l EXCEPT !.slots[s] = Vacant(NextKind[l.slots[s].kind])] IN
         v \in Place /\ OneEach(v) /\ v.mode = l.mode /\ Placed(v) = Placed(l)
  <1> DEFINE o == Vacant(NextKind[l.slots[s].kind])
             f == [l.slots EXCEPT ![s] = o]
             v == [l EXCEPT !.slots[s] = o]
  <1>1. l.slots[s].kind \in {"open", "ai", "closed"}
    BY Parts DEF Occupant, Human, Vacant
  <1>2. o \in Occupant /\ o.kind # "human"
    BY <1>1 DEF Occupant, Vacant, NextKind
  <1> HIDE DEF o
  <1>3. v = [slots |-> f, watchers |-> l.watchers, mode |-> l.mode]
    <2>1. v = [l EXCEPT !.slots = f]
      BY DEF v, f
    <2> HIDE DEF v, f
    <2> QED
      BY <2>1, Edited
  <1>4. f \in [Slot -> Occupant] /\ \A t \in Slot : f[t] = IF t = s THEN o ELSE l.slots[t]
    BY <1>2, Parts
  <1> HIDE DEF f, v
  <1>5. v \in Place /\ v.slots = f /\ v.watchers = l.watchers /\ v.mode = l.mode
    BY <1>3, <1>4, Parts DEF Place
  <1>6. \A q \in Id, t \in Slot : f[t] = Human(q) <=> l.slots[t] = Human(q)
    BY <1>2, <1>4 DEF Human
  <1>7. Seated(v) = Seated(l)
    BY <1>5, <1>6, SeatedIs DEF Seated
  <1>8. OneEach(v)
    <2>1. \A t, u \in Slot : f[t].kind = "human" /\ f[t] = f[u] => t = u
      BY <1>2, <1>4 DEF OneEach
    <2> QED
      BY <2>1, <1>5, <1>7 DEF OneEach
  <1> QED
    BY <1>5, <1>7, <1>8 DEF Placed, v, o
-----------------------------------------------------------------------------
(* The inductive invariant.                                                 *)

\* An event comes from its client: first that it is connected, and at last
\* that it is gone.
Upward ==
  \A c \in Client : \A i \in DOMAIN up[c] :
    /\ up[c][i].from = c
    /\ up[c][i].kind = "connected" => i = 1 /\ c \notin Placed(lobby)
    /\ up[c][i].kind = "lost" => client[c].at = "menu"
    /\ Refused(up[c][i]) => ~client[c].fit

\* Who is away has no place yet, and who is gone has none, or a loss to tell.
Whereabouts ==
  /\ Host \in Placed(lobby)
  /\ \A c \in Client :
       /\ client[c].at = "away" =>
            up[c] = <<>> /\ down[c] = <<>> /\ c \notin Placed(lobby) /\ client[c].mirror = NoLobby
       /\ client[c].at = "playing" => host.at = "playing"
       /\ client[c].at # "playing" => client[c].links = "none"
       /\ host.at = "lobby" /\ client[c].at = "menu" =>
            IF up[c] = <<>> THEN c \notin Placed(lobby) ELSE up[c][Len(up[c])].kind = "lost"

\* The last list of places on the way to a client, or else the one it has
\* already, is the host's; or it has none yet.
Latest(q, l, mirror) ==
  /\ \A i \in DOMAIN q :
       q[i].kind = "state" /\ (\A j \in DOMAIN q : i < j => q[j].kind # "state") => q[i].lobby = l
  /\ (\A i \in DOMAIN q : q[i].kind # "state") => mirror \in {NoLobby, l}

\* What ends a lobby comes after all lists of places.
Final(m) == m.kind \in {"start", "closed"}
Table(l) == IF l.mode = "star" THEN {} ELSE Placed(l)
Endings(q, l, at) ==
  /\ \A i \in DOMAIN q : Final(q[i]) => at # "lobby" /\ \A j \in DOMAIN q : i < j => q[j].kind # "state"
  /\ \A i \in DOMAIN q : q[i].kind = "start" => at = "playing" /\ q[i].table = Table(l)
  /\ at # "lobby" => \E i \in DOMAIN q : Final(q[i])

\* Who has been told of no places will be, or is refused.
Asked(c, q, u, mirror) ==
  mirror = NoLobby /\ (\A i \in DOMAIN q : q[i].kind # "state") =>
    \/ \E i \in DOMAIN u : u[i].kind = "join"
    \/ \E i \in DOMAIN q : q[i].kind = "rejected" /\ q[i].peer = c

Streams ==
  \A c \in Client : client[c].at = "lobby" =>
    /\ Latest(down[c], lobby, client[c].mirror)
    /\ Endings(down[c], lobby, host.at)
    /\ host.at = "lobby" => Asked(c, down[c], up[c], client[c].mirror)

\* Who plays, plays what the host does.
Playing ==
  \A c \in Client : client[c].at = "playing" =>
    client[c].mirror = lobby /\ client[c].table = Table(lobby)

\* Nobody dials before it plays, nor twice; who waits for its links waits for
\* all that have not dialed it yet, or stand before its listener.
InGame(p) == IF p = Host THEN host.at = "playing" ELSE client[p].at = "playing"
Dialed ==
  \A c \in Client :
    /\ IsInjective(knocks[c])
    /\ \A p \in Range(knocks[c]) : p < c /\ InGame(p)
    /\ client[c].links = "linking" =>
         /\ lobby.mode = "decentralized"
         /\ client[c].expects \subseteq Placed(lobby)
         /\ \A p \in Placed(lobby) :
              p < c => p \in client[c].expects \/ (InGame(p) /\ p \notin Range(knocks[c]))

LobbyIInv ==
  LobbyTypeOK /\ OnePlace /\ Upward /\ Whereabouts /\ Streams /\ Playing /\ Dialed /\ MeshForms
-----------------------------------------------------------------------------
(* Streams.                                                                 *)

\* A sequence with one more element.
LEMMA More ==
  ASSUME NEW S, NEW q \in Seq(S), NEW m \in S
  PROVE  LET r == Append(q, m) n == Len(q) IN
         /\ r \in Seq(S) /\ n \in Nat /\ DOMAIN q = 1 .. n /\ DOMAIN r = 1 .. n + 1 /\ Len(r) = n + 1
         /\ \A i \in 1 .. n : r[i] = q[i]
         /\ r[n + 1] = m
  BY AppendProperties, LenProperties

\* A sequence without its first element.
LEMMA Rest ==
  ASSUME NEW S, NEW q \in Seq(S), q # <<>>
  PROVE  LET r == Tail(q) n == Len(q) IN
         /\ r \in Seq(S) /\ n \in Nat \ {0} /\ DOMAIN q = 1 .. n /\ DOMAIN r = 1 .. n - 1 /\ Len(r) = n - 1
         /\ \A i \in 1 .. n - 1 : r[i] = q[i + 1]
         /\ Head(q) = q[1] /\ q[1] \in S
  BY HeadTailProperties, LenProperties, EmptySeq, ElementOfSeq

\* Two elements, one after the other.
LEMMA Pair ==
  ASSUME NEW S, NEW a \in S, NEW b \in S
  PROVE  <<a>> \o <<b>> = <<a, b>>
  <1> DEFINE x == <<a>>
             y == Append(x, b)
             z == <<a, b>>
  <1>1. x \in Seq(S)
    BY SMT
  <1>2. Len(x) = 1 /\ x[1] = a
    BY SMT
  <1>3. z \in Seq(S) /\ Len(z) = 2 /\ z[1] = a /\ z[2] = b
    BY SMT
  <1>4. y = x \o <<b>>
    BY <1>1, AppendIsConcat
  <1> HIDE DEF x, z
  <1>5. /\ y \in Seq(S) /\ Len(y) = Len(x) + 1 /\ y[Len(x) + 1] = b
        /\ \A i \in 1 .. Len(x) : y[i] = x[i]
    BY <1>1, AppendProperties
  <1> HIDE DEF y
  <1>6. Len(y) = 2 /\ y[1] = a /\ y[2] = b
    BY <1>2, <1>5
  <1>7. \A i \in 1 .. 2 : y[i] = z[i]
    BY <1>3, <1>6
  <1>8. y = z
    BY <1>3, <1>5, <1>6, <1>7, SeqEqual
  <1> QED
    BY <1>4, <1>8 DEF x, z

\* The messages of one broadcast, one after the other.
LEMMA Strung ==
  ASSUME NEW S, NEW q \in Seq(S), NEW a \in S, NEW b \in S
  PROVE  /\ q \o <<>> = q /\ q \o <<a>> = Append(q, a)
         /\ q \o <<a, b>> = Append(Append(q, a), b)
         /\ <<>> \o <<>> = <<>> /\ <<>> \o <<a>> = <<a>> /\ <<a>> \o <<>> = <<a>> /\ <<a>> \o <<b>> = <<a, b>>
  <1>1. q \o <<>> = q
    BY ConcatEmptySeq
  <1>2. q \o <<a>> = Append(q, a)
    BY AppendIsConcat
  <1>3. <<a>> \in Seq(S) /\ <<b>> \in Seq(S) /\ <<>> \in Seq(S)
    BY SMT
  <1>4. <<>> \o <<>> = <<>>
    BY <1>3, ConcatEmptySeq
  <1>5. <<>> \o <<a>> = <<a>> /\ <<a>> \o <<>> = <<a>>
    <2> DEFINE x == <<a>>
    <2>1. x \in Seq(S)
      BY <1>3
    <2> HIDE DEF x
    <2>2. <<>> \o x = x /\ x \o <<>> = x
      BY <2>1, ConcatEmptySeq
    <2> QED
      BY <2>2 DEF x
  <1>6. <<a>> \o <<b>> = <<a, b>>
    BY Pair
  <1>7. q \o <<a, b>> = Append(Append(q, a), b)
    <2> DEFINE x == <<a>>
               y == <<b>>
    <2>1. x \in Seq(S) /\ y \in Seq(S)
      BY <1>3
    <2>2. Append(q, a) \in Seq(S) /\ Append(Append(q, a), b) = Append(q, a) \o y
      BY AppendIsConcat, AppendProperties
    <2>3. q \o <<a, b>> = q \o (x \o y) /\ Append(q, a) = q \o x
      BY <1>6, <1>2
    <2> HIDE DEF x, y
    <2>4. (q \o x) \o y = q \o (x \o y)
      BY <2>1, ConcatAssociative
    <2> QED
      BY <2>2, <2>3, <2>4
  <1> QED
    BY <1>1, <1>2, <1>4, <1>5, <1>6, <1>7

\* A list of places sent is the latest, whatever came before.
LEMMA LatestState ==
  ASSUME NEW q \in Seq(Message), NEW m \in Message, m.kind = "state", NEW mirror
  PROVE  Latest(Append(q, m), m.lobby, mirror)
  <1> DEFINE r == Append(q, m)
             n == Len(q)
  <1>1. n \in Nat /\ DOMAIN r = 1 .. n + 1 /\ r[n + 1] = m
    BY More
  <1> HIDE DEF r, n
  <1>2. \A i \in 1 .. n + 1 : i # n + 1 => i < n + 1
    BY <1>1
  <1> QED
    BY <1>1, <1>2 DEF Latest, r

\* Anything else leaves the latest what it is, and its reader what it has heard.
LEMMA LatestOther ==
  ASSUME NEW q \in Seq(Message), NEW m \in Message, m.kind # "state", NEW l, NEW mirror,
         Latest(q, l, mirror)
  PROVE  Latest(Append(q, m), l, mirror)
  <1> DEFINE r == Append(q, m)
             n == Len(q)
  <1>1. /\ n \in Nat /\ DOMAIN q = 1 .. n /\ DOMAIN r = 1 .. n + 1
        /\ \A i \in 1 .. n : r[i] = q[i]
        /\ r[n + 1] = m
    BY More
  <1> HIDE DEF r, n
  <1>2. 1 .. n \subseteq 1 .. n + 1 /\ \A i \in 1 .. n + 1 : i = n + 1 \/ i \in 1 .. n
    BY <1>1
  <1>3. ASSUME NEW i \in 1 .. n + 1, r[i].kind = "state",
               \A j \in 1 .. n + 1 : i < j => r[j].kind # "state"
        PROVE  r[i].lobby = l
    BY <1>1, <1>2, <1>3 DEF Latest
  <1>4. (\A i \in 1 .. n + 1 : r[i].kind # "state") => mirror \in {NoLobby, l}
    BY <1>1, <1>2 DEF Latest
  <1> QED
    BY <1>1, <1>3, <1>4 DEF Latest, r

\* Who waits for its first list of places still does behind one more message,
\* unless that is a list or its refusal.
LEMMA AskedMore ==
  ASSUME NEW c, NEW q \in Seq(Message), NEW m \in Message, NEW u, NEW mirror,
         Asked(c, q, u, mirror) \/ m.kind = "state" \/ (m.kind = "rejected" /\ m.peer = c)
  PROVE  Asked(c, Append(q, m), u, mirror)
  <1> DEFINE r == Append(q, m)
             n == Len(q)
  <1>1. /\ n \in Nat /\ DOMAIN q = 1 .. n /\ DOMAIN r = 1 .. n + 1
        /\ \A i \in 1 .. n : r[i] = q[i]
        /\ r[n + 1] = m
    BY More
  <1> HIDE DEF r, n
  <1>2. 1 .. n \subseteq 1 .. n + 1 /\ n + 1 \in 1 .. n + 1
    BY <1>1
  <1>3. CASE Asked(c, q, u, mirror)
    BY <1>1, <1>2, <1>3 DEF Asked, r
  <1>4. CASE m.kind = "state" \/ (m.kind = "rejected" /\ m.peer = c)
    BY <1>1, <1>2, <1>4 DEF Asked, r
  <1> QED
    BY <1>3, <1>4

\* While the host is in the lobby, nothing it sends ends it.
LEMMA EndingsMore ==
  ASSUME NEW q \in Seq(Message), NEW m \in Message, ~Final(m), NEW l, NEW l2,
         Endings(q, l, "lobby")
  PROVE  Endings(Append(q, m), l2, "lobby")
  <1> DEFINE r == Append(q, m)
             n == Len(q)
  <1>1. /\ n \in Nat /\ DOMAIN q = 1 .. n /\ DOMAIN r = 1 .. n + 1
        /\ \A i \in 1 .. n : r[i] = q[i]
        /\ r[n + 1] = m
    BY More
  <1> HIDE DEF r, n
  <1>2. \A i \in 1 .. n + 1 : i = n + 1 \/ i \in 1 .. n
    BY <1>1
  <1>3. \A i \in 1 .. n : ~Final(q[i])
    BY <1>1 DEF Endings
  <1>4. \A i \in 1 .. n + 1 : ~Final(r[i])
    BY <1>1, <1>2, <1>3
  <1> QED
    BY <1>1, <1>4 DEF Endings, Final, r

\* The message that ends it comes last.
LEMMA EndingsLast ==
  ASSUME NEW q \in Seq(Message), NEW m \in Message, Final(m), NEW l, NEW at,
         at \in {"playing", "menu"},
         Endings(q, l, "lobby") \/ (Endings(q, l, at) /\ m.kind = "closed"),
         m.kind = "start" => at = "playing" /\ m.table = Table(l)
  PROVE  Endings(Append(q, m), l, at)
  <1> DEFINE r == Append(q, m)
             n == Len(q)
  <1>1. /\ n \in Nat /\ DOMAIN q = 1 .. n /\ DOMAIN r = 1 .. n + 1
        /\ \A i \in 1 .. n : r[i] = q[i]
        /\ r[n + 1] = m
    BY More
  <1> HIDE DEF r, n
  <1>2. n + 1 \in 1 .. n + 1 /\ \A i \in 1 .. n + 1 : i = n + 1 \/ i \in 1 .. n
    BY <1>1
  <1>3. m.kind # "state"
    BY DEF Final
  <1>4. ASSUME NEW i \in 1 .. n + 1, Final(r[i])
        PROVE  \A j \in 1 .. n + 1 : i < j => r[j].kind # "state"
    <2> SUFFICES ASSUME NEW j \in 1 .. n + 1, i < j PROVE r[j].kind # "state"
      OBVIOUS
    <2>1. i \in 1 .. n /\ Final(q[i])
      BY <1>1, <1>4
    <2>2. CASE j = n + 1
      BY <2>2, <1>1, <1>3
    <2>3. CASE j \in 1 .. n
      BY <2>1, <2>3, <1>1 DEF Endings
    <2> QED
      BY <2>2, <2>3, <1>2
  <1>5. ASSUME NEW i \in 1 .. n + 1, r[i].kind = "start"
        PROVE  at = "playing" /\ r[i].table = Table(l)
    <2>1. CASE i = n + 1
      BY <2>1, <1>1, <1>5
    <2>2. CASE i \in 1 .. n
      BY <2>2, <1>1, <1>5 DEF Endings, Final
    <2> QED
      BY <2>1, <2>2, <1>2
  <1> QED
    BY <1>1, <1>2, <1>4, <1>5 DEF Endings, r

\* What each client has after a broadcast.
LEMMA Sends ==
  ASSUME NEW queues \in [Client -> Seq(Message)], NEW msgs \in Seq(Message)
  PROVE  /\ SendDown(queues, msgs) \in [Client -> Seq(Message)]
         /\ \A c \in Client : SendDown(queues, msgs)[c] =
              IF client[c].at \in {"lobby", "playing"} THEN queues[c] \o msgs ELSE queues[c]
  BY DEF SendDown, Linked
-----------------------------------------------------------------------------
(* What the host does in the lobby.                                         *)

\* What a client holds, field by field.
LEMMA GuestFields ==
  ASSUME NEW g \in Guest
  PROVE  /\ g.at \in {"away", "lobby", "playing", "menu"} /\ g.fit \in BOOLEAN
         /\ g.mirror \in Place \cup {NoLobby} /\ g.seat \in Slot \cup {Watching}
         /\ g.table \in SUBSET Id /\ g.links \in Link /\ g.expects \in SUBSET Id
  BY DEF Guest

\* The initial state.
LEMMA InitIInv == LobbyInit => LobbyIInv
  <1> SUFFICES ASSUME LobbyInit PROVE LobbyIInv
    OBVIOUS
  <1> DEFINE first == [s \in Slot |-> IF s = 0 THEN Human(Host) ELSE Vacant("open")]
  <1>1. PICK mode \in Mode : lobby = [slots |-> first, watchers |-> <<>>, mode |-> mode]
    BY DEF LobbyInit
  <1>2. /\ host = [at |-> "lobby", links |-> "none", expects |-> {}]
        /\ ports = {} /\ edits = 0 /\ asks = 0
        /\ up \in [Client -> Seq(Event)] /\ down \in [Client -> Seq(Message)]
        /\ \A c \in Client : up[c] = <<>> /\ down[c] = <<>>
        /\ knocks \in [Id -> Seq(Id)] /\ \A c \in Client : knocks[c] = <<>>
    BY EmptySeq DEF LobbyInit, Id
  <1>3. /\ client \in [Client -> Guest]
        /\ \A c \in Client : client[c].at = "away" /\ client[c].links = "none" /\ client[c].mirror = NoLobby
    <2> DEFINE g == [at |-> "away", fit |-> TRUE, mirror |-> NoLobby, seat |-> 0,
                     table |-> {}, links |-> "none", expects |-> {}]
    <2>1. 0 \in Slot
      BY Numbers, LobbyAssumption, FS_CardinalityType, FS_EmptySet
    <2>2. g \in Guest
      BY <2>1 DEF Guest, Link
    <2>3. client = [c \in Client |-> g]
      BY DEF LobbyInit
    <2>4. g.at = "away" /\ g.links = "none" /\ g.mirror = NoLobby
      OBVIOUS
    <2> HIDE DEF g
    <2> QED
      BY <2>2, <2>3, <2>4
  <1>4. first \in [Slot -> Occupant] /\ 0 \in Slot /\ \A s \in Slot : first[s].kind = "human" <=> s = 0
    <2>1. 0 \in Slot
      BY LobbyAssumption, FS_CardinalityType, FS_EmptySet
    <2>2. Human(Host) \in Occupant /\ Vacant("open") \in Occupant
      BY DEF Occupant, Id
    <2> QED
      BY <2>1, <2>2 DEF Human, Vacant
  <1>5. first[0] = Human(Host)
    BY <1>4
  <1> HIDE DEF first
  <1>6. lobby \in Place /\ lobby.slots = first /\ lobby.watchers = <<>>
    BY <1>1, <1>4, EmptySeq DEF Place
  <1>7. Range(lobby.watchers) = {} /\ IsInjective(lobby.watchers)
    BY <1>6, EmptySeq DEF Range, IsInjective
  <1>8. \A p \in Id : p \in Seated(lobby) <=> p = Host
    <2>1. \A p \in Id, s \in Slot : first[s] = Human(p) <=> s = 0 /\ p = Host
      BY <1>4, <1>5 DEF Human
    <2> QED
      BY <2>1, <1>4, <1>6, SeatedIs
  <1>9. Host \in Placed(lobby) /\ \A c \in Client : c \notin Placed(lobby)
    BY <1>7, <1>8, Numbers DEF Placed, Id
  <1>10. LobbyTypeOK
    BY <1>2, <1>3, <1>6 DEF LobbyTypeOK, Link
  <1>11. OnePlace
    <2>1. \A s, t \in Slot : first[s].kind = "human" /\ first[s] = first[t] => s = t
      BY <1>4
    <2> QED
      BY <2>1, <1>6, <1>7 DEF OnePlace
  <1>12. Upward /\ Whereabouts
    BY <1>2, <1>3, <1>9 DEF Upward, Whereabouts
  <1>13. Streams /\ Playing /\ MeshForms
    BY <1>3, <1>9 DEF Streams, Playing, MeshForms
  <1>14. Dialed
    BY <1>2, <1>3 DEF Dialed, IsInjective, Range
  <1> QED
    BY <1>10, <1>11, <1>12, <1>13, <1>14 DEF LobbyIInv

\* While the host is in the lobby nobody plays and nobody has dialed anyone.
LEMMA Quiet ==
  ASSUME LobbyTypeOK, Whereabouts, Dialed, host.at = "lobby"
  PROVE  /\ \A c \in Client : client[c].at # "playing" /\ client[c].links = "none"
         /\ \A c \in Client : Range(knocks[c]) = {} /\ knocks[c] = <<>>
  <1>1. \A c \in Client : client[c].at # "playing" /\ client[c].links = "none"
    BY DEF Whereabouts
  <1>2. \A p \in Id : ~InGame(p)
    BY <1>1 DEF InGame, Id
  <1>3. ASSUME NEW c \in Client PROVE Range(knocks[c]) = {} /\ knocks[c] = <<>>
    <2>1. knocks[c] \in Seq(Id)
      BY DEF LobbyTypeOK, Id
    <2>2. Range(knocks[c]) \subseteq Id
      BY <2>1, ElementOfSeq DEF Range
    <2>3. Range(knocks[c]) = {}
      BY <2>2, <1>2 DEF Dialed
    <2> DEFINE s == knocks[c]
    <2>4. s \in Seq(Id) /\ DOMAIN s = {}
      BY <2>1, <2>3 DEF Range
    <2> HIDE DEF s
    <2>5. s = <<>>
      <3> SUFFICES ASSUME s # <<>> PROVE FALSE
        OBVIOUS
      <3>1. Len(s) \in Nat \ {0} /\ DOMAIN s = 1 .. Len(s)
        BY <2>4, Rest
      <3> QED
        BY <3>1, <2>4
    <2> QED
      BY <2>3, <2>5 DEF s
  <1> QED
    BY <1>1, <1>3

\* What then still holds of the game to come.
LEMMA StillQuiet ==
  ASSUME LobbyTypeOK, Whereabouts, Dialed, host.at = "lobby",
         host'.at = "lobby", knocks' = knocks, Whereabouts'
  PROVE  Playing' /\ Dialed' /\ MeshForms'
  <1>1. \A c \in Client : client'[c].at # "playing" /\ client'[c].links = "none"
    BY DEF Whereabouts
  <1>2. \A c \in Client : Range(knocks'[c]) = {} /\ IsInjective(knocks'[c])
    BY Quiet DEF Dialed
  <1>3. Playing'
    BY <1>1 DEF Playing
  <1>4. Dialed'
    BY <1>1, <1>2 DEF Dialed
  <1>5. MeshForms'
    BY <1>1 DEF MeshForms
  <1> QED
    BY <1>3, <1>4, <1>5

\* What the host sends of an event keeps each stream in order.
LEMMA Told ==
  ASSUME NEW q \in Seq(Message), NEW e \in Event, NEW mirror, NEW u, NEW c,
         lobby \in Place, Moved(lobby, e) \in Place,
         Latest(q, lobby, mirror), Endings(q, lobby, "lobby"),
         Asked(c, q, u, mirror) \/ Joins(e) \/ (Refused(e) /\ e.from = c)
  PROVE  LET r == q \o (Refusal(e) \o News(e))
             l == Moved(lobby, e) IN
         Latest(r, l, mirror) /\ Endings(r, l, "lobby") /\ Asked(c, r, u, mirror)
  <1> DEFINE l == Moved(lobby, e)
             a == [kind |-> "rejected", peer |-> e.from]
             b == StateMsg(l)
             r == q \o (Refusal(e) \o News(e))
  <1>1. /\ a \in Message /\ a.kind = "rejected" /\ a.peer = e.from
        /\ b \in Message /\ b.kind = "state" /\ b.lobby = l
    BY DEF Message, Event, StateMsg
  <1>2. ~Final(a) /\ ~Final(b)
    BY <1>1 DEF Final
  <1>3. /\ Refusal(e) = IF Refused(e) THEN <<a>> ELSE <<>>
        /\ News(e) = IF Joins(e) \/ l # lobby THEN <<b>> ELSE <<>>
    BY DEF Refusal, News
  <1>4. ~(Joins(e) /\ Refused(e))
    BY DEF Joins, Refused
  <1> HIDE DEF a, b, l
  <1>5. Append(q, a) \in Seq(Message)
    BY <1>1, More
  <1>6. \A s \in Seq(Message) : Endings(s, lobby, "lobby") =>
            Endings(Append(s, a), lobby, "lobby") /\ Endings(Append(s, b), l, "lobby")
    BY <1>1, <1>2, EndingsMore
  <1>7. \A s \in Seq(Message) : Latest(Append(s, b), l, mirror) /\ Asked(c, Append(s, b), u, mirror)
    BY <1>1, LatestState, AskedMore
  <1>8. Latest(Append(q, a), lobby, mirror)
    BY <1>1, LatestOther
  <1>9. (Asked(c, q, u, mirror) \/ e.from = c) => Asked(c, Append(q, a), u, mirror)
    BY <1>1, AskedMore
  <1>10. CASE Refused(e) /\ l # lobby
    <2>1. r = Append(Append(q, a), b)
      BY <1>10, <1>1, <1>3, Strung
    <2> HIDE DEF r
    <2> QED
      BY <2>1, <1>5, <1>6, <1>7 DEF r, l
  <1>11. CASE Refused(e) /\ l = lobby
    <2>1. r = Append(q, a)
      BY <1>11, <1>1, <1>3, <1>4, Strung
    <2> HIDE DEF r
    <2> QED
      BY <2>1, <1>4, <1>11, <1>6, <1>8, <1>9 DEF r, l
  <1>12. CASE ~Refused(e) /\ (Joins(e) \/ l # lobby)
    <2>1. r = Append(q, b)
      BY <1>12, <1>1, <1>3, Strung
    <2> HIDE DEF r
    <2> QED
      BY <2>1, <1>6, <1>7 DEF r, l
  <1>13. CASE ~Refused(e) /\ ~Joins(e) /\ l = lobby
    <2>1. r = q
      BY <1>13, <1>1, <1>3, Strung
    <2> HIDE DEF r
    <2> QED
      BY <2>1, <1>13 DEF r, l
  <1> QED
    BY <1>10, <1>11, <1>12, <1>13

\* The host polls an event.
LEMMA HostPollInv ==
  ASSUME LobbyIInv, NEW c \in Client, HostPoll(c)
  PROVE  LobbyIInv'
  <1> DEFINE e == Head(up[c])
             msgs == Refusal(e) \o News(e)
             n == Len(up[c])
             out == Refused(e) \/ e.kind = "lost"
  <1> USE DEF LobbyIInv
  <1>1. /\ up[c] \in Seq(Event) /\ up[c] # <<>> /\ lobby \in Place /\ OneEach(lobby)
        /\ down \in [Client -> Seq(Message)] /\ c \in Id
    BY OnePlaceIs DEF LobbyTypeOK, HostPoll, Takes, Id
  <1>2. /\ n \in Nat \ {0} /\ DOMAIN up[c] = 1 .. n /\ DOMAIN Tail(up[c]) = 1 .. n - 1
        /\ Len(Tail(up[c])) = n - 1 /\ Tail(up[c]) \in Seq(Event)
        /\ \A i \in 1 .. n - 1 : Tail(up[c])[i] = up[c][i + 1]
        /\ e = up[c][1] /\ e \in Event
    BY <1>1, Rest
  <1>3. /\ e.from = c /\ (e.kind = "connected" => c \notin Placed(lobby))
        /\ (e.kind = "lost" => client[c].at = "menu") /\ (Refused(e) => ~client[c].fit)
    BY <1>2 DEF Upward
  <1>4. /\ host.at = "lobby" /\ lobby' = Moved(lobby, e) /\ down' = SendDown(down, msgs)
        /\ up' = [up EXCEPT ![c] = Tail(@)] /\ UNCHANGED <<host, client, knocks, edits, asks>>
        /\ ports' = IF Joins(e) THEN ports \cup {c}
                    ELSE IF Refused(e) \/ e.kind = "lost" THEN ports \ {c} ELSE ports
    BY DEF HostPoll, Takes
  <1> HIDE DEF e, n
  <1>5. About(lobby, c, lobby') /\ (out => c \notin Placed(lobby'))
    <2>1. \A v : v = Moved(lobby, e) => About(lobby, e.from, v) /\ (out => e.from \notin Placed(v))
      BY <1>1, <1>2, <1>3, MovedKeeps
    <2> QED
      BY <2>1, <1>3, <1>4
  <1>6. /\ lobby' \in Place /\ OneEach(lobby)' /\ lobby'.mode = lobby.mode
        /\ \A q \in Id \ {c} : q \in Placed(lobby') <=> q \in Placed(lobby)
    BY <1>5 DEF About, OneEach, Seated, SlotsOf
  <1>7. OnePlace'
    BY <1>6 DEF OnePlace, OneEach
  <1>8. /\ up' \in [Client -> Seq(Event)] /\ up'[c] = Tail(up[c])
        /\ \A d \in Client \ {c} : up'[d] = up[d]
    BY <1>2, <1>4 DEF LobbyTypeOK
  <1>9. msgs \in Seq(Message)
    <2>1. \A p \in Client : [kind |-> "rejected", peer |-> p] \in Message
      BY DEF Message
    <2>2. Refusal(e) \in Seq(Message)
      BY <2>1, <1>3 DEF Refusal
    <2>3. StateMsg(lobby') \in Message
      BY <1>6 DEF Message, StateMsg
    <2>4. News(e) \in Seq(Message)
      BY <2>3, <1>4 DEF News
    <2> QED
      BY <2>2, <2>4, ConcatProperties
  <1>10. /\ down' \in [Client -> Seq(Message)]
         /\ \A d \in Client : down'[d] = IF client[d].at \in {"lobby", "playing"} THEN down[d] \o msgs ELSE down[d]
    <2> HIDE DEF msgs
    <2> QED
      BY <1>1, <1>4, <1>9, Sends
  <1>11. LobbyTypeOK'
    BY <1>4, <1>6, <1>8, <1>10 DEF LobbyTypeOK
  <1>12. Upward'
    <2> SUFFICES ASSUME NEW d \in Client, NEW i \in DOMAIN up'[d]
                 PROVE  /\ up'[d][i].from = d
                        /\ up'[d][i].kind = "connected" => i = 1 /\ d \notin Placed(lobby')
                        /\ up'[d][i].kind = "lost" => client'[d].at = "menu"
                        /\ Refused(up'[d][i]) => ~client'[d].fit
      BY DEF Upward, Refused, Placed, Seated, SlotsOf
    <2>1. CASE d = c
      <3>1. i \in 1 .. n - 1 /\ up'[c][i] = up[c][i + 1] /\ i + 1 \in DOMAIN up[c] /\ i + 1 # 1
        BY <2>1, <1>2, <1>8
      <3> QED
        BY <2>1, <3>1, <1>4 DEF Upward
    <2>2. CASE d # c
      <3>1. up'[d] = up[d] /\ (d \in Placed(lobby') <=> d \in Placed(lobby))
        BY <2>2, <1>6, <1>8 DEF Id
      <3> QED
        BY <3>1, <1>4 DEF Upward
    <2> QED
      BY <2>1, <2>2
  <1>13. Whereabouts'
    <2>1. Host \in Placed(lobby')
      BY <1>6, Numbers DEF Whereabouts, Id
    <2>2. client[c].at # "away"
      BY <1>1 DEF Whereabouts
    <2>3. ASSUME NEW d \in Client, client[d].at = "away"
          PROVE  up'[d] = <<>> /\ down'[d] = <<>> /\ d \notin Placed(lobby') /\ client[d].mirror = NoLobby
      BY <2>2, <2>3, <1>6, <1>8, <1>10 DEF Whereabouts, Id
    <2>4. ASSUME NEW d \in Client, client[d].at = "menu"
          PROVE  IF up'[d] = <<>> THEN d \notin Placed(lobby') ELSE up'[d][Len(up'[d])].kind = "lost"
      <3>1. CASE d # c
        BY <3>1, <2>4, <1>4, <1>6, <1>8 DEF Whereabouts, Id
      <3>2. CASE d = c
        <4>1. up[c][n].kind = "lost"
          BY <3>2, <2>4, <1>1, <1>4 DEF Whereabouts, n
        <4>2. CASE n = 1
          BY <4>1, <4>2, <3>2, <1>2, <1>5, <1>8, EmptySeq
        <4>3. CASE n # 1
          <5>1. n - 1 \in 1 .. n - 1 /\ n - 1 + 1 = n
            BY <4>3, <1>2
          <5>2. up'[c][n - 1] = up[c][n] /\ Len(up'[c]) = n - 1
            BY <5>1, <1>2, <1>8
          <5>3. up'[c] # <<>>
            BY <5>1, <5>2, EmptySeq
          <5> QED
            BY <5>2, <5>3, <4>1, <3>2
        <4> QED
          BY <4>2, <4>3
      <3> QED
        BY <3>1, <3>2
    <2> QED
      BY <2>1, <2>3, <2>4, <1>4 DEF Whereabouts, Placed, Seated, SlotsOf
  <1>14. Streams'
    <2> SUFFICES ASSUME NEW d \in Client, client[d].at = "lobby"
                 PROVE  /\ Latest(down'[d], lobby', client[d].mirror)
                        /\ Endings(down'[d], lobby', "lobby")
                        /\ Asked(d, down'[d], up'[d], client[d].mirror)
      BY <1>4 DEF Streams, Latest, Endings, Asked, Table, Placed, Seated, SlotsOf
    <2>1. down'[d] = down[d] \o msgs /\ down[d] \in Seq(Message)
      BY <1>1, <1>10
    <2>2. /\ Latest(down[d], lobby, client[d].mirror) /\ Endings(down[d], lobby, "lobby")
          /\ Asked(d, down[d], up[d], client[d].mirror)
      BY <1>4 DEF Streams
    <2>3. Asked(d, down[d], up'[d], client[d].mirror) \/ Joins(e) \/ (Refused(e) /\ e.from = d)
      <3>1. CASE d # c
        BY <3>1, <2>2, <1>8
      <3>2. CASE d = c
        <4> SUFFICES ASSUME ~Joins(e), ~Refused(e), \E i \in DOMAIN up[c] : up[c][i].kind = "join"
                     PROVE  \E i \in DOMAIN up'[c] : up'[c][i].kind = "join"
          BY <3>2, <2>2, <1>3 DEF Asked
        <4>1. PICK i \in 1 .. n : up[c][i].kind = "join"
          BY <1>2
        <4>2. e.kind # "join"
          BY <1>2 DEF Joins, Refused, Event
        <4>3. i - 1 \in 1 .. n - 1 /\ i - 1 + 1 = i
          BY <4>1, <4>2, <1>2
        <4>4. up'[c][i - 1].kind = "join"
          BY <4>1, <4>3, <1>2, <1>8
        <4> QED
          BY <4>3, <4>4, <1>2, <1>8
      <3> QED
        BY <3>1, <3>2
    <2>4. \A r : r = down[d] \o msgs =>
             /\ Latest(r, lobby', client[d].mirror)
             /\ Endings(r, lobby', "lobby") /\ Asked(d, r, up'[d], client[d].mirror)
      <3>1. PICK q : q = down[d]
        OBVIOUS
      <3>2. PICK u : u = up'[d]
        OBVIOUS
      <3>3. PICK mirror : mirror = client[d].mirror
        OBVIOUS
      <3>4. /\ q \in Seq(Message) /\ e \in Event /\ lobby \in Place /\ Moved(lobby, e) \in Place
            /\ Latest(q, lobby, mirror) /\ Endings(q, lobby, "lobby")
            /\ Asked(d, q, u, mirror) \/ Joins(e) \/ (Refused(e) /\ e.from = d)
        BY <3>1, <3>2, <3>3, <1>1, <1>2, <1>4, <1>6, <2>1, <2>2, <2>3
      <3> HIDE DEF msgs
      <3>5. LET r == q \o (Refusal(e) \o News(e)) IN
            /\ Latest(r, Moved(lobby, e), mirror)
            /\ Endings(r, Moved(lobby, e), "lobby") /\ Asked(d, r, u, mirror)
        BY <3>4, Told
      <3> QED
        BY <3>1, <3>2, <3>3, <3>5, <1>4 DEF msgs
    <2> QED
      BY <2>1, <2>4
  <1>15. Playing' /\ Dialed' /\ MeshForms'
    BY <1>4, <1>13, StillQuiet
  <1> QED
    BY <1>7, <1>11, <1>12, <1>13, <1>14, <1>15

\* A change the host makes of the places, that takes nobody's away.
LEMMA EditInv ==
  ASSUME LobbyIInv, NEW l \in Place, OneEach(l), l.mode = lobby.mode, Host \in Placed(l),
         \A c \in Client : c \in Placed(l) <=> c \in Placed(lobby),
         Edit(l)
  PROVE  LobbyIInv'
  <1> DEFINE b == StateMsg(l)
  <1> USE DEF LobbyIInv
  <1>1. /\ host.at = "lobby" /\ lobby' = l /\ down' = SendDown(down, <<b>>)
        /\ edits' = edits + 1 /\ UNCHANGED <<ports, host, up, client, knocks, asks>>
    BY DEF Edit
  <1>2. b \in Message /\ b.kind = "state" /\ b.lobby = l /\ ~Final(b)
    BY DEF Message, StateMsg, Final
  <1> HIDE DEF b
  <1>3. <<b>> \in Seq(Message)
    BY <1>2
  <1>4. /\ down \in [Client -> Seq(Message)] /\ down' \in [Client -> Seq(Message)]
        /\ \A d \in Client : down'[d] = IF client[d].at \in {"lobby", "playing"} THEN down[d] \o <<b>> ELSE down[d]
    <2>1. down \in [Client -> Seq(Message)]
      BY DEF LobbyTypeOK
    <2> DEFINE msgs == <<b>>
    <2>2. msgs \in Seq(Message) /\ down' = SendDown(down, msgs)
      BY <1>1, <1>3
    <2> HIDE DEF msgs
    <2>3. /\ down' \in [Client -> Seq(Message)]
          /\ \A d \in Client : down'[d] = IF client[d].at \in {"lobby", "playing"} THEN down[d] \o msgs ELSE down[d]
      BY <2>1, <2>2, Sends
    <2> QED
      BY <2>1, <2>3 DEF msgs
  <1>5. \A d \in Client : down'[d] = IF client[d].at \in {"lobby", "playing"} THEN Append(down[d], b) ELSE down[d]
    BY <1>2, <1>4, Strung
  <1>6. LobbyTypeOK' /\ OnePlace'
    <2>1. LobbyTypeOK'
      <3>1. lobby' = l /\ edits' = edits + 1 /\ UNCHANGED <<ports, host, up, client, knocks, asks>>
        BY <1>1
      <3>2. down' \in [Client -> Seq(Message)]
        BY <1>4
      <3> QED
        BY <3>1, <3>2 DEF LobbyTypeOK
    <2>2. OnePlace'
      <3>1. Seated(lobby)' = Seated(l)
        BY <1>1 DEF Seated, SlotsOf
      <3> QED
        BY <1>1, <3>1 DEF OnePlace, OneEach
    <2> QED
      BY <2>1, <2>2
  <1>7. Placed(lobby)' = Placed(l)
    BY <1>1 DEF Placed, Seated, SlotsOf
  <1>8. Upward'
    BY <1>1, <1>7 DEF Upward, Refused
  <1>9. Whereabouts'
    BY <1>1, <1>5, <1>7 DEF Whereabouts
  <1>10. Streams'
    <2> SUFFICES ASSUME NEW d \in Client, client[d].at = "lobby"
                 PROVE  /\ Latest(down'[d], l, client[d].mirror)
                        /\ Endings(down'[d], l, "lobby")
                        /\ Asked(d, down'[d], up[d], client[d].mirror)
      BY <1>1 DEF Streams, Latest, Endings, Asked, Table, Placed, Seated, SlotsOf
    <2>1. down'[d] = Append(down[d], b) /\ down[d] \in Seq(Message) /\ Endings(down[d], lobby, "lobby")
      BY <1>1, <1>4, <1>5 DEF Streams
    <2>2. Latest(Append(down[d], b), b.lobby, client[d].mirror)
      BY <1>2, <2>1, LatestState
    <2>3. Endings(Append(down[d], b), l, "lobby")
      BY <1>2, <2>1, EndingsMore
    <2>4. Asked(d, Append(down[d], b), up[d], client[d].mirror)
      BY <1>2, <2>1, AskedMore
    <2> QED
      BY <2>1, <2>2, <2>3, <2>4, <1>2
  <1>11. Playing' /\ Dialed' /\ MeshForms'
    BY <1>1, <1>9, StillQuiet
  <1> QED
    BY <1>6, <1>8, <1>9, <1>10, <1>11

\* The host's menu keeps the invariant.
LEMMA HostEditsInv ==
  ASSUME LobbyIInv, HostMoves \/ \E s \in Slot : CycleKind(s)
  PROVE  LobbyIInv'
  <1>1. lobby \in Place /\ OneEach(lobby) /\ Host \in Placed(lobby) /\ Host \in Id
    BY OnePlaceIs DEF LobbyIInv, LobbyTypeOK, Whereabouts, Id
  <1>2. CASE HostMoves
    <2> DEFINE l == IF Host \in Range(lobby.watchers) THEN SeatWatcher(lobby, Host)
                                                      ELSE AdmitWatcher(lobby, Host)
    <2>1. Edit(l)
      BY <1>2 DEF HostMoves
    <2>2. About(lobby, Host, l) /\ Host \in Placed(l)
      BY <1>1, AdmitKeeps, SeatWatcherKeeps
    <2> HIDE DEF l
    <2>3. \A c \in Client : c \in Placed(l) <=> c \in Placed(lobby)
      BY <2>2, Numbers DEF About, Id
    <2> QED
      BY <2>1, <2>2, <2>3, EditInv DEF About
  <1>3. ASSUME NEW s \in Slot, CycleKind(s) PROVE LobbyIInv'
    <2> DEFINE l == [lobby EXCEPT !.slots[s] = Vacant(NextKind[lobby.slots[s].kind])]
    <2>1. Edit(l)
      BY <1>3 DEF CycleKind
    <2>2. l \in Place /\ OneEach(l) /\ l.mode = lobby.mode /\ Placed(l) = Placed(lobby)
      BY <1>1, <1>3, CycleKeeps DEF CycleKind
    <2> HIDE DEF l
    <2> QED
      BY <1>1, <2>1, <2>2, EditInv
  <1> QED
    BY <1>2, <1>3
-----------------------------------------------------------------------------
(* What a client does in the lobby.                                         *)

\* An event more from a client.
LEMMA UpMore ==
  ASSUME LobbyIInv, NEW c \in Client, NEW e \in Event, e.from = c, e.kind \in {"lost", "play", "observe"},
         client[c].at = "lobby", lobby' = lobby,
         up' = [up EXCEPT ![c] = Append(@, e)],
         \A d \in Client : client'[d].fit = client[d].fit,
         \A d \in Client \ {c} : client'[d].at = client[d].at,
         e.kind = "lost" => client'[c].at = "menu"
  PROVE  /\ up' \in [Client -> Seq(Event)] /\ Upward'
         /\ \A d \in Client \ {c} : up'[d] = up[d]
         /\ up'[c] # <<>> /\ up'[c][Len(up'[c])] = e
         /\ \A i \in DOMAIN up[c] : i \in DOMAIN up'[c] /\ up'[c][i] = up[c][i]
  <1> DEFINE r == Append(up[c], e)
             n == Len(up[c])
  <1>1. up \in [Client -> Seq(Event)] /\ up[c] \in Seq(Event)
    BY DEF LobbyIInv, LobbyTypeOK
  <1>2. /\ r \in Seq(Event) /\ n \in Nat /\ DOMAIN up[c] = 1 .. n /\ DOMAIN r = 1 .. n + 1 /\ Len(r) = n + 1
        /\ \A i \in 1 .. n : r[i] = up[c][i]
        /\ r[n + 1] = e
    BY <1>1, More
  <1> HIDE DEF r, n
  <1>3. up' \in [Client -> Seq(Event)] /\ up'[c] = r /\ \A d \in Client \ {c} : up'[d] = up[d]
    BY <1>1, <1>2 DEF r
  <1>4. \A i \in 1 .. n : i \in 1 .. n + 1
    BY <1>2
  <1>5. r # <<>>
    BY <1>2, EmptySeq
  <1>6. Upward'
    <2> SUFFICES ASSUME NEW d \in Client, NEW i \in DOMAIN up'[d]
                 PROVE  /\ up'[d][i].from = d
                        /\ up'[d][i].kind = "connected" => i = 1 /\ d \notin Placed(lobby)
                        /\ up'[d][i].kind = "lost" => client'[d].at = "menu"
                        /\ Refused(up'[d][i]) => ~client[d].fit
      BY DEF Upward, Refused, Placed, Seated, SlotsOf
    <2>1. CASE d = c /\ i = n + 1
      BY <2>1, <1>2, <1>3 DEF Refused
    <2>2. CASE d = c /\ i # n + 1
      <3>1. i \in 1 .. n /\ up'[d][i] = up[c][i]
        BY <2>2, <1>2, <1>3
      <3>2. up[c][i].kind # "lost"
        BY <3>1, <1>2 DEF LobbyIInv, Upward
      <3> QED
        BY <2>2, <3>1, <3>2, <1>2 DEF LobbyIInv, Upward
    <2>3. CASE d # c
      BY <2>3, <1>3 DEF LobbyIInv, Upward
    <2> QED
      BY <2>1, <2>2, <2>3
  <1> QED
    BY <1>2, <1>3, <1>4, <1>5, <1>6

\* A client dials.
LEMMA DialInv ==
  ASSUME LobbyIInv, NEW c \in Client, NEW fit \in BOOLEAN, Dial(c, fit)
  PROVE  LobbyIInv'
  <1> USE DEF LobbyIInv
  <1> DEFINE a == [kind |-> "connected", from |-> c]
             b == [kind |-> "join", from |-> c, fit |-> fit]
             u == <<a, b>>
             g == [client[c] EXCEPT !.at = "lobby", !.fit = fit]
  <1>1. /\ host.at = "lobby" /\ client[c].at = "away" /\ up' = [up EXCEPT ![c] = u]
        /\ UNCHANGED <<lobby, ports, host, down, knocks, edits, asks>>
        /\ client' = [client EXCEPT ![c].at = "lobby", ![c].fit = fit]
    BY DEF Dial
  <1>2. up[c] = <<>> /\ down[c] = <<>> /\ c \notin Placed(lobby) /\ client[c].mirror = NoLobby
    BY <1>1 DEF Whereabouts
  <1>3. a \in Event /\ b \in Event
    BY DEF Event
  <1>4. u \in Seq(Event) /\ Len(u) = 2 /\ u[1] = a /\ u[2] = b /\ DOMAIN u = 1 .. 2 /\ u # <<>>
    BY <1>3
  <1>5. /\ a.from = c /\ a.kind = "connected" /\ ~Refused(a)
        /\ b.from = c /\ b.kind = "join" /\ (Refused(b) => ~fit)
    BY DEF Refused
  <1>6. client \in [Client -> Guest] /\ up \in [Client -> Seq(Event)] /\ client[c] \in Guest
    BY DEF LobbyTypeOK
  <1>7. g \in Guest /\ g.at = "lobby" /\ g.fit = fit /\ g.mirror = client[c].mirror /\ g.links = client[c].links
    BY <1>6 DEF Guest
  <1>8. client' = [client EXCEPT ![c] = g]
    BY <1>1, <1>6
  <1> HIDE DEF a, b, u, g
  <1>9. /\ client' \in [Client -> Guest] /\ client'[c] = g /\ \A d \in Client \ {c} : client'[d] = client[d]
        /\ up' \in [Client -> Seq(Event)] /\ up'[c] = u /\ \A d \in Client \ {c} : up'[d] = up[d]
    BY <1>1, <1>4, <1>6, <1>7, <1>8
  <1>10. LobbyTypeOK' /\ OnePlace'
    BY <1>1, <1>9 DEF LobbyTypeOK, OnePlace, Seated, SlotsOf
  <1>11. Placed(lobby)' = Placed(lobby)
    BY <1>1 DEF Placed, Seated, SlotsOf
  <1>12. Upward'
    <2> SUFFICES ASSUME NEW d \in Client, NEW i \in DOMAIN up'[d]
                 PROVE  /\ up'[d][i].from = d
                        /\ up'[d][i].kind = "connected" => i = 1 /\ d \notin Placed(lobby)
                        /\ up'[d][i].kind = "lost" => client'[d].at = "menu"
                        /\ Refused(up'[d][i]) => ~client'[d].fit
      BY <1>11 DEF Upward, Refused
    <2>1. CASE d # c
      BY <2>1, <1>9 DEF Upward
    <2>2. CASE d = c /\ i = 1
      BY <2>2, <1>2, <1>4, <1>5, <1>9
    <2>3. CASE d = c /\ i = 2
      BY <2>3, <1>4, <1>5, <1>7, <1>9
    <2> QED
      BY <2>1, <2>2, <2>3, <1>4, <1>9
  <1>13. Whereabouts'
    <2>1. \A d \in Client : down'[d] = down[d]
      BY <1>1
    <2> QED
      BY <2>1, <1>1, <1>7, <1>9, <1>11 DEF Whereabouts
  <1>14. Streams'
    <2> SUFFICES ASSUME NEW d \in Client, client'[d].at = "lobby"
                 PROVE  /\ Latest(down'[d], lobby', client'[d].mirror)
                        /\ Endings(down'[d], lobby', host'.at)
                        /\ host'.at = "lobby" => Asked(d, down'[d], up'[d], client'[d].mirror)
      BY DEF Streams, Latest, Endings, Asked, Table, Placed, Seated, SlotsOf
    <2>1. CASE d # c
      BY <2>1, <1>1, <1>9 DEF Streams
    <2>2. CASE d = c
      <3>1. DOMAIN down[c] = {}
        BY <1>2
      <3>2. Latest(down[c], lobby, client'[c].mirror)
        BY <3>1, <1>2, <1>7, <1>9 DEF Latest
      <3>3. Endings(down[c], lobby, "lobby")
        BY <3>1 DEF Endings
      <3>4. Asked(c, down[c], up'[c], client'[c].mirror)
        BY <1>4, <1>5, <1>9 DEF Asked
      <3> QED
        BY <2>2, <3>2, <3>3, <3>4, <1>1
    <2> QED
      BY <2>1, <2>2
  <1>15. Playing' /\ Dialed' /\ MeshForms'
    BY <1>1, <1>13, StillQuiet
  <1> QED
    BY <1>10, <1>12, <1>13, <1>14, <1>15

\* A client asks for another place.
LEMMA AskInv ==
  ASSUME LobbyIInv, NEW c \in Client, Ask(c)
  PROVE  LobbyIInv'
  <1> USE DEF LobbyIInv
  <1> DEFINE e == [kind |-> IF client[c].seat = Watching THEN "play" ELSE "observe", from |-> c]
  <1>1. /\ host.at = "lobby" /\ client[c].at = "lobby" /\ up' = [up EXCEPT ![c] = Append(@, e)]
        /\ asks' = asks + 1 /\ UNCHANGED <<lobby, ports, host, down, client, knocks, edits>>
    BY DEF Ask, SendUp
  <1>2. e \in Event /\ e.from = c /\ e.kind \in {"play", "observe"}
    BY DEF Event
  <1> HIDE DEF e
  <1>3. /\ up' \in [Client -> Seq(Event)] /\ Upward'
        /\ \A d \in Client \ {c} : up'[d] = up[d]
        /\ up'[c] # <<>> /\ up'[c][Len(up'[c])] = e
        /\ \A i \in DOMAIN up[c] : i \in DOMAIN up'[c] /\ up'[c][i] = up[c][i]
    BY <1>1, <1>2, UpMore
  <1>4. LobbyTypeOK' /\ OnePlace'
    BY <1>1, <1>3 DEF LobbyTypeOK, OnePlace, Seated, SlotsOf
  <1>5. Whereabouts'
    BY <1>1, <1>3 DEF Whereabouts, Placed, Seated, SlotsOf
  <1>6. Streams'
    <2> SUFFICES ASSUME NEW d \in Client, client[d].at = "lobby"
                 PROVE  /\ Latest(down[d], lobby, client[d].mirror)
                        /\ Endings(down[d], lobby, "lobby")
                        /\ Asked(d, down[d], up'[d], client[d].mirror)
      BY <1>1 DEF Streams, Latest, Endings, Asked, Table, Placed, Seated, SlotsOf
    <2>1. Asked(d, down[d], up'[d], client[d].mirror)
      BY <1>1, <1>3 DEF Streams, Asked
    <2> QED
      BY <2>1, <1>1 DEF Streams
  <1>7. Playing' /\ Dialed' /\ MeshForms'
    BY <1>1, <1>5, StillQuiet
  <1> QED
    BY <1>3, <1>4, <1>5, <1>6, <1>7

\* A client that goes, whatever for.
LEMMA GoneInv ==
  ASSUME LobbyIInv, NEW c \in Client, client[c].at = "lobby",
         client' = [client EXCEPT ![c] = Gone(@)],
         up' = SendUp(c, "lost"), down' = [down EXCEPT ![c] = <<>>],
         UNCHANGED <<lobby, ports, host, knocks, edits, asks>>
  PROVE  LobbyIInv'
  <1> USE DEF LobbyIInv
  <1> DEFINE e == [kind |-> "lost", from |-> c]
             g == Gone(client[c])
  <1>1. e \in Event /\ e.from = c /\ e.kind = "lost"
    BY DEF Event
  <1>2. client \in [Client -> Guest] /\ client[c] \in Guest /\ client[c].links = "none"
    BY DEF LobbyTypeOK, Whereabouts
  <1>3. g \in Guest /\ g.at = "menu" /\ g.fit = client[c].fit /\ g.links = "none"
    BY <1>2 DEF Gone, Guest, Link
  <1>4. up' = IF host.at = "lobby" THEN [up EXCEPT ![c] = Append(@, e)] ELSE up
    BY DEF SendUp
  <1>5. client' = [client EXCEPT ![c] = g]
    OBVIOUS
  <1> HIDE DEF e, g
  <1>6. client' \in [Client -> Guest] /\ client'[c] = g /\ \A d \in Client \ {c} : client'[d] = client[d]
    BY <1>2, <1>3, <1>5
  <1>7. /\ down' \in [Client -> Seq(Message)] /\ down'[c] = <<>>
        /\ \A d \in Client \ {c} : down'[d] = down[d]
    BY DEF LobbyTypeOK
  <1>8. /\ up' \in [Client -> Seq(Event)] /\ Upward'
        /\ \A d \in Client \ {c} : up'[d] = up[d]
        /\ host.at = "lobby" => up'[c] # <<>> /\ up'[c][Len(up'[c])].kind = "lost"
    <2>1. /\ \A d \in Client : client'[d].fit = client[d].fit
          /\ \A d \in Client \ {c} : client'[d].at = client[d].at
          /\ client'[c].at = "menu"
      BY <1>3, <1>6
    <2>2. CASE host.at = "lobby"
      <3>1. up' = [up EXCEPT ![c] = Append(@, e)]
        BY <2>2, <1>4
      <3> QED
        BY <2>1, <3>1, <1>1, UpMore
    <2>3. CASE host.at # "lobby"
      <3>1. up' = up
        BY <2>3, <1>4
      <3>2. Upward'
        <4> SUFFICES ASSUME NEW d \in Client, NEW i \in DOMAIN up[d]
                     PROVE  /\ up[d][i].from = d
                            /\ up[d][i].kind = "connected" => i = 1 /\ d \notin Placed(lobby)
                            /\ up[d][i].kind = "lost" => client'[d].at = "menu"
                            /\ Refused(up[d][i]) => ~client'[d].fit
          BY <3>1 DEF Upward, Refused, Placed, Seated, SlotsOf
        <4> QED
          BY <2>1 DEF Upward
      <3> QED
        BY <2>3, <3>1, <3>2 DEF LobbyTypeOK
    <2> QED
      BY <2>2, <2>3
  <1>9. Placed(lobby)' = Placed(lobby)
    BY DEF Placed, Seated, SlotsOf
  <1>10. LobbyTypeOK'
    BY <1>6, <1>7, <1>8 DEF LobbyTypeOK
  <1>11. OnePlace'
    BY DEF OnePlace, Seated, SlotsOf
  <1>12. Whereabouts'
    <2> SUFFICES ASSUME NEW d \in Client
                 PROVE  /\ client'[d].at = "away" =>
                             up'[d] = <<>> /\ down'[d] = <<>> /\ d \notin Placed(lobby) /\ client'[d].mirror = NoLobby
                        /\ client'[d].at = "playing" => host.at = "playing"
                        /\ client'[d].at # "playing" => client'[d].links = "none"
                        /\ host.at = "lobby" /\ client'[d].at = "menu" =>
                             IF up'[d] = <<>> THEN d \notin Placed(lobby) ELSE up'[d][Len(up'[d])].kind = "lost"
      BY <1>9 DEF Whereabouts
    <2>1. CASE d = c
      BY <2>1, <1>3, <1>6, <1>8
    <2>2. CASE d # c
      <3>1. client'[d] = client[d] /\ down'[d] = down[d] /\ up'[d] = up[d]
        BY <2>2, <1>6, <1>7, <1>8
      <3> QED
        BY <3>1 DEF Whereabouts
    <2> QED
      BY <2>1, <2>2
  <1>13. Streams'
    <2> SUFFICES ASSUME NEW d \in Client, client'[d].at = "lobby"
                 PROVE  /\ Latest(down'[d], lobby', client'[d].mirror)
                        /\ Endings(down'[d], lobby', host'.at)
                        /\ host'.at = "lobby" => Asked(d, down'[d], up'[d], client'[d].mirror)
      BY DEF Streams, Latest, Endings, Asked, Table, Placed, Seated, SlotsOf
    <2>1. d # c
      BY <1>3, <1>6
    <2> QED
      BY <2>1, <1>6, <1>7, <1>8 DEF Streams
  <1>14. Playing'
    <2>1. Table(lobby)' = Table(lobby)
      BY <1>9 DEF Table
    <2> QED
      BY <2>1, <1>3, <1>6 DEF Playing
  <1>15. \A p \in Id : InGame(p)' <=> InGame(p)
    BY <1>3, <1>6 DEF InGame, Id
  <1>16. Dialed'
    <2>1. \A d \in Client : client'[d].links = client[d].links /\ (d # c => client'[d].expects = client[d].expects)
      BY <1>2, <1>3, <1>6
    <2>2. Placed(lobby) \subseteq Id /\ \A d \in Client : Range(knocks[d]) \subseteq Id
      BY Parts, ElementOfSeq DEF LobbyTypeOK, Range, Id
    <2> SUFFICES ASSUME NEW d \in Client
                 PROVE  /\ IsInjective(knocks[d])
                        /\ \A p \in Range(knocks[d]) : p < d /\ InGame(p)'
                        /\ client'[d].links = "linking" =>
                             /\ lobby.mode = "decentralized"
                             /\ client'[d].expects \subseteq Placed(lobby)
                             /\ \A p \in Placed(lobby) :
                                  p < d => p \in client'[d].expects \/ (InGame(p)' /\ p \notin Range(knocks[d]))
      BY <1>9 DEF Dialed
    <2>3. IsInjective(knocks[d]) /\ \A p \in Range(knocks[d]) : p < d /\ InGame(p)'
      BY <2>2, <1>15 DEF Dialed
    <2>4. CASE client'[d].links = "linking"
      <3>1. d # c /\ client[d].links = "linking" /\ client'[d].expects = client[d].expects
        BY <2>1, <2>4, <1>2
      <3> QED
        BY <3>1, <2>2, <2>3, <1>15 DEF Dialed
    <2> QED
      BY <2>3, <2>4
  <1>17. MeshForms'
    <2>1. \A d \in Client : client'[d].at = "playing" <=> client[d].at = "playing"
      BY <1>3, <1>6
    <2>2. \A d \in Client : client'[d].links = "failed" => client[d].links = "failed"
      BY <1>3, <1>6
    <2>3. \A d \in Client : client[d].at = "menu" => client'[d].at = "menu"
      BY <1>3, <1>6
    <2> QED
      BY <2>1, <2>2, <2>3, <1>9 DEF MeshForms
  <1> QED
    BY <1>8, <1>10, <1>11, <1>12, <1>13, <1>14, <1>16, <1>17

\* A client leaves the lobby.
LEMMA LeaveInv ==
  ASSUME LobbyIInv, NEW c \in Client, Leave(c)
  PROVE  LobbyIInv'
  BY GoneInv DEF Leave

\* An empty list is none the host could have.
LEMMA NoPlace == NoLobby \notin Place
  <1>1. DOMAIN NoLobby.slots = {}
    BY DEF NoLobby
  <1> QED
    BY <1>1, LobbyAssumption DEF Place

\* The first and the last element a test selects.
LEMMA Selected ==
  ASSUME NEW S, NEW q \in Seq(S), NEW T \in SUBSET (1 .. Len(q))
  PROVE  /\ T # {} => Min(T) \in T /\ \A i \in T : Min(T) <= i
         /\ T # {} => Max(T) \in T /\ \A i \in T : i <= Max(T)
  <1> SUFFICES ASSUME T # {}
               PROVE  Min(T) \in T /\ (\A i \in T : Min(T) <= i) /\ Max(T) \in T /\ (\A i \in T : i <= Max(T))
    OBVIOUS
  <1>1. Len(q) \in Nat /\ T \in SUBSET Nat /\ T \in SUBSET (0 .. Len(q))
    OBVIOUS
  <1>2. \E x \in T : \A y \in T : x <= y
    BY <1>1, LeastNatural
  <1>3. \E x \in T : \A y \in T : y <= x
    BY <1>1, GreatestBounded
  <1>4. Min(T) \in T /\ \A y \in T : Min(T) <= y
    BY <1>2 DEF Min
  <1>5. Max(T) \in T /\ \A y \in T : y <= Max(T)
    BY <1>3 DEF Max
  <1> QED
    BY <1>4, <1>5

\* What a poll that turns nobody away has read: the latest places, and whether
\* there was a start.
LEMMA ReadIs ==
  ASSUME NEW c \in Client, NEW q \in Seq(Message), NEW k \in 1 .. Len(q),
         ~Read(c, SubSeq(q, 1, k)).turned
  PROVE  LET r == Read(c, SubSeq(q, 1, k)) IN
         /\ \A i \in 1 .. k : q[i].kind # "closed" /\ ~(q[i].kind = "rejected" /\ q[i].peer = c)
         /\ r.started \in BOOLEAN
         /\ r.started => \E i \in 1 .. k : q[i].kind = "start" /\ r.table = q[i].table
         /\ ~r.started => r.table = {} /\ \A i \in 1 .. k : q[i].kind # "start"
         /\ \/ r.mirror = client[c].mirror /\ \A i \in 1 .. k : q[i].kind # "state"
            \/ \E i \in 1 .. k : /\ q[i].kind = "state" /\ r.mirror = q[i].lobby
                                 /\ \A j \in 1 .. k : i < j => q[j].kind # "state"
  <1> DEFINE s == SubSeq(q, 1, k)
             r == Read(c, s)
             Turns(m) == m.kind = "closed" \/ (m.kind = "rejected" /\ m.peer = c)
             T == {i \in 1 .. Len(s) : Turns(s[i])}
             TS == {i \in 1 .. Len(s) : s[i].kind = "state"}
             TG == {i \in 1 .. Len(s) : s[i].kind = "start"}
             turn == IF T # {} THEN Min(T) ELSE 0
             lastState == IF TS # {} THEN Max(TS) ELSE 0
             start == IF TG # {} THEN Max(TG) ELSE 0
  <1>1. /\ s \in Seq(Message) /\ Len(s) = k /\ k \in Nat \ {0}
        /\ \A i \in 1 .. k : s[i] = q[i]
    <2>1. 1 \in 1 .. Len(q) + 1 /\ k \in 1 - 1 .. Len(q) /\ Len(q) \in Nat /\ k - 1 + 1 = k
          /\ \A i \in 1 .. k : 1 + i - 1 = i
      OBVIOUS
    <2> QED
      BY <2>1, Stretch
  <1>2. turn = SelectInSeq(s, LAMBDA m : m.kind = "closed" \/ (m.kind = "rejected" /\ m.peer = c))
    BY DEF SelectInSeq
  <1>3. lastState = SelectLastInSeq(s, LAMBDA m : m.kind = "state")
    BY DEF SelectLastInSeq
  <1>4. start = SelectLastInSeq(s, LAMBDA m : m.kind = "start")
    BY DEF SelectLastInSeq
  <1>5. r.turned = (turn # 0)
    BY <1>2 DEF Read
  <1> HIDE DEF s
  <1>6. T = {}
    <2>1. turn = 0
      BY <1>5 DEF s
    <2>2. T \in SUBSET (1 .. Len(s))
      OBVIOUS
    <2> HIDE DEF T
    <2>3. T # {} => Min(T) \in T
      BY <1>1, <2>2, Selected
    <2> QED
      BY <2>1, <2>2, <2>3, <1>1
  <1>7. r = [mirror |-> IF lastState = 0 THEN client[c].mirror ELSE s[lastState].lobby,
             table |-> IF start = 0 THEN {} ELSE s[start].table,
             started |-> start # 0, turned |-> FALSE]
    <2> HIDE DEF T, TS, TG
    <2>1. turn = 0
      BY <1>6
    <2> HIDE DEF turn, lastState, start
    <2> QED
      BY <1>2, <1>3, <1>4, <2>1 DEF Read
  <1>8. \A i \in 1 .. k : ~Turns(q[i])
    BY <1>1, <1>6
  <1>9. IF TS = {} THEN lastState = 0 ELSE lastState \in TS /\ \A i \in TS : i <= lastState
    <2>1. TS \in SUBSET (1 .. Len(s))
      OBVIOUS
    <2> HIDE DEF TS
    <2> QED
      BY <1>1, <2>1, Selected
  <1>10. IF TG = {} THEN start = 0 ELSE start \in TG /\ \A i \in TG : i <= start
    <2>1. TG \in SUBSET (1 .. Len(s))
      OBVIOUS
    <2> HIDE DEF TG
    <2> QED
      BY <1>1, <2>1, Selected
  <1> HIDE DEF r, turn, lastState, start
  <1>11. IF lastState = 0 THEN \A i \in 1 .. k : q[i].kind # "state"
         ELSE /\ lastState \in 1 .. k /\ q[lastState].kind = "state"
              /\ \A j \in 1 .. k : lastState < j => q[j].kind # "state"
    BY <1>1, <1>9
  <1>12. IF start = 0 THEN \A i \in 1 .. k : q[i].kind # "start"
         ELSE start \in 1 .. k /\ q[start].kind = "start"
    BY <1>1, <1>10
  <1> HIDE DEF T, TS, TG
  <1>13. /\ r.mirror = IF lastState = 0 THEN client[c].mirror ELSE q[lastState].lobby
         /\ r.table = IF start = 0 THEN {} ELSE q[start].table
         /\ r.started = (start # 0)
    BY <1>1, <1>7, <1>11, <1>12
  <1> QED
    BY <1>8, <1>11, <1>12, <1>13 DEF r, s

\* A message holds what its kind says.
LEMMA MessageIs ==
  ASSUME NEW m \in Message
  PROVE  /\ m.kind = "state" => m.lobby \in Place
         /\ m.kind = "start" => m.table \in SUBSET Id
  BY DEF Message, Closed

\* What a client holds after a poll, and what is still on its way to it.
LEMMA Heard ==
  ASSUME LobbyIInv, NEW c \in Client, client[c].at = "lobby", NEW q, q = down[c], NEW k \in 1 .. Len(q),
         ~Read(c, SubSeq(q, 1, k)).turned
  PROVE  LET r == Read(c, SubSeq(q, 1, k))
             rest == SubSeq(q, k + 1, Len(q)) IN
         /\ rest \in Seq(Message) /\ r.started \in BOOLEAN
         /\ r.mirror \in Place \cup {NoLobby} /\ r.table \in SUBSET Id
         /\ Latest(rest, lobby, r.mirror)
         /\ ~r.started => /\ Endings(rest, lobby, host.at)
                          /\ host.at = "lobby" => Asked(c, rest, up[c], r.mirror)
         /\ r.started => host.at = "playing" /\ r.table = Table(lobby) /\ r.mirror \in {NoLobby, lobby}
  <1> DEFINE r == Read(c, SubSeq(q, 1, k))
             n == Len(q)
             rest == SubSeq(q, k + 1, n)
  <1>1. /\ q \in Seq(Message) /\ n \in Nat /\ k \in 1 .. n /\ DOMAIN q = 1 .. n
        /\ \A i \in 1 .. n : q[i] \in Message
    BY ElementOfSeq DEF LobbyIInv, LobbyTypeOK
  <1>2. client[c].mirror \in Place \cup {NoLobby}
    BY GuestFields DEF LobbyIInv, LobbyTypeOK
  <1>3. /\ Latest(q, lobby, client[c].mirror) /\ Endings(q, lobby, host.at)
        /\ host.at = "lobby" => Asked(c, q, up[c], client[c].mirror)
    BY DEF LobbyIInv, Streams
  <1>4. /\ \A i \in 1 .. k : q[i].kind # "closed" /\ ~(q[i].kind = "rejected" /\ q[i].peer = c)
        /\ r.started \in BOOLEAN
        /\ r.started => \E i \in 1 .. k : q[i].kind = "start" /\ r.table = q[i].table
        /\ ~r.started => r.table = {} /\ \A i \in 1 .. k : q[i].kind # "start"
        /\ \/ r.mirror = client[c].mirror /\ \A i \in 1 .. k : q[i].kind # "state"
           \/ \E i \in 1 .. k : /\ q[i].kind = "state" /\ r.mirror = q[i].lobby
                                /\ \A j \in 1 .. k : i < j => q[j].kind # "state"
    BY <1>1, ReadIs
  <1>5. /\ rest \in Seq(Message) /\ DOMAIN rest = 1 .. n - k
        /\ \A i \in 1 .. n - k : rest[i] = q[k + i]
    <2>1. k + 1 \in 1 .. n + 1 /\ n \in k + 1 - 1 .. n
      BY <1>1
    <2>2. /\ rest \in Seq(Message) /\ DOMAIN rest = 1 .. n - (k + 1) + 1
          /\ \A i \in 1 .. n - (k + 1) + 1 : rest[i] = q[k + 1 + i - 1]
      BY <1>1, <2>1, Stretch
    <2> HIDE DEF rest, n
    <2>3. n - (k + 1) + 1 = n - k /\ \A i \in 1 .. n - k : k + 1 + i - 1 = k + i
      BY <1>1
    <2> QED
      BY <2>2, <2>3
  <1> HIDE DEF r, rest, n
  <1>6. \A i \in 1 .. n - k : k + i \in 1 .. n
    BY <1>1
  <1>7. \A j \in 1 .. n : j \in 1 .. k \/ (j - k \in 1 .. n - k /\ k + (j - k) = j)
    BY <1>1
  <1>8. r.mirror \in Place \cup {NoLobby} /\ (r.mirror = NoLobby => client[c].mirror = NoLobby /\ \A i \in 1 .. k : q[i].kind # "state")
    <2>1. CASE r.mirror = client[c].mirror /\ \A i \in 1 .. k : q[i].kind # "state"
      BY <2>1, <1>2
    <2>2. ASSUME NEW i \in 1 .. k, q[i].kind = "state", r.mirror = q[i].lobby
          PROVE  r.mirror \in Place
      BY <2>2, <1>1, MessageIs
    <2> QED
      BY <2>1, <2>2, <1>4, NoPlace
  <1>9. r.table \in SUBSET Id
    <2>1. ASSUME NEW i \in 1 .. k, q[i].kind = "start" PROVE q[i].table \in SUBSET Id
      BY <2>1, <1>1, MessageIs
    <2> QED
      BY <2>1, <1>4
  \* No list of places left to come: what the client holds is the last.
  <1>10. (\A i \in 1 .. n - k : rest[i].kind # "state") => r.mirror \in {NoLobby, lobby}
    <2> SUFFICES ASSUME \A i \in 1 .. n - k : rest[i].kind # "state"
                 PROVE  r.mirror \in {NoLobby, lobby}
      OBVIOUS
    <2>1. \A j \in 1 .. n : j \in 1 .. k \/ q[j].kind # "state"
      BY <1>5, <1>7
    <2>2. CASE r.mirror = client[c].mirror /\ \A i \in 1 .. k : q[i].kind # "state"
      BY <2>1, <2>2, <1>1, <1>3 DEF Latest
    <2>3. ASSUME NEW i \in 1 .. k, q[i].kind = "state", r.mirror = q[i].lobby,
                 \A j \in 1 .. k : i < j => q[j].kind # "state"
          PROVE  r.mirror = lobby
      <3>1. i \in 1 .. n /\ \A j \in 1 .. n : i < j => q[j].kind # "state"
        BY <2>1, <2>3, <1>1
      <3> QED
        BY <3>1, <2>3, <1>1, <1>3 DEF Latest
    <2> QED
      BY <2>2, <2>3, <1>4
  <1>11. Latest(rest, lobby, r.mirror)
    <2>1. ASSUME NEW i \in 1 .. n - k, rest[i].kind = "state",
                 \A j \in 1 .. n - k : i < j => rest[j].kind # "state"
          PROVE  rest[i].lobby = lobby
      <3>1. k + i \in 1 .. n /\ rest[i] = q[k + i]
        BY <1>5, <1>6
      <3>2. ASSUME NEW j \in 1 .. n, k + i < j PROVE q[j].kind # "state"
        <4>1. j - k \in 1 .. n - k /\ i < j - k /\ k + (j - k) = j
          BY <3>2, <1>1
        <4> QED
          BY <4>1, <2>1, <1>5
      <3> QED
        BY <3>1, <3>2, <2>1, <1>1, <1>3 DEF Latest
    <2> QED
      BY <2>1, <1>5, <1>10 DEF Latest
  <1>12. CASE ~r.started
    <2>1. \A i \in 1 .. k : ~Final(q[i])
      BY <1>4, <1>12 DEF Final
    <2>2. Endings(rest, lobby, host.at)
      <3>1. ASSUME NEW i \in 1 .. n - k, Final(rest[i])
            PROVE  host.at # "lobby" /\ \A j \in 1 .. n - k : i < j => rest[j].kind # "state"
        <4>1. k + i \in 1 .. n /\ Final(q[k + i])
          BY <3>1, <1>5, <1>6
        <4>2. \A j \in 1 .. n - k : i < j => k + i < k + j /\ k + j \in 1 .. n /\ rest[j] = q[k + j]
          BY <1>1, <1>5, <1>6
        <4> QED
          BY <4>1, <4>2, <1>1, <1>3 DEF Endings
      <3>2. ASSUME NEW i \in 1 .. n - k, rest[i].kind = "start"
            PROVE  host.at = "playing" /\ rest[i].table = Table(lobby)
        BY <3>2, <1>1, <1>3, <1>5, <1>6 DEF Endings
      <3>3. ASSUME host.at # "lobby" PROVE \E i \in 1 .. n - k : Final(rest[i])
        <4>1. PICK j \in 1 .. n : Final(q[j])
          BY <3>3, <1>1, <1>3 DEF Endings
        <4>2. j - k \in 1 .. n - k /\ k + (j - k) = j
          BY <4>1, <2>1, <1>7
        <4> QED
          BY <4>1, <4>2, <1>5
      <3> QED
        BY <3>1, <3>2, <3>3, <1>5 DEF Endings
    <2>3. ASSUME host.at = "lobby" PROVE Asked(c, rest, up[c], r.mirror)
      <3> SUFFICES ASSUME r.mirror = NoLobby, \A i \in 1 .. n - k : rest[i].kind # "state",
                          ~\E i \in DOMAIN up[c] : up[c][i].kind = "join"
                   PROVE  \E i \in 1 .. n - k : rest[i].kind = "rejected" /\ rest[i].peer = c
        BY <1>5 DEF Asked
      <3>1. client[c].mirror = NoLobby /\ \A j \in 1 .. n : q[j].kind # "state"
        BY <1>5, <1>7, <1>8
      <3>2. PICK j \in 1 .. n : q[j].kind = "rejected" /\ q[j].peer = c
        BY <2>3, <3>1, <1>1, <1>3 DEF Asked
      <3>3. j - k \in 1 .. n - k /\ k + (j - k) = j
        BY <3>2, <1>4, <1>7
      <3> QED
        BY <3>2, <3>3, <1>5
    <2> QED
      BY <2>2, <2>3, <1>4, <1>5, <1>8, <1>9, <1>11, <1>12 DEF r, rest, n
  <1>13. CASE r.started
    <2>1. PICK i \in 1 .. k : q[i].kind = "start" /\ r.table = q[i].table
      BY <1>4, <1>13
    <2>2. i \in 1 .. n /\ Final(q[i])
      BY <2>1, <1>1 DEF Final
    <2>3. host.at = "playing" /\ r.table = Table(lobby)
      BY <2>1, <2>2, <1>1, <1>3 DEF Endings
    <2>4. ASSUME NEW j \in 1 .. n - k PROVE rest[j].kind # "state"
      <3>1. k + j \in 1 .. n /\ i < k + j /\ rest[j] = q[k + j]
        BY <2>1, <1>1, <1>5, <1>6
      <3> QED
        BY <3>1, <2>2, <1>1, <1>3 DEF Endings
    <2> QED
      BY <2>3, <2>4, <1>4, <1>5, <1>9, <1>8, <1>10, <1>11, <1>13 DEF r, rest, n
  <1> QED
    BY <1>4, <1>12, <1>13

\* The place a node takes itself to have is a slot, or watching.
LEMMA SeatIs ==
  ASSUME NEW l, NEW c, NEW seat \in Slot \cup {Watching}
  PROVE  MirroredSeat(l, c, seat) \in Slot \cup {Watching}
  <1>1. ASSUME SlotsOf(l, c) # {} PROVE Min(SlotsOf(l, c)) \in Slot
    <2>1. SlotsOf(l, c) \in SUBSET Slot
      BY DEF SlotsOf
    <2> QED
      BY <1>1, <2>1, FirstSlot
  <1> QED
    BY <1>1 DEF MirroredSeat

\* A client mirrors what it has read.
LEMMA MirrorsInv ==
  ASSUME LobbyIInv, NEW c \in Client, client[c].at = "lobby", NEW q, q = down[c], NEW k \in 1 .. Len(q),
         NEW r, r = Read(c, SubSeq(q, 1, k)), ~r.turned, ~r.started,
         NEW seat \in Slot \cup {Watching},
         client' = [client EXCEPT ![c] = [@ EXCEPT !.mirror = r.mirror, !.seat = seat, !.table = r.table]],
         down' = [down EXCEPT ![c] = SubSeq(q, k + 1, Len(q))],
         UNCHANGED <<lobby, ports, host, up, knocks, edits, asks>>
  PROVE  LobbyIInv'
  <1> USE DEF LobbyIInv
  <1> DEFINE rest == SubSeq(q, k + 1, Len(q))
             g == [client[c] EXCEPT !.mirror = r.mirror, !.seat = seat, !.table = r.table]
  <1>1. /\ rest \in Seq(Message) /\ r.mirror \in Place \cup {NoLobby} /\ r.table \in SUBSET Id
        /\ Latest(rest, lobby, r.mirror) /\ Endings(rest, lobby, host.at)
        /\ host.at = "lobby" => Asked(c, rest, up[c], r.mirror)
    BY Heard
  <1>2. client \in [Client -> Guest] /\ client[c] \in Guest
    BY DEF LobbyTypeOK
  <1>3. /\ g \in Guest /\ g.at = client[c].at /\ g.fit = client[c].fit /\ g.links = client[c].links
        /\ g.expects = client[c].expects /\ g.mirror = r.mirror
    BY <1>1, <1>2 DEF Guest
  <1>4. client' = [client EXCEPT ![c] = g] /\ down' = [down EXCEPT ![c] = rest]
    OBVIOUS
  <1> HIDE DEF rest, g
  <1>5. /\ client' \in [Client -> Guest] /\ client'[c] = g /\ \A d \in Client \ {c} : client'[d] = client[d]
        /\ \A d \in Client : client'[d].at = client[d].at /\ client'[d].fit = client[d].fit
                             /\ client'[d].links = client[d].links /\ client'[d].expects = client[d].expects
    BY <1>2, <1>3, <1>4
  <1>6. down' \in [Client -> Seq(Message)] /\ down'[c] = rest /\ \A d \in Client \ {c} : down'[d] = down[d]
    BY <1>1, <1>4 DEF LobbyTypeOK
  <1>7. Placed(lobby)' = Placed(lobby)
    BY DEF Placed, Seated, SlotsOf
  <1>8. LobbyTypeOK'
    BY <1>5, <1>6 DEF LobbyTypeOK
  <1>9. OnePlace'
    BY DEF OnePlace, Seated, SlotsOf
  <1>10. Upward'
    BY <1>5, <1>7 DEF Upward, Refused
  <1>11. Whereabouts'
    <2>1. \A d \in Client : client[d].at = "away" => d # c
      OBVIOUS
    <2> QED
      BY <2>1, <1>5, <1>6, <1>7 DEF Whereabouts
  <1>12. Streams'
    <2> SUFFICES ASSUME NEW d \in Client, client'[d].at = "lobby"
                 PROVE  /\ Latest(down'[d], lobby', client'[d].mirror)
                        /\ Endings(down'[d], lobby', host'.at)
                        /\ host'.at = "lobby" => Asked(d, down'[d], up'[d], client'[d].mirror)
      BY DEF Streams, Latest, Endings, Asked, Table, Placed, Seated, SlotsOf
    <2>1. CASE d = c
      BY <2>1, <1>1, <1>3, <1>5, <1>6
    <2>2. CASE d # c
      BY <2>2, <1>5, <1>6 DEF Streams
    <2> QED
      BY <2>1, <2>2
  <1>13. Playing'
    <2>1. Table(lobby)' = Table(lobby)
      BY <1>7 DEF Table
    <2>2. \A d \in Client : client[d].at = "playing" => d # c
      OBVIOUS
    <2> QED
      BY <2>1, <2>2, <1>5 DEF Playing
  <1>14. Dialed'
    <2>1. \A p \in Id : InGame(p)' <=> InGame(p)
      BY <1>5 DEF InGame, Id
    <2>2. Placed(lobby) \subseteq Id /\ \A d \in Client : Range(knocks[d]) \subseteq Id
      BY Parts, ElementOfSeq DEF LobbyTypeOK, Range, Id
    <2> QED
      BY <2>1, <2>2, <1>5, <1>7 DEF Dialed
  <1>15. MeshForms'
    BY <1>5, <1>7 DEF MeshForms
  <1> QED
    BY <1>8, <1>9, <1>10, <1>11, <1>12, <1>13, <1>14, <1>15

\* The dials of a node that starts reach the listeners of the others.
LEMMA MeshedIs ==
  ASSUME LobbyTypeOK, NEW n \in Id, NEW table \in SUBSET Id
  PROVE  LET m == Meshed(table, n) IN
         /\ m.links \in Link /\ m.expects \in SUBSET Id /\ m.knocks \in [Id -> Seq(Id)]
         /\ m.links # "none" /\ m.expects = {p \in table : p < n}
         /\ m.links = "failed" => \E p \in table : n < p /\ p # n /\ ~Listens(p)
         /\ \A p \in Id : m.knocks[p] = knocks[p] \/ (n < p /\ m.knocks[p] = Append(knocks[p], n))
  <1> DEFINE m == Meshed(table, n)
             refused == {p \in Dials(table, n) : ~Listens(p)}
             reached == {p \in Dials(table, n) : \A r \in refused : Listed(p) < Listed(r)}
             k == [p \in Id |-> IF p \in reached THEN Append(knocks[p], n) ELSE knocks[p]]
  <1>1. m = [links |-> IF refused # {} THEN "failed" ELSE IF Awaits(table, n) = {} THEN "up" ELSE "linking",
             expects |-> Awaits(table, n), knocks |-> k]
    BY DEF Meshed
  <1>2. \A p \in Dials(table, n) : p \in table /\ p # n /\ n < p
    BY Numbers DEF Dials
  <1>3. \A p \in reached : n < p
    BY <1>2
  <1>4. \A p \in refused : p \in table /\ n < p /\ p # n /\ ~Listens(p)
    BY <1>2
  <1>5. \A p \in Id : knocks[p] \in Seq(Id) /\ Append(knocks[p], n) \in Seq(Id)
    BY AppendProperties DEF LobbyTypeOK
  <1> HIDE DEF refused, reached, m
  <1>6. k \in [Id -> Seq(Id)]
    BY <1>5
  <1>7. \A p \in Id : k[p] = knocks[p] \/ (n < p /\ k[p] = Append(knocks[p], n))
    BY <1>3
  <1> HIDE DEF k
  <1>8. m.knocks = k /\ m.expects = {p \in table : p < n}
    BY <1>1 DEF Awaits
  <1>9. /\ m.links = IF refused # {} THEN "failed" ELSE IF Awaits(table, n) = {} THEN "up" ELSE "linking"
    BY <1>1
  <1> QED
    BY <1>4, <1>6, <1>7, <1>8, <1>9 DEF Link, m

\* One more caller before a listener, and one less.
LEMMA Knocked ==
  ASSUME NEW s \in Seq(Id), IsInjective(s), NEW p \in Id, p \notin Range(s)
  PROVE  IsInjective(Append(s, p)) /\ Range(Append(s, p)) = Range(s) \cup {p}
  <1> DEFINE r == Append(s, p)
             n == Len(s)
  <1>1. /\ n \in Nat /\ DOMAIN s = 1 .. n /\ DOMAIN r = 1 .. n + 1
        /\ \A i \in 1 .. n : r[i] = s[i]
        /\ r[n + 1] = p
    BY More
  <1> HIDE DEF r, n
  <1>2. \A i \in 1 .. n + 1 : i = n + 1 \/ i \in 1 .. n
    BY <1>1
  <1>3. \A i \in 1 .. n : s[i] # p
    BY <1>1 DEF Range
  <1>4. IsInjective(r)
    BY <1>1, <1>2, <1>3 DEF IsInjective
  <1>5. Range(r) = Range(s) \cup {p}
    BY <1>1, <1>2 DEF Range
  <1> QED
    BY <1>4, <1>5 DEF r

\* The first of those who knock is let in.
LEMMA Opened ==
  ASSUME NEW s \in Seq(Id), IsInjective(s), s # <<>>
  PROVE  /\ Tail(s) \in Seq(Id) /\ IsInjective(Tail(s)) /\ Head(s) \in Range(s)
         /\ Range(Tail(s)) = Range(s) \ {Head(s)}
  <1> DEFINE r == Tail(s)
             n == Len(s)
             p == Head(s)
  <1>1. /\ r \in Seq(Id) /\ n \in Nat \ {0} /\ DOMAIN s = 1 .. n /\ DOMAIN r = 1 .. n - 1
        /\ \A i \in 1 .. n - 1 : r[i] = s[i + 1]
        /\ p = s[1]
    BY Rest
  <1> HIDE DEF r, n, p
  <1>2. \A i \in 1 .. n - 1 : i + 1 \in 1 .. n /\ i + 1 # 1
    BY <1>1
  <1>3. 1 \in 1 .. n /\ \A i \in 1 .. n : i = 1 \/ (i - 1 \in 1 .. n - 1 /\ i - 1 + 1 = i)
    BY <1>1
  <1>4. IsInjective(r)
    <2> SUFFICES ASSUME NEW i \in 1 .. n - 1, NEW j \in 1 .. n - 1, r[i] = r[j] PROVE i = j
      BY <1>1 DEF IsInjective
    <2>1. i + 1 = j + 1
      BY <1>1, <1>2 DEF IsInjective
    <2> QED
      BY <2>1, <1>1
  <1>5. Range(r) \subseteq Range(s) \ {p}
    <2> SUFFICES ASSUME NEW i \in 1 .. n - 1 PROVE s[i + 1] \in Range(s) /\ s[i + 1] # p
      BY <1>1 DEF Range
    <2> QED
      BY <1>1, <1>2, <1>3 DEF IsInjective, Range
  <1>6. Range(s) \ {p} \subseteq Range(r)
    <2> SUFFICES ASSUME NEW i \in 1 .. n, s[i] # p PROVE s[i] \in Range(r)
      BY <1>1 DEF Range
    <2>1. i - 1 \in 1 .. n - 1 /\ i - 1 + 1 = i
      BY <1>1, <1>3
    <2> QED
      BY <2>1, <1>1 DEF Range
  <1>7. p \in Range(s)
    BY <1>1, <1>3 DEF Range
  <1> QED
    BY <1>1, <1>4, <1>5, <1>6, <1>7 DEF r, p

\* A client starts with what it holds.
LEMMA StartsInv ==
  ASSUME LobbyIInv, NEW c \in Client, client[c].at = "lobby", NEW q, q = down[c], NEW k \in 1 .. Len(q),
         NEW r, r = Read(c, SubSeq(q, 1, k)), ~r.turned, r.started, r.mirror # NoLobby,
         NEW g \in Guest, g.at = "playing", g.fit = client[c].fit, g.mirror = r.mirror, g.table = r.table,
         client' = [client EXCEPT ![c] = g],
         down' = [down EXCEPT ![c] = SubSeq(q, k + 1, Len(q))],
         UNCHANGED <<lobby, ports, host, up, edits, asks>>,
         IF r.mirror.mode = "decentralized"
         THEN /\ g.links = Meshed(r.table, c).links /\ g.expects = Meshed(r.table, c).expects
              /\ knocks' = Meshed(r.table, c).knocks
         ELSE g.links = client[c].links /\ knocks' = knocks
  PROVE  LobbyIInv'
  <1> USE DEF LobbyIInv
  <1> DEFINE rest == SubSeq(q, k + 1, Len(q))
             m == Meshed(r.table, c)
  <1>1. rest \in Seq(Message) /\ host.at = "playing" /\ r.table = Table(lobby) /\ r.mirror = lobby
    BY Heard
  <1>2. client \in [Client -> Guest] /\ knocks \in [Id -> Seq(Id)] /\ lobby \in Place /\ c \in Id
    BY DEF LobbyTypeOK, Id
  <1>3. down' = [down EXCEPT ![c] = rest]
    OBVIOUS
  <1>4. Placed(lobby) \subseteq Id /\ r.table \in SUBSET Id
    BY <1>1, <1>2, Parts DEF Table
  <1>5. /\ m.links \in Link /\ m.expects \in SUBSET Id /\ m.knocks \in [Id -> Seq(Id)]
        /\ m.links # "none" /\ m.expects = {p \in r.table : p < c}
        /\ m.links = "failed" => \E p \in r.table : c < p /\ p # c /\ ~Listens(p)
        /\ \A p \in Id : m.knocks[p] = knocks[p] \/ (c < p /\ m.knocks[p] = Append(knocks[p], c))
    BY <1>2, <1>4, MeshedIs
  <1>6. lobby.mode = "decentralized" => r.table = Placed(lobby)
    BY <1>1 DEF Table
  <1>7. client[c].links = "none"
    BY DEF Whereabouts
  <1> HIDE DEF rest, m
  <1>8. client' \in [Client -> Guest] /\ client'[c] = g /\ \A d \in Client \ {c} : client'[d] = client[d]
    BY <1>2
  <1>9. down' \in [Client -> Seq(Message)] /\ down'[c] = rest /\ \A d \in Client \ {c} : down'[d] = down[d]
    BY <1>1, <1>3 DEF LobbyTypeOK
  <1>10. /\ knocks' \in [Id -> Seq(Id)]
         /\ \A p \in Id : knocks'[p] = knocks[p] \/ (c < p /\ knocks'[p] = Append(knocks[p], c))
    <2>1. knocks' = m.knocks \/ knocks' = knocks
      BY DEF m
    <2>2. CASE knocks' = m.knocks
      BY <2>2, <1>5
    <2>3. CASE knocks' = knocks
      BY <2>3, <1>2
    <2> QED
      BY <2>1, <2>2, <2>3
  <1>11. /\ g.links = "linking" =>
              lobby.mode = "decentralized" /\ g.expects = {p \in Placed(lobby) : p < c}
         /\ g.links = "failed" => \E p \in Placed(lobby) : c < p /\ p # c /\ ~Listens(p)
    BY <1>1, <1>5, <1>6, <1>7 DEF m
  <1>12. Placed(lobby)' = Placed(lobby)
    BY DEF Placed, Seated, SlotsOf
  <1>13. LobbyTypeOK'
    BY <1>8, <1>9, <1>10 DEF LobbyTypeOK
  <1>14. OnePlace'
    BY DEF OnePlace, Seated, SlotsOf
  <1>15. Upward'
    <2>1. \A d \in Client : /\ client'[d].fit = client[d].fit
                            /\ client[d].at = "menu" => client'[d].at = "menu"
      BY <1>8
    <2> QED
      BY <2>1, <1>12 DEF Upward, Refused
  <1>16. Whereabouts'
    <2> SUFFICES ASSUME NEW d \in Client
                 PROVE  /\ client'[d].at = "away" =>
                             up[d] = <<>> /\ down'[d] = <<>> /\ d \notin Placed(lobby) /\ client'[d].mirror = NoLobby
                        /\ client'[d].at # "playing" => client'[d].links = "none"
      BY <1>1, <1>12 DEF Whereabouts
    <2>1. CASE d = c
      BY <2>1, <1>8
    <2>2. CASE d # c
      BY <2>2, <1>8, <1>9 DEF Whereabouts
    <2> QED
      BY <2>1, <2>2
  <1>17. Streams'
    <2> SUFFICES ASSUME NEW d \in Client, client'[d].at = "lobby"
                 PROVE  /\ Latest(down'[d], lobby', client'[d].mirror)
                        /\ Endings(down'[d], lobby', host'.at)
                        /\ host'.at = "lobby" => Asked(d, down'[d], up'[d], client'[d].mirror)
      BY DEF Streams, Latest, Endings, Asked, Table, Placed, Seated, SlotsOf
    <2>1. d # c
      BY <1>8
    <2> QED
      BY <2>1, <1>8, <1>9 DEF Streams
  <1>18. Playing'
    <2>1. Table(lobby)' = Table(lobby)
      BY <1>12 DEF Table
    <2> QED
      BY <2>1, <1>1, <1>8 DEF Playing
  <1>19. ~InGame(c) /\ InGame(c)' /\ \A p \in Id \ {c} : InGame(p)' <=> InGame(p)
    BY <1>8, Numbers DEF InGame, Id
  <1>20. \A d \in Client : /\ knocks[d] \in Seq(Id) /\ Range(knocks[d]) \subseteq Id
                           /\ c \notin Range(knocks[d])
    BY <1>2, <1>19, ElementOfSeq DEF Range, Id, Dialed
  <1>21. \A d \in Client :
           /\ IsInjective(knocks'[d])
           /\ Range(knocks'[d]) = Range(knocks[d]) \/ (c < d /\ Range(knocks'[d]) = Range(knocks[d]) \cup {c})
    <2> SUFFICES ASSUME NEW d \in Client
                 PROVE  /\ IsInjective(knocks'[d])
                        /\ \/ Range(knocks'[d]) = Range(knocks[d])
                           \/ c < d /\ Range(knocks'[d]) = Range(knocks[d]) \cup {c}
      OBVIOUS
    <2>1. PICK s : s = knocks[d]
      OBVIOUS
    <2>2. s \in Seq(Id) /\ IsInjective(s) /\ c \notin Range(s) /\ c \in Id
      BY <2>1, <1>2, <1>20 DEF Dialed
    <2>3. IsInjective(Append(s, c)) /\ Range(Append(s, c)) = Range(s) \cup {c}
      BY <2>2, Knocked
    <2>4. knocks'[d] = s \/ (c < d /\ knocks'[d] = Append(s, c))
      BY <2>1, <1>10 DEF Id
    <2> QED
      BY <2>1, <2>2, <2>3, <2>4
  <1>22. Dialed'
    <2> SUFFICES ASSUME NEW d \in Client
                 PROVE  /\ \A p \in Range(knocks'[d]) : p < d /\ InGame(p)'
                        /\ client'[d].links = "linking" =>
                             /\ lobby.mode = "decentralized"
                             /\ client'[d].expects \subseteq Placed(lobby)
                             /\ \A p \in Placed(lobby) :
                                  p < d => p \in client'[d].expects \/ (InGame(p)' /\ p \notin Range(knocks'[d]))
      BY <1>12, <1>21 DEF Dialed
    <2>1. ASSUME NEW p \in Range(knocks'[d]) PROVE p < d /\ InGame(p)'
      <3>1. CASE p \in Range(knocks[d])
        BY <3>1, <1>19, <1>20 DEF Dialed
      <3>2. CASE p = c /\ c < d
        BY <3>2, <1>19
      <3> QED
        BY <3>1, <3>2, <1>21
    <2>2. ASSUME client'[d].links = "linking", d = c
          PROVE  /\ lobby.mode = "decentralized" /\ client'[d].expects = {p \in Placed(lobby) : p < d}
      BY <2>2, <1>8, <1>11
    <2>3. ASSUME client'[d].links = "linking", d # c
          PROVE  /\ lobby.mode = "decentralized" /\ client'[d].expects \subseteq Placed(lobby)
                 /\ \A p \in Placed(lobby) :
                       p < d => p \in client'[d].expects \/ (InGame(p)' /\ p \notin Range(knocks'[d]))
      <3>1. client'[d] = client[d] /\ client[d].links = "linking"
        BY <2>3, <1>8
      <3>2. ASSUME NEW p \in Placed(lobby), p < d, p \notin client[d].expects
            PROVE  InGame(p)' /\ p \notin Range(knocks'[d])
        <4>1. InGame(p) /\ p \notin Range(knocks[d])
          BY <3>1, <3>2 DEF Dialed
        <4>2. p \in Id \ {c}
          BY <4>1, <1>4, <1>19
        <4> QED
          BY <4>1, <4>2, <1>19, <1>21
      <3> QED
        BY <3>1, <3>2 DEF Dialed
    <2> QED
      BY <2>1, <2>2, <2>3
  <1>23. MeshForms'
    <2> SUFFICES ASSUME \A d \in Client : client'[d].at = "playing" => d \in Placed(lobby),
                        NEW d \in Placed(lobby) \cap Client, client'[d].links = "failed"
                 PROVE  \E e \in Placed(lobby) \cap Client : client'[e].at = "menu"
      BY <1>12 DEF MeshForms
    <2>1. CASE d = c
      <3>1. PICK p \in Placed(lobby) : c < p /\ p # c /\ ~Listens(p)
        BY <2>1, <1>8, <1>11
      <3>2. p \in Client
        BY <3>1, <1>4, Numbers DEF Id
      <3>3. client[p].at = "menu"
        <4>1. client[p].at \in {"away", "menu"} /\ p # Host
          BY <3>1, <3>2, <1>2, GuestFields, Numbers DEF Listens
        <4> QED
          BY <4>1, <3>1, <3>2 DEF Whereabouts
      <3> QED
        BY <3>1, <3>2, <3>3, <1>8
    <2>2. CASE d # c
      <3>1. client[d].links = "failed"
        BY <2>2, <1>8
      <3>2. \A e \in Client : client[e].at = "playing" => e \in Placed(lobby)
        BY <1>8
      <3>3. PICK e \in Placed(lobby) \cap Client : client[e].at = "menu"
        BY <3>1, <3>2 DEF MeshForms
      <3> QED
        BY <3>3, <1>8
    <2> QED
      BY <2>1, <2>2
  <1> QED
    BY <1>13, <1>14, <1>15, <1>16, <1>17, <1>18, <1>22, <1>23

\* A client polls.
LEMMA PollInv ==
  ASSUME LobbyIInv, NEW c \in Client, ClientPoll(c)
  PROVE  LobbyIInv'
  <1> DEFINE q == down[c]
  <1>1. client[c].at = "lobby" /\ UNCHANGED <<lobby, ports, host, edits, asks>>
    BY DEF ClientPoll
  <1>2. PICK k \in 1 .. Len(q) :
          LET read == Read(c, SubSeq(q, 1, k))
              seat == MirroredSeat(read.mirror, c, client[c].seat)
              leaves == read.turned \/ (read.started /\ read.mirror = NoLobby)
              mesh == Meshed(read.table, c)
              held == [client[c] EXCEPT !.mirror = read.mirror, !.seat = seat, !.table = read.table]
              links == read.mirror.mode = "decentralized"
          IN /\ down' = [down EXCEPT ![c] = IF leaves THEN <<>> ELSE SubSeq(@, k + 1, Len(@))]
             /\ \/ /\ leaves
                   /\ client' = [client EXCEPT ![c] = Gone(@)]
                   /\ up' = SendUp(c, "lost")
                   /\ UNCHANGED knocks
                \/ /\ ~leaves /\ ~read.started
                   /\ client' = [client EXCEPT ![c] = held]
                   /\ UNCHANGED <<up, knocks>>
                \/ /\ ~leaves /\ read.started
                   /\ client' = [client EXCEPT ![c] =
                         IF links THEN [held EXCEPT !.at = "playing", !.links = mesh.links,
                                                    !.expects = mesh.expects]
                                  ELSE [held EXCEPT !.at = "playing"]]
                   /\ knocks' = IF links THEN mesh.knocks ELSE knocks
                   /\ UNCHANGED up
    BY DEF ClientPoll
  <1>3. client \in [Client -> Guest] /\ client[c] \in Guest /\ down \in [Client -> Seq(Message)]
    BY DEF LobbyIInv, LobbyTypeOK
  <1>4. PICK r : r = Read(c, SubSeq(q, 1, k))
    OBVIOUS
  <1>5. PICK seat : seat = MirroredSeat(r.mirror, c, client[c].seat)
    OBVIOUS
  <1>6. PICK mesh : mesh = Meshed(r.table, c)
    OBVIOUS
  <1> DEFINE leaves == r.turned \/ (r.started /\ r.mirror = NoLobby)
             held == [client[c] EXCEPT !.mirror = r.mirror, !.seat = seat, !.table = r.table]
             links == r.mirror.mode = "decentralized"
             g == IF links THEN [held EXCEPT !.at = "playing", !.links = mesh.links, !.expects = mesh.expects]
                           ELSE [held EXCEPT !.at = "playing"]
  <1>7. CASE leaves
    <2>1. /\ client' = [client EXCEPT ![c] = Gone(@)] /\ up' = SendUp(c, "lost")
          /\ down' = [down EXCEPT ![c] = <<>>] /\ UNCHANGED knocks
      BY <1>2, <1>4, <1>7
    <2> QED
      BY <2>1, <1>1, GoneInv
  <1>8. seat \in Slot \cup {Watching}
    BY <1>3, <1>5, SeatIs, GuestFields
  <1>9. CASE ~leaves /\ ~r.started
    <2>1. /\ client' = [client EXCEPT ![c] = [@ EXCEPT !.mirror = r.mirror, !.seat = seat, !.table = r.table]]
          /\ UNCHANGED <<up, knocks>>
          /\ down' = [down EXCEPT ![c] = SubSeq(q, k + 1, Len(q))]
      BY <1>2, <1>4, <1>5, <1>9
    <2> QED
      BY <2>1, <1>1, <1>4, <1>8, <1>9, MirrorsInv
  <1>10. CASE ~leaves /\ r.started
    <2>1. /\ client' = [client EXCEPT ![c] = g] /\ UNCHANGED up
          /\ knocks' = IF links THEN mesh.knocks ELSE knocks
          /\ down' = [down EXCEPT ![c] = SubSeq(q, k + 1, Len(q))]
      BY <1>2, <1>4, <1>5, <1>6, <1>10
    <2>2. r.table \in SUBSET Id /\ r.mirror \in Place \cup {NoLobby}
      BY <1>1, <1>4, <1>10, Heard
    <2>3. mesh.links \in Link /\ mesh.expects \in SUBSET Id
      BY <1>6, <2>2, MeshedIs DEF LobbyIInv, Id
    <2>4. /\ g \in Guest /\ g.at = "playing" /\ g.fit = client[c].fit /\ g.mirror = r.mirror /\ g.table = r.table
          /\ IF links THEN g.links = mesh.links /\ g.expects = mesh.expects ELSE g.links = client[c].links
      BY <1>3, <1>8, <2>2, <2>3 DEF Guest
    <2> HIDE DEF g
    <2>5. IF links
          THEN /\ g.links = Meshed(r.table, c).links /\ g.expects = Meshed(r.table, c).expects
               /\ knocks' = Meshed(r.table, c).knocks
          ELSE g.links = client[c].links /\ knocks' = knocks
      BY <1>6, <2>1, <2>4
    <2>6. /\ ~r.turned /\ r.started /\ r.mirror # NoLobby /\ client[c].at = "lobby"
          /\ UNCHANGED <<lobby, ports, host, up, edits, asks>>
          /\ g \in Guest /\ g.at = "playing" /\ g.fit = client[c].fit /\ g.mirror = r.mirror /\ g.table = r.table
      BY <2>1, <2>4, <1>1, <1>10
    <2>7. client' = [client EXCEPT ![c] = g] /\ down' = [down EXCEPT ![c] = SubSeq(q, k + 1, Len(q))]
      BY <2>1
    <2> HIDE DEF leaves
    <2> QED
      BY <2>5, <2>6, <2>7, <1>4, StartsInv
  <1> QED
    BY <1>7, <1>9, <1>10
-----------------------------------------------------------------------------
(* The end of the lobby.                                                    *)

\* Nobody plays yet: nothing is amiss with a game that nobody has joined.
LEMMA NotYet ==
  ASSUME LobbyTypeOK, Whereabouts, Dialed, host.at = "lobby", client' = client,
         \A c \in Client : IsInjective(knocks'[c]) /\ \A p \in Range(knocks'[c]) : p < c /\ InGame(p)'
  PROVE  Playing' /\ Dialed' /\ MeshForms'
  <1>1. \A c \in Client : client'[c].at # "playing" /\ client'[c].links = "none"
    BY DEF Whereabouts
  <1>2. Playing'
    BY <1>1 DEF Playing
  <1>3. Dialed'
    BY <1>1 DEF Dialed
  <1>4. MeshForms'
    BY <1>1 DEF MeshForms
  <1> QED
    BY <1>2, <1>3, <1>4

\* The lobby is over, for a game or for none, and every client will hear of it.
LEMMA EndsInv ==
  ASSUME LobbyIInv, host.at = "lobby",
         host' \in [at: {"playing", "menu"}, links: Link, expects: SUBSET Id],
         NEW msgs \in Seq(Message), down' = SendDown(down, msgs),
         \A q \in Seq(Message) : \A mirror : Latest(q, lobby, mirror) /\ Endings(q, lobby, "lobby") =>
             Latest(q \o msgs, lobby, mirror) /\ Endings(q \o msgs, lobby, host'.at),
         up' = [c \in Client |-> <<>>],
         knocks' \in [Id -> Seq(Id)],
         \A c \in Client : IsInjective(knocks'[c]) /\ \A p \in Range(knocks'[c]) : p < c /\ InGame(p)',
         UNCHANGED <<lobby, ports, client, edits, asks>>
  PROVE  LobbyIInv'
  <1> USE DEF LobbyIInv
  <1>1. /\ down \in [Client -> Seq(Message)] /\ down' \in [Client -> Seq(Message)]
        /\ \A d \in Client : down'[d] = IF client[d].at \in {"lobby", "playing"} THEN down[d] \o msgs ELSE down[d]
    <2>1. down \in [Client -> Seq(Message)] /\ down' = SendDown(down, msgs)
      BY DEF LobbyTypeOK
    <2>2. /\ SendDown(down, msgs) \in [Client -> Seq(Message)]
          /\ \A d \in Client : SendDown(down, msgs)[d] =
               IF client[d].at \in {"lobby", "playing"} THEN down[d] \o msgs ELSE down[d]
      BY <2>1, Sends
    <2> QED
      BY <2>1, <2>2
  <1>2. up' \in [Client -> Seq(Event)] /\ \A c \in Client : up'[c] = <<>>
    BY EmptySeq
  <1>3. host' \in [at: {"lobby", "playing", "menu"}, links: Link, expects: SUBSET Id] /\ host'.at # "lobby"
    OBVIOUS
  <1>4. LobbyTypeOK'
    BY <1>1, <1>2, <1>3 DEF LobbyTypeOK
  <1>5. OnePlace'
    BY DEF OnePlace, Seated, SlotsOf
  <1>6. Placed(lobby)' = Placed(lobby)
    BY DEF Placed, Seated, SlotsOf
  <1>7. Upward'
    BY <1>2 DEF Upward
  <1>8. Whereabouts'
    <2>1. \A c \in Client : client[c].at # "playing"
      BY DEF Whereabouts
    <2> QED
      BY <2>1, <1>1, <1>2, <1>3, <1>6 DEF Whereabouts
  <1>9. Streams'
    <2> SUFFICES ASSUME NEW d \in Client, client'[d].at = "lobby"
                 PROVE  /\ Latest(down'[d], lobby', client'[d].mirror)
                        /\ Endings(down'[d], lobby', host'.at)
                        /\ host'.at = "lobby" => Asked(d, down'[d], up'[d], client'[d].mirror)
      BY DEF Streams, Latest, Endings, Asked, Table, Placed, Seated, SlotsOf
    <2>1. client[d].at = "lobby" /\ down[d] \in Seq(Message) /\ down'[d] = down[d] \o msgs
      BY <1>1
    <2>2. Latest(down[d], lobby, client[d].mirror) /\ Endings(down[d], lobby, "lobby")
      BY <2>1 DEF Streams
    <2> QED
      BY <2>1, <2>2, <1>3
  <1>10. Playing' /\ Dialed' /\ MeshForms'
    BY NotYet
  <1> QED
    BY <1>4, <1>5, <1>7, <1>8, <1>9, <1>10

\* The word that the lobby is over, in order.
LEMMA Over ==
  ASSUME NEW l, NEW at \in {"playing", "menu"}, NEW m \in Message, Final(m),
         m.kind = "start" => at = "playing" /\ m.table = Table(l)
  PROVE  /\ <<m>> \in Seq(Message)
         /\ \A q \in Seq(Message) : \A mirror :
               /\ Latest(q, l, mirror) /\ (Endings(q, l, "lobby") \/ (Endings(q, l, at) /\ m.kind = "closed")) =>
                     Latest(Append(q, m), l, mirror) /\ Endings(Append(q, m), l, at)
               /\ q \o <<m>> = Append(q, m)
  <1>1. <<m>> \in Seq(Message)
    OBVIOUS
  <1>2. m.kind # "state"
    BY DEF Final
  <1>3. ASSUME NEW q \in Seq(Message), NEW mirror, Latest(q, l, mirror),
               Endings(q, l, "lobby") \/ (Endings(q, l, at) /\ m.kind = "closed")
        PROVE  Latest(Append(q, m), l, mirror) /\ Endings(Append(q, m), l, at)
    <2>1. Latest(Append(q, m), l, mirror)
      BY <1>2, <1>3, LatestOther
    <2>2. Endings(Append(q, m), l, at)
      BY <1>3, EndingsLast
    <2> QED
      BY <2>1, <2>2
  <1>4. \A q \in Seq(Message) : q \o <<m>> = Append(q, m)
    BY AppendIsConcat
  <1> QED
    BY <1>1, <1>3, <1>4

\* The host gives up the lobby: every client will read the end of its link.
LEMMA HostGoneInv ==
  ASSUME LobbyIInv, host.at = "lobby", HostGone, UNCHANGED <<lobby, ports, client, edits, asks>>
  PROVE  LobbyIInv'
  <1>1. Closed \in Message /\ Final(Closed) /\ Closed.kind = "closed"
    BY DEF Message, Closed, Final
  <1>2. /\ <<Closed>> \in Seq(Message)
        /\ \A q \in Seq(Message) : \A mirror : Latest(q, lobby, mirror) /\ Endings(q, lobby, "lobby") =>
             Latest(q \o <<Closed>>, lobby, mirror) /\ Endings(q \o <<Closed>>, lobby, "menu")
    <2>1. /\ <<Closed>> \in Seq(Message)
          /\ \A q \in Seq(Message) : \A mirror :
               /\ Latest(q, lobby, mirror) /\ (Endings(q, lobby, "lobby") \/ (Endings(q, lobby, "menu") /\ Closed.kind = "closed")) =>
                     Latest(Append(q, Closed), lobby, mirror) /\ Endings(Append(q, Closed), lobby, "menu")
               /\ q \o <<Closed>> = Append(q, Closed)
      BY <1>1, Over
    <2> DEFINE msgs == <<Closed>>
    <2> HIDE DEF msgs
    <2> QED
      BY <2>1
  <1>3. /\ host' = [at |-> "menu", links |-> "none", expects |-> {}]
        /\ down' = SendDown(down, <<Closed>>) /\ up' = [c \in Client |-> <<>>] /\ knocks' = knocks
    BY DEF HostGone
  <1>4. host' \in [at: {"playing", "menu"}, links: Link, expects: SUBSET Id] /\ host'.at = "menu"
    BY <1>3 DEF Link
  <1>5. /\ knocks' \in [Id -> Seq(Id)]
        /\ \A c \in Client : IsInjective(knocks'[c]) /\ \A p \in Range(knocks'[c]) : p < c /\ InGame(p)'
    <2>1. \A c \in Client : Range(knocks[c]) = {} /\ IsInjective(knocks[c])
      BY Quiet DEF LobbyIInv, Dialed
    <2> QED
      BY <2>1, <1>3 DEF LobbyIInv, LobbyTypeOK
  <1> DEFINE msgs == <<Closed>>
  <1>6. /\ msgs \in Seq(Message) /\ down' = SendDown(down, msgs)
        /\ \A q \in Seq(Message) : \A mirror : Latest(q, lobby, mirror) /\ Endings(q, lobby, "lobby") =>
             Latest(q \o msgs, lobby, mirror) /\ Endings(q \o msgs, lobby, host'.at)
    BY <1>2, <1>3, <1>4
  <1> HIDE DEF msgs
  <1> QED
    BY <1>3, <1>4, <1>5, <1>6, EndsInv

\* The host starts the game.
LEMMA HostStartsInv ==
  ASSUME LobbyIInv, HostStarts
  PROVE  LobbyIInv'
  <1> DEFINE table == Placed(lobby)
             start == [kind |-> "start", table |-> Table(lobby)]
             mesh == Meshed(table, Host)
  <1>1. host.at = "lobby" /\ UNCHANGED <<lobby, ports, client, edits, asks>>
    BY DEF HostStarts
  <1>2. lobby \in Place /\ host \in [at: {"lobby", "playing", "menu"}, links: Link, expects: SUBSET Id]
        /\ table \in SUBSET Id /\ Table(lobby) \in SUBSET Id /\ Host \in Id
    BY Parts DEF LobbyIInv, LobbyTypeOK, Table, Id
  <1>3. start \in Message /\ Final(start) /\ start.kind = "start" /\ start.table = Table(lobby)
    BY <1>2 DEF Message, Final
  <1>4. Closed \in Message /\ Final(Closed) /\ Closed.kind = "closed"
    BY DEF Message, Closed, Final
  <1>5. \/ HostGone
        \/ /\ host' = [host EXCEPT !.at = "playing"]
           /\ down' = SendDown(down, <<start>>)
           /\ up' = [c \in Client |-> <<>>] /\ knocks' = knocks
        \/ /\ lobby.mode = "decentralized"
           /\ host' = [at |-> "playing", links |-> mesh.links, expects |-> mesh.expects]
           /\ down' = SendDown(down, <<start, Closed>>)
           /\ up' = [c \in Client |-> <<>>] /\ knocks' = mesh.knocks
    BY DEF HostStarts, Table
  <1>6. \A c \in Client : Range(knocks[c]) = {} /\ IsInjective(knocks[c]) /\ knocks[c] \in Seq(Id)
    BY <1>1, Quiet DEF LobbyIInv, Dialed, LobbyTypeOK, Id
  <1>7. /\ mesh.links \in Link /\ mesh.expects \in SUBSET Id /\ mesh.knocks \in [Id -> Seq(Id)]
        /\ \A p \in Id : mesh.knocks[p] = knocks[p] \/ (Host < p /\ mesh.knocks[p] = Append(knocks[p], Host))
    BY <1>2, MeshedIs DEF LobbyIInv
  <1>8. /\ <<start>> \in Seq(Message)
        /\ \A q \in Seq(Message) : \A mirror :
             /\ Latest(q, lobby, mirror) /\ (Endings(q, lobby, "lobby") \/ (Endings(q, lobby, "playing") /\ start.kind = "closed")) =>
                   Latest(Append(q, start), lobby, mirror) /\ Endings(Append(q, start), lobby, "playing")
             /\ q \o <<start>> = Append(q, start)
    <2> HIDE DEF start
    <2> QED
      BY <1>3, Over
  <1>9. \A q \in Seq(Message) : \A mirror :
             /\ Latest(q, lobby, mirror) /\ (Endings(q, lobby, "lobby") \/ (Endings(q, lobby, "playing") /\ Closed.kind = "closed")) =>
                   Latest(Append(q, Closed), lobby, mirror) /\ Endings(Append(q, Closed), lobby, "playing")
    BY <1>4, Over
  <1> HIDE DEF start, mesh, table
  <1>10. CASE HostGone
    BY <1>1, <1>10, HostGoneInv
  <1>11. CASE /\ host' = [host EXCEPT !.at = "playing"]
              /\ down' = SendDown(down, <<start>>)
              /\ up' = [c \in Client |-> <<>>] /\ knocks' = knocks
    <2> DEFINE msgs == <<start>>
    <2>1. host' \in [at: {"playing", "menu"}, links: Link, expects: SUBSET Id] /\ host'.at = "playing"
      BY <1>2, <1>11
    <2>2. /\ msgs \in Seq(Message) /\ down' = SendDown(down, msgs)
          /\ \A q \in Seq(Message) : \A mirror : Latest(q, lobby, mirror) /\ Endings(q, lobby, "lobby") =>
               Latest(q \o msgs, lobby, mirror) /\ Endings(q \o msgs, lobby, host'.at)
      BY <1>8, <1>11, <2>1
    <2> HIDE DEF msgs
    <2>3. /\ knocks' \in [Id -> Seq(Id)]
          /\ \A c \in Client : IsInjective(knocks'[c]) /\ \A p \in Range(knocks'[c]) : p < c /\ InGame(p)'
      BY <1>6, <1>11 DEF LobbyIInv, LobbyTypeOK
    <2> QED
      BY <1>1, <1>11, <2>1, <2>2, <2>3, EndsInv
  <1>12. CASE /\ host' = [at |-> "playing", links |-> mesh.links, expects |-> mesh.expects]
              /\ down' = SendDown(down, <<start, Closed>>)
              /\ up' = [c \in Client |-> <<>>] /\ knocks' = mesh.knocks
    <2> DEFINE msgs == <<start, Closed>>
    <2>1. host' \in [at: {"playing", "menu"}, links: Link, expects: SUBSET Id] /\ host'.at = "playing"
      BY <1>7, <1>12
    <2>2. msgs \in Seq(Message) /\ down' = SendDown(down, msgs)
      BY <1>3, <1>4, <1>12
    <2>3. \A q \in Seq(Message) : q \o msgs = Append(Append(q, start), Closed) /\ Append(q, start) \in Seq(Message)
      <3>1. ASSUME NEW q \in Seq(Message) PROVE q \o msgs = Append(Append(q, start), Closed)
        BY <1>3, <1>4, Strung
      <3>2. ASSUME NEW q \in Seq(Message) PROVE Append(q, start) \in Seq(Message)
        BY <1>3, More
      <3> QED
        BY <3>1, <3>2
    <2> HIDE DEF msgs
    <2>4. \A q \in Seq(Message) : \A mirror : Latest(q, lobby, mirror) /\ Endings(q, lobby, "lobby") =>
               Latest(q \o msgs, lobby, mirror) /\ Endings(q \o msgs, lobby, host'.at)
      <3> SUFFICES ASSUME NEW q \in Seq(Message), NEW mirror, Latest(q, lobby, mirror), Endings(q, lobby, "lobby")
                   PROVE  Latest(q \o msgs, lobby, mirror) /\ Endings(q \o msgs, lobby, "playing")
        BY <2>1
      <3>1. Latest(Append(q, start), lobby, mirror) /\ Endings(Append(q, start), lobby, "playing")
        BY <1>8
      <3> QED
        BY <2>3, <3>1, <1>4, <1>9
    <2>5. ASSUME NEW c \in Client
          PROVE  IsInjective(knocks'[c]) /\ \A p \in Range(knocks'[c]) : p < c /\ InGame(p)'
      <3>1. c \in Id /\ Host < c /\ InGame(Host)'
        BY <2>1, Numbers DEF Id, InGame
      <3>2. IsInjective(Append(knocks[c], Host)) /\ Range(Append(knocks[c], Host)) = {Host}
        <4> DEFINE s == knocks[c]
        <4>1. s \in Seq(Id) /\ IsInjective(s) /\ Range(s) = {} /\ Host \in Id
          BY <1>2, <1>6
        <4> HIDE DEF s
        <4>2. IsInjective(Append(s, Host)) /\ Range(Append(s, Host)) = Range(s) \cup {Host}
          BY <4>1, Knocked
        <4> QED
          BY <4>1, <4>2 DEF s
      <3>3. knocks'[c] = knocks[c] \/ knocks'[c] = Append(knocks[c], Host)
        BY <1>7, <1>12, <3>1
      <3> QED
        BY <1>6, <3>1, <3>2, <3>3
    <2>6. knocks' \in [Id -> Seq(Id)]
      BY <1>7, <1>12
    <2> QED
      BY <1>1, <1>12, <2>1, <2>2, <2>4, <2>5, <2>6, EndsInv
  <1> QED
    BY <1>5, <1>10, <1>11, <1>12
-----------------------------------------------------------------------------
(* The links of the game.                                                   *)

\* A client answers the next of its callers.
LEMMA AcceptInv ==
  ASSUME LobbyIInv, NEW c \in Client, Accept(c)
  PROVE  LobbyIInv'
  <1> USE DEF LobbyIInv
  <1> DEFINE p == Head(knocks[c])
             rest == client[c].expects \ {p}
             links == IF p \notin client[c].expects THEN "failed" ELSE IF rest = {} THEN "up" ELSE "linking"
             g == [client[c] EXCEPT !.expects = rest, !.links = links]
             s == knocks[c]
  <1>1. /\ client[c].at = "playing" /\ client[c].links = "linking" /\ s # <<>>
        /\ knocks' = [knocks EXCEPT ![c] = Tail(s)] /\ UNCHANGED <<lobby, ports, host, up, down, edits, asks>>
    BY DEF Accept
  <1>2. /\ client \in [Client -> Guest] /\ client[c] \in Guest /\ knocks \in [Id -> Seq(Id)]
        /\ s \in Seq(Id) /\ c \in Id /\ lobby \in Place
    BY DEF LobbyTypeOK, Id
  <1>3. client' = [client EXCEPT ![c] = g]
    <2>1. client' = [client EXCEPT
           ![c].expects = rest,
           ![c].links = IF p \notin client[c].expects THEN "failed"
                        ELSE IF rest = {} THEN "up" ELSE @]
      BY DEF Accept
    <2> HIDE DEF rest, p
    <2> QED
      BY <2>1, <1>1, <1>2
  <1>4. /\ Tail(s) \in Seq(Id) /\ IsInjective(Tail(s)) /\ p \in Range(s)
        /\ Range(Tail(s)) = Range(s) \ {p}
    <2>1. IsInjective(s)
      BY DEF Dialed
    <2> HIDE DEF s
    <2> QED
      BY <2>1, <1>1, <1>2, Opened DEF p, s
  <1>5. p < c /\ InGame(p) /\ p \in Id
    BY <1>2, <1>4, ElementOfSeq DEF Dialed, Range
  <1> HIDE DEF p, s
  <1>6. g \in Guest /\ g.at = "playing" /\ g.fit = client[c].fit /\ g.mirror = client[c].mirror
        /\ g.table = client[c].table /\ g.expects = rest /\ g.links = links
    <2>1. rest \in SUBSET Id /\ links \in Link
      BY <1>2, GuestFields DEF Link
    <2> HIDE DEF rest, links
    <2> QED
      BY <2>1, <1>1, <1>2 DEF Guest
  <1> HIDE DEF g
  <1>7. /\ client' \in [Client -> Guest] /\ client'[c] = g /\ \A d \in Client \ {c} : client'[d] = client[d]
        /\ \A d \in Client : client'[d].at = client[d].at /\ client'[d].fit = client[d].fit
                             /\ client'[d].mirror = client[d].mirror /\ client'[d].table = client[d].table
    BY <1>1, <1>2, <1>3, <1>6
  <1>8. knocks' \in [Id -> Seq(Id)] /\ knocks'[c] = Tail(s) /\ \A d \in Client \ {c} : knocks'[d] = knocks[d]
    BY <1>1, <1>2, <1>4 DEF Id
  <1>9. Placed(lobby)' = Placed(lobby)
    BY <1>1 DEF Placed, Seated, SlotsOf
  <1>10. LobbyTypeOK'
    BY <1>1, <1>7, <1>8 DEF LobbyTypeOK
  <1>11. OnePlace'
    BY <1>1 DEF OnePlace, Seated, SlotsOf
  <1>12. Upward'
    BY <1>1, <1>7, <1>9 DEF Upward, Refused
  <1>13. Whereabouts'
    <2> SUFFICES ASSUME NEW d \in Client
                 PROVE  /\ client'[d].at = "away" =>
                             up[d] = <<>> /\ down[d] = <<>> /\ d \notin Placed(lobby) /\ client'[d].mirror = NoLobby
                        /\ client'[d].at = "playing" => host.at = "playing"
                        /\ client'[d].at # "playing" => client'[d].links = "none"
                        /\ host.at = "lobby" /\ client'[d].at = "menu" =>
                             IF up[d] = <<>> THEN d \notin Placed(lobby) ELSE up[d][Len(up[d])].kind = "lost"
      BY <1>1, <1>9 DEF Whereabouts
    <2>1. client'[d].at # "playing" => client'[d].links = "none"
      BY <1>6, <1>7 DEF Whereabouts
    <2> QED
      BY <2>1, <1>7 DEF Whereabouts
  <1>14. Streams'
    <2> SUFFICES ASSUME NEW d \in Client, client'[d].at = "lobby"
                 PROVE  /\ Latest(down'[d], lobby', client'[d].mirror)
                        /\ Endings(down'[d], lobby', host'.at)
                        /\ host'.at = "lobby" => Asked(d, down'[d], up'[d], client'[d].mirror)
      BY DEF Streams, Latest, Endings, Asked, Table, Placed, Seated, SlotsOf
    <2> QED
      BY <1>1, <1>7 DEF Streams
  <1>15. Playing'
    <2>1. Table(lobby)' = Table(lobby)
      BY <1>1, <1>9 DEF Table
    <2> QED
      BY <2>1, <1>1, <1>7 DEF Playing
  <1>16. \A x \in Id : InGame(x)' <=> InGame(x)
    BY <1>1, <1>7 DEF InGame, Id
  <1>17. Placed(lobby) \subseteq Id /\ \A d \in Client : Range(knocks[d]) \subseteq Id
    BY <1>2, Parts, ElementOfSeq DEF Range, Id
  <1>18. Dialed'
    <2> SUFFICES ASSUME NEW d \in Client
                 PROVE  /\ IsInjective(knocks'[d])
                        /\ \A x \in Range(knocks'[d]) : x < d /\ InGame(x)'
                        /\ client'[d].links = "linking" =>
                             /\ lobby.mode = "decentralized"
                             /\ client'[d].expects \subseteq Placed(lobby)
                             /\ \A x \in Placed(lobby) :
                                  x < d => x \in client'[d].expects \/ (InGame(x)' /\ x \notin Range(knocks'[d]))
      BY <1>1, <1>9 DEF Dialed
    <2>1. CASE d # c
      BY <2>1, <1>7, <1>8, <1>16, <1>17 DEF Dialed
    <2>2. CASE d = c
      <3>1. IsInjective(knocks'[c]) /\ \A x \in Range(knocks'[c]) : x < c /\ InGame(x)'
        BY <1>4, <1>8, <1>16, <1>17 DEF Dialed, s
      <3>2. lobby.mode = "decentralized" /\ rest \subseteq Placed(lobby)
        BY <1>1 DEF Dialed
      <3>3. ASSUME NEW x \in Placed(lobby), x < c, x \notin rest
            PROVE  InGame(x)' /\ x \notin Range(knocks'[c])
        <4>1. CASE x = p
          BY <4>1, <1>4, <1>5, <1>8, <1>16
        <4>2. CASE x # p
          <5>1. x \notin client[c].expects
            BY <4>2, <3>3
          <5>2. InGame(x) /\ x \notin Range(s)
            BY <5>1, <3>3, <1>1 DEF Dialed, s
          <5> QED
            BY <5>2, <1>4, <1>8, <1>16, <1>17
        <4> QED
          BY <4>1, <4>2
      <3> HIDE DEF rest
      <3> QED
        BY <2>2, <3>1, <3>2, <3>3, <1>6, <1>7
    <2> QED
      BY <2>1, <2>2
  <1>19. MeshForms'
    <2> SUFFICES ASSUME \A d \in Client : client[d].at = "playing" => d \in Placed(lobby),
                        NEW d \in Placed(lobby) \cap Client, client'[d].links = "failed"
                 PROVE  \E e \in Placed(lobby) \cap Client : client[e].at = "menu"
      BY <1>7, <1>9 DEF MeshForms
    <2>1. CASE d # c
      BY <2>1, <1>7 DEF MeshForms
    <2>2. CASE d = c
      <3>1. p \notin client[c].expects
        BY <2>2, <1>6, <1>7
      <3>2. p \in Placed(lobby)
        BY <1>5 DEF InGame, Whereabouts, Id
      <3>3. p \in client[c].expects \/ p \notin Range(s)
        BY <3>2, <1>1, <1>5 DEF Dialed, s
      <3> QED
        BY <3>1, <3>3, <1>4
    <2> QED
      BY <2>1, <2>2
  <1> QED
    BY <1>10, <1>11, <1>12, <1>13, <1>14, <1>15, <1>18, <1>19

\* A client's links time out.
LEMMA GiveUpInv ==
  ASSUME LobbyIInv, NEW c \in Client, GiveUp(c)
  PROVE  LobbyIInv'
  <1> USE DEF LobbyIInv
  <1> DEFINE g == [client[c] EXCEPT !.links = "failed"]
  <1>1. /\ client[c].at = "playing" /\ client[c].links = "linking" /\ client' = [client EXCEPT ![c] = g]
        /\ \E n \in client[c].expects : NeverDials(n, c) /\ n \notin Range(knocks[c])
        /\ UNCHANGED <<lobby, ports, host, up, down, knocks, edits, asks>>
    BY DEF GiveUp
  <1>2. client \in [Client -> Guest] /\ client[c] \in Guest /\ knocks \in [Id -> Seq(Id)] /\ lobby \in Place
    BY DEF LobbyTypeOK
  <1>3. g \in Guest /\ g.at = "playing" /\ g.fit = client[c].fit /\ g.mirror = client[c].mirror
        /\ g.table = client[c].table /\ g.links = "failed"
    BY <1>1, <1>2 DEF Guest, Link
  <1> HIDE DEF g
  <1>4. /\ client' \in [Client -> Guest] /\ client'[c] = g /\ \A d \in Client \ {c} : client'[d] = client[d]
        /\ \A d \in Client : client'[d].at = client[d].at /\ client'[d].fit = client[d].fit
                             /\ client'[d].mirror = client[d].mirror /\ client'[d].table = client[d].table
    BY <1>1, <1>2, <1>3
  <1>5. Placed(lobby)' = Placed(lobby)
    BY <1>1 DEF Placed, Seated, SlotsOf
  <1>6. LobbyTypeOK'
    BY <1>1, <1>4 DEF LobbyTypeOK
  <1>7. OnePlace'
    BY <1>1 DEF OnePlace, Seated, SlotsOf
  <1>8. Upward'
    BY <1>1, <1>4, <1>5 DEF Upward, Refused
  <1>9. Whereabouts'
    <2>1. \A d \in Client : client'[d].at # "playing" => client'[d].links = "none"
      BY <1>3, <1>4 DEF Whereabouts
    <2> QED
      BY <2>1, <1>1, <1>4, <1>5 DEF Whereabouts
  <1>10. Streams'
    <2> SUFFICES ASSUME NEW d \in Client, client'[d].at = "lobby"
                 PROVE  /\ Latest(down'[d], lobby', client'[d].mirror)
                        /\ Endings(down'[d], lobby', host'.at)
                        /\ host'.at = "lobby" => Asked(d, down'[d], up'[d], client'[d].mirror)
      BY DEF Streams, Latest, Endings, Asked, Table, Placed, Seated, SlotsOf
    <2> QED
      BY <1>1, <1>4 DEF Streams
  <1>11. Playing'
    <2>1. Table(lobby)' = Table(lobby)
      BY <1>1, <1>5 DEF Table
    <2> QED
      BY <2>1, <1>1, <1>4 DEF Playing
  <1>12. Dialed'
    <2>1. \A x \in Id : InGame(x)' <=> InGame(x)
      BY <1>1, <1>4 DEF InGame, Id
    <2>2. Placed(lobby) \subseteq Id /\ \A d \in Client : Range(knocks[d]) \subseteq Id
      BY <1>2, Parts, ElementOfSeq DEF Range, Id
    <2>3. \A d \in Client : client'[d].links = "linking" => client'[d] = client[d]
      BY <1>3, <1>4
    <2> QED
      BY <2>1, <2>2, <2>3, <1>1, <1>5 DEF Dialed
  <1>13. MeshForms'
    <2> SUFFICES ASSUME \A d \in Client : client[d].at = "playing" => d \in Placed(lobby),
                        NEW d \in Placed(lobby) \cap Client, client'[d].links = "failed"
                 PROVE  \E e \in Placed(lobby) \cap Client : client[e].at = "menu"
      BY <1>4, <1>5 DEF MeshForms
    <2>1. CASE d # c
      BY <2>1, <1>4 DEF MeshForms
    <2>2. CASE d = c
      <3>1. PICK n \in client[c].expects : NeverDials(n, c)
        BY <1>1
      <3>2. lobby.mode = "decentralized" /\ n \in Placed(lobby) /\ n \in Id
        BY <1>1, <1>2, <3>1, Parts DEF Dialed
      <3>3. n # Host
        BY <3>1, <1>1 DEF NeverDials, Whereabouts
      <3>4. ~(client[n].at = "playing" /\ c \notin client[n].table)
        BY <2>2, <3>2, <3>3 DEF Playing, Table, Id
      <3> QED
        BY <3>1, <3>2, <3>3, <3>4 DEF NeverDials, Id
    <2> QED
      BY <2>1, <2>2
  <1> QED
    BY <1>6, <1>7, <1>8, <1>9, <1>10, <1>11, <1>12, <1>13
-----------------------------------------------------------------------------
(* The theorems.                                                            *)

\* Every step keeps the invariant.
LEMMA NextIInv ==
  ASSUME LobbyIInv, [LobbyNext]_lobbyVars
  PROVE  LobbyIInv'
  <1>1. CASE UNCHANGED lobbyVars
    <2> SUFFICES LobbyTypeOK' /\ OnePlace' /\ Upward' /\ Whereabouts' /\ Streams' /\ Playing' /\ Dialed' /\ MeshForms'
      BY DEF LobbyIInv
    <2> USE <1>1 DEF LobbyIInv, lobbyVars
    <2>1. Placed(lobby)' = Placed(lobby) /\ Table(lobby)' = Table(lobby)
      BY DEF Placed, Seated, SlotsOf, Table
    <2>2. LobbyTypeOK' /\ OnePlace'
      BY DEF LobbyTypeOK, OnePlace, Seated, SlotsOf
    <2>3. Upward' /\ Whereabouts' /\ Playing' /\ MeshForms'
      BY <2>1 DEF Upward, Refused, Whereabouts, Playing, MeshForms
    <2>4. Streams'
      BY DEF Streams, Latest, Endings, Asked, Table, Placed, Seated, SlotsOf
    <2>5. Dialed'
      BY <2>1 DEF Dialed, InGame
    <2> QED
      BY <2>2, <2>3, <2>4, <2>5
  <1>2. CASE HostMoves \/ \E s \in Slot : CycleKind(s)
    BY <1>2, HostEditsInv
  <1>3. CASE HostLeaves
    BY <1>3, HostGoneInv DEF HostLeaves
  <1>4. CASE HostStarts
    BY <1>4, HostStartsInv
  <1>5. ASSUME NEW c \in Client,
               \/ \E fit \in BOOLEAN : Dial(c, fit)
               \/ HostPoll(c) \/ Ask(c) \/ Leave(c) \/ ClientPoll(c) \/ Accept(c) \/ GiveUp(c)
        PROVE  LobbyIInv'
    BY <1>5, DialInv, HostPollInv, AskInv, LeaveInv, PollInv, AcceptInv, GiveUpInv
  <1> QED
    BY <1>1, <1>2, <1>3, <1>4, <1>5 DEF LobbyNext

\* The invariant holds in every reachable state.
THEOREM LobbyInvariant == LobbySpec => []LobbyIInv
  <1>1. LobbyInit => LobbyIInv
    BY InitIInv
  <1>2. LobbyIInv /\ [LobbyNext]_lobbyVars => LobbyIInv'
    BY NextIInv
  <1> QED
    BY <1>1, <1>2, PTL DEF LobbySpec

\* However requests, departures and edits cross, the places are well formed,
\* each client has one at most, and none is left to a client that is gone and
\* has been heard of as gone (LobbyHost::apply).
THEOREM PlacesHold == LobbySpec => []LobbyInv
  <1>1. LobbyIInv => LobbyInv
    BY DEF LobbyIInv, LobbyInv, GoneHoldNone, Whereabouts
  <1> QED
    BY <1>1, LobbyInvariant, PTL

\* A client with nothing left to read, of which the host has nothing left to
\* read, sees the host's places (LobbyHost::poll, LobbyClient::poll).
THEOREM MirrorsCatchUp == LobbySpec => []MirrorsAgree
  <1>1. LobbyIInv => MirrorsAgree
    <2> SUFFICES ASSUME LobbyIInv, host.at = "lobby", NEW c \in Client, client[c].at = "lobby",
                        down[c] = <<>>, up[c] = <<>>
                 PROVE  client[c].mirror = lobby
      BY DEF MirrorsAgree
    <2>1. DOMAIN down[c] = {} /\ DOMAIN up[c] = {}
      OBVIOUS
    <2>2. Latest(down[c], lobby, client[c].mirror) /\ Asked(c, down[c], up[c], client[c].mirror)
      BY DEF LobbyIInv, Streams
    <2>3. client[c].mirror \in {NoLobby, lobby}
      BY <2>1, <2>2 DEF Latest
    <2>4. client[c].mirror # NoLobby
      BY <2>1, <2>2 DEF Asked
    <2> QED
      BY <2>3, <2>4
  <1> QED
    BY <1>1, LobbyInvariant, PTL

\* Whoever plays, plays the host's list of places, and the word of the start or
\* of the end is still on its way to whoever waits (LobbyHost::start); who reads
\* both at once goes to the menu (LobbyClient::poll).
THEOREM AllStartAlike == LobbySpec => []StartsTogether
  <1>1. LobbyIInv => StartsTogether
    <2> SUFFICES ASSUME LobbyIInv PROVE EveryoneStartsAlike /\ StartReachesAll
      BY DEF StartsTogether
    <2>1. EveryoneStartsAlike
      BY DEF LobbyIInv, Playing, EveryoneStartsAlike
    <2>2. ASSUME host.at # "lobby", NEW c \in Client, client[c].at = "lobby", down[c] = <<>>
          PROVE  FALSE
      <3>1. DOMAIN down[c] = {}
        BY <2>2
      <3> QED
        BY <3>1, <2>2 DEF LobbyIInv, Streams, Endings
    <2> QED
      BY <2>1, <2>2 DEF StartReachesAll
  <1> QED
    BY <1>1, LobbyInvariant, PTL

\* Where all who play have a place, the links of a decentralized game fail for
\* a placed client only if another one has gone (mesh_connect).
THEOREM MeshHolds == LobbySpec => []MeshForms
  <1>1. LobbyIInv => MeshForms
    BY DEF LobbyIInv
  <1> QED
    BY <1>1, LobbyInvariant, PTL

\* No step takes away the place of a client that is in the lobby and of the
\* host's build (cycle_kind, LobbyHost::apply).
THEOREM PlacesKept == LobbySpec => PlaceKept
  <1> DEFINE Kept == \A c \in Client : client[c].at = "lobby" /\ client[c].fit /\ c \in Placed(lobby)
                        => c \in Placed(lobby')
  <1>1. ASSUME LobbyIInv, [LobbyNext]_lobbyVars PROVE Kept
    <2>1. lobby \in Place /\ OneEach(lobby) /\ Host \in Id
      BY <1>1, OnePlaceIs DEF LobbyIInv, LobbyTypeOK, Id
    <2>2. CASE lobby' = lobby
      BY <2>2
    <2>3. ASSUME NEW d \in Client, HostPoll(d) PROVE Kept
      <3> DEFINE e == Head(up[d])
      <3>1. up[d] \in Seq(Event) /\ up[d] # <<>> /\ lobby' = Moved(lobby, e)
        BY <2>3, <1>1 DEF HostPoll, Takes, LobbyIInv, LobbyTypeOK
      <3>2. e \in Event /\ e = up[d][1] /\ 1 \in DOMAIN up[d]
        BY <3>1, Rest
      <3>3. /\ e.from = d /\ (e.kind = "connected" => d \notin Placed(lobby))
            /\ (e.kind = "lost" => client[d].at = "menu") /\ (Refused(e) => ~client[d].fit)
        BY <3>2, <1>1 DEF LobbyIInv, Upward
      <3> HIDE DEF e
      <3>4. \A v : v = Moved(lobby, e) =>
              /\ About(lobby, e.from, v)
              /\ ~(Refused(e) \/ e.kind = "lost") /\ e.from \in Placed(lobby) => e.from \in Placed(v)
        BY <2>1, <3>2, <3>3, MovedKeeps
      <3>5. /\ About(lobby, d, lobby')
            /\ ~(Refused(e) \/ e.kind = "lost") /\ d \in Placed(lobby) => d \in Placed(lobby')
        BY <3>1, <3>3, <3>4
      <3> QED
        BY <3>3, <3>5 DEF About, Id
    <2>4. ASSUME HostMoves PROVE Kept
      <3>1. About(lobby, Host, lobby')
        BY <2>1, <2>4, AdmitKeeps, SeatWatcherKeeps DEF HostMoves, Edit
      <3> QED
        BY <3>1, Numbers DEF About, Id
    <2>5. ASSUME NEW s \in Slot, CycleKind(s) PROVE Kept
      <3>1. Placed(lobby') = Placed(lobby)
        BY <2>1, <2>5, CycleKeeps DEF CycleKind, Edit
      <3> QED
        BY <3>1
    <2> QED
      BY <1>1, <2>2, <2>3, <2>4, <2>5
      DEF LobbyNext, lobbyVars, HostLeaves, HostStarts, Dial, Ask, Leave, ClientPoll, Accept, GiveUp
  <1> QED
    BY <1>1, LobbyInvariant, PTL DEF LobbySpec, PlaceKept

-----------------------------------------------------------------------------
(***************************************************************************)
(* The game.                                                               *)
(***************************************************************************)

USE IdleAssumption, LockstepAssumption

-----------------------------------------------------------------------------
(***************************************************************************)
(* Facts about the operators on stores.                                    *)
(***************************************************************************)

\* A recorded batch keeps a store a store (push_frame).
LEMMA PushFramesType ==
  ASSUME NEW store \in SUBSET PlayerFrame, NEW batch \in SUBSET PlayerFrame
  PROVE  PushFrames(store, batch) \in SUBSET PlayerFrame
  BY DEF PushFrames

\* What a ready tick executes is one command list for each required player.
LEMMA ReadyCommandsType ==
  ASSUME NEW store \in SUBSET PlayerFrame, NEW t \in Nat,
         NEW S \in SUBSET Player, IsReady(store, t, S)
  PROVE  /\ ReadyCommands(store, t, S) \in [S -> Command]
         /\ \A p \in S : Frame(p, t, ReadyCommands(store, t, S)[p]) \in store
  <1>1. ASSUME NEW p \in S
        PROVE  LET f == CHOOSE g \in store : g.player = p /\ g.tick = t
               IN  f.commands \in Command /\ Frame(p, t, f.commands) \in store
    <2> DEFINE f == CHOOSE g \in store : g.player = p /\ g.tick = t
    <2>1. \E g \in store : g.player = p /\ g.tick = t
      BY DEF IsReady, HasFrame
    <2>2. f \in store /\ f.player = p /\ f.tick = t
      BY <2>1
    <2>3. f = [player |-> p, tick |-> t, commands |-> f.commands]
      BY <2>2 DEF PlayerFrame
    <2> QED
      BY <2>2, <2>3 DEF PlayerFrame, Frame
  <1> QED
    BY <1>1 DEF ReadyCommands

\* A batch of one node's frames recorded into a store that agrees with it
\* leaves at most one frame for each player and tick.
LEMMA PushFramesUnique ==
  ASSUME NEW store \in SUBSET PlayerFrame, NEW batch \in SUBSET PlayerFrame,
         \A f, g \in store : SameKey(f, g) => f = g,
         \A f, g \in batch : SameKey(f, g) => f = g
  PROVE  \A f, g \in PushFrames(store, batch) : SameKey(f, g) => f = g
  BY DEF PushFrames, HasFrame, SameKey

-----------------------------------------------------------------------------
(***************************************************************************)
(* Types.                                                                  *)
(***************************************************************************)

\* What one flush commits are frames of the node's own players.
LEMMA FlushedType ==
  ASSUME TypeOK, NEW n \in Node, NEW choice \in [Sourced(n) -> Command]
  PROVE  Flushed(n, choice) \in SUBSET PlayerFrame
  BY DEF Flushed, Frame, PlayerFrame, Sourced, TypeOK

\* Types survive a step.
LEMMA TypeStep == TypeOK /\ [Next]_vars => TypeOK'
  <1> SUFFICES ASSUME TypeOK, [Next]_vars PROVE TypeOK'
    OBVIOUS
  <1>1. ASSUME NEW n \in Node, FixedStep(n) PROVE TypeOK'
    <2>1. PICK choice \in [Sourced(n) -> Command] :
            LET store == PushFrames(frames[n], Flushed(n, choice))
            IN /\ frames' = [frames EXCEPT ![n] = store]
               /\ conflict' = (conflict \/ \E f \in Flushed(n, choice) :
                                               Conflicts(frames[n], f))
               /\ Broadcast(n, Window(n, store))
               /\ Execute(n, store)
      BY <1>1 DEF FixedStep
    <2> DEFINE store == PushFrames(frames[n], Flushed(n, choice))
    <2>2. store \in SUBSET PlayerFrame
      BY FlushedType, PushFramesType DEF TypeOK
    <2> HIDE DEF store
    <2>3. frames' \in [Node -> SUBSET PlayerFrame]
      BY <2>1, <2>2 DEF TypeOK, store
    <2>4. conflict' \in BOOLEAN
      BY <2>1 DEF TypeOK
    <2>5. net' \subseteq Datagram
      <3>1. Window(n, store) \subseteq PlayerFrame
        BY <2>2 DEF Window, FramesInRange
      <3>2. Broadcast(n, Window(n, store))
        BY <2>1 DEF store
      <3> QED
        BY <3>1, <3>2 DEF Broadcast, Datagram, TypeOK
    <2>6. /\ tick' \in [Node -> Nat]
          /\ state' \in [Node -> {"running", "blocked"}]
          /\ executed' \in [Node -> Seq(Input)]
      <3>1. Execute(n, store)
        BY <2>1 DEF store
      <3>2. CASE IsReady(store, tick[n], RequiredPlayers(n))
        <4>1. RequiredPlayers(n) \in SUBSET Player /\ tick[n] \in Nat
          BY DEF RequiredPlayers, TypeOK
        <4>2. ReadyCommands(store, tick[n], RequiredPlayers(n))
                \in [RequiredPlayers(n) -> Command]
          BY <2>2, <3>2, <4>1, ReadyCommandsType
        <4>3. ReadyCommands(store, tick[n], RequiredPlayers(n)) \in Input
          BY <4>1, <4>2 DEF Input
        <4>4. executed[n] \in Seq(Input)
          BY DEF TypeOK
        <4>5. Append(executed[n], ReadyCommands(store, tick[n], RequiredPlayers(n)))
                \in Seq(Input)
          BY <4>3, <4>4
        <4>6. executed' \in [Node -> Seq(Input)]
          BY <3>1, <3>2, <4>5, Zenon DEF Execute, TypeOK
        <4>7. tick' \in [Node -> Nat]
          <5>1. tick' = [tick EXCEPT ![n] = @ + 1]
            BY <3>1, <3>2, Zenon DEF Execute
          <5> QED
            BY <5>1 DEF TypeOK
        <4>8. state' \in [Node -> {"running", "blocked"}]
          <5>1. state' = [state EXCEPT ![n] = "running"]
            BY <3>1, <3>2, Zenon DEF Execute
          <5> QED
            BY <5>1 DEF TypeOK
        <4> QED
          BY <4>6, <4>7, <4>8
      <3>3. CASE ~IsReady(store, tick[n], RequiredPlayers(n))
        BY <3>1, <3>3 DEF Execute, TypeOK
      <3> QED
        BY <3>2, <3>3
    <2> QED
      BY <2>3, <2>4, <2>5, <2>6 DEF TypeOK
  <1>2. ASSUME NEW n \in Node, NEW d \in net, Receive(n, d) PROVE TypeOK'
    <2>1. d.frames \in SUBSET PlayerFrame
      BY DEF TypeOK, Datagram
    <2>2. PushFrames(frames[n], d.frames) \in SUBSET PlayerFrame
      BY <2>1, PushFramesType DEF TypeOK
    <2> QED
      BY <1>2, <2>2 DEF Receive, TypeOK
  <1>3. ASSUME NEW d \in net, Lose(d) PROVE TypeOK'
    BY <1>3 DEF Lose, TypeOK
  <1>4. CASE UNCHANGED vars
    BY <1>4 DEF vars, TypeOK
  <1> QED
    BY <1>1, <1>2, <1>3, <1>4 DEF Next

\* The initial values have their types.
LEMMA InitType == Init => TypeOK
  <1>1. ASSUME NEW f \in WarmupFrames PROVE f \in PlayerFrame
    <2>1. PICK p \in Player, t \in 0 .. (SyncLatency - 1) : f = Frame(p, t, Idle)
      BY DEF WarmupFrames
    <2>2. t \in Nat
      OBVIOUS
    <2>3. Frame(p, t, Idle) \in PlayerFrame
      BY <2>2 DEF Frame, PlayerFrame
    <2> QED
      BY <2>1, <2>3
  <1>2. <<>> \in Seq(Input)
    OBVIOUS
  <1>3. WarmupFrames \in SUBSET PlayerFrame
    BY <1>1
  <1>4. Init => frames \in [Node -> SUBSET PlayerFrame]
    BY <1>3 DEF Init
  <1>5. Init => executed \in [Node -> Seq(Input)]
    BY <1>2 DEF Init
  <1>6. Init => tick \in [Node -> Nat] /\ state \in [Node -> {"running", "blocked"}]
    BY DEF Init
  <1>7. Init => net \subseteq Datagram /\ conflict \in BOOLEAN
    BY DEF Init
  <1> QED
    BY <1>4, <1>5, <1>6, <1>7 DEF TypeOK

\* Every variable keeps the shape of the resource it stands for, in a match of
\* any size (GameSession, InputFrames and the transports).
THEOREM TypeCorrect == Spec => []TypeOK
  BY InitType, TypeStep, PTL DEF Spec

-----------------------------------------------------------------------------
(***************************************************************************)
(* The inductive invariant.                                                *)
(***************************************************************************)

\* A flush commits, for players of this node only, frames for the tick
\* SyncLatency ahead that were not committed before (flush_input).
LEMMA FlushedFacts ==
  ASSUME TypeOK, NEW n \in Node, NEW choice \in [Sourced(n) -> Command]
  PROVE  /\ \A f \in Flushed(n, choice) :
               /\ NodeOf[f.player] = n
               /\ f.tick = tick[n] + SyncLatency
               /\ ~HasFrame(frames[n], f.player, f.tick)
         /\ \A f, g \in Flushed(n, choice) : SameKey(f, g) => f = g
  BY DEF Flushed, Frame, Sourced, SameKey

\* A step of a node grows its own store by what it flushes and nothing else,
\* and moves its tick by at most one.
LEMMA FixedStepFacts ==
  ASSUME TypeOK, NEW n \in Node, FixedStep(n)
  PROVE  \E choice \in [Sourced(n) -> Command] :
           LET store == PushFrames(frames[n], Flushed(n, choice))
           IN /\ frames' = [frames EXCEPT ![n] = store]
              /\ conflict' = (conflict \/ \E f \in Flushed(n, choice) :
                                            Conflicts(frames[n], f))
              /\ net' \subseteq net \cup {[from |-> n, frames |-> Window(n, store)]}
              /\ \/ /\ tick' = tick
                    /\ executed' = executed
                 \/ /\ IsReady(store, tick[n], RequiredPlayers(n))
                    /\ tick' = [tick EXCEPT ![n] = @ + 1]
                    /\ executed' = [executed EXCEPT ![n] =
                         Append(@, ReadyCommands(store, tick[n], RequiredPlayers(n)))]
  BY DEF FixedStep, Broadcast, Execute

\* Spread and genuineness survive a step of one node.
LEMMA FixedStepInv ==
  ASSUME LockstepInv, NEW n \in Node, FixedStep(n), TypeOK'
  PROVE  LockstepInv'
  <1> USE DEF LockstepInv
  <1>1. PICK choice \in [Sourced(n) -> Command] :
          LET store == PushFrames(frames[n], Flushed(n, choice))
          IN /\ frames' = [frames EXCEPT ![n] = store]
             /\ conflict' = (conflict \/ \E f \in Flushed(n, choice) :
                                           Conflicts(frames[n], f))
             /\ net' \subseteq net \cup {[from |-> n, frames |-> Window(n, store)]}
             /\ \/ /\ tick' = tick
                   /\ executed' = executed
                \/ /\ IsReady(store, tick[n], RequiredPlayers(n))
                   /\ tick' = [tick EXCEPT ![n] = @ + 1]
                   /\ executed' = [executed EXCEPT ![n] =
                        Append(@, ReadyCommands(store, tick[n], RequiredPlayers(n)))]
    BY FixedStepFacts
  <1> DEFINE fresh == Flushed(n, choice)
             store == PushFrames(frames[n], fresh)
             required == RequiredPlayers(n)
             ran == ReadyCommands(store, tick[n], required)
  <1>2. /\ \A f \in fresh : /\ NodeOf[f.player] = n
                            /\ f.tick = tick[n] + SyncLatency
                            /\ ~HasFrame(frames[n], f.player, f.tick)
        /\ \A f, g \in fresh : SameKey(f, g) => f = g
    BY FlushedFacts
  <1>3. /\ fresh \in SUBSET PlayerFrame
        /\ frames[n] \in SUBSET PlayerFrame
        /\ store \in SUBSET PlayerFrame
        /\ tick[n] \in Nat
    BY FlushedType, PushFramesType DEF TypeOK
  <1>4. frames[n] \subseteq store /\ store \subseteq frames[n] \cup fresh
    BY DEF PushFrames
  <1> HIDE DEF fresh
  <1>5. \A m \in Node : frames'[m] = IF m = n THEN store ELSE frames[m]
    BY <1>1 DEF TypeOK, fresh
  <1>6. \A m \in Node : frames[m] \subseteq frames'[m]
    BY <1>4, <1>5
  <1>7. /\ net' \subseteq net \cup {[from |-> n, frames |-> Window(n, store)]}
        /\ Window(n, store) \subseteq store
    BY <1>1 DEF fresh, Window, FramesInRange
  <1>8. \/ /\ tick' = tick
           /\ executed' = executed
        \/ /\ IsReady(store, tick[n], required)
           /\ tick' = [tick EXCEPT ![n] = @ + 1]
           /\ executed' = [executed EXCEPT ![n] = Append(@, ran)]
    BY <1>1 DEF fresh
  <1>9. required = {p \in Player : tick[n] < OutFrom[p]}
    BY <1>3 DEF RequiredPlayers, IsPlayerRequired, KnowsOut
  <1> HIDE DEF store, required, ran
  <1>10. \A m \in Node : tick[m] \in Nat /\ tick'[m] \in Nat /\ tick[m] <= tick'[m]
    <2>1. tick' = tick \/ tick' = [tick EXCEPT ![n] = @ + 1]
      BY <1>8
    <2>2. tick \in [Node -> Nat]
      BY DEF TypeOK
    <2> QED
      BY <2>1, <2>2
  <1>11. InputImmutable'
    <2>1. \A f \in fresh : ~Conflicts(frames[n], f)
      BY <1>2 DEF Conflicts, HasFrame, SameKey
    <2> QED
      BY <1>1, <2>1 DEF InputImmutable, fresh
  <1>12. \A m \in Node : \A f \in frames'[m] : f \in frames'[NodeOf[f.player]]
    <2> SUFFICES ASSUME NEW m \in Node, NEW f \in frames'[m]
                 PROVE  f \in frames'[NodeOf[f.player]]
      OBVIOUS
    <2>1. f \in PlayerFrame /\ NodeOf[f.player] \in Node
      BY DEF TypeOK, PlayerFrame
    <2>2. CASE f \in frames[m]
      BY <2>1, <2>2, <1>6 DEF FramesGenuine, Genuine
    <2>3. CASE f \notin frames[m]
      BY <2>3, <1>2, <1>4, <1>5
    <2> QED
      BY <2>2, <2>3
  <1>13. FramesGenuine'
    <2>1. ASSUME NEW d \in net', NEW f \in d.frames
          PROVE  f \in frames'[NodeOf[f.player]]
      <3>1. CASE d \in net
        <4>1. f \in frames[NodeOf[f.player]]
          BY <3>1 DEF FramesGenuine, Genuine
        <4>2. NodeOf[f.player] \in Node
          BY <3>1 DEF TypeOK, Datagram, PlayerFrame
        <4> QED
          BY <4>1, <4>2, <1>6
      <3>2. CASE d \notin net
        <4>1. f \in store
          BY <3>2, <1>7
        <4> QED
          BY <4>1, <1>5, <1>12
      <3> QED
        BY <3>1, <3>2
    <2> QED
      BY <2>1, <1>12 DEF FramesGenuine, Genuine
  <1>14. FramesUnique'
    <2>1. \A f, g \in store : SameKey(f, g) => f = g
      BY <1>2, <1>3, PushFramesUnique DEF FramesUnique, store
    <2> QED
      BY <2>1, <1>5 DEF FramesUnique, SameKey
  <1>15. FramesNear'
    <2> SUFFICES ASSUME NEW m \in Node, NEW f \in frames'[m]
                 PROVE  f.tick <= tick'[NodeOf[f.player]] + SyncLatency
      BY DEF FramesNear
    <2>1. /\ f.tick \in Nat
          /\ NodeOf[f.player] \in Node
      BY DEF TypeOK, PlayerFrame
    <2>2. CASE f \in frames[m]
      BY <2>1, <2>2, <1>10 DEF FramesNear
    <2>3. CASE f \notin frames[m]
      <3>1. f \in fresh
        BY <2>3, <1>4, <1>5
      <3> QED
        BY <3>1, <1>2, <1>10
    <2> QED
      BY <2>2, <2>3
  <1>16. CASE tick' = tick /\ executed' = executed
    <2>1. ExecutedGenuine'
      BY <1>16, <1>6 DEF ExecutedGenuine
    <2>2. SpreadBound'
      BY <1>16 DEF SpreadBound
    <2> QED
      BY <2>1, <2>2, <1>11, <1>13, <1>14, <1>15
  <1>17. CASE /\ IsReady(store, tick[n], required)
              /\ tick' = [tick EXCEPT ![n] = @ + 1]
              /\ executed' = [executed EXCEPT ![n] = Append(@, ran)]
    <2>1. /\ ran \in [required -> Command]
          /\ \A p \in required : Frame(p, tick[n], ran[p]) \in store
      <3>1. required \in SUBSET Player
        BY <1>9
      <3>2. IsReady(store, tick[n], required)
        BY <1>17
      <3> QED
        BY <1>3, <3>1, <3>2, ReadyCommandsType DEF ran
    <2>2. \A p \in required : Frame(p, tick[n], ran[p]) \in frames'[NodeOf[p]]
      BY <2>1, <1>5, <1>12 DEF Frame
    <2>3. ExecutedGenuine'
      <3> SUFFICES ASSUME NEW m \in Node
                   PROVE /\ Len(executed'[m]) = tick'[m]
                         /\ \A i \in 1 .. Len(executed'[m]) :
                              /\ DOMAIN executed'[m][i] = {p \in Player : i <= OutFrom[p]}
                              /\ \A p \in DOMAIN executed'[m][i] :
                                   Frame(p, i - 1, executed'[m][i][p]) \in frames'[NodeOf[p]]
        BY DEF ExecutedGenuine
      <3>1. /\ Len(executed[m]) = tick[m]
            /\ \A i \in 1 .. Len(executed[m]) :
                 /\ DOMAIN executed[m][i] = {p \in Player : i <= OutFrom[p]}
                 /\ \A p \in DOMAIN executed[m][i] :
                      Frame(p, i - 1, executed[m][i][p]) \in frames'[NodeOf[p]]
        BY <1>6 DEF ExecutedGenuine
      <3>2. CASE m # n
        <4>1. executed'[m] = executed[m] /\ tick'[m] = tick[m]
          BY <3>2, <1>17 DEF TypeOK
        <4> QED
          BY <4>1, <3>1
      <3>3. CASE m = n
        <4> DEFINE old == executed[n]
        <4>1. executed'[m] = Append(old, ran) /\ tick'[m] = tick[n] + 1
          BY <3>3, <1>17 DEF TypeOK
        <4>2. old \in Seq(Input)
          BY DEF TypeOK
        <4>3. /\ Len(Append(old, ran)) = tick[n] + 1
              /\ \A i \in 1 .. Len(old) : Append(old, ran)[i] = old[i]
              /\ Append(old, ran)[tick[n] + 1] = ran
          BY <4>2, <3>1, <3>3
        <4>4. DOMAIN ran = {p \in Player : tick[n] + 1 <= OutFrom[p]}
          BY <2>1, <1>3, <1>9
        <4> HIDE DEF old
        <4>5. ASSUME NEW i \in 1 .. (tick[n] + 1)
              PROVE  /\ DOMAIN Append(old, ran)[i] = {p \in Player : i <= OutFrom[p]}
                     /\ \A p \in DOMAIN Append(old, ran)[i] :
                          Frame(p, i - 1, Append(old, ran)[i][p]) \in frames'[NodeOf[p]]
          <5>1. CASE i = tick[n] + 1
            <6>1. Append(old, ran)[i] = ran /\ i - 1 = tick[n]
              BY <5>1, <4>3, <1>3
            <6>2. DOMAIN ran = required
              BY <2>1
            <6> QED
              BY <5>1, <6>1, <6>2, <4>4, <2>2
          <5>2. CASE i # tick[n] + 1
            <6>1. i \in 1 .. Len(old)
              BY <5>2, <3>1, <3>3, <1>3 DEF old
            <6> QED
              BY <6>1, <4>3, <3>1, <3>3 DEF old
          <5> QED
            BY <5>1, <5>2
        <4> QED
          BY <4>1, <4>3, <4>5
      <3> QED
        BY <3>2, <3>3
    <2>4. SpreadBound'
      <3> SUFFICES ASSUME NEW m \in Node, NEW p \in Player, tick'[m] <= OutFrom[p]
                   PROVE  tick'[m] <= tick'[NodeOf[p]] + SyncLatency + 1
        BY DEF SpreadBound
      <3>1. NodeOf[p] \in Node /\ OutFrom[p] \in Nat
        OBVIOUS
      <3>2. CASE m # n
        BY <3>1, <3>2, <1>10, <1>17 DEF SpreadBound, TypeOK
      <3>3. CASE m = n
        <4>1. tick'[m] = tick[n] + 1 /\ p \in required
          BY <3>1, <3>3, <1>3, <1>9, <1>17 DEF TypeOK
        <4>2. Frame(p, tick[n], ran[p]) \in frames'[NodeOf[p]]
          BY <4>1, <2>2
        <4>3. tick[n] <= tick'[NodeOf[p]] + SyncLatency
          BY <4>2, <3>1, <1>15 DEF FramesNear, Frame
        <4> QED
          BY <4>1, <4>3, <3>1, <1>3, <1>10
      <3> QED
        BY <3>2, <3>3
    <2> QED
      BY <2>3, <2>4, <1>11, <1>13, <1>14, <1>15
  <1> QED
    BY <1>8, <1>16, <1>17

\* Recording a datagram of genuine frames changes no frame a node holds.
LEMMA ReceiveInv ==
  ASSUME LockstepInv, NEW n \in Node, NEW d \in net, Receive(n, d), TypeOK'
  PROVE  LockstepInv'
  <1> USE DEF LockstepInv
  <1>1. /\ frames' = [frames EXCEPT ![n] = PushFrames(@, d.frames)]
        /\ conflict' = (conflict \/ \E f \in d.frames : Conflicts(frames[n], f))
        /\ UNCHANGED <<tick, net, executed>>
    BY DEF Receive
  <1> DEFINE store == PushFrames(frames[n], d.frames)
  <1>2. /\ d.frames \in SUBSET PlayerFrame
        /\ frames[n] \in SUBSET PlayerFrame
        /\ store \in SUBSET PlayerFrame
    BY PushFramesType DEF TypeOK, Datagram
  <1>3. frames[n] \subseteq store /\ store \subseteq frames[n] \cup d.frames
    BY DEF PushFrames
  <1>4. \A f \in d.frames \cup frames[n] : /\ NodeOf[f.player] \in Node
                                           /\ f \in frames[NodeOf[f.player]]
    BY <1>2 DEF FramesGenuine, Genuine, PlayerFrame
  <1>5. \A f, g \in d.frames \cup frames[n] : SameKey(f, g) => f = g
    BY <1>4 DEF FramesUnique, SameKey
  <1>6. \A m \in Node : frames'[m] = IF m = n THEN store ELSE frames[m]
    BY <1>1 DEF TypeOK
  <1>7. \A m \in Node : frames[m] \subseteq frames'[m]
    BY <1>3, <1>6
  <1> HIDE DEF store
  <1>8. InputImmutable'
    BY <1>1, <1>5 DEF InputImmutable, Conflicts, SameKey
  <1>9. FramesGenuine'
    <2>1. \A m \in Node : \A f \in frames'[m] : f \in frames'[NodeOf[f.player]]
      <3> SUFFICES ASSUME NEW m \in Node, NEW f \in frames'[m]
                   PROVE  f \in frames'[NodeOf[f.player]]
        OBVIOUS
      <3>1. CASE f \in frames[m]
        <4>1. f \in frames[NodeOf[f.player]] /\ NodeOf[f.player] \in Node
          BY <3>1 DEF FramesGenuine, Genuine, TypeOK, PlayerFrame
        <4> QED
          BY <4>1, <1>7
      <3>2. CASE f \notin frames[m]
        <4>1. f \in d.frames
          BY <3>2, <1>3, <1>6
        <4> QED
          BY <4>1, <1>4, <1>7
      <3> QED
        BY <3>1, <3>2
    <2>2. ASSUME NEW e \in net, NEW f \in e.frames
          PROVE  f \in frames'[NodeOf[f.player]]
      <3>1. f \in frames[NodeOf[f.player]] /\ NodeOf[f.player] \in Node
        BY DEF FramesGenuine, Genuine, TypeOK, Datagram, PlayerFrame
      <3> QED
        BY <3>1, <1>7
    <2> QED
      BY <2>1, <2>2, <1>1 DEF FramesGenuine, Genuine
  <1>10. FramesUnique'
    <2>1. \A f, g \in store : SameKey(f, g) => f = g
      BY <1>3, <1>5
    <2> QED
      BY <2>1, <1>6 DEF FramesUnique, SameKey
  <1>11. FramesNear'
    <2> SUFFICES ASSUME NEW m \in Node, NEW f \in frames'[m]
                 PROVE  f.tick <= tick[NodeOf[f.player]] + SyncLatency
      BY <1>1 DEF FramesNear
    <2>1. CASE f \in frames[m]
      BY <2>1 DEF FramesNear
    <2>2. CASE f \notin frames[m]
      <3>1. f \in d.frames
        BY <2>2, <1>3, <1>6
      <3> QED
        BY <3>1, <1>4 DEF FramesNear
    <2> QED
      BY <2>1, <2>2
  <1>12. ExecutedGenuine'
    <2> SUFFICES ASSUME NEW m \in Node, NEW i \in 1 .. Len(executed[m]),
                        NEW p \in DOMAIN executed[m][i]
                 PROVE  Frame(p, i - 1, executed[m][i][p]) \in frames'[NodeOf[p]]
      BY <1>1 DEF ExecutedGenuine
    <2>1. /\ p \in Player
          /\ Frame(p, i - 1, executed[m][i][p]) \in frames[NodeOf[p]]
      BY DEF ExecutedGenuine
    <2> QED
      BY <2>1, <1>7
  <1>13. SpreadBound'
    BY <1>1 DEF SpreadBound
  <1> QED
    BY <1>8, <1>9, <1>10, <1>11, <1>12, <1>13

\* The inductive invariant holds initially: warm-up frames are everywhere.
LEMMA InitInv == Init /\ TypeOK => LockstepInv
  <1> SUFFICES ASSUME Init, TypeOK PROVE LockstepInv
    OBVIOUS
  <1>1. \A n \in Node : frames[n] = WarmupFrames /\ executed[n] = <<>> /\ tick[n] = 0
    BY DEF Init
  <1>2. \A f \in WarmupFrames :
          /\ f.player \in Player
          /\ NodeOf[f.player] \in Node
          /\ f.commands = Idle
          /\ f.tick \in 0 .. (SyncLatency - 1)
          /\ f = Frame(f.player, f.tick, Idle)
    BY DEF WarmupFrames, Frame
  <1>3. InputImmutable
    BY DEF Init, InputImmutable
  <1>4. FramesGenuine
    BY <1>1, <1>2 DEF FramesGenuine, Genuine, Init
  <1>5. FramesUnique
    BY <1>1, <1>2 DEF FramesUnique, SameKey
  <1>6. FramesNear
    BY <1>1, <1>2 DEF FramesNear
  <1>7. ExecutedGenuine
    BY <1>1 DEF ExecutedGenuine
  <1>8. SpreadBound
    BY <1>1 DEF SpreadBound
  <1> QED
    BY <1>3, <1>4, <1>5, <1>6, <1>7, <1>8 DEF LockstepInv

\* Every step preserves the inductive invariant.
LEMMA InvStep == LockstepInv /\ [Next]_vars => LockstepInv'
  <1> SUFFICES ASSUME LockstepInv, [Next]_vars PROVE LockstepInv'
    OBVIOUS
  <1>1. TypeOK'
    BY TypeStep DEF LockstepInv
  <1>2. ASSUME NEW n \in Node, FixedStep(n) PROVE LockstepInv'
    BY <1>1, <1>2, FixedStepInv
  <1>3. ASSUME NEW n \in Node, NEW d \in net, Receive(n, d) PROVE LockstepInv'
    BY <1>1, <1>3, ReceiveInv
  <1>4. ASSUME NEW d \in net, Lose(d) PROVE LockstepInv'
    <2>1. net' \subseteq net /\ UNCHANGED <<tick, state, frames, executed, conflict>>
      BY <1>4 DEF Lose
    <2> QED
      BY <2>1, <1>1 DEF LockstepInv, InputImmutable, FramesGenuine, Genuine,
           FramesUnique, FramesNear, ExecutedGenuine, SpreadBound
  <1>5. CASE UNCHANGED vars
    <2>1. UNCHANGED <<net, tick, state, frames, executed, conflict>>
      BY <1>5 DEF vars
    <2>2. InputImmutable' /\ SpreadBound'
      BY <2>1 DEF LockstepInv, InputImmutable, SpreadBound
    <2>3. FramesUnique' /\ FramesNear'
      BY <2>1 DEF LockstepInv, FramesUnique, FramesNear
    <2>4. FramesGenuine'
      BY <2>1 DEF LockstepInv, FramesGenuine, Genuine
    <2>5. ExecutedGenuine'
      BY <2>1 DEF LockstepInv, ExecutedGenuine
    <2> QED
      BY <1>1, <2>2, <2>3, <2>4, <2>5 DEF LockstepInv
  <1> QED
    BY <1>2, <1>3, <1>4, <1>5 DEF Next

\* The inductive invariant of the input pipeline.
THEOREM InvariantHolds == Spec => []LockstepInv
  <1>1. Init => TypeOK
    BY InitType
  <1>2. Init => LockstepInv
    BY <1>1, InitInv
  <1> QED
    BY <1>2, InvStep, PTL DEF Spec

-----------------------------------------------------------------------------
(***************************************************************************)
(* What follows from it.                                                   *)
(***************************************************************************)

\* However frames are relayed, resent, duplicated, delayed or lost, no node is
\* ever offered two different frames for one player and tick: the debug_assert
\* of InputFrame::record holds in every match (input.rs).
THEOREM ImmutableInput == Spec => []InputImmutable
  <1>1. LockstepInv => InputImmutable
    BY DEF LockstepInv
  <1> QED
    BY <1>1, InvariantHolds, PTL

\* A node is never more than SYNC_LATENCY + 1 ticks ahead of the node of a
\* player it waits for.
THEOREM BoundedSpread == Spec => []SpreadBound
  <1>1. LockstepInv => SpreadBound
    BY DEF LockstepInv
  <1> QED
    BY <1>1, InvariantHolds, PTL

\* Two nodes ran tick i with the frames of the same players, and those frames
\* are the ones the players' own nodes recorded.
LEMMA InvAgree == LockstepInv => ExecutedAgree
  <1> SUFFICES ASSUME LockstepInv, NEW m \in Node, NEW n \in Node,
                      NEW i \in 1 .. Len(executed[m]), i <= Len(executed[n])
               PROVE  executed[m][i] = executed[n][i]
    BY DEF ExecutedAgree
  <1>1. i \in 1 .. Len(executed[n])
    BY DEF LockstepInv, TypeOK
  <1> DEFINE a == executed[m][i]
             b == executed[n][i]
             S == {p \in Player : i <= OutFrom[p]}
  <1>2. /\ DOMAIN a = S
        /\ DOMAIN b = S
        /\ \A p \in S : /\ Frame(p, i - 1, a[p]) \in frames[NodeOf[p]]
                        /\ Frame(p, i - 1, b[p]) \in frames[NodeOf[p]]
    BY <1>1 DEF LockstepInv, ExecutedGenuine
  <1>3. a \in Input /\ b \in Input
    <2>1. executed[m] \in Seq(Input) /\ executed[n] \in Seq(Input)
      BY DEF LockstepInv, TypeOK
    <2> QED
      BY <2>1, <1>1
  <1>4. a = [p \in S |-> a[p]] /\ b = [p \in S |-> b[p]]
    BY <1>2, <1>3 DEF Input
  <1>5. ASSUME NEW p \in S PROVE a[p] = b[p]
    <2>1. NodeOf[p] \in Node
      OBVIOUS
    <2>2. Frame(p, i - 1, a[p]) = Frame(p, i - 1, b[p])
      <3> DEFINE f == Frame(p, i - 1, a[p])
                 g == Frame(p, i - 1, b[p])
      <3>1. f \in frames[NodeOf[p]] /\ g \in frames[NodeOf[p]]
        BY <1>2
      <3>2. SameKey(f, g)
        BY DEF SameKey, Frame
      <3> HIDE DEF f, g
      <3> QED
        BY <2>1, <3>1, <3>2 DEF LockstepInv, FramesUnique, f, g
    <2> QED
      BY <2>2 DEF Frame
  <1> HIDE DEF a, b, S
  <1>6. a = b
    BY <1>4, <1>5
  <1> QED
    BY <1>6 DEF a, b

\* Determinism of the match, for any number of players and nodes, any
\* topology, any latency and any elimination schedule: two nodes that both
\* executed a tick executed it with the same inputs.
THEOREM Agreement == Spec => []ExecutedAgree
  BY InvariantHolds, InvAgree, PTL

\* A step that executes a tick consumes the next input of the abstract
\* promise; every other step stutters.
LEMMA StepRefines ==
  ASSUME LockstepInv, LockstepInv', [Next]_vars
  PROVE  [Abstract!Next]_executed
  <1>1. ASSUME NEW n \in Node, FixedStep(n) PROVE [Abstract!Next]_executed
    <2>1. PICK choice \in [Sourced(n) -> Command] :
            LET store == PushFrames(frames[n], Flushed(n, choice))
            IN executed' = executed \/
               /\ IsReady(store, tick[n], RequiredPlayers(n))
               /\ executed' = [executed EXCEPT ![n] =
                     Append(@, ReadyCommands(store, tick[n], RequiredPlayers(n)))]
      BY <1>1, FixedStepFacts DEF LockstepInv
    <2> DEFINE store == PushFrames(frames[n], Flushed(n, choice))
               ran == ReadyCommands(store, tick[n], RequiredPlayers(n))
    <2>2. CASE executed' = executed
      BY <2>2
    <2>3. CASE /\ IsReady(store, tick[n], RequiredPlayers(n))
               /\ executed' = [executed EXCEPT ![n] = Append(@, ran)]
      <3>1. ran \in Input
        <4>1. RequiredPlayers(n) \in SUBSET Player /\ tick[n] \in Nat
          BY DEF RequiredPlayers, LockstepInv, TypeOK
        <4>2. store \in SUBSET PlayerFrame
          BY FlushedType, PushFramesType DEF LockstepInv, TypeOK
        <4> HIDE DEF store
        <4>3. ran \in [RequiredPlayers(n) -> Command]
          BY <2>3, <4>1, <4>2, ReadyCommandsType
        <4> QED
          BY <4>1, <4>3 DEF Input
      <3> HIDE DEF ran
      <3>2. executed \in [Node -> Seq(Input)]
        BY DEF LockstepInv, TypeOK
      <3>3. /\ executed'[n] = Append(executed[n], ran)
            /\ Len(executed'[n]) = Len(executed[n]) + 1
            /\ executed'[n][Len(executed[n]) + 1] = ran
        BY <2>3, <3>1, <3>2
      <3>4. ASSUME NEW m \in Node, Len(executed[n]) < Len(executed[m])
            PROVE  executed[m][Len(executed[n]) + 1] = ran
        <4>1. m # n
          BY <3>2, <3>4
        <4>2. executed'[m] = executed[m]
          BY <4>1, <2>3, <3>2
        <4>3. ExecutedAgree'
          <5>1. LockstepInv' => ExecutedAgree'
            BY InvAgree, PTL
          <5> QED
            BY <5>1
        <4>4. /\ Len(executed[n]) + 1 \in 1 .. Len(executed'[m])
              /\ Len(executed[n]) + 1 <= Len(executed'[n])
          BY <4>2, <3>2, <3>3, <3>4
        <4>5. executed'[m][Len(executed[n]) + 1] = executed'[n][Len(executed[n]) + 1]
          BY <4>3, <4>4 DEF ExecutedAgree
        <4> QED
          BY <4>2, <4>5, <3>3
      <3>5. Abstract!Consume(n, ran)
        BY <2>3, <3>4, Zenon DEF Abstract!Consume
      <3> QED
        BY <3>1, <3>5 DEF Abstract!Next
    <2> QED
      BY <2>1, <2>2, <2>3
  <1>2. ASSUME NEW n \in Node, NEW d \in net, Receive(n, d)
        PROVE  UNCHANGED executed
    BY <1>2 DEF Receive
  <1>3. ASSUME NEW d \in net, Lose(d) PROVE UNCHANGED executed
    BY <1>3 DEF Lose
  <1>4. CASE UNCHANGED vars
    BY <1>4 DEF vars
  <1> QED
    BY <1>1, <1>2, <1>3, <1>4 DEF Next

\* The lockstep pipeline implements replicated input: every node feeds its
\* simulation the same inputs in the same order, each at its own pace.
THEOREM Implements == Spec => Refinement
  <1>1. Init => Abstract!Init
    BY DEF Init, Abstract!Init
  <1>2. LockstepInv /\ LockstepInv' /\ [Next]_vars => [Abstract!Next]_executed
    BY StepRefines
  <1> QED
    BY <1>1, <1>2, InvariantHolds, PTL DEF Spec, Refinement, Abstract!Spec
=============================================================================
