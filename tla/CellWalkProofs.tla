--------------------------- MODULE CellWalkProofs ---------------------------
(***************************************************************************)
(* Proofs about CellWalk, for every map, every crowd of bodies and every   *)
(* bound of the ladder: each body keeps one claim, on the cell it holds,   *)
(* and a path always leads on, cell by cell, from where its body is.       *)
(***************************************************************************)
EXTENDS CellWalk, NaturalFacts, SequenceTheorems, FiniteSetTheorems

-----------------------------------------------------------------------------
(***************************************************************************)
(* Paths.                                                                  *)
(***************************************************************************)

LEMMA CellsCounted == Cardinality(Cell) \in Nat
  <1>1. Width - 1 \in Int /\ Height - 1 \in Int /\ 0 \in Int
    BY CellWalkAssumption
  <1>2. IsFiniteSet(0 .. Width - 1) /\ IsFiniteSet(0 .. Height - 1)
    <2> HIDE CellWalkAssumption
    <2> QED
      BY <1>1, FS_Interval
  <1> QED
    BY <1>2, FS_Product, FS_CardinalityType DEF Cell

LEMMA OneAhead ==
  ASSUME NEW c \in Cell, NEW d \in Cell, NEW rest \in Seq(Cell), Near(c, d, 1), Joins(d, rest)
  PROVE  /\ <<d>> \o rest \in Seq(Cell) /\ Len(<<d>> \o rest) = Len(rest) + 1
         /\ Joins(c, <<d>> \o rest)
         /\ (<<d>> \o rest)[Len(rest) + 1] = IF rest = <<>> THEN d ELSE rest[Len(rest)]
  <1> DEFINE S == Cell
  <1>1. <<d>> \in Seq(S) /\ Len(<<d>>) = 1 /\ <<d>>[1] = d
    OBVIOUS
  <1>2. rest \in Seq(S) /\ Len(rest) \in Nat
    BY LenProperties
  <1> HIDE DEF S
  <1>3. /\ <<d>> \o rest \in Seq(S)
        /\ Len(<<d>> \o rest) = 1 + Len(rest)
        /\ \A i \in 1 .. 1 + Len(rest) : (<<d>> \o rest)[i] = IF i <= 1 THEN d ELSE rest[i - 1]
    BY <1>1, <1>2, ConcatProperties
  <1>4. ASSUME NEW i \in 1 .. Len(rest) + 1
        PROVE  Near(IF i = 1 THEN c ELSE (<<d>> \o rest)[i - 1], (<<d>> \o rest)[i], 1)
    <2>1. CASE i = 1
      BY <2>1, <1>2, <1>3
    <2>2. CASE i = 2
      <3>1. Near(IF 1 = 1 THEN d ELSE rest[1 - 1], rest[1], 1)
        BY <2>2, <1>2 DEF Joins
      <3> QED
        BY <3>1, <2>2, <1>2, <1>3
    <2>3. CASE i > 2
      <3>1. Near(IF i - 1 = 1 THEN d ELSE rest[i - 1 - 1], rest[i - 1], 1)
        BY <2>3, <1>2 DEF Joins
      <3>2. (<<d>> \o rest)[i - 1] = rest[i - 1 - 1] /\ (<<d>> \o rest)[i] = rest[i - 1]
        BY <2>3, <1>2, <1>3
      <3> QED
        BY <3>1, <3>2, <2>3, <1>2
    <2> QED
      BY <2>1, <2>2, <2>3, <1>2
  <1>5. rest = <<>> <=> Len(rest) = 0
    BY EmptySeq, <1>2
  <1> QED
    BY <1>2, <1>3, <1>4, <1>5 DEF Joins, S

\* What is left of a path behind its first cell leads on from there, and from
\* anywhere next to its second.
LEMMA TailLeadsOn ==
  ASSUME NEW c \in Cell, NEW path \in Seq(Cell), path # <<>>, Joins(c, path)
  PROVE  /\ Tail(path) \in Seq(Cell) /\ path[1] \in Cell
         /\ Joins(path[1], Tail(path))
         /\ \A h \in Cell : Len(path) > 1 /\ Near(h, path[2], 1) => Joins(h, Tail(path))
  <1>1. Len(path) \in Nat \ {0} /\ path[1] \in Cell
    BY EmptySeq, LenProperties
  <1>2. Tail(path) \in Seq(Cell) /\ Len(Tail(path)) = Len(path) - 1
        /\ \A i \in 1 .. Len(path) - 1 : Tail(path)[i] = path[i + 1]
    BY <1>1
  <1>3. ASSUME NEW h \in Cell, Len(path) > 1 => Near(h, path[2], 1)
        PROVE  Joins(h, Tail(path))
    <2>1. ASSUME NEW i \in 1 .. Len(path) - 1
          PROVE  Near(IF i = 1 THEN h ELSE Tail(path)[i - 1], Tail(path)[i], 1)
      <3>1. CASE i = 1
        BY <3>1, <1>1, <1>2, <1>3
      <3>2. CASE i > 1
        <4>1. Near(IF i + 1 = 1 THEN c ELSE path[i + 1 - 1], path[i + 1], 1)
          BY <1>1 DEF Joins
        <4>2. Tail(path)[i - 1] = path[i] /\ Tail(path)[i] = path[i + 1]
          BY <3>2, <1>1, <1>2
        <4> QED
          BY <4>1, <4>2, <3>2
      <3> QED
        BY <3>1, <3>2, <1>1
    <2> QED
      BY <2>1, <1>2 DEF Joins
  <1>4. Len(path) > 1 => Near(path[1], path[2], 1)
    BY <1>1 DEF Joins
  <1> QED
    BY <1>1, <1>2, <1>3, <1>4

LEMMA BallsAreCells ==
  ASSUME NEW from \in Cell, NEW targets, NEW free, free \subseteq Cell
  PROVE  LET ball == Balls(from, targets, free)
         IN /\ ball \in [0 .. Cardinality(Cell) -> SUBSET Cell]
            /\ ball[0] \subseteq targets
            /\ \A n \in 0 .. Cardinality(Cell) : ball[n] \subseteq free \cup {from}
  <1> DEFINE N == Cardinality(Cell)
             ground == free \cup {from}
             S == SUBSET ground
             b == targets \cap ground
             grown(X) == UNION {{d} \cup {c \in Cell : Steps(c, d, free) /\ (c = from \/ c \in free)} : d \in X}
             g == [n \in 1 .. N |-> [X \in S |-> grown(X)]]
             ball == Balls(from, targets, free)
  <1>1. N \in Nat /\ b \in S
    BY CellsCounted
  <1>2. \A X \in S : grown(X) \in S
    OBVIOUS
  <1> HIDE DEF grown
  <1>3. g \in [1 .. N -> [S -> S]]
    BY <1>2
  <1> HIDE DEF S, b, g, N
  <1>4. PICK f \in [0 .. N -> S] : f[0] = b /\ \A i \in 1 .. N : f[i] = g[i][f[i - 1]]
    BY <1>1, <1>3, RecursionExists
  <1>5. f = [n \in 0 .. N |-> IF n = 0 THEN b ELSE grown(f[n - 1])]
    <2>1. ASSUME NEW n \in 1 .. N PROVE f[n] = grown(f[n - 1])
      <3>1. f[n - 1] \in S
        BY <1>1, <1>4
      <3> QED
        BY <3>1, <1>4 DEF g
    <2> QED
      BY <1>1, <1>4, <2>1
  <1>6. ball = CHOOSE h : h = [n \in 0 .. N |-> IF n = 0 THEN b ELSE grown(h[n - 1])]
    BY DEF Balls, N, b, grown
  <1>7. ball = [n \in 0 .. N |-> IF n = 0 THEN b ELSE grown(ball[n - 1])]
    <2> HIDE DEF ball
    <2> QED
      BY <1>5, <1>6
  <1> HIDE DEF ball
  <1>8. ball[0] = b /\ \A n \in 1 .. N : ball[n] = grown(ball[n - 1])
    BY <1>1, <1>7
  <1> DEFINE P == {n \in 0 .. N : ball[n] \in S}
  <1>9. 0 .. N \subseteq P
    <2>1. 0 \in P /\ \A n \in 1 .. N : n - 1 \in P => n \in P
      BY <1>1, <1>2, <1>8 DEF S, b
    <2> HIDE DEF P
    <2> QED
      BY <1>1, <2>1, StaysIn
  <1>10. \A n \in 0 .. N : ball[n] \subseteq ground
    BY <1>9 DEF S
  <1>11. ball \in [0 .. N -> SUBSET Cell]
    BY <1>7, <1>10
  <1> QED
    BY <1>8, <1>10, <1>11 DEF ball, b, N

\* A way from a cell, ending in one of the targets if it goes anywhere.
Way(c, r, targets) ==
  r \in Seq(Cell) /\ Joins(c, r) /\ (r # <<>> => r[Len(r)] \in targets)

LEMMA DescentsLead ==
  ASSUME NEW free, NEW ball \in [0 .. Cardinality(Cell) -> SUBSET Cell],
         NEW n \in 0 .. Cardinality(Cell), NEW c \in Cell
  PROVE  \A r \in Descents(ball, free)[n][c] : Way(c, r, ball[0])
  <1> DEFINE N == Cardinality(Cell)
             S == [Cell -> SUBSET Seq(Cell)]
             b == [x \in Cell |-> {<<>>}]
             next(k, x) == {d \in ball[k - 1] : Steps(x, d, free)}
             via(k, h, x) == UNION {{<<d>> \o rest : rest \in h[d]} : d \in next(k, x)}
             longer(k, h) == [x \in Cell |-> via(k, h, x)]
             g == [k \in 1 .. N |-> [h \in S |-> longer(k, h)]]
             down == Descents(ball, free)
             T(k, x, r) == /\ r \in Seq(Cell) /\ Len(r) = k /\ Joins(x, r)
                           /\ r # <<>> => r[Len(r)] \in ball[0]
  <1>1. N \in Nat /\ b \in S
    BY CellsCounted
  <1>2. ASSUME NEW k \in 1 .. N, NEW x \in Cell, NEW d \in next(k, x)
        PROVE  d \in Cell /\ d \in ball[k - 1] /\ Near(x, d, 1)
    <2>1. ball[k - 1] \subseteq Cell
      BY <1>1
    <2> QED
      BY <2>1 DEF Steps
  <1> HIDE DEF next
  <1>3. \A k \in 1 .. N, h \in S : longer(k, h) \in S
    <2>1. ASSUME NEW k \in 1 .. N, NEW h \in S, NEW x \in Cell, NEW y \in via(k, h, x)
          PROVE  y \in Seq(Cell)
      <3>1. PICK d \in next(k, x) : \E rest \in h[d] : y = <<d>> \o rest
        OBVIOUS
      <3>2. PICK rest \in h[d] : y = <<d>> \o rest
        BY <3>1
      <3>3. d \in Cell /\ rest \in Seq(Cell)
        BY <1>2
      <3> QED
        BY <3>2, <3>3
    <2> HIDE DEF via
    <2>2. \A k \in 1 .. N, h \in S, x \in Cell : via(k, h, x) \in SUBSET Seq(Cell)
      BY <2>1
    <2> QED
      BY <2>2
  <1> HIDE DEF longer, via
  <1>4. g \in [1 .. N -> [S -> S]]
    BY <1>3
  <1> HIDE DEF S, b, g, N
  <1>5. PICK f \in [0 .. N -> S] : f[0] = b /\ \A i \in 1 .. N : f[i] = g[i][f[i - 1]]
    BY <1>1, <1>4, RecursionExists
  <1>6. f = [k \in 0 .. N |-> IF k = 0 THEN b ELSE longer(k, f[k - 1])]
    <2>1. ASSUME NEW k \in 1 .. N PROVE f[k] = longer(k, f[k - 1])
      <3>1. f[k - 1] \in S
        BY <1>1, <1>5
      <3> QED
        BY <3>1, <1>5 DEF g
    <2> QED
      BY <1>1, <1>5, <2>1
  <1>7. down = CHOOSE h : h = [k \in 0 .. N |-> IF k = 0 THEN b ELSE longer(k, h[k - 1])]
    BY DEF Descents, N, b, longer, via, next
  <1>8. down = [k \in 0 .. N |-> IF k = 0 THEN b ELSE longer(k, down[k - 1])]
    <2> HIDE DEF down
    <2> QED
      BY <1>6, <1>7
  <1> HIDE DEF down
  <1>9. down[0] = b /\ \A k \in 1 .. N : down[k] = longer(k, down[k - 1])
    BY <1>1, <1>8
  <1> DEFINE P == {k \in 0 .. N : \A x \in Cell : \A r \in down[k][x] : T(k, x, r)}
  <1>10. 0 \in P
    <2>1. ASSUME NEW x \in Cell, NEW r \in down[0][x] PROVE T(0, x, r)
      <3>1. r = <<>>
        BY <2>1, <1>9 DEF b
      <3> QED
        BY <3>1 DEF Joins
    <2> QED
      BY <2>1, <1>1
  <1>11. ASSUME NEW k \in 1 .. N, k - 1 \in P PROVE k \in P
    <2>1. ASSUME NEW x \in Cell, NEW r \in down[k][x] PROVE T(k, x, r)
      <3>0. r \in via(k, down[k - 1], x)
        BY <1>9, <2>1 DEF longer
      <3>1. PICK d \in next(k, x) : \E rest \in down[k - 1][d] : r = <<d>> \o rest
        BY <3>0 DEF via
      <3>2. PICK rest \in down[k - 1][d] : r = <<d>> \o rest
        BY <3>1
      <3>3. d \in Cell /\ Near(x, d, 1) /\ d \in ball[k - 1]
        BY <1>2
      <3>4. T(k - 1, d, rest)
        BY <1>11, <3>3
      <3>5. /\ r \in Seq(Cell) /\ Len(r) = Len(rest) + 1 /\ Joins(x, r)
            /\ r[Len(rest) + 1] = IF rest = <<>> THEN d ELSE rest[Len(rest)]
        BY <3>2, <3>3, <3>4, OneAhead
      <3>6. CASE rest = <<>>
        <4>1. k - 1 = 0
          BY <3>4, <3>6, EmptySeq
        <4> QED
          BY <4>1, <3>3, <3>4, <3>5, <3>6
      <3>7. CASE rest # <<>>
        BY <3>4, <3>5, <3>7
      <3> QED
        BY <3>6, <3>7
    <2> HIDE DEF T
    <2> QED
      BY <2>1
  <1>12. 0 .. N \subseteq P
    <2> HIDE DEF P
    <2> QED
      BY <1>1, <1>10, <1>11, StaysIn
  <1>13. \A r \in down[n][c] : T(n, c, r)
    BY <1>12 DEF N
  <1> QED
    BY <1>13 DEF down, Way

\* Whatever a search returns leads on from where it began to one of its targets.
LEMMA RoutesLead ==
  ASSUME NEW from \in Cell, NEW targets, NEW free, free \subseteq Cell
  PROVE  \A r \in Routes(from, targets, free) : Way(from, r, targets)
  <1> DEFINE N == Cardinality(Cell)
             ball == Balls(from, targets, free)
             fewest(n) == from \in ball[n] /\ (n > 0 => from \notin ball[n - 1])
             k == CHOOSE n \in 0 .. N : fewest(n)
  <1>1. N \in Nat
    BY CellsCounted
  <1>2. ball \in [0 .. N -> SUBSET Cell] /\ ball[0] \subseteq targets
    BY BallsAreCells
  <1>3. SUFFICES ASSUME from \in ball[N], NEW r \in Descents(ball, free)[k][from]
                 PROVE  Way(from, r, targets)
    BY DEF Routes
  <1> HIDE DEF N, ball
  <1>4. \E n \in 0 .. N : fewest(n)
    <2> DEFINE T == {n \in 0 .. N : from \in ball[n]}
    <2>1. N \in T /\ T \in SUBSET Nat
      BY <1>1, <1>3
    <2>2. PICK n \in T : \A m \in T : n <= m
      <3> HIDE DEF T
      <3> QED
        BY <2>1, LeastNatural
    <2>3. n \in Nat /\ n \in 0 .. N /\ from \in ball[n]
      BY <1>1, <2>2
    <2>4. n > 0 => from \notin ball[n - 1]
      <3>1. ASSUME n > 0, from \in ball[n - 1] PROVE FALSE
        <4>1. n - 1 \in T
          BY <1>1, <2>3, <3>1
        <4> QED
          BY <4>1, <2>2, <2>3
      <3> QED
        BY <3>1
    <2> QED
      BY <2>3, <2>4
  <1>5. k \in 0 .. N
    <2> HIDE DEF fewest
    <2> QED
      BY <1>4
  <1> HIDE DEF k
  <1>6. Way(from, r, ball[0])
    BY <1>2, <1>3, <1>5, DescentsLead DEF N
  <1> QED
    BY <1>2, <1>6 DEF Way

LEMMA ReachableIsOpen ==
  ASSUME NEW from \in Cell
  PROVE  Reachable(from) \subseteq Open \cup {from}
  <1>1. Open \subseteq Cell
    BY DEF Open
  <1> QED
    BY <1>1, BallsAreCells, CellsCounted DEF Reachable

-----------------------------------------------------------------------------
(***************************************************************************)
(* Walks.                                                                  *)
(***************************************************************************)

IsWalk(w) ==
  /\ w = [path |-> w.path, plan |-> w.plan, avoid |-> w.avoid, detoured |-> w.detoured,
          frustration |-> w.frustration, wait |-> w.wait, winding |-> w.winding]
  /\ w.path \in Seq(Cell) /\ w.frustration \in 0 .. GiveUp /\ w.wait \in 0 .. BlockedWait

\* A walk that leads on from a cell.
Leads(w, c) == IsWalk(w) /\ Joins(c, w.path)

\* A crossing from a cell knows where it ends.
Crosses(w, c) == w.path # <<>> /\ c # w.path[1]

LEMMA NewWalkLeads ==
  ASSUME NEW c
  PROVE  Leads(NewWalk, c)
  <1>1. GiveUp \in Nat /\ BlockedWait \in Nat
    BY CellWalkAssumption
  <1> QED
    BY <1>1 DEF NewWalk, NoPlan, Leads, IsWalk, Joins

LEMMA OneField ==
  ASSUME NEW w, IsWalk(w)
  PROVE  /\ \A v \in Seq(Cell) : LET u == [w EXCEPT !.path = v] IN IsWalk(u) /\ u.path = v
         /\ \A v : LET u == [w EXCEPT !.plan = v] IN IsWalk(u) /\ u.path = w.path
         /\ \A v : LET u == [w EXCEPT !.avoid = v] IN IsWalk(u) /\ u.path = w.path
         /\ \A v : LET u == [w EXCEPT !.detoured = v] IN IsWalk(u) /\ u.path = w.path
         /\ \A v : LET u == [w EXCEPT !.winding = v] IN IsWalk(u) /\ u.path = w.path
         /\ \A v \in 0 .. GiveUp :
              LET u == [w EXCEPT !.frustration = v] IN IsWalk(u) /\ u.path = w.path
         /\ \A v \in 0 .. BlockedWait :
              LET u == [w EXCEPT !.wait = v]
              IN IsWalk(u) /\ u.path = w.path /\ u.frustration = w.frustration
  <1>1. \A v \in Seq(Cell) : LET u == [w EXCEPT !.path = v] IN IsWalk(u) /\ u.path = v
    BY DEF IsWalk
  <1>2. \A v : LET u == [w EXCEPT !.plan = v] IN IsWalk(u) /\ u.path = w.path
    BY DEF IsWalk
  <1>3. \A v : LET u == [w EXCEPT !.avoid = v] IN IsWalk(u) /\ u.path = w.path
    BY DEF IsWalk
  <1>4. \A v : LET u == [w EXCEPT !.detoured = v] IN IsWalk(u) /\ u.path = w.path
    BY DEF IsWalk
  <1>5. \A v : LET u == [w EXCEPT !.winding = v] IN IsWalk(u) /\ u.path = w.path
    BY DEF IsWalk
  <1>6. \A v \in 0 .. GiveUp :
          LET u == [w EXCEPT !.frustration = v] IN IsWalk(u) /\ u.path = w.path
    BY DEF IsWalk
  <1>7. \A v \in 0 .. BlockedWait :
          LET u == [w EXCEPT !.wait = v]
          IN IsWalk(u) /\ u.path = w.path /\ u.frustration = w.frustration
    BY DEF IsWalk
  <1> QED
    BY <1>1, <1>2, <1>3, <1>4, <1>5, <1>6, <1>7

LEMMA Calmed ==
  ASSUME NEW w, IsWalk(w)
  PROVE  /\ IsWalk(Forgiven(w)) /\ Forgiven(w).path = w.path
         /\ w.wait < BlockedWait => IsWalk(Waited(w)) /\ Waited(w).path = w.path
         /\ IsWalk([w EXCEPT !.wait = 0]) /\ [w EXCEPT !.wait = 0].path = w.path
  <1>1. 0 \in 0 .. GiveUp /\ 0 \in 0 .. BlockedWait
    BY CellWalkAssumption
  <1> DEFINE v == [w EXCEPT !.wait = 0]
             u == [v EXCEPT !.frustration = 0]
  <1>2. IsWalk(v) /\ v.path = w.path
    BY <1>1, OneField
  <1> HIDE DEF v
  <1>3. IsWalk(u) /\ u.path = w.path
    BY <1>1, <1>2, OneField
  <1> HIDE DEF u
  <1>4. Forgiven(w) = [u EXCEPT !.detoured = FALSE]
    BY DEF Forgiven, u, v
  <1>5. IsWalk(Forgiven(w)) /\ Forgiven(w).path = w.path
    BY <1>3, <1>4, OneField
  <1>6. ASSUME w.wait < BlockedWait PROVE IsWalk(Waited(w)) /\ Waited(w).path = w.path
    <2>1. w.wait + 1 \in 0 .. BlockedWait
      BY <1>6, CellWalkAssumption DEF IsWalk
    <2>2. Waited(w) = [w EXCEPT !.wait = w.wait + 1]
      BY DEF Waited, IsWalk
    <2> QED
      BY <2>1, <2>2, OneField
  <1> QED
    BY <1>2, <1>5, <1>6 DEF v

LEMMA Replanned ==
  ASSUME NEW w, IsWalk(w), NEW c
  PROVE  /\ Leads(Repath(w), c)
         /\ \A p \in Seq(Cell) : Joins(c, p) => Leads(TakeRoute(w, p), c)
  <1>1. ASSUME NEW p \in Seq(Cell), NEW x
        PROVE  LET v == [w EXCEPT !.path = p, !.plan = NoPlan, !.detoured = x]
               IN IsWalk(v) /\ v.path = p
    <2> DEFINE v == [w EXCEPT !.path = p]
               u == [v EXCEPT !.plan = NoPlan]
    <2>1. IsWalk(v) /\ v.path = p
      BY OneField
    <2> HIDE DEF v
    <2>2. IsWalk(u) /\ u.path = p
      BY <2>1, OneField
    <2> HIDE DEF u
    <2>3. IsWalk([u EXCEPT !.detoured = x]) /\ [u EXCEPT !.detoured = x].path = p
      BY <2>2, OneField
    <2> QED
      BY <2>3 DEF u, v
  <1>2. Leads(Repath(w), c)
    <2> DEFINE v == [w EXCEPT !.path = <<>>]
               u == [v EXCEPT !.plan = NoPlan]
               t == [u EXCEPT !.avoid = TRUE]
    <2>1. IsWalk(v) /\ v.path = <<>>
      BY OneField, EmptySeq
    <2> HIDE DEF v
    <2>2. IsWalk(u) /\ u.path = <<>>
      BY <2>1, OneField
    <2> HIDE DEF u
    <2>3. IsWalk(t) /\ t.path = <<>>
      BY <2>2, OneField
    <2> HIDE DEF t
    <2>4. Repath(w) = [t EXCEPT !.detoured = FALSE]
      BY DEF Repath, t, u, v
    <2>5. IsWalk(Repath(w)) /\ Repath(w).path = <<>>
      BY <2>3, <2>4, OneField
    <2> QED
      BY <2>5 DEF Leads, Joins
  <1> QED
    BY <1>1, <1>2 DEF Leads, TakeRoute

\* Another rung of the ladder.
Climbed(w) == [w EXCEPT !.wait = 0, !.frustration = @ + 1]

LEMMA ClimbedWalks ==
  ASSUME NEW w, IsWalk(w), ~(Climbed(w).frustration > GiveUp)
  PROVE  /\ IsWalk(Climbed(w)) /\ Climbed(w).path = w.path
         /\ \A p \in Seq(Cell) : LET v == [Climbed(w) EXCEPT !.detoured = TRUE, !.path = p]
                                 IN IsWalk(v) /\ v.path = p
  <1>1. GiveUp \in Nat /\ 0 \in 0 .. BlockedWait
    BY CellWalkAssumption
  <1> DEFINE v == [w EXCEPT !.wait = 0]
  <1>2. IsWalk(v) /\ v.path = w.path
    BY <1>1, OneField
  <1>3. Climbed(w) = [v EXCEPT !.frustration = v.frustration + 1]
    BY <1>2 DEF Climbed, IsWalk
  <1> HIDE DEF v
  <1>4. Climbed(w).frustration = v.frustration + 1
    BY <1>2, <1>3 DEF IsWalk
  <1>5. v.frustration + 1 \in 0 .. GiveUp
    BY <1>1, <1>2, <1>4 DEF IsWalk
  <1>6. IsWalk(Climbed(w)) /\ Climbed(w).path = w.path
    BY <1>2, <1>3, <1>5, OneField
  <1>7. ASSUME NEW p \in Seq(Cell)
        PROVE  LET u == [Climbed(w) EXCEPT !.detoured = TRUE, !.path = p]
               IN IsWalk(u) /\ u.path = p
    <2> DEFINE t == [Climbed(w) EXCEPT !.detoured = TRUE]
    <2>1. IsWalk(t)
      BY <1>6, OneField
    <2> HIDE DEF t
    <2>2. IsWalk([t EXCEPT !.path = p]) /\ [t EXCEPT !.path = p].path = p
      BY <2>1, OneField
    <2> QED
      BY <2>2 DEF t
  <1> QED
    BY <1>6, <1>7

\* The lesser of two numbers.
LEMMA MinOfTwo ==
  ASSUME NEW m \in Nat, NEW n \in Nat
  PROVE  Min({m, n}) \in {m, n} /\ Min({m, n}) <= m /\ Min({m, n}) <= n
  <1>1. \E x \in {m, n} : \A y \in {m, n} : x <= y
    OBVIOUS
  <1> QED
    BY <1>1 DEF Min

LEMMA FirstOnly ==
  ASSUME NEW S, NEW q \in Seq(S), q # <<>>
  PROVE  SubSeq(q, 1, 1) \in Seq(S) /\ Len(SubSeq(q, 1, 1)) = 1 /\ SubSeq(q, 1, 1)[1] = q[1]
  <1>1. Len(q) \in Nat \ {0}
    BY EmptySeq
  <1>2. \A i \in 1 .. 1 : q[i] \in S
    BY <1>1, ElementOfSeq
  <1>3. /\ SubSeq(q, 1, 1) \in Seq(S)
        /\ Len(SubSeq(q, 1, 1)) = IF 1 <= 1 THEN 1 - 1 + 1 ELSE 0
        /\ \A i \in 1 .. 1 - 1 + 1 : SubSeq(q, 1, 1)[i] = q[1 + i - 1]
    BY <1>2, SubSeqProperties
  <1> QED
    BY <1>3

LEMMA LeftOnly ==
  ASSUME NEW w, NEW c, Leads(w, c)
  PROVE  /\ Leads(LeaveOnlyCurrentTarget(w), c)
         /\ w.path # <<>> => /\ LeaveOnlyCurrentTarget(w).path # <<>>
                             /\ LeaveOnlyCurrentTarget(w).path[1] = w.path[1]
  <1> DEFINE p == SubSeq(w.path, 1, Min({1, Len(w.path)}))
  <1>1. w.path \in Seq(Cell) /\ Len(w.path) \in Nat
    BY LenProperties DEF Leads, IsWalk
  <1>2. Min({1, Len(w.path)}) = IF w.path = <<>> THEN 0 ELSE 1
    <2>1. Min({1, Len(w.path)}) \in {1, Len(w.path)} /\ Min({1, Len(w.path)}) <= 1
          /\ Min({1, Len(w.path)}) <= Len(w.path)
      BY <1>1, MinOfTwo
    <2>2. Len(w.path) = 0 <=> w.path = <<>>
      BY <1>1, EmptySeq
    <2> QED
      BY <2>1, <2>2, <1>1
  <1>3. CASE w.path = <<>>
    <2>1. p = <<>>
      BY <1>2, <1>3
    <2> HIDE DEF p
    <2>2. Leads(LeaveOnlyCurrentTarget(w), c)
      <3>1. LeaveOnlyCurrentTarget(w) = [w EXCEPT !.path = p, !.plan = NoPlan, !.winding = TRUE]
        BY DEF LeaveOnlyCurrentTarget, p, Leads, IsWalk
      <3> QED
        BY <3>1, <2>1, <1>3 DEF Leads, IsWalk, Joins
    <2> QED
      BY <2>2, <1>3
  <1>4. CASE w.path # <<>>
    <2>1. Len(w.path) >= 1
      BY <1>1, <1>4, EmptySeq
    <2>2. p \in Seq(Cell) /\ Len(p) = 1 /\ p[1] = w.path[1]
      <3>1. p = SubSeq(w.path, 1, 1)
        BY <1>2, <1>4
      <3> HIDE DEF p
      <3> QED
        BY <3>1, <1>1, <1>4, FirstOnly
    <2>3. Joins(c, p)
      <3>1. Near(IF 1 = 1 THEN c ELSE w.path[1 - 1], w.path[1], 1)
        BY <2>1, <1>1 DEF Leads, Joins
      <3> HIDE DEF p
      <3> QED
        BY <3>1, <2>2 DEF Joins
    <2> HIDE DEF p
    <2>4. p # <<>>
      BY <2>2
    <2>5. LeaveOnlyCurrentTarget(w) = [w EXCEPT !.path = p, !.plan = NoPlan, !.winding = TRUE]
      BY DEF LeaveOnlyCurrentTarget, p, Leads, IsWalk
    <2> QED
      BY <2>2, <2>3, <2>4, <2>5 DEF Leads, IsWalk
  <1> QED
    BY <1>3, <1>4

\* A detour back onto a path, and what follows of the path.
LEMMA Spliced ==
  ASSUME NEW c \in Cell, NEW path \in Seq(Cell), NEW n \in 1 .. Len(path), Joins(c, path),
         NEW route \in Seq(Cell), route # <<>>, Joins(c, route), route[Len(route)] = path[n]
  PROVE  LET whole == route \o SubSeq(path, n + 1, Len(path))
         IN whole \in Seq(Cell) /\ Joins(c, whole)
  <1> DEFINE S == Cell
             m == Len(route)
             k == Len(path) - n
             beyond == SubSeq(path, n + 1, Len(path))
             whole == route \o beyond
  <1>1. Len(path) \in Nat /\ n \in Nat /\ m \in Nat \ {0} /\ k \in Nat /\ Len(path) = n + k
    BY LenProperties, EmptySeq
  <1>2. /\ beyond \in Seq(S) /\ Len(beyond) = k
        /\ \A i \in 1 .. k : beyond[i] = path[n + i]
    <2>1. beyond = [i \in 1 .. k |-> path[n + i]]
      BY <1>1
    <2>2. \A i \in 1 .. k : path[n + i] \in S
      BY <1>1
    <2> HIDE DEF S, beyond, k
    <2> QED
      BY <1>1, <2>1, <2>2
  <1>3. route \in Seq(S) /\ Len(route) = m
    OBVIOUS
  <1> HIDE DEF S, beyond, m, k
  <1>4. /\ whole \in Seq(S) /\ Len(whole) = m + k
        /\ \A i \in 1 .. m + k : whole[i] = IF i <= m THEN route[i] ELSE beyond[i - m]
    BY <1>2, <1>3, ConcatProperties
  <1> HIDE DEF whole
  <1>5. ASSUME NEW i \in 1 .. m + k
        PROVE  Near(IF i = 1 THEN c ELSE whole[i - 1], whole[i], 1)
    <2>1. CASE i <= m
      <3>1. Near(IF i = 1 THEN c ELSE route[i - 1], route[i], 1)
        BY <2>1, <1>1 DEF Joins, m
      <3>2. whole[i] = route[i] /\ (i # 1 => whole[i - 1] = route[i - 1])
        BY <2>1, <1>1, <1>4
      <3> QED
        BY <3>1, <3>2
    <2>2. CASE i > m
      <3>1. i - m \in 1 .. k /\ i # 1 /\ n + (i - m) \in 2 .. Len(path)
        BY <2>2, <1>1
      <3>2. whole[i] = path[n + (i - m)]
        BY <3>1, <2>2, <1>1, <1>2, <1>4
      <3>3. whole[i - 1] = path[n + (i - m) - 1]
        <4>1. CASE i = m + 1
          <5>1. whole[i - 1] = route[m]
            BY <4>1, <1>1, <1>4
          <5> QED
            BY <5>1, <4>1, <1>1 DEF m
        <4>2. CASE i > m + 1
          <5>1. whole[i - 1] = beyond[i - 1 - m] /\ i - 1 - m \in 1 .. k
            BY <4>2, <1>1, <1>4
          <5> QED
            BY <5>1, <1>1, <1>2
        <4> QED
          BY <4>1, <4>2, <2>2, <1>1
      <3>4. Near(IF n + (i - m) = 1 THEN c ELSE path[n + (i - m) - 1], path[n + (i - m)], 1)
        BY <3>1 DEF Joins
      <3> QED
        BY <3>1, <3>2, <3>3, <3>4
    <2> QED
      BY <2>1, <2>2, <1>1
  <1>6. Joins(c, whole)
    BY <1>4, <1>5 DEF Joins
  <1> QED
    BY <1>4, <1>6 DEF whole, beyond, S

-----------------------------------------------------------------------------
(***************************************************************************)
(* Queues.                                                                 *)
(***************************************************************************)

Orders == OrderEntry(MoveOrder)

\* Only the front order is ever started.
Queued(q) ==
  /\ q \in Seq(Orders)
  /\ \A i \in DOMAIN q : q[i].state = "new" \/ (i = 1 /\ q[1].state = "running")

Runs(q) == q # <<>> /\ q[1].state = "running"

LEMMA EmptyQueued == Queued(<<>>) /\ ~Runs(<<>>)
  BY EmptySeq DEF Queued, Runs

LEMMA TailQueued ==
  ASSUME NEW q, Queued(q), q # <<>>
  PROVE  Queued(Tail(q)) /\ ~Runs(Tail(q))
  <1> DEFINE S == Orders
  <1>1. q \in Seq(S) /\ Len(q) \in Nat \ {0} /\ DOMAIN q = 1 .. Len(q)
    BY EmptySeq, LenProperties DEF Queued
  <1> HIDE DEF S
  <1>2. /\ Tail(q) \in Seq(S) /\ Len(Tail(q)) = Len(q) - 1 /\ DOMAIN Tail(q) = 1 .. Len(q) - 1
        /\ \A i \in 1 .. Len(q) - 1 : Tail(q)[i] = q[i + 1]
    BY <1>1
  <1>3. \A i \in 1 .. Len(q) - 1 : Tail(q)[i].state = "new"
    <2>1. \A i \in 1 .. Len(q) - 1 : i + 1 \in DOMAIN q /\ i + 1 # 1
      BY <1>1
    <2> QED
      BY <2>1, <1>2 DEF Queued
  <1>4. ~Runs(Tail(q))
    <2>1. ASSUME Tail(q) # <<>> PROVE 1 \in 1 .. Len(q) - 1
      BY <2>1, <1>1, <1>2, EmptySeq
    <2> QED
      BY <2>1, <1>3 DEF Runs
  <1> QED
    BY <1>2, <1>3, <1>4 DEF Queued, S

LEMMA MarkKeeps ==
  ASSUME NEW e \in Orders, NEW policy \in Policy
  PROVE  /\ Mark(e, policy) \in Orders /\ Mark(e, policy).state = e.state
         /\ Mark(e, policy).cancel \in Policy
         /\ policy = "force" => Mark(e, policy).cancel = "force"
  BY DEF Mark, Orders, OrderEntry, Stronger, Policy, Unmarked, EntryState

LEMMA MarkedQueued ==
  ASSUME NEW q, Queued(q), NEW policy \in Policy
  PROVE  /\ Queued(MarkAll(q, policy)) /\ (Runs(MarkAll(q, policy)) <=> Runs(q))
         /\ q = <<>> <=> MarkAll(q, policy) = <<>>
         /\ q # <<>> /\ policy = "force" => MarkAll(q, policy)[1].cancel = "force"
  <1> DEFINE S == Orders
             m == MarkAll(q, policy)
  <1>1. q \in Seq(S) /\ Len(q) \in Nat /\ DOMAIN q = 1 .. Len(q) /\ (q = <<>> <=> Len(q) = 0)
    BY EmptySeq, LenProperties DEF Queued
  <1>2. \A i \in 1 .. Len(q) : q[i] \in S
    BY <1>1
  <1>3. m = [i \in 1 .. Len(q) |-> Mark(q[i], policy)]
    BY <1>1 DEF MarkAll
  <1>4. \A i \in 1 .. Len(q) :
          /\ Mark(q[i], policy) \in S /\ Mark(q[i], policy).state = q[i].state
          /\ policy = "force" => Mark(q[i], policy).cancel = "force"
    BY <1>2, MarkKeeps
  <1> HIDE DEF S, m
  <1>5. m \in Seq(S) /\ Len(m) = Len(q) /\ DOMAIN m = 1 .. Len(q)
    BY <1>1, <1>3, <1>4
  <1>6. m = <<>> <=> q = <<>>
    BY <1>1, <1>5, EmptySeq
  <1>7. \A i \in 1 .. Len(q) : m[i].state = q[i].state /\ (policy = "force" => m[i].cancel = "force")
    BY <1>3, <1>4
  <1>8. q # <<>> => 1 \in 1 .. Len(q)
    BY <1>1
  <1>9. Queued(m)
    BY <1>1, <1>5, <1>7, <1>8 DEF Queued, S
  <1> QED
    BY <1>6, <1>7, <1>8, <1>9 DEF Runs, m

LEMMA NewQueued ==
  ASSUME NEW q, Queued(q), NEW e \in Orders, e.state = "new"
  PROVE  /\ Queued(Append(q, e)) /\ Append(q, e) # <<>>
         /\ Append(q, e)[1] = IF q = <<>> THEN e ELSE q[1]
  <1> DEFINE S == Orders
  <1>1. q \in Seq(S) /\ Len(q) \in Nat /\ DOMAIN q = 1 .. Len(q) /\ (q = <<>> <=> Len(q) = 0)
    BY EmptySeq, LenProperties DEF Queued
  <1>2. e \in S
    OBVIOUS
  <1> HIDE DEF S
  <1>3. /\ Append(q, e) \in Seq(S) /\ Len(Append(q, e)) = Len(q) + 1
        /\ DOMAIN Append(q, e) = 1 .. Len(q) + 1
        /\ \A i \in 1 .. Len(q) : Append(q, e)[i] = q[i]
        /\ Append(q, e)[Len(q) + 1] = e
    BY <1>1, <1>2
  <1>4. Append(q, e) # <<>>
    BY <1>1, <1>3, EmptySeq
  <1>5. Append(q, e)[1] = IF q = <<>> THEN e ELSE q[1]
    BY <1>1, <1>3
  <1>6. ASSUME NEW i \in 1 .. Len(q) + 1
        PROVE  \/ Append(q, e)[i].state = "new"
               \/ i = 1 /\ Append(q, e)[1].state = "running"
    <2>1. CASE i = Len(q) + 1
      BY <2>1, <1>3
    <2>2. CASE i \in 1 .. Len(q)
      <3>1. 1 \in 1 .. Len(q)
        BY <2>2, <1>1
      <3> QED
        BY <2>2, <3>1, <1>1, <1>3 DEF Queued
    <2> QED
      BY <2>1, <2>2, <1>1
  <1> QED
    BY <1>3, <1>4, <1>5, <1>6 DEF Queued, S

\* What the flush leaves of a queue: the order that runs stays at the front
\* unless it ends itself, and nothing else runs.
LEMMA KeptQueued ==
  ASSUME NEW b, Queued(Marked(b))
  PROVE  /\ Queued(Kept(b))
         /\ Marked(b) = <<>> => Kept(b) = <<>>
         /\ Marked(b) # <<>> /\ ~Ends(Marked(b)[1]) => Kept(b) # <<>> /\ Kept(b)[1] = Marked(b)[1]
         /\ Runs(Kept(b)) => Runs(Marked(b)) /\ ~Ends(Marked(b)[1])
  <1> DEFINE q == Marked(b)
             N == Len(q)
             S == Seq(Orders)
             taken(i, s) == IF Ends(q[i]) THEN s ELSE Append(s, q[i])
             g == [i \in 1 .. N |-> [s \in S |-> taken(i, s)]]
             kept == CHOOSE h : h = [i \in 0 .. N |-> IF i = 0 THEN <<>> ELSE taken(i, h[i - 1])]
             T(i) == /\ Queued(kept[i])
                     /\ i = 0 => kept[i] = <<>>
                     /\ i > 0 /\ ~Ends(q[1]) => kept[i] # <<>> /\ kept[i][1] = q[1]
                     /\ i > 0 /\ Ends(q[1]) => ~Runs(kept[i])
  <1>1. q \in S /\ N \in Nat /\ DOMAIN q = 1 .. N /\ (q = <<>> <=> N = 0) /\ <<>> \in S
        /\ \A i \in 1 .. N : q[i] \in Orders
    BY EmptySeq, LenProperties DEF Queued
  <1>2. Kept(b) = kept[N]
    BY DEF Kept
  <1>3. \A i \in 1 .. N, s \in S : taken(i, s) \in S
    <2> DEFINE E == Orders
    <2>1. \A e \in E, s \in Seq(E) : Append(s, e) \in Seq(E)
      <3> HIDE DEF E
      <3> QED
        OBVIOUS
    <2> QED
      BY <1>1, <2>1
  <1> HIDE DEF taken
  <1>4. g \in [1 .. N -> [S -> S]]
    BY <1>3
  <1> HIDE DEF S, g, N
  <1>5. PICK f \in [0 .. N -> S] : f[0] = <<>> /\ \A i \in 1 .. N : f[i] = g[i][f[i - 1]]
    <2> DEFINE none == <<>>
    <2>1. N \in Nat /\ none \in S
      BY <1>1
    <2> HIDE DEF none
    <2>2. \E f \in [0 .. N -> S] : f[0] = none /\ \A i \in 1 .. N : f[i] = g[i][f[i - 1]]
      BY <1>4, <2>1, RecursionExists
    <2> QED
      BY <2>2 DEF none
  <1>6. f = [i \in 0 .. N |-> IF i = 0 THEN <<>> ELSE taken(i, f[i - 1])]
    <2>1. ASSUME NEW i \in 1 .. N PROVE f[i] = taken(i, f[i - 1])
      <3>1. f[i - 1] \in S
        BY <1>1, <1>5
      <3> QED
        BY <3>1, <1>5 DEF g
    <2> QED
      BY <1>1, <1>5, <2>1
  <1>7. kept = [i \in 0 .. N |-> IF i = 0 THEN <<>> ELSE taken(i, kept[i - 1])]
    BY <1>6
  <1> HIDE DEF kept
  <1>8. kept[0] = <<>> /\ \A i \in 1 .. N : kept[i] = taken(i, kept[i - 1])
    BY <1>1, <1>7
  <1> HIDE DEF q
  <1> DEFINE P == {i \in 0 .. N : T(i)}
  <1>9. T(0)
    BY <1>8, EmptyQueued
  <1>10. ASSUME NEW i \in 1 .. N, T(i - 1) PROVE T(i)
    <2>1. CASE Ends(q[i])
      <3>1. kept[i] = kept[i - 1]
        BY <1>8, <2>1 DEF taken
      <3>2. i = 1 => kept[i] = <<>>
        BY <3>1, <1>10
      <3>3. i # 1 => i - 1 > 0
        BY <1>1
      <3> QED
        BY <2>1, <3>1, <3>2, <3>3, <1>10, EmptyQueued
    <2>2. CASE ~Ends(q[i])
      <3>1. kept[i] = Append(kept[i - 1], q[i])
        BY <1>8, <2>2 DEF taken
      <3>2. CASE i = 1
        <4>1. kept[i] = <<q[1]>>
          <5>1. kept[i - 1] = <<>>
            BY <3>2, <1>10
          <5>2. \A e : Append(<<>>, e) = <<e>>
            OBVIOUS
          <5> HIDE DEF T
          <5> QED
            BY <3>1, <3>2, <5>1, <5>2
        <4>2. Queued(<<q[1]>>)
          <5>1. q[1].state \in {"new", "running"} /\ q[1] \in Orders
            BY <3>2, <1>1 DEF Queued, q
          <5> DEFINE e == q[1]
          <5> HIDE DEF e
          <5>2. Queued(<<e>>)
            BY <5>1 DEF Queued, e
          <5> QED
            BY <5>2 DEF e
        <4> QED
          BY <4>1, <4>2, <3>2, <2>2
      <3>3. CASE i # 1
        <4>1. q[i] \in Orders /\ q[i].state = "new" /\ i - 1 > 0
          BY <3>3, <1>1 DEF Queued, q
        <4>2. /\ Queued(kept[i]) /\ kept[i] # <<>>
              /\ kept[i][1] = IF kept[i - 1] = <<>> THEN q[i] ELSE kept[i - 1][1]
          <5>1. Queued(kept[i - 1])
            BY <1>10
          <5> DEFINE e == q[i]
                     m == kept[i - 1]
          <5>2. e \in Orders /\ e.state = "new" /\ Queued(m)
            BY <4>1, <5>1
          <5>3. kept[i] = Append(m, e)
            BY <3>1
          <5> HIDE DEF e, m
          <5>4. /\ Queued(kept[i]) /\ kept[i] # <<>>
                /\ kept[i][1] = IF m = <<>> THEN e ELSE m[1]
            BY <5>2, <5>3, NewQueued
          <5> QED
            BY <5>4 DEF e, m
        <4>3. ~Runs(kept[i - 1]) => ~Runs(kept[i])
          BY <4>1, <4>2 DEF Runs
        <4> QED
          BY <4>1, <4>2, <4>3, <1>10
      <3> QED
        BY <3>2, <3>3
    <2> QED
      BY <2>1, <2>2
  <1> HIDE DEF T
  <1>11. 0 \in P /\ \A i \in 1 .. N : i - 1 \in P => i \in P
    BY <1>1, <1>9, <1>10
  <1>12. 0 .. N \subseteq P
    <2> HIDE DEF P
    <2> QED
      BY <1>1, <1>11, StaysIn
  <1>13. T(N)
    BY <1>1, <1>12
  <1>14. CASE q = <<>>
    <2>1. kept[N] = <<>>
      BY <1>1, <1>13, <1>14 DEF T, q
    <2> QED
      BY <2>1, <1>2, <1>14, EmptyQueued DEF q
  <1>15. CASE q # <<>>
    <2>1. N > 0
      BY <1>1, <1>15 DEF q
    <2> QED
      BY <2>1, <1>2, <1>13, <1>15 DEF T, q, Runs
  <1> QED
    BY <1>14, <1>15

-----------------------------------------------------------------------------
(***************************************************************************)
(* The invariant, body by body.                                            *)
(***************************************************************************)

\* Walks f and queues q suit bodies at the cells c of whom those in X cross.
Suits(f, q, c, X) ==
  /\ c \in [Bodies -> Cell] /\ q \in [Bodies -> Seq(Orders)]
  /\ DOMAIN f \subseteq Bodies /\ X \subseteq DOMAIN f
  /\ \A y \in Bodies :
       /\ Queued(q[y]) /\ (y \in DOMAIN f <=> Runs(q[y]))
       /\ y \notin alive \cup dying => q[y] = <<>>
       /\ y \in DOMAIN f => Leads(f[y], c[y])
       /\ y \in X => Crosses(f[y], c[y])

Settled ==
  /\ scene \in Scenes
  /\ alive \subseteq Bodies /\ dying \subseteq Bodies \ alive /\ disabled \subseteq Bodies
  /\ claimed \subseteq Cell /\ site \in BOOLEAN
  /\ turn \in 0 .. Cardinality(Bodies) /\ events \in 0 .. MaxEvents

Inv == Settled /\ Suits(walk, queue, at, crossing) /\ ClaimsMatch

LEMMA Constants ==
  /\ Cardinality(Bodies) \in Nat \ {0} /\ Bodies = 1 .. Cardinality(Bodies)
  /\ {BlockedWait, GiveUp, Growth, Lookahead, MaxEvents} \subseteq Nat
  BY FS_CardinalityType, CellWalkAssumption

LEMMA WithOne ==
  ASSUME NEW f, NEW b, NEW v
  PROVE  /\ DOMAIN With(f, b, v) = DOMAIN f \cup {b} /\ With(f, b, v)[b] = v
         /\ \A y \in DOMAIN f \ {b} : With(f, b, v)[y] = f[y]
         /\ DOMAIN Without(f, b) = DOMAIN f \ {b}
         /\ \A y \in DOMAIN f \ {b} : Without(f, b)[y] = f[y]
  BY DEF With, Without

\* One body is given another walk, and may have moved.
LEMMA SuitsWith ==
  ASSUME NEW f, NEW q, NEW c, NEW X, Suits(f, q, c, X),
         NEW b \in DOMAIN f, NEW d \in [Bodies -> Cell], NEW Y,
         \A y \in Bodies \ {b} : d[y] = c[y] /\ (y \in Y <=> y \in X), Y \subseteq DOMAIN f,
         NEW v, Leads(v, d[b]), b \in Y => Crosses(v, d[b])
  PROVE  Suits(With(f, b, v), q, d, Y)
  <1> DEFINE g == With(f, b, v)
  <1>1. b \in Bodies /\ DOMAIN f \subseteq Bodies /\ X \subseteq DOMAIN f
    BY DEF Suits
  <1>2. DOMAIN g = DOMAIN f /\ g[b] = v /\ \A y \in DOMAIN f \ {b} : g[y] = f[y]
    <2>1. DOMAIN g = DOMAIN f \cup {b} /\ g[b] = v /\ \A y \in DOMAIN f \ {b} : g[y] = f[y]
      BY DEF With
    <2> HIDE DEF g
    <2> QED
      BY <2>1
  <1> HIDE DEF g
  <1>3. ASSUME NEW y \in Bodies
        PROVE  /\ y \in DOMAIN g => Leads(g[y], d[y])
               /\ y \in Y => Crosses(g[y], d[y])
    <2>1. CASE y = b
      BY <2>1, <1>2
    <2>2. CASE y # b
      BY <2>2, <1>1, <1>2 DEF Suits
    <2> QED
      BY <2>1, <2>2
  <1> QED
    BY <1>1, <1>2, <1>3 DEF Suits, g

\* The walk of one body is over, and its order with it.
LEMMA SuitsWithout ==
  ASSUME NEW f, NEW q, NEW c, NEW X, Suits(f, q, c, X),
         NEW b \in DOMAIN f, NEW d \in [Bodies -> Cell], NEW Y, b \notin Y,
         \A y \in Bodies \ {b} : d[y] = c[y] /\ (y \in Y <=> y \in X), Y \subseteq DOMAIN f
  PROVE  Suits(Without(f, b), [q EXCEPT ![b] = Tail(@)], d, Y)
  <1> DEFINE g == Without(f, b)
             p == [q EXCEPT ![b] = Tail(@)]
  <1>1. b \in Bodies /\ DOMAIN f \subseteq Bodies /\ X \subseteq DOMAIN f /\ DOMAIN q = Bodies
    BY DEF Suits
  <1>2. DOMAIN g = DOMAIN f \ {b} /\ \A y \in DOMAIN f \ {b} : g[y] = f[y]
    BY WithOne, Zenon
  <1>3. Queued(q[b]) /\ q[b] # <<>>
    BY <1>1 DEF Suits, Runs
  <1>4. DOMAIN p = Bodies /\ p[b] = Tail(q[b]) /\ \A y \in Bodies \ {b} : p[y] = q[y]
    BY <1>1
  <1>5. Queued(p[b]) /\ ~Runs(p[b])
    BY <1>3, <1>4, TailQueued
  <1>6. p \in [Bodies -> Seq(Orders)]
    <2>1. p[b] \in Seq(Orders)
      BY <1>5 DEF Queued
    <2>2. q \in [Bodies -> Seq(Orders)]
      BY DEF Suits
    <2>3. p = [q EXCEPT ![b] = p[b]]
      BY <1>4
    <2> DEFINE S == Seq(Orders)
               e == p[b]
    <2> HIDE DEF S, e
    <2>4. [q EXCEPT ![b] = e] \in [Bodies -> S]
      BY <2>1, <2>2 DEF S, e
    <2> QED
      BY <2>3, <2>4 DEF S, e
  <1>7. b \in alive \cup dying
    BY <1>1, <1>3 DEF Suits
  <1> HIDE DEF g, p
  <1>8. ASSUME NEW y \in Bodies
        PROVE  /\ Queued(p[y]) /\ (y \in DOMAIN g <=> Runs(p[y]))
               /\ y \notin alive \cup dying => p[y] = <<>>
               /\ y \in DOMAIN g => Leads(g[y], d[y])
               /\ y \in Y => Crosses(g[y], d[y])
    <2>1. CASE y = b
      BY <2>1, <1>2, <1>5, <1>7
    <2>2. CASE y # b
      BY <2>2, <1>1, <1>2, <1>4 DEF Suits
    <2> QED
      BY <2>1, <2>2
  <1>9. DOMAIN g \subseteq Bodies /\ Y \subseteq DOMAIN g
    BY <1>1, <1>2
  <1> QED
    BY <1>6, <1>8, <1>9 DEF Suits, g, p

\* One body sets out anew, whatever it was told before.
LEMMA SuitsAnew ==
  ASSUME NEW f, NEW q, NEW c, NEW X, Suits(f, q, c, X),
         NEW b \in alive \cup dying, b \in Bodies \ X, NEW e \in Orders, e.state = "running"
  PROVE  Suits(With(f, b, NewWalk), [q EXCEPT ![b] = <<e>>], c, X)
  <1> DEFINE g == With(f, b, NewWalk)
             p == [q EXCEPT ![b] = <<e>>]
  <1>1. DOMAIN f \subseteq Bodies /\ X \subseteq DOMAIN f /\ q \in [Bodies -> Seq(Orders)]
        /\ c \in [Bodies -> Cell]
    BY DEF Suits
  <1>2. DOMAIN g = DOMAIN f \cup {b} /\ g[b] = NewWalk /\ \A y \in DOMAIN f \ {b} : g[y] = f[y]
    <2> DEFINE v == NewWalk
               h == With(f, b, v)
    <2> HIDE DEF v
    <2>1. DOMAIN h = DOMAIN f \cup {b} /\ h[b] = v /\ \A y \in DOMAIN f \ {b} : h[y] = f[y]
      BY DEF With
    <2> QED
      BY <2>1, Zenon DEF v
  <1>3. Queued(<<e>>) /\ Runs(<<e>>)
    BY DEF Queued, Runs
  <1>4. DOMAIN p = Bodies /\ p[b] = <<e>> /\ \A y \in Bodies \ {b} : p[y] = q[y]
    BY <1>1
  <1>5. p \in [Bodies -> Seq(Orders)]
    <2> DEFINE S == Seq(Orders)
               s == <<e>>
    <2>1. s \in S
      BY <1>3 DEF Queued
    <2> HIDE DEF S, s
    <2>2. [q EXCEPT ![b] = s] \in [Bodies -> S]
      BY <1>1, <2>1 DEF S
    <2> QED
      BY <2>2 DEF S, s
  <1>6. Leads(NewWalk, c[b])
    BY NewWalkLeads
  <1> HIDE DEF g, p
  <1>7. ASSUME NEW y \in Bodies
        PROVE  /\ Queued(p[y]) /\ (y \in DOMAIN g <=> Runs(p[y]))
               /\ y \notin alive \cup dying => p[y] = <<>>
               /\ y \in DOMAIN g => Leads(g[y], c[y])
               /\ y \in X => Crosses(g[y], c[y])
    <2>1. CASE y = b
      BY <2>1, <1>2, <1>3, <1>4, <1>6
    <2>2. CASE y # b
      BY <2>2, <1>1, <1>2, <1>4 DEF Suits
    <2> QED
      BY <2>1, <2>2
  <1>8. DOMAIN g \subseteq Bodies /\ X \subseteq DOMAIN g
    BY <1>1, <1>2
  <1> QED
    BY <1>1, <1>5, <1>7, <1>8 DEF Suits, g, p

-----------------------------------------------------------------------------
(***************************************************************************)
(* A body at rest works down the ladder.                                   *)
(***************************************************************************)

\* A walk that takes up a run of cells found from where its body is.
LEMMA Taken ==
  ASSUME NEW v, IsWalk(v), NEW c \in Cell, NEW targets, NEW r, Way(c, r, targets)
  PROVE  Leads([v EXCEPT !.path = r], c)
  <1>1. r \in Seq(Cell) /\ Joins(c, r)
    BY DEF Way
  <1> QED
    BY <1>1, OneField DEF Leads

LEMMA NoWay ==
  ASSUME NEW c, NEW targets
  PROVE  Way(c, <<>>, targets)
  BY EmptySeq DEF Way, Joins

LEMMA OpenRoutes ==
  ASSUME NEW c \in Cell, NEW targets
  PROVE  \A r \in Routes(c, targets, Open) : Way(c, r, targets)
  <1>1. Open \subseteq Cell
    BY DEF Open
  <1> QED
    BY <1>1, RoutesLead

LEMMA FreeRoutes ==
  ASSUME NEW b, at[b] \in Cell, NEW o
  PROVE  \A r \in ClaimAwareRoutes(b, o) : Way(at[b], r, Accepting(o.goal, o.range))
  <1> DEFINE free == Open \ (claimed \ {at[b]})
             c == at[b]
             targets == Accepting(o.goal, o.range)
  <1>1. free \subseteq Cell /\ c \in Cell
    BY DEF Open
  <1>2. \A r \in ClaimAwareRoutes(b, o) : r \in Routes(c, targets, free)
    BY DEF ClaimAwareRoutes
  <1> HIDE DEF free, c, targets
  <1>3. \A r \in Routes(c, targets, free) : Way(c, r, targets)
    BY <1>1, RoutesLead
  <1> QED
    BY <1>2, <1>3 DEF c, targets

LEMMA SegmentLeads ==
  ASSUME NEW b, at[b] \in Cell, Leads(walk[b], at[b]), NEW v \in NextSegment(b)
  PROVE  Leads(v, at[b])
  <1> DEFINE w == walk[b]
             o == Order(b)
             c == at[b]
             goal(plan) == Accepting(plan[1], plan[2])
             to(plan) == Routes(c, goal(plan), Open)
             unplanned == [w EXCEPT !.plan = NoPlan]
             heedless == [unplanned EXCEPT !.avoid = FALSE]
             repaired == RepairGoal(c, o.goal, o.range)
             renewed == [w EXCEPT !.plan = repaired]
             free == ClaimAwareRoutes(b, o)
             ends == Accepting(o.goal, o.range)
  <1>1. \/ v = w
        \/ \E r \in to(w.plan) : v = [w EXCEPT !.path = r]
        \/ \E r \in free \cup {<<>>} : v = [heedless EXCEPT !.path = r]
        \/ \E r \in to(repaired) : v = [renewed EXCEPT !.path = r]
    BY Zenon DEF NextSegment
  <1>2. IsWalk(w) /\ c \in Cell
    BY DEF Leads
  <1>3. IsWalk(unplanned)
    <2> HIDE DEF w
    <2> QED
      BY <1>2, OneField
  <1>4. IsWalk(heedless)
    <2> HIDE DEF unplanned
    <2> QED
      BY <1>3, OneField
  <1>5. IsWalk(renewed)
    <2> HIDE DEF w, repaired
    <2> QED
      BY <1>2, OneField
  <1>6. \A plan : \A r \in to(plan) : Way(c, r, goal(plan))
    <2> TAKE plan
    <2> DEFINE targets == goal(plan)
    <2> HIDE DEF goal, c
    <2> QED
      BY <1>2, OpenRoutes
  <1>7. \A r \in free : Way(c, r, ends)
    BY FreeRoutes
  <1> HIDE DEF w, o, c, to, goal, unplanned, heedless, repaired, renewed, free, ends
  <1>8. CASE v = w
    BY <1>8 DEF w
  <1>9. CASE \E r \in to(w.plan) : v = [w EXCEPT !.path = r]
    <2>1. Leads(v, c)
      BY <1>2, <1>6, <1>9, Taken
    <2> QED
      BY <2>1 DEF c
  <1>10. CASE \E r \in free \cup {<<>>} : v = [heedless EXCEPT !.path = r]
    <2>1. PICK r \in free \cup {<<>>} : v = [heedless EXCEPT !.path = r]
      BY <1>10
    <2>2. Way(c, r, ends)
      BY <1>7, NoWay
    <2>3. Leads(v, c)
      BY <1>2, <1>4, <2>1, <2>2, Taken
    <2> QED
      BY <2>3 DEF c
  <1>11. CASE \E r \in to(repaired) : v = [renewed EXCEPT !.path = r]
    <2>1. Leads(v, c)
      BY <1>2, <1>5, <1>6, <1>11, Taken
    <2> QED
      BY <2>1 DEF c
  <1> QED
    BY <1>1, <1>8, <1>9, <1>10, <1>11

\* What becomes of the walks and queues while every body stays where it is.
Rests(f, q) == Suits(f, q, at, crossing) /\ \A y \in crossing : f[y] = walk[y]

LEMMA RestsWith ==
  ASSUME NEW f, NEW q, Rests(f, q), NEW b \in DOMAIN f, b \notin crossing,
         NEW v, Leads(v, at[b])
  PROVE  Rests(With(f, b, v), q)
  <1> DEFINE c == at
             X == crossing
  <1>1. Suits(f, q, c, X) /\ X \subseteq DOMAIN f /\ c \in [Bodies -> Cell]
    BY DEF Rests, Suits
  <1>2. \A y \in Bodies \ {b} : c[y] = c[y] /\ (y \in X <=> y \in X)
    OBVIOUS
  <1>3. b \in X => Crosses(v, c[b])
    OBVIOUS
  <1>4. Leads(v, c[b])
    OBVIOUS
  <1>5. Suits(With(f, b, v), q, c, X)
    <2> HIDE DEF c, X
    <2> QED
      BY <1>1, <1>2, <1>3, <1>4, SuitsWith
  <1>6. \A y \in crossing : With(f, b, v)[y] = f[y]
    BY <1>1 DEF With
  <1> QED
    BY <1>5, <1>6 DEF Rests

LEMMA RestsWithout ==
  ASSUME NEW f, NEW q, Rests(f, q), NEW b \in DOMAIN f, b \notin crossing
  PROVE  Rests(Without(f, b), [q EXCEPT ![b] = Tail(@)])
  <1> DEFINE c == at
             X == crossing
  <1>1. Suits(f, q, c, X) /\ X \subseteq DOMAIN f /\ c \in [Bodies -> Cell]
    BY DEF Rests, Suits
  <1>2. \A y \in Bodies \ {b} : c[y] = c[y] /\ (y \in X <=> y \in X)
    OBVIOUS
  <1>3. b \notin X
    OBVIOUS
  <1>4. Suits(Without(f, b), [q EXCEPT ![b] = Tail(@)], c, X)
    <2> HIDE DEF c, X
    <2> QED
      BY <1>1, <1>2, <1>3, SuitsWithout
  <1>5. \A y \in crossing : Without(f, b)[y] = f[y]
    BY <1>1 DEF Without
  <1> QED
    BY <1>4, <1>5 DEF Rests

LEMMA RestsAnew ==
  ASSUME NEW f, NEW q, Rests(f, q), NEW b \in alive \cup dying, b \in Bodies \ crossing,
         NEW e \in Orders, e.state = "running"
  PROVE  Rests(With(f, b, NewWalk), [q EXCEPT ![b] = <<e>>])
  <1> DEFINE c == at
             X == crossing
             p == [q EXCEPT ![b] = <<e>>]
  <1>1. Suits(f, q, c, X) /\ X \subseteq DOMAIN f
    BY DEF Rests, Suits
  <1>2. Suits(With(f, b, NewWalk), p, c, X)
    BY <1>1, SuitsAnew
  <1>3. \A y \in crossing : With(f, b, NewWalk)[y] = f[y]
    BY <1>1 DEF With
  <1> QED
    BY <1>2, <1>3 DEF Rests

LEMMA DetoursLead ==
  ASSUME NEW from \in Cell, NEW rejoin
  PROVE  \A r \in Detours(from, rejoin) : Way(from, r, {rejoin})
  <1> SUFFICES ASSUME NEW r \in Detours(from, rejoin) PROVE Way(from, r, {rejoin})
    OBVIOUS
  <1>1. PICK claims \in SUBSET (claimed \ {from}) :
          r \in Routes(from, {rejoin}, Open \ (claimed \ claims))
    BY DEF Detours
  <1>2. Open \ (claimed \ claims) \subseteq Cell
    BY DEF Open
  <1> QED
    BY <1>1, <1>2, RoutesLead

\* Waiting, going round or planning anew moves nobody, and whatever path it
\* takes leads on from where the body is.
LEMMA PatienceRests ==
  ASSUME NEW f, NEW q, Rests(f, q), NEW b \in DOMAIN f, b \notin crossing,
         NEW w, Leads(w, at[b]), w.path # <<>>, Patience(b, w, f, q)
  PROVE  Rests(walk', queue')
  <1> DEFINE rejoin == Min({Len(w.path), 1 + Lookahead})
             beyond == SubSeq(w.path, rejoin + 1, Len(w.path))
             climbed == [w EXCEPT !.wait = 0, !.frustration = @ + 1]
             detours == Detours(at[b], w.path[rejoin]) \ {<<>>}
             around(r) == [climbed EXCEPT !.detoured = TRUE, !.path = r \o beyond]
  <1>1. \/ /\ w.wait < BlockedWait
           /\ walk' = With(f, b, Waited(w)) /\ queue' = q
        \/ walk' = Without(f, b) /\ queue' = [q EXCEPT ![b] = Tail(@)]
        \/ /\ ~(climbed.frustration > GiveUp) /\ queue' = q
           /\ \/ \E r \in detours : walk' = With(f, b, around(r))
              \/ walk' = With(f, b, Repath(climbed))
    BY Zenon DEF Patience
  <1>2. IsWalk(w) /\ w.path \in Seq(Cell) /\ Joins(at[b], w.path) /\ at[b] \in Cell
    <2>1. b \in Bodies /\ at \in [Bodies -> Cell]
      BY DEF Rests, Suits
    <2> QED
      BY <2>1 DEF Leads, IsWalk
  <1>3. CASE /\ w.wait < BlockedWait
             /\ walk' = With(f, b, Waited(w)) /\ queue' = q
    <2>1. Leads(Waited(w), at[b])
      BY <1>2, <1>3, Calmed DEF Leads
    <2> QED
      BY <1>3, <2>1, RestsWith
  <1>4. CASE walk' = Without(f, b) /\ queue' = [q EXCEPT ![b] = Tail(@)]
    BY <1>4, RestsWithout, Zenon
  <1>5. CASE ~(climbed.frustration > GiveUp) /\ queue' = q
             /\ \E r \in detours : walk' = With(f, b, around(r))
    <2>1. PICK r \in detours : walk' = With(f, b, around(r))
      BY <1>5
    <2>2. rejoin \in 1 .. Len(w.path)
      <3>1. Lookahead \in Nat /\ Len(w.path) \in Nat \ {0}
        BY <1>2, CellWalkAssumption, EmptySeq
      <3>2. Len(w.path) \in Nat /\ 1 + Lookahead \in Nat
        BY <3>1
      <3>3. rejoin \in {Len(w.path), 1 + Lookahead} /\ rejoin <= Len(w.path)
        <4> DEFINE m == Len(w.path)
                   n == 1 + Lookahead
        <4> HIDE DEF m, n
        <4>1. m \in Nat /\ n \in Nat
          BY <3>2 DEF m, n
        <4>2. Min({m, n}) \in {m, n} /\ Min({m, n}) <= m
          BY <4>1, MinOfTwo
        <4> QED
          BY <4>2 DEF m, n
      <3> HIDE DEF rejoin
      <3> QED
        BY <3>1, <3>3
    <2> HIDE DEF rejoin
    <2>3. r \in Seq(Cell) /\ r # <<>> /\ Joins(at[b], r) /\ r[Len(r)] = w.path[rejoin]
      <3>1. Way(at[b], r, {w.path[rejoin]})
        BY <1>2, DetoursLead
      <3> QED
        BY <3>1 DEF Way
    <2>4. r \o beyond \in Seq(Cell) /\ Joins(at[b], r \o beyond)
      <3> DEFINE c == at[b]
                 path == w.path
      <3>1. c \in Cell /\ path \in Seq(Cell) /\ rejoin \in 1 .. Len(path) /\ Joins(c, path)
            /\ r \in Seq(Cell) /\ r # <<>> /\ Joins(c, r) /\ r[Len(r)] = path[rejoin]
        BY <1>2, <2>2, <2>3
      <3> HIDE DEF c, path
      <3>2. LET whole == r \o SubSeq(path, rejoin + 1, Len(path))
            IN whole \in Seq(Cell) /\ Joins(c, whole)
        BY <3>1, Spliced
      <3> QED
        BY <3>2 DEF c, path
    <2>5. climbed = Climbed(w)
      BY DEF Climbed
    <2> DEFINE path == r \o beyond
    <2> HIDE DEF beyond, climbed
    <2>6. IsWalk(around(r)) /\ around(r).path = path
      <3>1. ~(Climbed(w).frustration > GiveUp)
        BY <1>5, <2>5
      <3>2. path \in Seq(Cell)
        BY <2>4
      <3> HIDE DEF path
      <3>3. LET v == [Climbed(w) EXCEPT !.detoured = TRUE, !.path = path]
            IN IsWalk(v) /\ v.path = path
        BY <1>2, <3>1, <3>2, ClimbedWalks
      <3> QED
        BY <2>5, <3>3 DEF path
    <2>7. Leads(around(r), at[b])
      BY <2>4, <2>6 DEF Leads
    <2> HIDE DEF around
    <2> QED
      BY <1>5, <2>1, <2>7, RestsWith
  <1>6. CASE ~(climbed.frustration > GiveUp) /\ queue' = q /\ walk' = With(f, b, Repath(climbed))
    <2>1. climbed = Climbed(w)
      BY DEF Climbed
    <2> HIDE DEF climbed
    <2>2. IsWalk(climbed)
      BY <1>2, <1>6, <2>1, ClimbedWalks
    <2>3. Leads(Repath(climbed), at[b])
      BY <2>2, Replanned
    <2> QED
      BY <1>6, <2>3, RestsWith
  <1> HIDE DEF rejoin, beyond, climbed, detours, around
  <1> QED
    BY <1>1, <1>3, <1>4, <1>5, <1>6

LEMMA LandingsAllowed ==
  ASSUME NEW b, NEW allowed
  PROVE  Landings(b, allowed) \subseteq (Reachable(Held(b)) \cap allowed) \ claimed
  <1> DEFINE around == {at[b], Held(b)}
             ring(n) == {c \in (Reachable(Held(b)) \cap allowed) \ claimed :
                           \E a \in around : Near(c, a, n)}
             rings == {n \in 1 .. Width + Height : ring(n) # {}}
  <1>1. Landings(b, allowed) = IF rings = {} THEN {} ELSE ring(Min(rings))
    BY Zenon DEF Landings
  <1>2. \A n : ring(n) \subseteq (Reachable(Held(b)) \cap allowed) \ claimed
    OBVIOUS
  <1> HIDE DEF ring, rings
  <1> QED
    BY <1>1, <1>2

LEMMA AsideAreCells ==
  ASSUME NEW x, NEW here, NEW path
  PROVE  WaysAside(x, here, path) \subseteq Cell
  <1> DEFINE allowed == {c \in Cell \ Range(path) :
                (c[1] - at[x][1]) * (path[1][1] - here[1])
                  + (c[2] - at[x][2]) * (path[1][2] - here[2]) >= 0}
  <1>1. allowed \subseteq Cell
    OBVIOUS
  <1>2. WaysAside(x, here, path) = Landings(x, allowed)
    BY DEF WaysAside
  <1> HIDE DEF allowed
  <1> QED
    BY <1>1, <1>2, LandingsAllowed

\* Past an exchange nobody moves, asked or not.
LEMMA ResolveRests ==
  ASSUME Rests(walk, queue), NEW b \in DOMAIN walk, b \notin crossing, alive \subseteq Bodies,
         NEW w, Leads(w, at[b]), w.path # <<>>, Resolve(b, w)
  PROVE  Rests(walk', queue')
  <1> DEFINE o == Order(b)
             here == at[b]
             next == w.path[1]
             settled == {x \in Claimants(next) \ crossing :
                           Idle(x) /\ scene.side[x] = scene.side[b]}
             skipped == [w EXCEPT !.path = Tail(@), !.wait = 0]
             asked(c) == [Entry([goal |-> c, range |-> 0]) EXCEPT !.state = "running"]
             routes == ClaimAwareRoutes(b, o) \ {<<>>}
  <1>1. \/ Finish(b)
        \/ Len(w.path) > 1 /\ Near(here, w.path[2], 1) /\ KeepOn(b, skipped)
        \/ \E x \in settled : \E c \in WaysAside(x, here, w.path) :
             Patience(b, w, With(walk, x, NewWalk), [queue EXCEPT ![x] = <<asked(c)>>])
        \/ \E route \in routes : KeepOn(b, TakeRoute(w, route))
        \/ Patience(b, w, walk, queue)
    BY Zenon DEF Resolve
  <1>2. /\ IsWalk(w) /\ w.path \in Seq(Cell) /\ Joins(here, w.path) /\ here \in Cell
        /\ b \in Bodies /\ Runs(queue[b])
    <2>1. b \in Bodies /\ at \in [Bodies -> Cell] /\ Runs(queue[b])
      BY DEF Rests, Suits
    <2> QED
      BY <2>1 DEF Leads, IsWalk
  <1>3. CASE Finish(b)
    BY <1>3, RestsWithout, Zenon DEF Finish
  <1>4. CASE Len(w.path) > 1 /\ Near(here, w.path[2], 1) /\ KeepOn(b, skipped)
    <2> DEFINE p == Tail(w.path)
               v == [w EXCEPT !.path = p]
    <2>1. p \in Seq(Cell) /\ Joins(here, p)
      <3> DEFINE path == w.path
                 c == here
      <3>1. path \in Seq(Cell) /\ path # <<>> /\ Joins(c, path) /\ c \in Cell
            /\ Len(path) > 1 /\ Near(c, path[2], 1)
        BY <1>2, <1>4
      <3> HIDE DEF path, c
      <3>2. Tail(path) \in Seq(Cell) /\ Joins(c, Tail(path))
        BY <3>1, TailLeadsOn
      <3> QED
        BY <3>2 DEF path, c
    <2> HIDE DEF p
    <2>2. IsWalk(v) /\ v.path = p
      BY <1>2, <2>1, OneField
    <2> HIDE DEF v
    <2>3. IsWalk([v EXCEPT !.wait = 0]) /\ [v EXCEPT !.wait = 0].path = p
      BY <2>2, Calmed
    <2>4. skipped = [v EXCEPT !.wait = 0]
      BY DEF v, p
    <2>5. Leads(skipped, at[b])
      <3> HIDE DEF skipped
      <3> QED
        BY <2>1, <2>3, <2>4 DEF Leads
    <2> HIDE DEF skipped
    <2> QED
      BY <1>4, <2>5, RestsWith DEF KeepOn
  <1>5. CASE \E x \in settled : \E c \in WaysAside(x, here, w.path) :
               Patience(b, w, With(walk, x, NewWalk), [queue EXCEPT ![x] = <<asked(c)>>])
    <2>1. PICK x \in settled : \E c \in WaysAside(x, here, w.path) :
               Patience(b, w, With(walk, x, NewWalk), [queue EXCEPT ![x] = <<asked(c)>>])
      BY <1>5
    <2>2. PICK c \in WaysAside(x, here, w.path) :
               Patience(b, w, With(walk, x, NewWalk), [queue EXCEPT ![x] = <<asked(c)>>])
      BY <2>1
    <2> DEFINE e == asked(c)
               f == With(walk, x, NewWalk)
               q == [queue EXCEPT ![x] = <<e>>]
    <2>3. c \in Cell
      BY <2>2, AsideAreCells
    <2>4. e \in Orders /\ e.state = "running"
      BY <2>3 DEF Entry, Orders, OrderEntry, MoveOrder, EntryState
    <2>5. x \in alive \cup dying /\ x \in Bodies \ crossing
      BY DEF Claimants
    <2> HIDE DEF e
    <2>6. Rests(f, q)
      BY <2>4, <2>5, RestsAnew
    <2>7. b \in DOMAIN f
      BY DEF With
    <2>8. Patience(b, w, f, q)
      BY <2>2 DEF e
    <2> HIDE DEF f, q
    <2> QED
      BY <2>6, <2>7, <2>8, PatienceRests
  <1>6. CASE \E route \in routes : KeepOn(b, TakeRoute(w, route))
    <2>1. PICK route \in routes : KeepOn(b, TakeRoute(w, route))
      BY <1>6
    <2>2. Way(at[b], route, Accepting(o.goal, o.range))
      BY <1>2, FreeRoutes
    <2>3. Leads(TakeRoute(w, route), at[b])
      BY <1>2, <2>2, Replanned DEF Way
    <2> QED
      BY <2>1, <2>3, RestsWith DEF KeepOn
  <1>7. CASE Patience(b, w, walk, queue)
    BY <1>7, PatienceRests
  <1> HIDE DEF o, here, next, settled, skipped, asked, routes
  <1> QED
    BY <1>1, <1>3, <1>4, <1>5, <1>6, <1>7

-----------------------------------------------------------------------------
(***************************************************************************)
(* Claims.                                                                 *)
(***************************************************************************)

Present == alive \cup dying

LEMMA ClaimsStay ==
  ASSUME ClaimsMatch, UNCHANGED <<scene, alive, dying, claimed, site>>,
         \A y \in Present : Held(y)' = Held(y)
  PROVE  ClaimsMatch'
  <1>1. Standing' = Standing
    BY DEF Standing
  <1>2. \A y \in alive' \cup dying' : y \in alive \cup dying /\ Held(y)' = Held(y)
    BY DEF Present
  <1> QED
    BY <1>1, <1>2 DEF ClaimsMatch

LEMMA ClaimsMove ==
  ASSUME ClaimsMatch, UNCHANGED <<alive, dying>>, NEW b \in Present,
         \A y \in Present \ {b} : Held(y)' = Held(y), Held(b)' \notin claimed,
         claimed' = (claimed \ {Held(b)}) \cup {Held(b)'},
         Held(b)' \notin Standing', Standing' \subseteq Standing \cup {Held(b)}
  PROVE  ClaimsMatch'
  <1> DEFINE B == alive \cup dying
             h(y) == Held(y)
             n == Held(b)'
  <1>1. /\ claimed = {h(y) : y \in B}
        /\ \A y, z \in B : h(y) = h(z) => y = z
        /\ claimed \cap Standing = {} /\ b \in B /\ (alive \cup dying)' = B
    BY DEF ClaimsMatch, Present
  <1>2. \A y \in B \ {b} : Held(y)' = h(y)
    BY DEF Present
  <1>3. \A y \in B \ {b} : h(y) \in claimed \ {h(b)} /\ h(y) # n
    BY <1>1
  <1>4. \A y \in B : Held(y)' = IF y = b THEN n ELSE h(y)
    BY <1>2
  <1>5. claimed' = {IF y = b THEN n ELSE h(y) : y \in B}
    <2>1. claimed' = (claimed \ {h(b)}) \cup {n}
      OBVIOUS
    <2> HIDE DEF h, n, B
    <2> QED
      BY <1>1, <2>1
  <1>6. claimed' = {Held(y)' : y \in B}
    BY <1>4, <1>5
  <1>7. \A y, z \in B : Held(y)' = Held(z)' => y = z
    <2> HIDE DEF h, n, B
    <2> QED
      BY <1>1, <1>3, <1>4
  <1>8. (claimed \cap Standing)' = {}
    BY <1>1
  <1> HIDE DEF B
  <1> QED
    BY <1>1, <1>6, <1>7, <1>8 DEF ClaimsMatch

LEMMA ClaimsSwap ==
  ASSUME ClaimsMatch, UNCHANGED <<scene, alive, dying, claimed, site>>,
         NEW b \in Present, NEW x \in Present, x # b,
         \A y \in Present \ {b, x} : Held(y)' = Held(y), Held(b)' = Held(x), Held(x)' = Held(b)
  PROVE  ClaimsMatch'
  <1> DEFINE B == alive \cup dying
             h(y) == Held(y)
  <1>1. /\ claimed = {h(y) : y \in B}
        /\ \A y, z \in B : h(y) = h(z) => y = z
        /\ claimed \cap Standing = {} /\ b \in B /\ x \in B /\ (alive \cup dying)' = B
    BY DEF ClaimsMatch, Present
  <1>2. Standing' = Standing
    BY DEF Standing
  <1>3. \A y \in B : Held(y)' = IF y = b THEN h(x) ELSE IF y = x THEN h(b) ELSE h(y)
    BY DEF Present
  <1>4. claimed' = {IF y = b THEN h(x) ELSE IF y = x THEN h(b) ELSE h(y) : y \in B}
    <2>1. claimed' = claimed
      OBVIOUS
    <2> HIDE DEF h, B
    <2> QED
      BY <1>1, <2>1
  <1>5. claimed' = {Held(y)' : y \in B}
    BY <1>3, <1>4
  <1>6. \A y, z \in B : Held(y)' = Held(z)' => y = z
    <2> HIDE DEF h, B
    <2> QED
      BY <1>1, <1>3
  <1> HIDE DEF B
  <1> QED
    BY <1>1, <1>2, <1>5, <1>6 DEF ClaimsMatch

-----------------------------------------------------------------------------
(***************************************************************************)
(* A body moves.                                                           *)
(***************************************************************************)

\* The step in progress lands: what is left of the path leads on.
LEMMA Lands ==
  ASSUME NEW f, NEW c, NEW X, Suits(f, queue, c, X), NEW b \in DOMAIN f,
         NEW w, Leads(w, c[b]), w.path # <<>>,
         NEW d \in [Bodies -> Cell], d[b] = w.path[1], NEW Y, b \notin Y, Y \subseteq DOMAIN f,
         \A y \in Bodies \ {b} : d[y] = c[y] /\ (y \in Y <=> y \in X),
         Land(b, w, f)
  PROVE  Suits(walk', queue', d, Y) /\ \A y \in DOMAIN f \ {b} : walk'[y] = f[y]
  <1> DEFINE left == [w EXCEPT !.path = Tail(@)]
             p == Tail(w.path)
  <1>1. \/ walk' = Without(f, b) /\ queue' = [queue EXCEPT ![b] = Tail(@)]
        \/ walk' = With(f, b, left) /\ queue' = queue
    BY Zenon DEF Land
  <1>2. b \in Bodies /\ c[b] \in Cell
    BY DEF Suits
  <1>3. p \in Seq(Cell) /\ Joins(d[b], p)
    <2> DEFINE path == w.path
               e == c[b]
    <2>1. path \in Seq(Cell) /\ path # <<>> /\ Joins(e, path) /\ e \in Cell
      BY <1>2 DEF Leads, IsWalk
    <2> HIDE DEF path, e
    <2>2. Tail(path) \in Seq(Cell) /\ Joins(path[1], Tail(path))
      BY <2>1, TailLeadsOn
    <2> QED
      BY <2>2 DEF path
  <1>4. Leads(left, d[b])
    <2>1. left = [w EXCEPT !.path = p]
      BY DEF Leads, IsWalk
    <2> HIDE DEF left, p
    <2>2. IsWalk(w)
      BY DEF Leads
    <2> QED
      BY <1>3, <2>1, <2>2, OneField DEF Leads
  <1> HIDE DEF left, p
  <1>5. CASE walk' = Without(f, b) /\ queue' = [queue EXCEPT ![b] = Tail(@)]
    <2>1. Suits(Without(f, b), [queue EXCEPT ![b] = Tail(@)], d, Y)
      BY SuitsWithout
    <2> QED
      BY <1>5, <2>1 DEF Without
  <1>6. CASE walk' = With(f, b, left) /\ queue' = queue
    <2>1. Suits(With(f, b, left), queue, d, Y)
      BY <1>4, SuitsWith
    <2> QED
      BY <1>6, <2>1 DEF With
  <1> QED
    BY <1>1, <1>5, <1>6

\* What the step of one body leaves.
Stepped == Suits(walk', queue', at', crossing') /\ ClaimsMatch'

\* Where nobody moves the claims stay as they are.
LEMMA RestsStep ==
  ASSUME Inv, Rests(walk', queue'),
         UNCHANGED <<scene, alive, dying, site, at, crossing, claimed>>
  PROVE  Stepped
  <1>1. \A y \in Present : Held(y)' = Held(y)
    BY DEF Rests, Held
  <1> QED
    BY <1>1, ClaimsStay DEF Inv, Rests, Stepped

\* A body in a crossing comes to the cell it has held since it set off.
LEMMA CrossingLands ==
  ASSUME Inv, UNCHANGED <<scene, alive, dying, site>>, NEW b \in DOMAIN walk, b \in crossing,
         at' = [at EXCEPT ![b] = walk[b].path[1]], crossing' = crossing \ {b},
         Land(b, walk[b], walk), claimed' = claimed
  PROVE  Stepped
  <1> DEFINE w == walk[b]
  <1>1. /\ Suits(walk, queue, at, crossing) /\ b \in Bodies /\ at \in [Bodies -> Cell]
        /\ Leads(w, at[b]) /\ w.path # <<>> /\ crossing \subseteq DOMAIN walk
    BY DEF Inv, Suits, Crosses
  <1>2. w.path[1] \in Cell
    <2>1. w.path \in Seq(Cell)
      BY <1>1 DEF Leads, IsWalk
    <2> QED
      BY <1>1, <2>1, EmptySeq
  <1>3. /\ at' \in [Bodies -> Cell] /\ at'[b] = w.path[1]
        /\ \A y \in Bodies \ {b} : at'[y] = at[y] /\ (y \in crossing' <=> y \in crossing)
        /\ b \notin crossing' /\ crossing' \subseteq DOMAIN walk
    BY <1>1, <1>2
  <1>4. Suits(walk', queue', at', crossing') /\ \A y \in DOMAIN walk \ {b} : walk'[y] = walk[y]
    <2> DEFINE d == at'
               Y == crossing'
    <2>1. /\ d \in [Bodies -> Cell] /\ d[b] = w.path[1] /\ b \notin Y /\ Y \subseteq DOMAIN walk
          /\ \A y \in Bodies \ {b} : d[y] = at[y] /\ (y \in Y <=> y \in crossing)
      BY <1>3
    <2> HIDE DEF d, Y
    <2>2. Suits(walk', queue', d, Y) /\ \A y \in DOMAIN walk \ {b} : walk'[y] = walk[y]
      BY <1>1, <2>1, Lands
    <2> QED
      BY <2>2 DEF d, Y
  <1>5. \A y \in Present : Held(y)' = Held(y)
    <2> TAKE y \in Present
    <2>1. y \in Bodies
      BY DEF Present, Inv, Settled
    <2>2. CASE y = b
      BY <2>2, <1>3 DEF Held
    <2>3. CASE y # b
      BY <2>1, <2>3, <1>1, <1>3, <1>4 DEF Held
    <2> QED
      BY <2>2, <2>3
  <1> QED
    BY <1>4, <1>5, ClaimsStay DEF Inv, Stepped

LEMMA WalkersPresent ==
  ASSUME Inv, NEW b \in DOMAIN walk
  PROVE  /\ b \in Bodies /\ b \in Present /\ at[b] \in Cell /\ Leads(walk[b], at[b])
         /\ Runs(queue[b])
  <1>1. b \in Bodies /\ at[b] \in Cell /\ Runs(queue[b]) /\ Leads(walk[b], at[b])
    BY DEF Inv, Suits
  <1>2. queue[b] # <<>>
    BY <1>1 DEF Runs
  <1> QED
    BY <1>1, <1>2 DEF Inv, Suits, Present

LEMMA NextCell ==
  ASSUME NEW w, NEW c, Leads(w, c), w.path # <<>>
  PROVE  /\ w.path[1] \in Cell
         /\ Leads(Forgiven(w), c) /\ Forgiven(w).path = w.path
  <1>1. IsWalk(w) /\ w.path \in Seq(Cell) /\ Joins(c, w.path)
    BY DEF Leads, IsWalk
  <1>2. IsWalk(Forgiven(w)) /\ Forgiven(w).path = w.path
    BY <1>1, Calmed
  <1> QED
    BY <1>1, <1>2, EmptySeq DEF Leads

\* A body sets off for a free cell, and takes its claim along.
LEMMA SetsOff ==
  ASSUME Inv, UNCHANGED <<scene, alive, dying, site>>, NEW b \in DOMAIN walk, b \notin crossing,
         NEW w, Leads(w, at[b]), w.path # <<>>, w.path[1] # at[b],
         w.path[1] \notin Standing \cup claimed, SetOff(b, w)
  PROVE  Stepped
  <1> DEFINE next == w.path[1]
             v == Forgiven(w)
             d == at'
             Y == crossing'
  <1>1. /\ b \in Bodies /\ b \in Present /\ at \in [Bodies -> Cell] /\ next \in Cell
        /\ Leads(v, at[b]) /\ v.path = w.path
        /\ Suits(walk, queue, at, crossing) /\ crossing \subseteq DOMAIN walk
    BY WalkersPresent, NextCell DEF Inv, Suits
  <1>2. /\ Suits(walk', queue', at', crossing') /\ Held(b)' = next
        /\ \A y \in Present \ {b} : Held(y)' = Held(y)
    <2>1. CASE b \in scene.slow
      <3>1. crossing' = crossing \cup {b} /\ at' = at /\ walk' = With(walk, b, v) /\ queue' = queue
        BY <2>1 DEF SetOff, KeepOn
      <3>2. /\ d \in [Bodies -> Cell] /\ Y \subseteq DOMAIN walk
            /\ \A y \in Bodies \ {b} : d[y] = at[y] /\ (y \in Y <=> y \in crossing)
            /\ Leads(v, d[b]) /\ (b \in Y => Crosses(v, d[b]))
        BY <1>1, <3>1 DEF Crosses
      <3> HIDE DEF d, Y, v
      <3>3. Suits(With(walk, b, v), queue, d, Y)
        BY <1>1, <3>2, SuitsWith
      <3>4. Suits(walk', queue', at', crossing')
        BY <3>1, <3>3 DEF d, Y
      <3>5. Held(b)' = next
        BY <1>1, <3>1 DEF Held, With
      <3>6. \A y \in Present \ {b} : Held(y)' = Held(y)
        BY <1>1, <3>1 DEF Held, With
      <3> QED
        BY <3>4, <3>5, <3>6
    <2>2. CASE b \notin scene.slow
      <3>1. at' = [at EXCEPT ![b] = next] /\ crossing' = crossing /\ Land(b, v, walk)
        BY <2>2 DEF SetOff
      <3>2. /\ d \in [Bodies -> Cell] /\ Y \subseteq DOMAIN walk /\ b \notin Y /\ d[b] = v.path[1]
            /\ \A y \in Bodies \ {b} : d[y] = at[y] /\ (y \in Y <=> y \in crossing)
        BY <1>1, <3>1
      <3>3. v.path # <<>> /\ Leads(v, at[b]) /\ Suits(walk, queue, at, crossing)
        BY <1>1
      <3> HIDE DEF d, Y, v
      <3>4. Suits(walk', queue', d, Y) /\ \A y \in DOMAIN walk \ {b} : walk'[y] = walk[y]
        BY <3>1, <3>2, <3>3, Lands
      <3>5. Held(b)' = next
        BY <1>1, <3>1 DEF Held
      <3>6. \A y \in Present \ {b} : Held(y)' = Held(y)
        <4> TAKE y \in Present \ {b}
        <4>1. y \in Bodies
          BY DEF Present, Inv, Settled
        <4> QED
          BY <4>1, <1>1, <3>1, <3>4 DEF Held
      <3> QED
        BY <3>4, <3>5, <3>6 DEF d, Y
    <2> QED
      BY <2>1, <2>2
  <1>3. Held(b) = at[b] /\ claimed' = (claimed \ {at[b]}) \cup {next} /\ Standing' = Standing
    BY DEF Held, SetOff, Standing
  <1>4. ClaimsMatch'
    BY <1>1, <1>2, <1>3, ClaimsMove DEF Inv
  <1> QED
    BY <1>2, <1>4 DEF Stepped

\* Two bodies whose ways meet head on trade their cells, and their claims.
LEMMA Swaps ==
  ASSUME Inv, UNCHANGED <<scene, alive, dying, site, claimed>>,
         NEW b \in DOMAIN walk, b \notin crossing,
         NEW w, Leads(w, at[b]), w.path # <<>>, w.path[1] # at[b],
         NEW x \in Claimants(w.path[1]), HeadOn(b, x, w), Swap(b, x, w)
  PROVE  Stepped
  <1> DEFINE here == at[b]
             next == w.path[1]
             v == Forgiven(w)
             counter == Forgiven(walk[x])
             u == IF x \in scene.slow THEN counter ELSE [counter EXCEPT !.path = Tail(@)]
             f == With(walk, x, u)
             c == [at EXCEPT ![x] = IF x \in scene.slow THEN @ ELSE here]
             X == crossing \cup ({x} \cap scene.slow)
             d == at'
             Y == crossing'
  <1>1. /\ b \in Bodies /\ b \in Present /\ at \in [Bodies -> Cell]
        /\ next \in Cell /\ here \in Cell
        /\ Leads(v, here) /\ v.path = w.path
        /\ Suits(walk, queue, at, crossing) /\ crossing \subseteq DOMAIN walk
    BY WalkersPresent, NextCell DEF Inv, Suits
  <1>2. /\ x \in DOMAIN walk /\ x \notin crossing /\ walk[x].path # <<>> /\ walk[x].path[1] = here
        /\ Held(x) = at[x] /\ at[x] = next /\ x # b
    BY DEF HeadOn, Walking, Claimants, Held
  <1>3. /\ x \in Bodies /\ x \in Present /\ Leads(walk[x], at[x])
        /\ Leads(counter, at[x]) /\ counter.path = walk[x].path
    BY <1>2, WalkersPresent, NextCell
  <1>4. /\ d = [at EXCEPT ![b] = IF b \in scene.slow THEN @ ELSE next,
                          ![x] = IF x \in scene.slow THEN @ ELSE here]
        /\ Y = crossing \cup ({b, x} \cap scene.slow)
        /\ IF b \in scene.slow THEN walk' = With(f, b, v) /\ queue' = queue ELSE Land(b, v, f)
    BY DEF Swap, KeepOn
  <1>5. Leads(u, c[x])
    <2>1. CASE x \in scene.slow
      BY <2>1, <1>1, <1>3
    <2>2. CASE x \notin scene.slow
      <3> DEFINE p == Tail(counter.path)
                 path == counter.path
                 e == at[x]
      <3>1. u = [counter EXCEPT !.path = p] /\ c[x] = path[1]
        BY <2>2, <1>1, <1>2, <1>3 DEF Leads, IsWalk
      <3>2. path \in Seq(Cell) /\ path # <<>> /\ Joins(e, path) /\ e \in Cell /\ IsWalk(counter)
        BY <1>1, <1>2, <1>3 DEF Leads, IsWalk
      <3> HIDE DEF e, u, c, path, counter
      <3>3. Tail(path) \in Seq(Cell) /\ Joins(path[1], Tail(path))
        BY <3>2, TailLeadsOn
      <3>4. p \in Seq(Cell) /\ Joins(c[x], p)
        BY <3>1, <3>3 DEF path
      <3> HIDE DEF p
      <3> QED
        BY <3>1, <3>2, <3>4, OneField DEF Leads
    <2> QED
      BY <2>1, <2>2
  <1>6. /\ c \in [Bodies -> Cell] /\ X \subseteq DOMAIN walk
        /\ \A y \in Bodies \ {x} : c[y] = at[y] /\ (y \in X <=> y \in crossing)
    BY <1>1, <1>2, <1>3
  <1>7. x \in X => Crosses(u, c[x]) /\ u = counter
    BY <1>1, <1>2, <1>3 DEF Crosses
  <1>8. Suits(f, queue, c, X)
    <2> HIDE DEF u, c, X
    <2> QED
      BY <1>1, <1>2, <1>5, <1>6, <1>7, SuitsWith
  <1>9. /\ DOMAIN f = DOMAIN walk /\ f[x] = u /\ \A y \in DOMAIN walk \ {x} : f[y] = walk[y]
    <2> HIDE DEF u
    <2> QED
      BY <1>2 DEF With
  <1>10. /\ d \in [Bodies -> Cell] /\ Y \subseteq DOMAIN f /\ d[b] = IF b \in scene.slow THEN here ELSE next
         /\ (b \in Y <=> b \in scene.slow) /\ c[b] = here
         /\ \A y \in Bodies \ {b} : d[y] = c[y] /\ (y \in Y <=> y \in X)
    <2> HIDE DEF d, Y, f, u
    <2> QED
      BY <1>1, <1>2, <1>3, <1>4, <1>9
  <1> HIDE DEF d, Y, f, u, c, X, v, counter
  <1>11. /\ Suits(walk', queue', d, Y) /\ \A y \in DOMAIN f \ {b} : walk'[y] = f[y]
         /\ b \in Y => walk'[b] = v
    <2>1. CASE b \in scene.slow
      <3>1. b \in Y => Crosses(v, d[b])
        BY <1>1, <1>10, <2>1 DEF Crosses
      <3>2. Leads(v, d[b])
        BY <1>1, <1>10, <2>1
      <3>3. Suits(With(f, b, v), queue, d, Y)
        BY <1>8, <1>9, <1>10, <3>1, <3>2, SuitsWith
      <3> QED
        BY <1>4, <2>1, <3>3 DEF With
    <2>2. CASE b \notin scene.slow
      <3>1. v.path # <<>> /\ Leads(v, c[b]) /\ d[b] = v.path[1] /\ b \notin Y /\ Land(b, v, f)
        BY <1>1, <1>4, <1>10, <2>2
      <3> HIDE DEF next, here
      <3>2. Suits(walk', queue', d, Y) /\ \A y \in DOMAIN f \ {b} : walk'[y] = f[y]
        BY <1>8, <1>9, <1>10, <3>1, Lands
      <3> QED
        BY <3>1, <3>2
    <2> QED
      BY <2>1, <2>2
  <1>12. Held(b)' = next /\ Held(b) = here
    BY <1>1, <1>10, <1>11 DEF Held, d, Y
  <1>13. Held(x)' = here
    <2>1. CASE x \in Y
      <3>1. x \in X
        BY <2>1, <1>2, <1>3, <1>10
      <3>2. walk'[x] = counter
        BY <3>1, <1>2, <1>7, <1>9, <1>11
      <3> QED
        BY <2>1, <3>2, <1>2, <1>3 DEF Held, Y
    <2>2. CASE x \notin Y
      <3>1. x \notin scene.slow
        BY <2>2, <1>4
      <3>2. d[x] = here
        BY <3>1, <1>1, <1>2, <1>3, <1>4
      <3> QED
        BY <2>2, <3>2 DEF Held, d, Y
    <2> QED
      BY <2>1, <2>2
  <1>14. \A y \in Present \ {b, x} : Held(y)' = Held(y)
    <2> TAKE y \in Present \ {b, x}
    <2>1. y \in Bodies
      BY DEF Present, Inv, Settled
    <2>2. d[y] = at[y] /\ (y \in Y <=> y \in crossing)
      BY <2>1, <1>6, <1>10
    <2>3. y \in crossing => walk'[y] = walk[y]
      BY <1>1, <1>9, <1>11
    <2> QED
      BY <2>2, <2>3 DEF Held, d, Y
  <1>15. ClaimsMatch'
    BY <1>1, <1>2, <1>3, <1>12, <1>13, <1>14, ClaimsSwap DEF Inv
  <1> QED
    BY <1>11, <1>15 DEF Stepped, d, Y

\* Every step a walk takes in its turn.
LEMMA StepsKeep ==
  ASSUME Inv, UNCHANGED <<scene, alive, dying, site>>, NEW b \in DOMAIN walk, ProcessCell(b)
  PROVE  Stepped
  <1>1. Leads(walk[b], at[b]) /\ at[b] \in Cell /\ Rests(walk, queue) /\ alive \subseteq Bodies
    BY WalkersPresent DEF Rests, Inv, Settled
  <1>2. CASE b \in crossing
    BY <1>2, CrossingLands, Zenon DEF ProcessCell
  <1>3. CASE b \notin crossing /\ Finish(b) /\ UNCHANGED <<at, crossing, claimed>>
    <2>1. Rests(walk', queue')
      BY <1>1, <1>3, RestsWithout DEF Finish
    <2> QED
      BY <1>3, <2>1, RestsStep
  <1>4. CASE b \notin crossing /\ \E w \in IF walk[b].path = <<>> THEN NextSegment(b) ELSE {walk[b]} :
                                     w.path # <<>> /\ Step(b, w)
    <2>1. PICK w \in IF walk[b].path = <<>> THEN NextSegment(b) ELSE {walk[b]} :
                 w.path # <<>> /\ Step(b, w)
      BY <1>4
    <2>2. Leads(w, at[b])
      BY <1>1, <2>1, SegmentLeads
    <2>3. w.path[1] # at[b]
      BY <2>1 DEF Step
    <2>4. CASE w.path[1] \notin Standing \cup claimed /\ SetOff(b, w)
      BY <1>4, <2>1, <2>2, <2>3, <2>4, SetsOff
    <2>5. CASE claimed' = claimed /\ \E x \in Claimants(w.path[1]) : HeadOn(b, x, w) /\ Swap(b, x, w)
      BY <1>4, <2>1, <2>2, <2>3, <2>5, Swaps
    <2>6. CASE claimed' = claimed /\ Resolve(b, w) /\ UNCHANGED <<at, crossing>>
      <3>1. Rests(walk', queue')
        BY <1>1, <1>4, <2>1, <2>2, <2>6, ResolveRests
      <3> QED
        BY <2>6, <3>1, RestsStep
    <2> QED
      BY <2>1, <2>4, <2>5, <2>6 DEF Step
  <1> QED
    BY <1>2, <1>3, <1>4, Zenon DEF ProcessCell

-----------------------------------------------------------------------------
(***************************************************************************)
(* The tick prepares the queues.                                           *)
(***************************************************************************)

\* The order at the front is started anew or resumed.
LEMMA FrontStarted ==
  ASSUME NEW k, Queued(k), k # <<>>
  PROVE  LET s == <<[k[1] EXCEPT !.state = "running", !.cancel = Unmarked]>> \o Tail(k)
         IN Queued(s) /\ Runs(s)
  <1> DEFINE S == Orders
             e == [k[1] EXCEPT !.state = "running", !.cancel = Unmarked]
             rest == Tail(k)
             s == <<e>> \o rest
  <1>1. k \in Seq(S) /\ Len(k) \in Nat \ {0} /\ DOMAIN k = 1 .. Len(k) /\ k[1] \in S
    BY EmptySeq, LenProperties DEF Queued
  <1>2. e \in S /\ e.state = "running"
    BY <1>1 DEF Orders, OrderEntry, EntryState, Policy, Unmarked
  <1>3. Queued(rest) /\ ~Runs(rest)
    BY TailQueued
  <1> HIDE DEF S, e, rest
  <1>4. rest \in Seq(S) /\ Len(rest) \in Nat /\ DOMAIN rest = 1 .. Len(rest)
        /\ (rest = <<>> <=> Len(rest) = 0)
    BY <1>3, EmptySeq, LenProperties DEF Queued, S
  <1>5. <<e>> \in Seq(S) /\ Len(<<e>>) = 1 /\ <<e>>[1] = e
    BY <1>2
  <1>6. /\ s \in Seq(S) /\ Len(s) = 1 + Len(rest)
        /\ \A i \in 1 .. 1 + Len(rest) : s[i] = IF i <= 1 THEN e ELSE rest[i - 1]
    BY <1>4, <1>5, ConcatProperties
  <1> HIDE DEF s
  <1>7. DOMAIN s = 1 .. 1 + Len(rest) /\ s[1] = e
    BY <1>4, <1>6, LenProperties
  <1>8. \A i \in DOMAIN rest : rest[i].state = "new"
    <2>1. \A i \in DOMAIN rest : i = 1 => rest # <<>>
      BY <1>4
    <2> QED
      BY <1>3, <2>1 DEF Queued, Runs
  <1>9. \A i \in DOMAIN s : s[i].state = "new" \/ (i = 1 /\ s[1].state = "running")
    <2> TAKE i \in DOMAIN s
    <2>1. CASE i = 1
      BY <2>1, <1>2, <1>7
    <2>2. CASE i # 1
      <3>1. i - 1 \in DOMAIN rest /\ s[i] = rest[i - 1]
        BY <2>2, <1>4, <1>6, <1>7
      <3> QED
        BY <3>1, <1>8
    <2> QED
      BY <2>1, <2>2
  <1>10. s # <<>>
    BY <1>4, <1>6, EmptySeq
  <1> QED
    BY <1>2, <1>6, <1>7, <1>9, <1>10 DEF Queued, Runs, s, e, rest, S

\* What the flush does to one body, by what stands at the front of its queue.
LEMMA FlushedFront ==
  ASSUME NEW b, Queued(queue[b])
  PROVE  /\ Queued(Kept(b))
         /\ queue[b] = <<>> => Kept(b) = <<>>
         /\ Runs(Kept(b)) => Runs(queue[b]) /\ ~CancelledBy(b, "force")
         /\ /\ Walking(b) /\ Runs(queue[b]) /\ ~CancelledBy(b, "force")
            => Kept(b) # <<>> /\ Kept(b)[1].state = "running"
  <1> DEFINE q == queue[b]
             m == Marked(b)
  <1>1. Queued(m) /\ (Runs(m) <=> Runs(q)) /\ (q = <<>> <=> m = <<>>)
    <2>1. CASE b \in dying \cup disabled
      <3>1. m = MarkAll(q, "force") /\ "force" \in Policy
        BY <2>1 DEF Marked, Policy
      <3> DEFINE policy == "force"
      <3> HIDE DEF m, q, policy
      <3>2. m = MarkAll(q, policy) /\ policy \in Policy /\ Queued(q)
        BY <3>1 DEF policy, q
      <3> QED
        BY <3>2, MarkedQueued
    <2>2. CASE b \notin dying \cup disabled
      BY <2>2 DEF Marked
    <2> QED
      BY <2>1, <2>2
  <1>2. /\ Queued(Kept(b)) /\ (m = <<>> => Kept(b) = <<>>)
        /\ m # <<>> /\ ~Ends(m[1]) => Kept(b) # <<>> /\ Kept(b)[1] = m[1]
        /\ Runs(Kept(b)) => Runs(m) /\ ~Ends(m[1])
    BY <1>1, KeptQueued
  <1>3. CancelledBy(b, "force") <=> Walking(b) /\ m[1].cancel = "force"
    BY DEF CancelledBy
  <1>4. Runs(m) => m # <<>> /\ m[1].state = "running"
    BY DEF Runs
  <1>5. m[1].cancel = "force" => Ends(m[1])
    BY DEF Ends
  <1>6. m[1].state = "running" /\ m[1].cancel # "force" => ~Ends(m[1])
    BY DEF Ends
  <1> HIDE DEF m
  <1> QED
    BY <1>1, <1>2, <1>3, <1>4, <1>5, <1>6

LEMMA PrepareKeeps ==
  ASSUME Inv, Prepare
  PROVE  Inv'
  <1> DEFINE here == alive \cup dying
             stopped == {b \in here : CancelledBy(b, "force")}
             starts == {b \in here : Kept(b) # <<>> /\ Kept(b)[1].state = "new"}
             resumed(b) == <<[Kept(b)[1] EXCEPT !.state = "running", !.cancel = Unmarked]>> \o Tail(Kept(b))
  <1>1. /\ turn' = 1
        /\ at' = [b \in Bodies |-> IF b \in stopped THEN Held(b) ELSE at[b]]
        /\ crossing' = crossing \ stopped
        /\ queue' = [b \in Bodies |-> IF Kept(b) = <<>> THEN <<>> ELSE resumed(b)]
        /\ walk' = [b \in (DOMAIN walk \ stopped) \cup starts |->
             IF b \in starts THEN NewWalk
             ELSE IF CancelledBy(b, "soft") THEN LeaveOnlyCurrentTarget(walk[b]) ELSE walk[b]]
        /\ UNCHANGED <<scene, alive, dying, disabled, claimed, site, events>>
    BY DEF Prepare, SettleCrossing
  <1>2. /\ here \subseteq Bodies /\ at \in [Bodies -> Cell]
        /\ DOMAIN walk \subseteq Bodies /\ crossing \subseteq DOMAIN walk
    BY DEF Inv, Settled, Suits
  <1>3. ASSUME NEW y \in Bodies
        PROVE  /\ Queued(queue[y]) /\ (y \in DOMAIN walk <=> Runs(queue[y]))
               /\ y \notin here => queue[y] = <<>>
               /\ y \in DOMAIN walk => Leads(walk[y], at[y])
               /\ y \in crossing => Crosses(walk[y], at[y])
               /\ y \in DOMAIN walk => y \in here
    BY DEF Inv, Suits, Runs
  <1>4. ASSUME NEW y \in Bodies
        PROVE  /\ Queued(queue'[y]) /\ (Runs(queue'[y]) <=> Kept(y) # <<>>)
               /\ Kept(y) = <<>> => queue'[y] = <<>>
    <2>1. queue'[y] = IF Kept(y) = <<>> THEN <<>> ELSE resumed(y)
      BY <1>1
    <2>2. Queued(Kept(y))
      BY <1>3, FlushedFront
    <2>3. CASE Kept(y) = <<>>
      BY <2>1, <2>3, EmptyQueued
    <2>4. CASE Kept(y) # <<>>
      <3> DEFINE k == Kept(y)
      <3> HIDE DEF k
      <3>1. Queued(k) /\ k # <<>>
        BY <2>2, <2>4 DEF k
      <3>2. LET s == <<[k[1] EXCEPT !.state = "running", !.cancel = Unmarked]>> \o Tail(k)
            IN Queued(s) /\ Runs(s)
        BY <3>1, FrontStarted
      <3>3. Queued(resumed(y)) /\ Runs(resumed(y))
        BY <3>2 DEF k
      <3> QED
        BY <2>1, <2>4, <3>3
    <2> QED
      BY <2>3, <2>4
  <1>5. ASSUME NEW y \in Bodies
        PROVE  /\ Kept(y) # <<>> <=> y \in starts \/ (y \in DOMAIN walk /\ y \notin stopped)
               /\ y \in DOMAIN walk /\ y \notin stopped => y \notin starts
               /\ y \notin here => Kept(y) = <<>>
    <2>1. /\ Queued(Kept(y)) /\ (queue[y] = <<>> => Kept(y) = <<>>)
          /\ Runs(Kept(y)) => Runs(queue[y]) /\ ~CancelledBy(y, "force")
          /\ /\ Walking(y) /\ Runs(queue[y]) /\ ~CancelledBy(y, "force")
             => Kept(y) # <<>> /\ Kept(y)[1].state = "running"
      BY <1>3, FlushedFront
    <2>2. Kept(y) # <<>> => Kept(y)[1].state = "new" \/ Runs(Kept(y))
      <3>1. ASSUME Kept(y) # <<>> PROVE 1 \in DOMAIN Kept(y)
        <4>1. Kept(y) \in Seq(Orders)
          BY <2>1 DEF Queued
        <4> QED
          BY <3>1, <4>1, EmptySeq, LenProperties
      <3> QED
        BY <2>1, <3>1 DEF Queued, Runs
    <2>3. y \in DOMAIN walk <=> Walking(y)
      BY DEF Walking
    <2>4. y \in stopped <=> y \in here /\ CancelledBy(y, "force")
      OBVIOUS
    <2>5. y \in starts <=> y \in here /\ Kept(y) # <<>> /\ Kept(y)[1].state = "new"
      OBVIOUS
    <2>6. "new" # "running"
      OBVIOUS
    <2> HIDE DEF here, stopped, starts
    <2> QED
      BY <1>3, <2>1, <2>2, <2>3, <2>4, <2>5, <2>6
  <1>6. ASSUME NEW y \in DOMAIN walk, y \notin stopped
        PROVE  /\ Leads(walk'[y], at'[y]) /\ at'[y] = at[y]
               /\ walk[y].path # <<>> => walk'[y].path # <<>> /\ walk'[y].path[1] = walk[y].path[1]
    <2>1. y \in Bodies /\ y \notin starts /\ Leads(walk[y], at[y])
      BY <1>2, <1>3, <1>5, <1>6
    <2>2. at'[y] = at[y]
      BY <1>1, <1>6, <2>1
    <2>3. walk'[y] = IF CancelledBy(y, "soft") THEN LeaveOnlyCurrentTarget(walk[y]) ELSE walk[y]
      BY <1>1, <1>6, <2>1
    <2>4. Leads(LeaveOnlyCurrentTarget(walk[y]), at[y])
          /\ (walk[y].path # <<>> => /\ LeaveOnlyCurrentTarget(walk[y]).path # <<>>
                                     /\ LeaveOnlyCurrentTarget(walk[y]).path[1] = walk[y].path[1])
      BY <2>1, LeftOnly
    <2> QED
      BY <2>1, <2>2, <2>3, <2>4
  <1>7. ASSUME NEW y \in Bodies PROVE Held(y) \in Cell
    <2>1. CASE y \in crossing
      <3>1. walk[y].path \in Seq(Cell) /\ walk[y].path # <<>>
        BY <2>1, <1>2, <1>3 DEF Leads, IsWalk, Crosses
      <3> QED
        BY <2>1, <3>1, EmptySeq DEF Held
    <2>2. CASE y \notin crossing
      BY <2>2, <1>2 DEF Held
    <2> QED
      BY <2>1, <2>2
  <1>8. Suits(walk, queue, at, crossing)'
    <2>1. DOMAIN walk' = (DOMAIN walk \ stopped) \cup starts
      BY <1>1
    <2>2. DOMAIN walk' \subseteq Bodies /\ crossing' \subseteq DOMAIN walk'
      BY <1>1, <1>2, <2>1
    <2>3. at' \in [Bodies -> Cell]
      BY <1>1, <1>2, <1>7
    <2>4. queue' \in [Bodies -> Seq(Orders)]
      <3> DEFINE T == Seq(Orders)
                 g(b) == IF Kept(b) = <<>> THEN <<>> ELSE resumed(b)
      <3>1. \A y \in Bodies : queue'[y] \in T
        BY <1>4 DEF Queued
      <3>2. queue' = [b \in Bodies |-> g(b)]
        BY <1>1
      <3> HIDE DEF T, g
      <3> QED
        BY <3>1, <3>2 DEF T
    <2>5. ASSUME NEW y \in Bodies
          PROVE  /\ Queued(queue'[y]) /\ (y \in DOMAIN walk' <=> Runs(queue'[y]))
                 /\ y \notin here => queue'[y] = <<>>
                 /\ y \in DOMAIN walk' => Leads(walk'[y], at'[y])
                 /\ y \in crossing' => Crosses(walk'[y], at'[y])
      <3>1. y \in DOMAIN walk' <=> Kept(y) # <<>>
        BY <1>5, <2>1
      <3>2. y \in starts => Leads(walk'[y], at'[y])
        <4>1. y \in starts => walk'[y] = NewWalk
          BY <1>1
        <4> QED
          BY <4>1, NewWalkLeads
      <3>3. y \in DOMAIN walk' => Leads(walk'[y], at'[y])
        BY <1>6, <2>1, <3>2
      <3>4. y \in crossing' => Crosses(walk'[y], at'[y])
        <4>1. ASSUME y \in crossing' PROVE y \in DOMAIN walk /\ y \notin stopped /\ y \in crossing
          BY <4>1, <1>1, <1>2
        <4> QED
          BY <4>1, <1>3, <1>6 DEF Crosses
      <3> QED
        BY <1>4, <1>5, <3>1, <3>3, <3>4
    <2> HIDE DEF stopped, starts
    <2> QED
      BY <1>1, <2>2, <2>3, <2>4, <2>5 DEF Suits
  <1>9. \A y \in Present : Held(y)' = Held(y)
    <2> TAKE y \in Present
    <2>1. y \in Bodies /\ y \in here
      BY <1>2 DEF Present
    <2>2. CASE y \in stopped
      BY <2>1, <2>2, <1>1 DEF Held
    <2>3. CASE y \notin stopped
      <3>1. y \in crossing' <=> y \in crossing
        BY <2>3, <1>1
      <3>2. at'[y] = at[y]
        BY <2>1, <2>3, <1>1
      <3>3. y \in crossing => walk'[y].path[1] = walk[y].path[1]
        BY <2>1, <2>3, <1>2, <1>3, <1>6 DEF Crosses
      <3> QED
        BY <3>1, <3>2, <3>3 DEF Held
    <2> QED
      BY <2>2, <2>3
  <1>10. ClaimsMatch'
    BY <1>1, <1>9, ClaimsStay DEF Inv
  <1>11. Settled'
    <2>1. 1 \in 0 .. Cardinality(Bodies)
      BY Constants
    <2> QED
      BY <1>1, <2>1 DEF Inv, Settled
  <1> QED
    BY <1>8, <1>10, <1>11 DEF Inv

-----------------------------------------------------------------------------
(***************************************************************************)
(* Every other step.                                                       *)
(***************************************************************************)

LEMMA ProcessKeeps ==
  ASSUME Inv, NEW b \in Bodies, Process(b)
  PROVE  Inv'
  <1>1. Suits(walk', queue', at', crossing') /\ ClaimsMatch' /\ claimed' \subseteq Cell
    <2>1. CASE b \in alive \ disabled /\ Walking(b)
      <3>1. b \in DOMAIN walk /\ ProcessCell(b) /\ UNCHANGED <<scene, alive, dying, site>>
        BY <2>1 DEF Process, Walking
      <3>2. Stepped
        BY <3>1, StepsKeep
      <3>3. claimed' \subseteq Cell
        <4>1. Suits(walk', queue', at', crossing') /\ ClaimsMatch'
          BY <3>2 DEF Stepped
        <4>2. ASSUME NEW y \in alive' \cup dying' PROVE Held(y)' \in Cell
          <5>1. y \in Bodies /\ at' \in [Bodies -> Cell]
            BY <3>1, <4>1 DEF Inv, Settled, Suits
          <5>2. y \in crossing' => walk'[y].path \in Seq(Cell) /\ walk'[y].path # <<>>
            BY <4>1 DEF Suits, Leads, IsWalk, Crosses
          <5> QED
            BY <5>1, <5>2, EmptySeq DEF Held
        <4> QED
          BY <4>1, <4>2 DEF ClaimsMatch
      <3> QED
        BY <3>2, <3>3 DEF Stepped
    <2>2. CASE UNCHANGED <<at, crossing, claimed, queue, walk, scene, alive, dying, site>>
      <3>1. \A y \in Present : Held(y)' = Held(y)
        BY <2>2 DEF Held
      <3> QED
        BY <2>2, <3>1, ClaimsStay DEF Inv, Settled
    <2> QED
      BY <2>1, <2>2 DEF Process
  <1>2. UNCHANGED <<scene, alive, dying, disabled, site, events>>
    BY DEF Process
  <1>3. turn' \in 0 .. Cardinality(Bodies)
    <2>1. turn' = (b + 1) % (Cardinality(Bodies) + 1) /\ b \in Nat
      BY Constants DEF Process
    <2> DEFINE n == Cardinality(Bodies) + 1
               k == b + 1
    <2>2. n \in Nat \ {0} /\ k \in Nat /\ turn' = k % n
      BY <2>1, Constants
    <2>3. k % n \in 0 .. n - 1
      <3> HIDE DEF n, k
      <3> QED
        BY <2>2
    <2> QED
      BY <2>2, <2>3, Constants
  <1> QED
    BY <1>1, <1>2, <1>3 DEF Inv, Settled, Suits

\* One queue changes, and what runs in it does not.
LEMMA SuitsQueue ==
  ASSUME Inv, NEW b \in alive, NEW s, Queued(s), Runs(s) <=> Runs(queue[b])
  PROVE  Suits(walk, [queue EXCEPT ![b] = s], at, crossing)
  <1> DEFINE q == [queue EXCEPT ![b] = s]
             S == Seq(Orders)
  <1>1. b \in Bodies /\ Suits(walk, queue, at, crossing) /\ s \in S /\ queue \in [Bodies -> S]
    BY DEF Inv, Settled, Suits, Queued
  <1>2. q \in [Bodies -> S]
    <2> HIDE DEF S
    <2> QED
      BY <1>1
  <1>3. q[b] = s /\ \A y \in Bodies \ {b} : q[y] = queue[y]
    <2> HIDE DEF S
    <2> QED
      BY <1>1
  <1> HIDE DEF q
  <1>4. ASSUME NEW y \in Bodies
        PROVE  /\ Queued(q[y]) /\ (y \in DOMAIN walk <=> Runs(q[y]))
               /\ y \notin alive \cup dying => q[y] = <<>>
    <2>1. CASE y = b
      BY <2>1, <1>1, <1>3 DEF Suits
    <2>2. CASE y # b
      BY <2>2, <1>1, <1>3 DEF Suits
    <2> QED
      BY <2>1, <2>2
  <1> QED
    BY <1>1, <1>2, <1>4 DEF Suits, q

LEMMA Happened ==
  ASSUME Inv, Happens
  PROVE  events' \in 0 .. MaxEvents
  BY Constants DEF Inv, Settled, Happens

LEMMA CommandKeeps ==
  ASSUME Inv, NEW b \in Bodies, NEW g \in Goals, NEW r \in Ranges,
         Command(b, [goal |-> g, range |-> r])
  PROVE  Inv'
  <1> DEFINE o == [goal |-> g, range |-> r]
             e == Entry(o)
             m == MarkAll(queue[b], "soft")
             s == Append(m, e)
  <1>1. /\ b \in alive /\ Happens /\ queue' = [queue EXCEPT ![b] = Push(@, o, "soft")]
        /\ UNCHANGED <<scene, alive, dying, disabled, at, crossing, claimed, site, walk, turn>>
    BY DEF Command
  <1>2. e \in Orders /\ e.state = "new"
    BY CellWalkAssumption DEF Entry, Orders, OrderEntry, MoveOrder, EntryState
  <1>3. Queued(queue[b]) /\ queue \in [Bodies -> Seq(Orders)]
    BY DEF Inv, Suits
  <1>4. Queued(m) /\ (Runs(m) <=> Runs(queue[b]))
    <2> DEFINE policy == "soft"
               q == queue[b]
    <2>1. policy \in Policy /\ Queued(q)
      BY <1>3 DEF Policy
    <2> HIDE DEF policy, q
    <2>2. Queued(MarkAll(q, policy)) /\ (Runs(MarkAll(q, policy)) <=> Runs(q))
      BY <2>1, MarkedQueued
    <2> QED
      BY <2>2 DEF policy, q
  <1> HIDE DEF m, e
  <1>5. /\ Queued(s) /\ s # <<>> /\ s[1] = IF m = <<>> THEN e ELSE m[1]
    BY <1>2, <1>4, NewQueued
  <1>6. Runs(s) <=> Runs(queue[b])
    BY <1>2, <1>4, <1>5 DEF Runs
  <1>7. queue' = [queue EXCEPT ![b] = s]
    <2>1. Push(queue[b], o, "soft") = s
      BY DEF Push, Unmarked, m, e
    <2>2. queue' = [queue EXCEPT ![b] = Push(queue[b], o, "soft")]
      BY <1>1
    <2> QED
      BY <2>1, <2>2
  <1> HIDE DEF s
  <1>8. Suits(walk, [queue EXCEPT ![b] = s], at, crossing)
    BY <1>1, <1>5, <1>6, SuitsQueue
  <1>9. ClaimsMatch'
    BY <1>1, ClaimsStay DEF Inv, Held
  <1> QED
    BY <1>1, <1>7, <1>8, <1>9, Happened DEF Inv, Settled, Suits

LEMMA StopKeeps ==
  ASSUME Inv, NEW b \in Bodies, Stop(b)
  PROVE  Inv'
  <1> DEFINE policy == "soft"
             q == queue[b]
             m == MarkAll(q, policy)
  <1>1. /\ b \in alive /\ Happens /\ queue' = [queue EXCEPT ![b] = m]
        /\ UNCHANGED <<scene, alive, dying, disabled, at, crossing, claimed, site, walk, turn>>
    BY DEF Stop
  <1>2. policy \in Policy /\ Queued(q)
    BY DEF Inv, Suits, Policy
  <1>3. Queued(m) /\ (Runs(m) <=> Runs(q))
    <2> HIDE DEF policy, q
    <2> QED
      BY <1>2, MarkedQueued
  <1> HIDE DEF m
  <1>4. Suits(walk, [queue EXCEPT ![b] = m], at, crossing)
    BY <1>1, <1>3, SuitsQueue
  <1>5. ClaimsMatch'
    BY <1>1, ClaimsStay DEF Inv, Held
  <1> QED
    BY <1>1, <1>4, <1>5, Happened DEF Inv, Settled, Suits

LEMMA DisableKeeps ==
  ASSUME Inv, NEW b \in Bodies, Disable(b)
  PROVE  Inv'
  <1>1. /\ Happens /\ disabled' \subseteq Bodies
        /\ UNCHANGED <<scene, alive, dying, at, crossing, claimed, site, queue, walk, turn>>
    BY DEF Disable, Inv, Settled
  <1>2. ClaimsMatch'
    BY <1>1, ClaimsStay DEF Inv, Held
  <1> QED
    BY <1>1, <1>2, Happened DEF Inv, Settled, Suits

LEMMA DieKeeps ==
  ASSUME Inv, NEW b \in Bodies, Die(b)
  PROVE  Inv'
  <1>1. /\ Happens /\ alive' = alive \ {b} /\ dying' = dying \cup {b} /\ b \in alive
        /\ UNCHANGED <<scene, disabled, at, crossing, claimed, site, queue, walk, turn>>
    BY DEF Die
  <1>2. alive' \cup dying' = alive \cup dying
    BY <1>1
  <1>3. ClaimsMatch'
    <2>1. Standing' = Standing /\ \A y : Held(y)' = Held(y)
      BY <1>1 DEF Standing, Held
    <2> QED
      BY <1>1, <1>2, <2>1 DEF Inv, ClaimsMatch
  <1>4. Settled'
    BY <1>1, Happened DEF Inv, Settled
  <1>5. Suits(walk, queue, at, crossing)'
    BY <1>1, <1>2 DEF Inv, Suits
  <1> QED
    BY <1>3, <1>4, <1>5 DEF Inv

LEMMA FreedKeeps ==
  ASSUME Inv, NEW b \in Bodies, Freed(b)
  PROVE  Inv'
  <1>1. /\ b \in dying /\ queue[b] = <<>> /\ dying' = dying \ {b} /\ claimed' = claimed \ {Held(b)}
        /\ UNCHANGED <<scene, alive, disabled, at, crossing, site, queue, walk, turn, events>>
    BY DEF Freed, Idle
  <1>2. alive' \cup dying' = (alive \cup dying) \ {b}
    BY <1>1 DEF Inv, Settled
  <1>3. ClaimsMatch'
    <2>1. Standing' = Standing /\ \A y : Held(y)' = Held(y)
      BY <1>1 DEF Standing, Held
    <2> DEFINE h(y) == Held(y)
               B == alive \cup dying
    <2>2. /\ claimed = {h(y) : y \in B}
          /\ \A y, z \in B : h(y) = h(z) => y = z
          /\ b \in B /\ claimed \cap Standing = {}
      BY <1>1 DEF Inv, ClaimsMatch
    <2>3. claimed' = claimed \ {h(b)}
      BY <1>1
    <2> HIDE DEF h, B
    <2>4. claimed' = {h(y) : y \in B \ {b}}
      BY <2>2, <2>3
    <2>5. \A y \in B \ {b} : Held(y)' = h(y)
      BY <2>1 DEF h
    <2>6. claimed' = {Held(y)' : y \in B \ {b}}
      BY <2>4, <2>5
    <2>7. (claimed \cap Standing)' = {}
      BY <2>1, <2>2, <2>3
    <2>8. \A y, z \in B \ {b} : Held(y)' = Held(z)' => y = z
      BY <2>2, <2>5
    <2>9. (alive \cup dying)' = B \ {b}
      BY <1>2 DEF B
    <2> QED
      BY <2>6, <2>7, <2>8, <2>9 DEF ClaimsMatch
  <1>4. Settled'
    BY <1>1 DEF Inv, Settled
  <1>5. Suits(walk, queue, at, crossing)'
    <2>1. \A y \in Bodies : y \notin alive' \cup dying' => queue[y] = <<>>
      BY <1>1, <1>2 DEF Inv, Suits
    <2> QED
      BY <1>1, <2>1 DEF Inv, Suits
  <1> QED
    BY <1>3, <1>4, <1>5 DEF Inv

\* A body set down beside the building holds the cell it is set down on, which
\* nothing else holds or covers.
LEMMA SetDown ==
  ASSUME Inv, NEW b \in Claimants(SiteCell), NEW c \in Landings(b, Cell \ {SiteCell}), ~site, site',
         at' = [at EXCEPT ![b] = c], crossing' = crossing \ {b},
         claimed' = (claimed \ {SiteCell}) \cup {c},
         walk' = IF Walking(b) THEN With(walk, b, Repath(walk[b])) ELSE walk,
         UNCHANGED <<scene, alive, dying, queue>>
  PROVE  Suits(walk', queue', at', crossing') /\ ClaimsMatch' /\ claimed' \subseteq Cell
  <1> DEFINE d == at'
             Y == crossing'
             v == Repath(walk[b])
  <1>1. /\ b \in Bodies /\ b \in Present /\ Held(b) = SiteCell
        /\ at \in [Bodies -> Cell] /\ DOMAIN walk \subseteq Bodies /\ crossing \subseteq DOMAIN walk
        /\ Suits(walk, queue, at, crossing) /\ SiteCell \in Cell /\ claimed \subseteq Cell
    BY CellWalkAssumption DEF Claimants, Present, Inv, Settled, Suits
  <1>2. c \in Cell /\ c # SiteCell /\ c \notin claimed /\ c \notin scene.terrain
    <2>1. c \in (Reachable(SiteCell) \cap (Cell \ {SiteCell})) \ claimed
      <3>1. Landings(b, Cell \ {SiteCell})
              \subseteq (Reachable(Held(b)) \cap (Cell \ {SiteCell})) \ claimed
        <4> DEFINE allowed == Cell \ {SiteCell}
        <4> HIDE DEF allowed
        <4>1. Landings(b, allowed) \subseteq (Reachable(Held(b)) \cap allowed) \ claimed
          BY LandingsAllowed
        <4> QED
          BY <4>1 DEF allowed
      <3> QED
        BY <3>1, <1>1
    <2>2. Reachable(SiteCell) \subseteq Open \cup {SiteCell}
      BY <1>1, ReachableIsOpen
    <2> QED
      BY <2>1, <2>2 DEF Open, Standing
  <1>3. /\ d \in [Bodies -> Cell] /\ d[b] = c
        /\ \A y \in Bodies \ {b} : d[y] = at[y] /\ (y \in Y <=> y \in crossing)
        /\ b \notin Y /\ Y \subseteq DOMAIN walk
    BY <1>1, <1>2
  <1>4. /\ Suits(walk', queue', at', crossing')
        /\ \A y \in DOMAIN walk \ {b} : walk'[y] = walk[y]
    <2>1. CASE Walking(b)
      <3>1. b \in DOMAIN walk /\ walk' = With(walk, b, v)
        BY <2>1 DEF Walking
      <3>2. Leads(v, d[b])
        <4>1. IsWalk(walk[b])
          BY <1>1, <3>1 DEF Suits, Leads
        <4> QED
          BY <4>1, Replanned
      <3>3. b \in Y => Crosses(v, d[b])
        BY <1>3
      <3> HIDE DEF d, Y, v
      <3>4. Suits(With(walk, b, v), queue, d, Y)
        BY <1>1, <1>3, <3>1, <3>2, <3>3, SuitsWith
      <3> QED
        BY <3>1, <3>4 DEF With, d, Y
    <2>2. CASE ~Walking(b)
      <3>1. walk' = walk /\ b \notin DOMAIN walk
        BY <2>2 DEF Walking
      <3>2. \A y \in Bodies : y \in DOMAIN walk => d[y] = at[y] /\ (y \in Y => y \in crossing)
        BY <1>3, <3>1
      <3> HIDE DEF d, Y
      <3>3. Suits(walk, queue, d, Y)
        BY <1>1, <1>3, <3>2 DEF Suits
      <3> QED
        BY <3>1, <3>3 DEF d, Y
    <2> QED
      BY <2>1, <2>2
  <1>5. Held(b)' = c
    BY <1>3 DEF Held
  <1>6. \A y \in Present \ {b} : Held(y)' = Held(y)
    <2> TAKE y \in Present \ {b}
    <2>1. y \in Bodies
      BY DEF Present, Inv, Settled
    <2> QED
      BY <2>1, <1>1, <1>3, <1>4 DEF Held
  <1>7. c \notin Standing' /\ Standing' \subseteq Standing \cup {Held(b)}
    BY <1>1, <1>2 DEF Standing
  <1>8. ClaimsMatch'
    <2>1. claimed' = (claimed \ {Held(b)}) \cup {Held(b)'}
      BY <1>1, <1>5
    <2> QED
      BY <2>1, <1>1, <1>2, <1>5, <1>6, <1>7, ClaimsMove DEF Inv
  <1> QED
    BY <1>1, <1>2, <1>4, <1>8

LEMMA SpreadKeeps ==
  ASSUME Inv, Spread
  PROVE  Inv'
  <1>1. /\ Happens /\ ~site /\ site' = TRUE
        /\ UNCHANGED <<scene, alive, dying, disabled, queue, turn>>
    BY DEF Spread
  <1>2. Suits(walk', queue', at', crossing') /\ ClaimsMatch' /\ claimed' \subseteq Cell
    <2>1. CASE SiteCell \notin claimed /\ UNCHANGED <<at, crossing, claimed, walk>>
      <3>1. \A y : Held(y)' = Held(y)
        BY <2>1 DEF Held
      <3>2. Standing' \subseteq Standing \cup {SiteCell}
        BY <1>1 DEF Standing
      <3>3. ClaimsMatch'
        BY <1>1, <2>1, <3>1, <3>2 DEF Inv, ClaimsMatch
      <3> QED
        BY <1>1, <2>1, <3>3 DEF Inv, Settled
    <2>2. CASE \E b \in Claimants(SiteCell), c \in Cell :
                 /\ c \in Landings(b, Cell \ {SiteCell})
                 /\ at' = [at EXCEPT ![b] = c] /\ crossing' = crossing \ {b}
                 /\ claimed' = (claimed \ {SiteCell}) \cup {c}
                 /\ walk' = IF Walking(b) THEN With(walk, b, Repath(walk[b])) ELSE walk
      BY <1>1, <2>2, SetDown
    <2> QED
      BY <2>1, <2>2 DEF Spread
  <1>3. events' \in 0 .. MaxEvents
    BY <1>1, Happened
  <1> QED
    BY <1>1, <1>2, <1>3 DEF Inv, Settled, Suits

LEMMA ShrinkKeeps ==
  ASSUME Inv, Shrink
  PROVE  Inv'
  <1>1. /\ Happens /\ site' = FALSE
        /\ UNCHANGED <<scene, alive, dying, disabled, at, crossing, claimed, queue, walk, turn>>
    BY DEF Shrink
  <1>2. ClaimsMatch'
    <2>1. Standing' \subseteq Standing /\ \A y : Held(y)' = Held(y)
      BY <1>1 DEF Standing, Held
    <2> QED
      BY <1>1, <2>1 DEF Inv, ClaimsMatch
  <1> QED
    BY <1>1, <1>2, Happened DEF Inv, Settled, Suits

-----------------------------------------------------------------------------
(***************************************************************************)
(* The theorems.                                                           *)
(***************************************************************************)

LEMMA InitHolds ==
  ASSUME CellWalkInit
  PROVE  Inv
  <1>1. /\ alive = Bodies /\ dying = {} /\ disabled = {} /\ scene \in Scenes /\ at = scene.start
        /\ crossing = {} /\ claimed = {at[b] : b \in Bodies} /\ site = FALSE
        /\ queue = [b \in Bodies |-> <<>>] /\ walk = <<>> /\ turn = 0 /\ events = 0
    BY DEF CellWalkInit
  <1>2. /\ scene \in Scene /\ at \in [Bodies -> Cell]
        /\ \A a, b \in Bodies : at[a] \notin scene.terrain /\ (at[a] = at[b] => a = b)
    BY <1>1, CellWalkAssumption DEF Scene
  <1>3. Settled
    <2>1. claimed \subseteq Cell
      <3>1. \A b \in Bodies : at[b] \in Cell
        BY <1>2
      <3>2. claimed = {at[b] : b \in Bodies}
        BY <1>1
      <3> QED
        BY <3>1, <3>2
    <2>2. 0 \in 0 .. Cardinality(Bodies) /\ 0 \in 0 .. MaxEvents
      BY Constants
    <2> QED
      BY <1>1, <2>1, <2>2 DEF Settled
  <1>4. DOMAIN walk = {}
    BY <1>1
  <1>5. queue \in [Bodies -> Seq(Orders)] /\ \A b \in Bodies : queue[b] = <<>>
    BY <1>1, EmptyQueued DEF Queued
  <1>6. Suits(walk, queue, at, crossing)
    BY <1>1, <1>2, <1>4, <1>5, EmptyQueued DEF Suits
  <1>7. \A b : Held(b) = at[b]
    BY <1>1 DEF Held
  <1>8. ClaimsMatch
    <2>1. Standing = scene.terrain
      BY <1>1 DEF Standing
    <2>2. alive \cup dying = Bodies
      BY <1>1
    <2>3. claimed = {Held(b) : b \in Bodies} /\ \A a, b \in Bodies : Held(a) = Held(b) => a = b
      BY <1>1, <1>2, <1>7
    <2>4. claimed \cap Standing = {}
      BY <1>1, <1>2, <2>1
    <2> QED
      BY <2>2, <2>3, <2>4 DEF ClaimsMatch
  <1> QED
    BY <1>3, <1>6, <1>8 DEF Inv

LEMMA NextKeeps ==
  ASSUME Inv, [CellWalkNext]_walkVars
  PROVE  Inv'
  <1>1. CASE UNCHANGED walkVars
    <2>1. UNCHANGED <<scene, alive, dying, disabled, at, crossing, claimed, site, queue, walk,
                      turn, events>>
      BY <1>1 DEF walkVars
    <2>2. \A y : Held(y)' = Held(y)
      BY <2>1 DEF Held
    <2>3. ClaimsMatch'
      BY <2>1, <2>2, ClaimsStay DEF Inv
    <2> QED
      BY <2>1, <2>3 DEF Inv, Settled, Suits
  <1>2. CASE Prepare
    BY <1>2, PrepareKeeps
  <1>3. CASE \E b \in Bodies : Process(b)
    BY <1>3, ProcessKeeps
  <1>4. CASE \E b \in Bodies, g \in Goals, r \in Ranges : Command(b, [goal |-> g, range |-> r])
    BY <1>4, CommandKeeps
  <1>5. CASE \E b \in Bodies : Stop(b)
    BY <1>5, StopKeeps
  <1>6. CASE \E b \in Bodies : Disable(b)
    BY <1>6, DisableKeeps
  <1>7. CASE \E b \in Bodies : Die(b)
    BY <1>7, DieKeeps
  <1>8. CASE \E b \in Bodies : Freed(b)
    BY <1>8, FreedKeeps
  <1>9. CASE Spread
    BY <1>9, SpreadKeeps
  <1>10. CASE Shrink
    BY <1>10, ShrinkKeeps
  <1> QED
    BY <1>1, <1>2, <1>3, <1>4, <1>5, <1>6, <1>7, <1>8, <1>9, <1>10 DEF CellWalkNext, Tick

\* What the runs check of the walks follows.
LEMMA InvGives ==
  ASSUME Inv
  PROVE  WalkInv /\ ClaimsMatch
  <1>1. CellWalkTypeOK
    <2>1. \A b \in DOMAIN walk :
            /\ DOMAIN walk[b] = DOMAIN NewWalk
            /\ walk[b].path \in Seq(Cell)
            /\ walk[b].frustration \in 0 .. GiveUp /\ walk[b].wait \in 0 .. BlockedWait
      <3> TAKE b \in DOMAIN walk
      <3>1. IsWalk(walk[b])
        BY WalkersPresent DEF Leads
      <3>2. DOMAIN walk[b] = DOMAIN NewWalk
        BY <3>1 DEF IsWalk, NewWalk
      <3> QED
        BY <3>1, <3>2 DEF IsWalk
    <2>2. DOMAIN walk \subseteq alive \cup dying
      BY WalkersPresent DEF Present
    <2> QED
      BY <2>1, <2>2 DEF CellWalkTypeOK, Inv, Settled, Suits, Orders
  <1>2. PathsLead
    BY DEF PathsLead, Inv, Suits, Leads, Crosses
  <1>3. OnlyFrontRuns
    BY DEF OnlyFrontRuns, Inv, Suits, Queued
  <1>4. DriverMatchesQueue
    BY DEF DriverMatchesQueue, Inv, Suits, Runs, Walking
  <1> QED
    BY <1>1, <1>2, <1>3, <1>4 DEF WalkInv, Inv

LEMMA InvHolds == CellWalkSpec => []Inv
  <1>1. CellWalkInit => Inv
    BY InitHolds
  <1>2. Inv /\ [CellWalkNext]_walkVars => Inv'
    BY NextKeeps
  <1> QED
    BY <1>1, <1>2, PTL DEF CellWalkSpec

\* A walk belongs to the started order at the front of its body's queue and
\* leads on, cell by cell, from where the body is, however its path was cut,
\* spliced, skipped or found anew (step_blocked_cell, next_segment,
\* leave_only_current_target): on every map, for every crowd.
THEOREM WalksLead == CellWalkSpec => []WalkInv
  <1>1. Inv => WalkInv
    BY InvGives
  <1> QED
    BY <1>1, InvHolds, PTL

\* The claim plane is at every moment exactly the cells the bodies hold, one
\* body to a cell and none under the building or on terrain (ClaimPlane,
\* try_swap, shove_off): through crossings, exchanges, set-downs and deaths.
THEOREM OneClaimEach == CellWalkSpec => []ClaimsMatch
  <1>1. Inv => ClaimsMatch
    BY DEF Inv
  <1> QED
    BY <1>1, InvHolds, PTL
=============================================================================
