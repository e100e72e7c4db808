--------------------------- MODULE ControlProofs ---------------------------
(***************************************************************************)
(* Proofs about ControlPlane, for every number of nodes, every latency and *)
(* every schedule of requests: the stores are sound in every session;      *)
(* where a host that plays decides, over links that keep the order of what *)
(* it sends, all nodes run every tick under the same setting; and changes  *)
(* between two values, asked for one at a time, each have their effect     *)
(* once, whoever decides.                                                  *)
(***************************************************************************)
EXTENDS ControlPlane, NaturalFacts, SequenceTheorems

-----------------------------------------------------------------------------
(***************************************************************************)
(* Calls: pairs of a tick and the value a setting takes there.             *)
(***************************************************************************)

Call == Nat \X Nat

\* The value that rules at a tick: that of the newest call by then, or the one
\* there was before all of them.
Rules(S, base, t, v) ==
  \/ \E x \in S : x[1] <= t /\ x[2] = v /\ \A y \in S : y[1] <= t => y[1] <= x[1]
  \/ v = base /\ \A y \in S : t < y[1]

\* Later calls have no say.
LEMMA LaterCallsWait ==
  ASSUME NEW S \in SUBSET Call, NEW R \in SUBSET Call, NEW base, NEW t \in Nat, NEW v,
         \A x \in Call : x[1] <= t => (x \in S <=> x \in R)
  PROVE  Rules(S, base, t, v) <=> Rules(R, base, t, v)
  <1>1. \A x \in S : x \in Call /\ x[1] \in Nat
    BY DEF Call
  <1>2. \A x \in R : x \in Call /\ x[1] \in Nat
    BY DEF Call
  <1>3. (\A y \in S : t < y[1]) <=> (\A y \in R : t < y[1])
    BY <1>1, <1>2
  <1>4. ASSUME NEW x \in S, x[1] <= t, \A y \in S : y[1] <= t => y[1] <= x[1]
        PROVE  x \in R /\ \A y \in R : y[1] <= t => y[1] <= x[1]
    BY <1>1, <1>2, <1>4
  <1>5. ASSUME NEW x \in R, x[1] <= t, \A y \in R : y[1] <= t => y[1] <= x[1]
        PROVE  x \in S /\ \A y \in S : y[1] <= t => y[1] <= x[1]
    BY <1>1, <1>2, <1>5
  <1> QED
    BY <1>3, <1>4, <1>5 DEF Rules

\* A call overrules what was before it.
LEMMA EarlierCallsYield ==
  ASSUME NEW S \in SUBSET Call, NEW R \in SUBSET Call, NEW base, NEW other, NEW c \in Nat,
         NEW t \in Nat, NEW v, c <= t, \E x \in S : x[1] = c, \E x \in R : x[1] = c,
         \A x \in Call : c <= x[1] => (x \in S <=> x \in R)
  PROVE  Rules(S, base, t, v) <=> Rules(R, other, t, v)
  <1>1. \A x \in S : x \in Call /\ x[1] \in Nat
    BY DEF Call
  <1>2. \A x \in R : x \in Call /\ x[1] \in Nat
    BY DEF Call
  <1>3. ~(\A y \in S : t < y[1]) /\ ~(\A y \in R : t < y[1])
    BY <1>1, <1>2
  <1>4. ASSUME NEW x \in S, x[1] <= t, \A y \in S : y[1] <= t => y[1] <= x[1]
        PROVE  x \in R /\ \A y \in R : y[1] <= t => y[1] <= x[1]
    <2>1. c <= x[1]
      BY <1>4
    <2> QED
      BY <2>1, <1>1, <1>2, <1>4
  <1>5. ASSUME NEW x \in R, x[1] <= t, \A y \in R : y[1] <= t => y[1] <= x[1]
        PROVE  x \in S /\ \A y \in S : y[1] <= t => y[1] <= x[1]
    <2>1. c <= x[1]
      BY <1>5
    <2> QED
      BY <2>1, <1>1, <1>2, <1>5
  <1> QED
    BY <1>3, <1>4, <1>5 DEF Rules

\* What ruled before is of no account once there has been a call.
LEMMA CallsOverrule ==
  ASSUME NEW S \in SUBSET Call, NEW base, NEW other, NEW t \in Nat, NEW v,
         \E x \in S : x[1] <= t
  PROVE  Rules(S, base, t, v) <=> Rules(S, other, t, v)
  <1>1. \A x \in S : x[1] \in Nat
    BY DEF Call
  <1>2. ~(\A y \in S : t < y[1])
    BY <1>1
  <1> QED
    BY <1>2 DEF Rules

\* Once a tick is over, the value it ran under stands for the calls up to it.
LEMMA CallsAreDone ==
  ASSUME NEW S \in SUBSET Call, NEW R \in SUBSET Call, NEW base, NEW value, NEW k \in Nat,
         NEW t \in Nat, NEW v, k < t,
         \A x \in S : k <= x[1], \A x, y \in S : x[1] = y[1] => x = y,
         \A x \in Call : x \in R <=> x \in S /\ k < x[1],
         Rules(S, base, k, value)
  PROVE  Rules(R, value, t, v) <=> Rules(S, base, t, v)
  <1>1. \A x \in S : x \in Call /\ x[1] \in Nat
    BY DEF Call
  <1>2. \A x \in R : x \in S /\ x \in Call /\ x[1] \in Nat /\ k < x[1]
    BY DEF Call
  <1>3. CASE \E z \in R : z[1] <= t
    <2>1. PICK z \in R : z[1] <= t
      BY <1>3
    <2>2. ASSUME NEW x \in S, x[1] <= t, \A y \in S : y[1] <= t => y[1] <= x[1]
          PROVE  x \in R /\ \A y \in R : y[1] <= t => y[1] <= x[1]
      <3>1. z[1] <= x[1]
        BY <2>1, <2>2, <1>2
      <3> QED
        BY <3>1, <2>1, <2>2, <1>1, <1>2
    <2>3. ASSUME NEW x \in R, x[1] <= t, \A y \in R : y[1] <= t => y[1] <= x[1]
          PROVE  x \in S /\ \A y \in S : y[1] <= t => y[1] <= x[1]
      <3>1. ASSUME NEW y \in S, y[1] <= t PROVE y[1] <= x[1]
        <4>1. CASE k < y[1]
          BY <4>1, <3>1, <2>3, <1>1
        <4>2. CASE ~(k < y[1])
          BY <4>2, <1>1, <1>2
        <4> QED
          BY <4>1, <4>2
      <3> QED
        BY <3>1, <1>2
    <2>4. ~(\A y \in R : t < y[1]) /\ ~(\A y \in S : t < y[1])
      BY <2>1, <1>2
    <2> QED
      BY <2>2, <2>3, <2>4 DEF Rules
  <1>4. CASE \A z \in R : t < z[1]
    <2>1. Rules(R, value, t, v) <=> v = value
      <3>1. \A x \in R : ~(x[1] <= t)
        BY <1>2, <1>4
      <3> QED
        BY <3>1, <1>4 DEF Rules
    <2>2. \A x \in S : x[1] <= t => x[1] = k
      BY <1>1, <1>4
    <2>3. CASE \E x \in S : x[1] <= t
      <3>1. PICK x \in S : x[1] = k
        BY <2>2, <2>3
      <3>2. \A y \in S : y[1] <= t => y = x
        BY <3>1, <2>2
      <3>3. x[2] = value
        <4>1. ~(\A y \in S : k < y[1])
          BY <3>1
        <4>2. PICK y \in S : y[1] <= k /\ y[2] = value
          BY <4>1 DEF Rules
        <4>3. y[1] = k
          BY <4>2, <1>1
        <4> QED
          BY <4>2, <4>3, <3>1
      <3>4. x[1] <= t /\ ~(t < x[1])
        BY <3>1
      <3>5. ~(\A y \in S : t < y[1])
        BY <3>4
      <3>6. Rules(S, base, t, v) => v = value
        BY <3>2, <3>3, <3>5 DEF Rules
      <3>7. \A y \in S : y[1] <= t => y[1] <= x[1]
        BY <3>1, <2>2
      <3>8. v = value => Rules(S, base, t, v)
        BY <3>3, <3>4, <3>7 DEF Rules
      <3> QED
        BY <3>6, <3>8, <2>1
    <2>4. CASE ~(\E x \in S : x[1] <= t)
      <3>1. \A y \in S : ~(y[1] <= k) /\ t < y[1]
        BY <2>4, <1>1
      <3>2. value = base
        BY <3>1 DEF Rules
      <3> QED
        BY <3>1, <3>2, <2>1, <2>4 DEF Rules
    <2> QED
      BY <2>3, <2>4
  <1> QED
    BY <1>1, <1>2, <1>3, <1>4

\* A node's setting, and the calls it runs by, are of one value each.
LEMMA OneRules ==
  ASSUME NEW S \in SUBSET Call, NEW base, NEW t \in Nat, NEW v, NEW w,
         \A x, y \in S : x[1] = y[1] => x = y,
         Rules(S, base, t, v), Rules(S, base, t, w)
  PROVE  v = w
  <1>1. \A x \in S : x[1] \in Nat
    BY DEF Call
  <1>2. CASE \A y \in S : t < y[1]
    <2>1. \A x \in S : ~(x[1] <= t)
      BY <1>1, <1>2
    <2> QED
      BY <2>1 DEF Rules
  <1>3. CASE ~(\A y \in S : t < y[1])
    <2>1. PICK x \in S : x[1] <= t /\ x[2] = v /\ \A y \in S : y[1] <= t => y[1] <= x[1]
      BY <1>3 DEF Rules
    <2>2. PICK z \in S : z[1] <= t /\ z[2] = w /\ \A y \in S : y[1] <= t => y[1] <= z[1]
      BY <1>3 DEF Rules
    <2>3. x[1] = z[1]
      BY <2>1, <2>2, <1>1
    <2> QED
      BY <2>1, <2>2, <2>3
  <1> QED
    BY <1>2, <1>3
-----------------------------------------------------------------------------
(***************************************************************************)
(* A node's view: where it is, what it runs under, what is pending there,  *)
(* and what it ran under so far.                                           *)
(***************************************************************************)

Entry == [proposer : Anyone, tick : Nat, value : Nat, claimed : BOOLEAN]
Proposal == [proposer : Anyone, tick : Nat, value : Nat]
View == [tick : Nat, setting : Nat, store : SUBSET Entry, ran : Seq(Nat)]

\* One change per tick, handed out only once its tick is there and forgotten
\* once the tick is over.
Orderly(V) ==
  /\ V \in View /\ Len(V.ran) = V.tick
  /\ \A e, f \in V.store : e.tick = f.tick => e = f
  /\ \A e \in V.store :
       /\ V.tick <= e.tick + 1
       /\ e.claimed => e.tick <= V.tick /\ (e.tick = V.tick => e.value = V.setting)
       /\ ~e.claimed => V.tick <= e.tick

\* What is due has been handed out.
Cleared(V) == \A e \in V.store : V.tick <= e.tick /\ (e.claimed <=> e.tick = V.tick)

NextValue(V) ==
  IF Due(V.store, V.tick) = {} THEN V.setting
  ELSE (CHOOSE e \in Due(V.store, V.tick) : TRUE).value
Claim(V) ==
  [tick |-> V.tick, setting |-> NextValue(V), store |-> Claimed(V.store, V.tick), ran |-> V.ran]
Advance(V) ==
  [tick |-> V.tick + 1, setting |-> V.setting, store |-> V.store,
   ran |-> Append(V.ran, V.setting)]

LEMMA ViewFields ==
  ASSUME NEW V \in View
  PROVE  /\ V.tick \in Nat /\ V.setting \in Nat /\ V.store \in SUBSET Entry /\ V.ran \in Seq(Nat)
         /\ \A e \in V.store :
              e \in Entry /\ e.tick \in Nat /\ e.value \in Nat /\ e.claimed \in BOOLEAN
  BY DEF View, Entry

\* What is due is the change of the very tick, unless it was handed out.
LEMMA DueNow ==
  ASSUME NEW V, Orderly(V)
  PROVE  Due(V.store, V.tick) = {e \in V.store : e.tick = V.tick /\ ~e.claimed}
  <1>1. V \in View
    BY DEF Orderly
  <1>2. ASSUME NEW e \in V.store, e.tick <= V.tick, ~e.claimed PROVE e.tick = V.tick
    BY <1>1, <1>2, ViewFields DEF Orderly
  <1>3. \A e \in V.store : e.tick = V.tick => e.tick <= V.tick
    BY <1>1, ViewFields
  <1> QED
    BY <1>2, <1>3 DEF Due

\* The setting becomes the value of the change of this tick, if there is one.
LEMMA ValueNow ==
  ASSUME NEW V, Orderly(V)
  PROVE  /\ NextValue(V) \in Nat
         /\ \A e \in V.store : e.tick = V.tick => NextValue(V) = e.value
         /\ (\A e \in V.store : e.tick # V.tick) => NextValue(V) = V.setting
         /\ NextValue(V) = V.setting \/ \E e \in V.store : NextValue(V) = e.value
  <1> DEFINE D == Due(V.store, V.tick)
  <1>1. V \in View
    BY DEF Orderly
  <1>2. D = {e \in V.store : e.tick = V.tick /\ ~e.claimed}
    BY DueNow
  <1> HIDE DEF D
  <1>3. CASE D = {}
    <2>1. NextValue(V) = V.setting
      BY <1>3 DEF NextValue, D
    <2>2. \A e \in V.store : e.tick = V.tick => e.claimed
      BY <1>2, <1>3
    <2>3. \A e \in V.store : e.tick = V.tick => e.value = V.setting
      BY <2>2 DEF Orderly
    <2> QED
      BY <2>1, <2>3, <1>1, ViewFields
  <1>4. CASE D # {}
    <2> DEFINE d == CHOOSE e \in D : TRUE
    <2>1. d \in D
      BY <1>4
    <2>2. NextValue(V) = d.value
      BY <1>4 DEF NextValue, D
    <2> HIDE DEF d
    <2>3. d \in V.store /\ d.tick = V.tick
      BY <2>1, <1>2
    <2>4. \A e \in V.store : e.tick = V.tick => e = d
      BY <2>3 DEF Orderly
    <2> QED
      BY <2>2, <2>3, <2>4, <1>1, ViewFields
  <1> QED
    BY <1>3, <1>4

\* What a claim leaves in the store.
LEMMA ClaimedStore ==
  ASSUME NEW V, Orderly(V)
  PROVE  /\ Claimed(V.store, V.tick) \in SUBSET Entry
         /\ \A e \in V.store : V.tick <= e.tick =>
              \E f \in Claimed(V.store, V.tick) :
                f.tick = e.tick /\ f.value = e.value /\ f.proposer = e.proposer
         /\ \A f \in Claimed(V.store, V.tick) :
              /\ V.tick <= f.tick /\ (f.claimed <=> f.tick = V.tick)
              /\ \E e \in V.store : /\ f.tick = e.tick /\ f.value = e.value
                                    /\ f.proposer = e.proposer /\ V.tick <= e.tick
         /\ \A e, f \in Claimed(V.store, V.tick) : e.tick = f.tick => e = f
  <1> DEFINE D == Due(V.store, V.tick)
             made(e) == IF e \in D THEN [e EXCEPT !.claimed = TRUE] ELSE e
             K == {e \in V.store : e.tick >= V.tick}
             C == Claimed(V.store, V.tick)
  <1>1. V \in View
    BY DEF Orderly
  <1>2. D = {e \in V.store : e.tick = V.tick /\ ~e.claimed}
    BY DueNow
  <1>3. C = {made(e) : e \in K}
    BY DEF Claimed
  <1> HIDE DEF D, C
  <1>4. ASSUME NEW e \in K
        PROVE  /\ made(e) \in Entry /\ made(e).tick = e.tick /\ made(e).value = e.value
               /\ made(e).proposer = e.proposer
               /\ made(e).claimed <=> e.tick = V.tick
    <2>1. e \in Entry /\ e \in V.store /\ e.tick \in Nat /\ V.tick \in Nat /\ V.tick <= e.tick
      BY <1>1, ViewFields
    <2>2. CASE e \in D
      <3>1. made(e) = [e EXCEPT !.claimed = TRUE]
        BY <2>2
      <3>2. e.tick = V.tick
        BY <2>2, <1>2
      <3> QED
        BY <3>1, <3>2, <2>1 DEF Entry
    <2>3. CASE e \notin D
      <3>1. made(e) = e
        BY <2>3
      <3>2. e.claimed <=> e.tick = V.tick
        BY <2>1, <2>3, <1>2 DEF Orderly
      <3> QED
        BY <3>1, <3>2, <2>1
    <2> QED
      BY <2>2, <2>3
  <1> HIDE DEF made
  <1>5. C \in SUBSET Entry
    BY <1>3, <1>4
  <1>6. \A e \in K : e \in V.store /\ V.tick <= e.tick
    BY <1>1, ViewFields
  <1>7. \A e \in V.store : V.tick <= e.tick => e \in K
    BY <1>1, ViewFields
  <1> HIDE DEF K
  <1>8. \A f \in C : \E e \in K : f = made(e)
    BY <1>3
  <1>9. ASSUME NEW e \in C, NEW f \in C, e.tick = f.tick PROVE e = f
    <2>1. PICK x \in K : e = made(x)
      BY <1>8
    <2>2. PICK y \in K : f = made(y)
      BY <1>8
    <2>3. x = y
      BY <2>1, <2>2, <1>4, <1>6, <1>9 DEF Orderly
    <2> QED
      BY <2>1, <2>2, <2>3
  <1>10. ASSUME NEW f \in C
         PROVE  /\ V.tick <= f.tick /\ (f.claimed <=> f.tick = V.tick)
                /\ \E e \in V.store : /\ f.tick = e.tick /\ f.value = e.value
                                      /\ f.proposer = e.proposer /\ V.tick <= e.tick
    BY <1>4, <1>6, <1>8
  <1>11. ASSUME NEW e \in V.store, V.tick <= e.tick
         PROVE  \E f \in C : f.tick = e.tick /\ f.value = e.value /\ f.proposer = e.proposer
    <2>1. e \in K /\ made(e) \in C
      BY <1>3, <1>7, <1>11
    <2> QED
      BY <2>1, <1>4
  <1> QED
    BY <1>5, <1>9, <1>10, <1>11 DEF C

LEMMA ClaimFields ==
  ASSUME NEW V \in View
  PROVE  /\ Claim(V).tick = V.tick /\ Claim(V).ran = V.ran
         /\ Claim(V).setting = NextValue(V) /\ Claim(V).store = Claimed(V.store, V.tick)
  BY DEF Claim, View

LEMMA ClaimKeepsOrder ==
  ASSUME NEW V, Orderly(V)
  PROVE  Orderly(Claim(V)) /\ Cleared(Claim(V))
  <1> DEFINE W == Claim(V)
  <1>1. V \in View
    BY DEF Orderly
  <1>2. /\ W.tick = V.tick /\ W.ran = V.ran
        /\ W.setting = NextValue(V) /\ W.store = Claimed(V.store, V.tick)
    BY <1>1, ClaimFields
  <1>3. NextValue(V) \in Nat /\ Claimed(V.store, V.tick) \in SUBSET Entry
    BY ValueNow, ClaimedStore
  <1>4. W \in View
    BY <1>1, <1>3 DEF Claim, View
  <1> HIDE DEF W
  <1>5. Cleared(W)
    BY <1>2, ClaimedStore DEF Cleared
  <1>6. \A e, f \in W.store : e.tick = f.tick => e = f
    BY <1>2, ClaimedStore
  <1>7. ASSUME NEW f \in W.store, f.tick = W.tick PROVE f.value = W.setting
    <2>1. PICK e \in V.store : f.tick = e.tick /\ f.value = e.value
      BY <1>2, ClaimedStore
    <2> QED
      BY <2>1, <1>2, <1>7, ValueNow
  <1>8. \A e \in W.store : e.tick \in Nat /\ W.tick \in Nat
    BY <1>4, ViewFields
  <1>9. Orderly(W)
    <2>1. Len(W.ran) = W.tick
      BY <1>2 DEF Orderly
    <2> QED
      BY <2>1, <1>4, <1>5, <1>6, <1>7, <1>8 DEF Orderly, Cleared
  <1> QED
    BY <1>5, <1>9 DEF W

LEMMA AdvanceFields ==
  ASSUME NEW V \in View
  PROVE  /\ Advance(V) \in View
         /\ Advance(V).tick = V.tick + 1 /\ Advance(V).setting = V.setting
         /\ Advance(V).store = V.store /\ Advance(V).ran = Append(V.ran, V.setting)
  <1>1. V.tick \in Nat /\ V.tick + 1 \in Nat /\ Append(V.ran, V.setting) \in Seq(Nat)
    BY ViewFields, AppendProperties
  <1> QED
    BY <1>1 DEF Advance, View

LEMMA AdvanceKeepsOrder ==
  ASSUME NEW V, Orderly(V), Cleared(V)
  PROVE  Orderly(Advance(V))
  <1> DEFINE W == Advance(V)
  <1>1. V \in View
    BY DEF Orderly
  <1>2. /\ W \in View /\ W.tick = V.tick + 1 /\ W.setting = V.setting /\ W.store = V.store
        /\ W.ran = Append(V.ran, V.setting)
    BY <1>1, AdvanceFields
  <1> HIDE DEF W
  <1>5. Len(W.ran) = W.tick
    <2>1. V.ran \in Seq(Nat) /\ V.setting \in Nat /\ Len(V.ran) = V.tick
      BY <1>1, ViewFields DEF Orderly
    <2> QED
      BY <2>1, <1>2, AppendProperties
  <1>3. \A e \in V.store : e.tick \in Nat /\ V.tick \in Nat
    BY <1>1, ViewFields
  <1>4. Orderly(W)
    BY <1>2, <1>3, <1>5 DEF Orderly, Cleared
  <1> QED
    BY <1>4 DEF W
-----------------------------------------------------------------------------
(***************************************************************************)
(* The calls a node knows of, with the changes still on their way to it.   *)
(***************************************************************************)

Letter == [kind : {"request", "at"}, change : Proposal, upto : Nat]

Told(V, q, c, v) ==
  \/ \E e \in V.store : e.tick = c /\ e.value = v
  \/ \E i \in DOMAIN q : q[i].change.tick = c /\ q[i].change.value = v

\* Of the changes of one tick the one with the least value is the last.
Calls(V, q) ==
  {x \in Call : /\ V.tick <= x[1] /\ Told(V, q, x[1], x[2])
                /\ \A w \in Nat : Told(V, q, x[1], w) => x[2] <= w}

Ruled(V, q, t, v) == Rules(Calls(V, q), V.setting, t, v)

\* What a node ran a tick under, or will if nothing else is decided.
Runs(H, t, v) == IF t < H.tick THEN v = H.ran[t + 1] ELSE Ruled(H, <<>>, t, v)

LEMMA LetterFields ==
  ASSUME NEW q \in Seq(Letter), NEW i \in DOMAIN q
  PROVE  /\ q[i] \in Letter /\ q[i].change \in Proposal /\ q[i].change.tick \in Nat
         /\ q[i].change.value \in Nat /\ q[i].change.proposer \in Anyone /\ q[i].upto \in Nat
  <1>1. q[i] \in Letter
    BY ElementOfSeq
  <1> QED
    BY <1>1 DEF Letter, Proposal

LEMMA ToldCounts ==
  ASSUME NEW V \in View, NEW q \in Seq(Letter), NEW c, NEW v, Told(V, q, c, v)
  PROVE  c \in Nat /\ v \in Nat
  BY ViewFields, LetterFields DEF Told

LEMMA CallsShape ==
  ASSUME NEW V \in View, NEW q \in Seq(Letter)
  PROVE  /\ Calls(V, q) \in SUBSET Call
         /\ \A x \in Calls(V, q) : V.tick <= x[1] /\ Told(V, q, x[1], x[2])
         /\ \A x, y \in Calls(V, q) : x[1] = y[1] => x = y
  <1>1. ASSUME NEW x \in Calls(V, q), NEW y \in Calls(V, q), x[1] = y[1] PROVE x = y
    <2>1. x \in Call /\ y \in Call /\ Told(V, q, x[1], x[2]) /\ Told(V, q, y[1], y[2])
      BY DEF Calls
    <2>2. x[2] <= y[2] /\ y[2] <= x[2]
      BY <2>1, <1>1 DEF Calls, Call
    <2> QED
      BY <2>1, <2>2, <1>1 DEF Call
  <1> QED
    BY <1>1 DEF Calls

\* Where there is talk of a tick there is a call for it.
LEMMA CallsExist ==
  ASSUME NEW V \in View, NEW q \in Seq(Letter), NEW c, NEW v,
         V.tick <= c, Told(V, q, c, v)
  PROVE  \E x \in Calls(V, q) : x[1] = c /\ x[2] <= v
  <1> DEFINE N == {w \in Nat : Told(V, q, c, w)}
  <1>1. c \in Nat /\ v \in Nat
    BY ToldCounts
  <1>2. N \in SUBSET Nat /\ v \in N
    BY <1>1
  <1>3. \A w \in Nat : w \in N <=> Told(V, q, c, w)
    OBVIOUS
  <1> HIDE DEF N
  <1>4. PICK w \in N : \A u \in N : w <= u
    BY <1>2, LeastNatural
  <1>5. w \in Nat
    BY <1>2
  <1> DEFINE x == <<c, w>>
  <1>6. x \in Call /\ x[1] = c /\ x[2] = w
    BY <1>1, <1>5 DEF Call
  <1> HIDE DEF x
  <1>7. Told(V, q, x[1], x[2]) /\ \A u \in Nat : Told(V, q, x[1], u) => x[2] <= u
    BY <1>3, <1>4, <1>5, <1>6
  <1>8. x \in Calls(V, q)
    BY <1>6, <1>7 DEF Calls
  <1> QED
    BY <1>2, <1>4, <1>6, <1>8

\* Whether a call is known depends on the talk of its tick alone.
LEMMA SameTalk ==
  ASSUME NEW V \in View, NEW W \in View, NEW q, NEW r, NEW x \in Call,
         V.tick <= x[1] <=> W.tick <= x[1],
         \A v \in Nat : Told(V, q, x[1], v) <=> Told(W, r, x[1], v)
  PROVE  x \in Calls(V, q) <=> x \in Calls(W, r)
  <1>1. x[2] \in Nat
    BY DEF Call
  <1> QED
    BY <1>1 DEF Calls

\* A claim changes neither the calls nor what they rule.
LEMMA ClaimRules ==
  ASSUME NEW V, Orderly(V), NEW q \in Seq(Letter)
  PROVE  /\ Calls(Claim(V), q) = Calls(V, q)
         /\ \A t \in Nat, v \in Nat : V.tick <= t => (Ruled(Claim(V), q, t, v) <=> Ruled(V, q, t, v))
  <1> DEFINE W == Claim(V)
  <1>1. V \in View /\ W \in View /\ V.tick \in Nat
    BY ClaimKeepsOrder, ViewFields DEF Orderly
  <1>2. W.tick = V.tick /\ W.setting = NextValue(V) /\ W.store = Claimed(V.store, V.tick)
    BY <1>1, ClaimFields
  <1> HIDE DEF W
  <1>3. ASSUME NEW c \in Nat, V.tick <= c, NEW v PROVE Told(V, q, c, v) <=> Told(W, q, c, v)
    <2>1. ASSUME NEW e \in V.store, e.tick = c, e.value = v
          PROVE  \E f \in W.store : f.tick = c /\ f.value = v
      BY <1>2, <1>3, <2>1, ClaimedStore
    <2>2. ASSUME NEW f \in W.store, f.tick = c, f.value = v
          PROVE  \E e \in V.store : e.tick = c /\ e.value = v
      BY <1>2, <2>2, ClaimedStore
    <2> QED
      BY <2>1, <2>2 DEF Told
  <1>4. \A x \in Call : x \in Calls(V, q) <=> x \in Calls(W, q)
    <2>1. ASSUME NEW x \in Call PROVE x \in Calls(V, q) <=> x \in Calls(W, q)
      <3>1. CASE V.tick <= x[1]
        <4>1. x[1] \in Nat
          BY DEF Call
        <4> QED
          BY <4>1, <3>1, <1>1, <1>2, <1>3, SameTalk
      <3>2. CASE ~(V.tick <= x[1])
        BY <3>2, <1>2 DEF Calls
      <3> QED
        BY <3>1, <3>2
    <2> QED
      BY <2>1
  <1>5. Calls(W, q) = Calls(V, q)
    BY <1>4 DEF Calls
  <1>6. ASSUME NEW t \in Nat, NEW v \in Nat, V.tick <= t
        PROVE  Ruled(W, q, t, v) <=> Ruled(V, q, t, v)
    <2>1. CASE \A e \in V.store : e.tick # V.tick
      <3>1. W.setting = V.setting
        BY <2>1, <1>2, ValueNow
      <3> QED
        BY <3>1, <1>5 DEF Ruled
    <2>2. CASE \E e \in V.store : e.tick = V.tick
      <3>1. PICK e \in V.store : e.tick = V.tick
        BY <2>2
      <3>2. Told(V, q, V.tick, e.value)
        BY <3>1 DEF Told
      <3>3. \E x \in Calls(V, q) : x[1] = V.tick
        BY <3>2, <1>1, CallsExist
      <3> DEFINE S == Calls(V, q)
      <3>4. S \in SUBSET Call /\ \E x \in S : x[1] <= t
        BY <3>3, <1>1, <1>6, CallsShape
      <3> HIDE DEF S
      <3>5. Rules(S, V.setting, t, v) <=> Rules(S, W.setting, t, v)
        BY <3>4, CallsOverrule
      <3> QED
        BY <3>5, <1>5 DEF Ruled, S
    <2> QED
      BY <2>1, <2>2
  <1> QED
    BY <1>5, <1>6 DEF W

\* A node that has claimed what is due runs the tick under what rules there,
\* unless news of that tick is on its way.
LEMMA AdvanceRules ==
  ASSUME NEW V, Orderly(V), Cleared(V), NEW q \in Seq(Letter),
         \A i \in DOMAIN q : q[i].change.tick # V.tick
  PROVE  /\ Ruled(V, q, V.tick, V.setting)
         /\ \A x \in Call : x \in Calls(Advance(V), q) <=> x \in Calls(V, q) /\ V.tick < x[1]
         /\ \A t \in Nat, v \in Nat :
              V.tick < t => (Ruled(Advance(V), q, t, v) <=> Ruled(V, q, t, v))
  <1> DEFINE W == Advance(V)
             S == Calls(V, q)
             R == Calls(W, q)
  <1>1. V \in View /\ W \in View /\ V.tick \in Nat /\ V.setting \in Nat
    BY AdvanceKeepsOrder, ViewFields DEF Orderly
  <1>2. W.tick = V.tick + 1 /\ W.setting = V.setting /\ W.store = V.store
    BY <1>1, AdvanceFields
  <1> HIDE DEF W
  <1>3. \A x \in Call : x[1] \in Nat
    BY DEF Call
  <1>4. ASSUME NEW x \in Call PROVE x \in R <=> x \in S /\ V.tick < x[1]
    <2>1. \A v \in Nat : Told(V, q, x[1], v) <=> Told(W, q, x[1], v)
      BY <1>2 DEF Told
    <2>2. CASE V.tick < x[1]
      <3>1. V.tick <= x[1] /\ W.tick <= x[1]
        BY <1>1, <1>2, <1>3, <2>2
      <3> QED
        BY <3>1, <2>1, <2>2, <1>1, SameTalk
    <2>3. CASE ~(V.tick < x[1])
      <3>1. ~(W.tick <= x[1])
        BY <2>3, <1>1, <1>2, <1>3
      <3> QED
        BY <3>1, <2>3 DEF Calls
    <2> QED
      BY <2>2, <2>3
  <1>5. /\ S \in SUBSET Call /\ R \in SUBSET Call
        /\ \A x \in S : V.tick <= x[1] /\ Told(V, q, x[1], x[2])
        /\ \A x, y \in S : x[1] = y[1] => x = y
    BY <1>1, CallsShape
  <1>6. Rules(S, V.setting, V.tick, V.setting)
    <2>1. ASSUME NEW x \in S, x[1] = V.tick PROVE x[2] = V.setting
      <3>1. PICK e \in V.store : e.tick = V.tick /\ e.value = x[2]
        BY <2>1, <1>5 DEF Told
      <3>2. e.claimed
        BY <3>1 DEF Cleared
      <3> QED
        BY <3>1, <3>2 DEF Orderly
    <2> HIDE DEF S
    <2>2. \A x \in S : x \in Call /\ x[1] \in Nat /\ (x[1] <= V.tick => x[1] = V.tick)
      BY <1>1, <1>3, <1>5
    <2>3. CASE \E x \in S : x[1] = V.tick
      <3>1. PICK x \in S : x[1] = V.tick
        BY <2>3
      <3>2. x[2] = V.setting /\ x[1] <= V.tick /\ \A y \in S : y[1] <= V.tick => y[1] <= x[1]
        BY <3>1, <2>1, <2>2, <1>1
      <3> QED
        BY <3>2 DEF Rules
    <2>4. CASE ~(\E x \in S : x[1] = V.tick)
      <3>1. \A y \in S : V.tick < y[1]
        BY <2>2, <2>4, <1>1
      <3> QED
        BY <3>1 DEF Rules
    <2> QED
      BY <2>3, <2>4
  <1> HIDE DEF S, R
  <1>7. ASSUME NEW t \in Nat, NEW v \in Nat, V.tick < t
        PROVE  Rules(R, V.setting, t, v) <=> Rules(S, V.setting, t, v)
    <2>1. \A x \in S : V.tick <= x[1]
      BY <1>5
    <2>2. \A x \in Call : x \in R <=> x \in S /\ V.tick < x[1]
      BY <1>4
    <2> QED
      BY <2>1, <2>2, <1>1, <1>5, <1>6, <1>7, CallsAreDone
  <1> QED
    BY <1>2, <1>4, <1>6, <1>7 DEF Ruled, W, S, R
-----------------------------------------------------------------------------
(***************************************************************************)
(* A client behind its host: H is the host's view, V the client's, and q   *)
(* what the host has sent and the client not yet read.                     *)
(***************************************************************************)

\* Only changes of ticks the client has not run are on their way, each smaller
\* than those of its tick before it; and its sender had not committed input for
\* that tick, or it lifts a pause the client hears of first.
Falling(freezing, V, q) ==
  \A i \in DOMAIN q :
    /\ V.tick <= q[i].change.tick
    /\ \A j \in DOMAIN q :
         i < j /\ q[i].change.tick = q[j].change.tick => q[j].change.value < q[i].change.value
    /\ \A e \in V.store : e.tick = q[i].change.tick => q[i].change.value < e.value
    /\ \/ q[i].upto < q[i].change.tick
       \/ /\ q[i].change.value \notin freezing
          /\ \/ \E j \in DOMAIN q : /\ j < i /\ q[j].change.tick = q[i].change.tick
                                    /\ q[j].change.value \in freezing
             \/ \E e \in V.store : e.tick = q[i].change.tick /\ e.value \in freezing

\* What the client ran, and what it knows to rule the ticks it has not run, is
\* what the host ran them under or will.
Follows(H, V, q) ==
  /\ \A x \in Call : H.tick <= x[1] /\ V.tick <= x[1] => (x \in Calls(V, q) <=> x \in Calls(H, <<>>))
  /\ \A t \in Nat, v \in Nat : V.tick <= t => (Ruled(V, q, t, v) <=> Runs(H, t, v))
  /\ \A t \in Nat : t < V.tick => Runs(H, t, V.ran[t + 1])

LEMMA NoLetters == <<>> \in Seq(Letter) /\ DOMAIN <<>> = {}
  BY EmptySeq

\* The host claims what is due.
LEMMA HostClaims ==
  ASSUME NEW H, Orderly(H), NEW V \in View, NEW q \in Seq(Letter), Follows(H, V, q),
         Len(V.ran) = V.tick
  PROVE  Follows(Claim(H), V, q)
  <1> DEFINE G == Claim(H)
             none == <<>>
  <1>1. H \in View /\ H.tick \in Nat /\ V.tick \in Nat /\ none \in Seq(Letter)
    BY NoLetters, ViewFields DEF Orderly
  <1>2. G.tick = H.tick /\ G.ran = H.ran
    BY <1>1, ClaimFields
  <1>3. Calls(G, none) = Calls(H, none)
    BY <1>1, ClaimRules
  <1>4. \A t \in Nat, v \in Nat : H.tick <= t => (Ruled(G, none, t, v) <=> Ruled(H, none, t, v))
    <2> HIDE DEF none
    <2> QED
      BY <1>1, ClaimRules
  <1> HIDE DEF G
  <1>5. ASSUME NEW t \in Nat, NEW v \in Nat PROVE Runs(G, t, v) <=> Runs(H, t, v)
    BY <1>1, <1>2, <1>4 DEF Runs
  <1>6. \A t \in Nat : t < V.tick => V.ran[t + 1] \in Nat
    <2>1. V.ran \in Seq(Nat)
      BY ViewFields
    <2> QED
      BY <2>1, <1>1, ElementOfSeq
  <1> QED
    BY <1>2, <1>3, <1>5, <1>6 DEF Follows, G

\* The host executes a tick.
LEMMA HostAdvances ==
  ASSUME NEW H, Orderly(H), Cleared(H), NEW V \in View, NEW q \in Seq(Letter), Follows(H, V, q),
         Len(V.ran) = V.tick
  PROVE  Follows(Advance(H), V, q)
  <1> DEFINE G == Advance(H)
             none == <<>>
             k == H.tick
  <1>1. /\ H \in View /\ k \in Nat /\ V.tick \in Nat /\ none \in Seq(Letter)
        /\ H.setting \in Nat /\ H.ran \in Seq(Nat) /\ Len(H.ran) = k
    BY NoLetters, ViewFields DEF Orderly
  <1>2. G.tick = k + 1 /\ G.ran = Append(H.ran, H.setting)
    BY <1>1, AdvanceFields
  <1>3. /\ Ruled(H, none, k, H.setting)
        /\ \A x \in Call : x \in Calls(G, none) <=> x \in Calls(H, none) /\ k < x[1]
        /\ \A t \in Nat, v \in Nat : k < t => (Ruled(G, none, t, v) <=> Ruled(H, none, t, v))
    <2>1. DOMAIN none = {}
      BY NoLetters
    <2> HIDE DEF none
    <2>2. \A i \in DOMAIN none : none[i].change.tick # k
      BY <2>1
    <2> QED
      BY <1>1, <2>2, AdvanceRules
  <1>4. ASSUME NEW v \in Nat PROVE Ruled(H, none, k, v) <=> v = H.setting
    <2> DEFINE S == Calls(H, none)
    <2>1. S \in SUBSET Call /\ \A x, y \in S : x[1] = y[1] => x = y
      BY <1>1, CallsShape
    <2>2. Rules(S, H.setting, k, H.setting)
      BY <1>3 DEF Ruled
    <2> HIDE DEF S, k
    <2>3. Rules(S, H.setting, k, v) => v = H.setting
      BY <1>1, <2>1, <2>2, OneRules
    <2> QED
      BY <2>2, <2>3 DEF Ruled, S
  <1> HIDE DEF G, none, k
  <1>5. ASSUME NEW t \in Nat, NEW v \in Nat PROVE Runs(G, t, v) <=> Runs(H, t, v)
    <2>1. CASE t < k
      <3>1. t + 1 \in 1 .. Len(H.ran)
        BY <2>1, <1>1
      <3>2. Append(H.ran, H.setting)[t + 1] = H.ran[t + 1]
        BY <3>1, <1>1, AppendProperties
      <3>3. G.ran[t + 1] = H.ran[t + 1]
        BY <3>2, <1>2
      <3> QED
        BY <3>3, <2>1, <1>1, <1>2 DEF Runs, k
    <2>2. CASE t = k
      <3>1. G.ran[t + 1] = H.setting
        BY <2>2, <1>1, <1>2, AppendProperties
      <3>2. t < G.tick /\ ~(t < H.tick)
        BY <2>2, <1>1, <1>2 DEF k
      <3> QED
        BY <3>1, <3>2, <2>2, <1>4 DEF Runs, k, none
    <2>3. CASE k < t
      <3>1. ~(t < G.tick) /\ ~(t < H.tick)
        BY <2>3, <1>1, <1>2 DEF k
      <3> QED
        BY <3>1, <2>3, <1>3 DEF Runs, none
    <2> QED
      BY <2>1, <2>2, <2>3, <1>1
  <1>6. \A t \in Nat : t < V.tick => V.ran[t + 1] \in Nat
    <2> SUFFICES ASSUME NEW t \in Nat, t < V.tick PROVE V.ran[t + 1] \in Nat
      OBVIOUS
    <2>1. V.ran \in Seq(Nat)
      BY ViewFields
    <2>2. t + 1 \in 1 .. Len(V.ran)
      BY <1>1
    <2> QED
      BY <2>1, <2>2, ElementOfSeq
  <1>7. \A x \in Call : G.tick <= x[1] => H.tick <= x[1] /\ k < x[1]
    BY <1>1, <1>2 DEF Call, k
  <1> QED
    BY <1>3, <1>5, <1>6, <1>7 DEF Follows, G, none

\* The client claims what is due.
LEMMA ClientClaims ==
  ASSUME NEW H, NEW V, Orderly(V), NEW q \in Seq(Letter), Follows(H, V, q), NEW freezing,
         Falling(freezing, V, q)
  PROVE  Follows(H, Claim(V), q) /\ Falling(freezing, Claim(V), q)
  <1> DEFINE W == Claim(V)
  <1>1. V \in View /\ V.tick \in Nat
    BY ViewFields DEF Orderly
  <1>2. W.tick = V.tick /\ W.ran = V.ran /\ W.store = Claimed(V.store, V.tick)
    BY <1>1, ClaimFields
  <1>3. Calls(W, q) = Calls(V, q)
    BY ClaimRules
  <1>4. \A t \in Nat, v \in Nat : V.tick <= t => (Ruled(W, q, t, v) <=> Ruled(V, q, t, v))
    BY ClaimRules
  <1> HIDE DEF W
  <1>5. Follows(H, W, q)
    BY <1>2, <1>3, <1>4 DEF Follows
  <1>6. ASSUME NEW i \in DOMAIN q
        PROVE  /\ V.tick <= q[i].change.tick
               /\ \A e \in W.store : e.tick = q[i].change.tick => q[i].change.value < e.value
               /\ \A e \in V.store : e.tick = q[i].change.tick /\ e.value \in freezing =>
                    \E f \in W.store : f.tick = q[i].change.tick /\ f.value \in freezing
    <2>1. V.tick <= q[i].change.tick
      BY DEF Falling
    <2>2. ASSUME NEW f \in W.store, f.tick = q[i].change.tick PROVE q[i].change.value < f.value
      <3>1. PICK e \in V.store : f.tick = e.tick /\ f.value = e.value
        BY <1>2, ClaimedStore
      <3> QED
        BY <3>1, <2>2 DEF Falling
    <2>3. ASSUME NEW e \in V.store, e.tick = q[i].change.tick, e.value \in freezing
          PROVE  \E f \in W.store : f.tick = q[i].change.tick /\ f.value \in freezing
      <3>1. V.tick <= e.tick
        BY <2>1, <2>3
      <3>2. PICK f \in W.store : f.tick = e.tick /\ f.value = e.value
        BY <3>1, <1>2, ClaimedStore
      <3> QED
        BY <3>2, <2>3
    <2> QED
      BY <2>1, <2>2, <2>3
  <1>7. Falling(freezing, W, q)
    BY <1>2, <1>6 DEF Falling
  <1> QED
    BY <1>5, <1>7 DEF W

\* The client executes a tick: the input it needs for it was sent after all the
\* host had decided about it.
LEMMA ClientAdvances ==
  ASSUME NEW H, NEW V, Orderly(V), Cleared(V), NEW q \in Seq(Letter), Follows(H, V, q),
         NEW freezing, Falling(freezing, V, q),
         V.setting \notin freezing, \A i \in DOMAIN q : V.tick <= q[i].upto
  PROVE  Follows(H, Advance(V), q) /\ Falling(freezing, Advance(V), q)
  <1> DEFINE W == Advance(V)
  <1>1. /\ V \in View /\ V.tick \in Nat /\ V.setting \in Nat /\ V.ran \in Seq(Nat)
        /\ Len(V.ran) = V.tick
    BY ViewFields DEF Orderly
  <1>2. /\ W.tick = V.tick + 1 /\ W.ran = Append(V.ran, V.setting) /\ W.store = V.store
    BY <1>1, AdvanceFields
  <1>3. ASSUME NEW i \in DOMAIN q PROVE q[i].change.tick # V.tick
    <2>1. SUFFICES ASSUME q[i].change.tick = V.tick PROVE FALSE
      OBVIOUS
    <2>2. \A j \in DOMAIN q : V.tick <= q[j].upto /\ q[j].upto \in Nat
      BY LetterFields
    <2>3. ~(q[i].upto < q[i].change.tick)
      BY <2>1, <2>2, <1>1
    <2>4. CASE \E j \in DOMAIN q : /\ j < i /\ q[j].change.tick = q[i].change.tick
                                   /\ q[j].change.value \in freezing
      <3>1. PICK j \in DOMAIN q : q[j].change.tick = q[i].change.tick /\ q[j].change.value \in freezing
        BY <2>4
      <3>2. q[j].upto < q[j].change.tick
        BY <3>1 DEF Falling
      <3> QED
        BY <3>1, <3>2, <2>1, <2>2, <1>1
    <2>5. CASE \E e \in V.store : e.tick = q[i].change.tick /\ e.value \in freezing
      <3>1. PICK e \in V.store : e.tick = V.tick /\ e.value \in freezing
        BY <2>1, <2>5
      <3>2. e.claimed
        BY <3>1 DEF Cleared
      <3>3. e.value = V.setting
        BY <3>1, <3>2 DEF Orderly
      <3> QED
        BY <3>1, <3>3
    <2> QED
      BY <2>3, <2>4, <2>5 DEF Falling
  <1>4. /\ Ruled(V, q, V.tick, V.setting)
        /\ \A x \in Call : x \in Calls(W, q) <=> x \in Calls(V, q) /\ V.tick < x[1]
        /\ \A t \in Nat, v \in Nat : V.tick < t => (Ruled(W, q, t, v) <=> Ruled(V, q, t, v))
    BY <1>3, AdvanceRules
  <1> HIDE DEF W
  <1>5. \A x \in Call : W.tick <= x[1] => V.tick <= x[1] /\ V.tick < x[1]
    BY <1>1, <1>2 DEF Call
  <1>6. \A t \in Nat : W.tick <= t => V.tick <= t /\ V.tick < t
    BY <1>1, <1>2
  <1>7. ASSUME NEW t \in Nat, t < W.tick PROVE Runs(H, t, W.ran[t + 1])
    <2>1. CASE t < V.tick
      <3>1. W.ran[t + 1] = V.ran[t + 1]
        BY <2>1, <1>1, <1>2, AppendProperties
      <3> QED
        BY <3>1, <2>1 DEF Follows
    <2>2. CASE t = V.tick
      <3>1. W.ran[t + 1] = V.setting
        BY <2>2, <1>1, <1>2, AppendProperties
      <3> QED
        BY <3>1, <2>2, <1>1, <1>4 DEF Follows
    <2> QED
      BY <2>1, <2>2, <1>1, <1>2, <1>7
  <1>8. Follows(H, W, q)
    <2>1. \A x \in Call : H.tick <= x[1] /\ W.tick <= x[1] =>
            (x \in Calls(W, q) <=> x \in Calls(H, <<>>))
      BY <1>4, <1>5 DEF Follows
    <2>2. \A t \in Nat, v \in Nat : W.tick <= t => (Ruled(W, q, t, v) <=> Runs(H, t, v))
      BY <1>4, <1>6 DEF Follows
    <2> QED
      BY <2>1, <2>2, <1>7 DEF Follows
  <1>9. \A i \in DOMAIN q : W.tick <= q[i].change.tick
    <2>1. \A i \in DOMAIN q : V.tick <= q[i].change.tick
      BY DEF Falling
    <2> QED
      BY <2>1, <1>1, <1>2, <1>3, LetterFields
  <1>10. Falling(freezing, W, q)
    BY <1>2, <1>9 DEF Falling
  <1> QED
    BY <1>8, <1>10 DEF W
-----------------------------------------------------------------------------
(***************************************************************************)
(* A change enters a store.                                                *)
(***************************************************************************)

Heed(V, p) ==
  [tick |-> V.tick, setting |-> V.setting, store |-> Propose(V.store, p), ran |-> V.ran]

Pending(V, c, v) == \E e \in V.store : e.tick = c /\ e.value = v

LEMMA HeedFields ==
  ASSUME NEW V \in View, NEW p \in Proposal
  PROVE  /\ Heed(V, p) \in View
         /\ Heed(V, p).tick = V.tick /\ Heed(V, p).setting = V.setting
         /\ Heed(V, p).ran = V.ran /\ Heed(V, p).store = Propose(V.store, p)
         /\ ~Accepts(V.store, p) => Heed(V, p).store = V.store
         /\ Accepts(V.store, p) =>
              Heed(V, p).store = {e \in V.store : e.tick # p.tick}
                \cup {[proposer |-> p.proposer, tick |-> p.tick, value |-> p.value, claimed |-> FALSE]}
  <1> DEFINE x == [proposer |-> p.proposer, tick |-> p.tick, value |-> p.value, claimed |-> FALSE]
  <1>1. x \in Entry
    BY DEF Proposal, Entry
  <1>2. Propose(V.store, p) = IF Accepts(V.store, p) THEN {e \in V.store : e.tick # p.tick} \cup {x}
                              ELSE V.store
    BY DEF Propose
  <1> HIDE DEF x
  <1>3. Propose(V.store, p) \in SUBSET Entry
    BY <1>1, <1>2, ViewFields
  <1>4. Heed(V, p) \in View
    BY <1>3 DEF Heed, View
  <1> QED
    BY <1>2, <1>4 DEF Heed, x

LEMMA HeedStore ==
  ASSUME NEW V \in View, NEW p \in Proposal, Accepts(V.store, p)
  PROVE  /\ \A c, v : Pending(Heed(V, p), c, v) <=>
                        IF c = p.tick THEN v = p.value ELSE Pending(V, c, v)
         /\ \A e \in Heed(V, p).store :
              \/ e \in V.store /\ e.tick # p.tick
              \/ /\ e.tick = p.tick /\ e.value = p.value /\ e.proposer = p.proposer /\ ~e.claimed
         /\ \A e \in V.store : e.tick # p.tick => e \in Heed(V, p).store
  <1> DEFINE x == [proposer |-> p.proposer, tick |-> p.tick, value |-> p.value, claimed |-> FALSE]
             S == Heed(V, p).store
  <1>1. S = {e \in V.store : e.tick # p.tick} \cup {x}
    BY HeedFields
  <1>2. x.tick = p.tick /\ x.value = p.value /\ x.proposer = p.proposer /\ ~x.claimed
    OBVIOUS
  <1> HIDE DEF x, S
  <1>3. \A c, v : (\E e \in S : e.tick = c /\ e.value = v) <=>
                    IF c = p.tick THEN v = p.value ELSE Pending(V, c, v)
    BY <1>1, <1>2 DEF Pending
  <1>4. \A c, v : Pending(Heed(V, p), c, v) <=> \E e \in S : e.tick = c /\ e.value = v
    BY DEF Pending, S
  <1> QED
    BY <1>1, <1>2, <1>3, <1>4 DEF S

LEMMA HeedKeepsOrder ==
  ASSUME NEW V, Orderly(V), NEW p \in Proposal, V.tick <= p.tick
  PROVE  Orderly(Heed(V, p))
  <1> DEFINE W == Heed(V, p)
  <1>1. V \in View
    BY DEF Orderly
  <1>2. W \in View /\ W.tick = V.tick /\ W.setting = V.setting /\ W.ran = V.ran
    BY <1>1, HeedFields
  <1>3. CASE ~Accepts(V.store, p)
    <2>1. W.store = V.store
      BY <1>1, <1>3, HeedFields
    <2> HIDE DEF W
    <2> QED
      BY <2>1, <1>2 DEF Orderly, W
  <1>4. CASE Accepts(V.store, p)
    <2>1. \A e \in W.store :
            \/ e \in V.store /\ e.tick # p.tick
            \/ /\ e.tick = p.tick /\ e.value = p.value /\ e.proposer = p.proposer /\ ~e.claimed
      BY <1>1, <1>4, HeedStore
    <2> DEFINE x == [proposer |-> p.proposer, tick |-> p.tick, value |-> p.value, claimed |-> FALSE]
    <2>2. W.store = {e \in V.store : e.tick # p.tick} \cup {x}
      BY <1>1, <1>4, HeedFields
    <2>3. x.tick = p.tick /\ ~x.claimed
      OBVIOUS
    <2>4. V.tick \in Nat /\ p.tick \in Nat
      BY <1>1, ViewFields DEF Proposal
    <2> HIDE DEF W, x
    <2>5. \A e, f \in W.store : e.tick = f.tick => e = f
      BY <2>2, <2>3 DEF Orderly
    <2>6. ASSUME NEW e \in W.store
          PROVE  /\ W.tick <= e.tick + 1
                 /\ e.claimed => e.tick <= W.tick /\ (e.tick = W.tick => e.value = W.setting)
                 /\ ~e.claimed => W.tick <= e.tick
      <3>1. CASE e \in V.store
        BY <3>1, <1>2 DEF Orderly
      <3>2. CASE e.tick = p.tick /\ ~e.claimed
        BY <3>2, <2>4, <1>2
      <3> QED
        BY <3>1, <3>2, <2>1
    <2>7. Len(W.ran) = W.tick
      BY <1>2 DEF Orderly
    <2>8. Orderly(W)
      BY <1>2, <2>5, <2>6, <2>7 DEF Orderly
    <2> QED
      BY <2>8 DEF W
  <1> QED
    BY <1>3, <1>4

\* The host takes up a change and sends it on.
LEMMA HostProposes ==
  ASSUME NEW H, Orderly(H), NEW V \in View, Len(V.ran) = V.tick, NEW q \in Seq(Letter),
         Follows(H, V, q), NEW freezing, Falling(freezing, V, q),
         NEW m \in Letter, NEW p \in Proposal, m.change = p, Accepts(H.store, p),
         H.tick <= p.tick, V.tick <= p.tick,
         \A e \in H.store : e.tick = p.tick => p.value < e.value,
         \/ m.upto < p.tick
         \/ p.value \notin freezing /\ \E e \in H.store : e.tick = p.tick /\ e.value \in freezing
  PROVE  Follows(Heed(H, p), V, Append(q, m)) /\ Falling(freezing, V, Append(q, m))
  <1> DEFINE G == Heed(H, p)
             r == Append(q, m)
             n == Len(q)
             c == p.tick
             none == <<>>
  <1>1. /\ H \in View /\ H.tick \in Nat /\ V.tick \in Nat /\ none \in Seq(Letter)
        /\ n \in Nat /\ DOMAIN q = 1 .. n /\ c \in Nat /\ p.value \in Nat
    BY NoLetters, ViewFields, LenProperties DEF Orderly, Proposal
  <1>2. G \in View /\ G.tick = H.tick /\ G.setting = H.setting /\ G.ran = H.ran
    BY <1>1, HeedFields
  <1>3. r \in Seq(Letter) /\ DOMAIN r = 1 .. n + 1 /\ r[n + 1] = m /\ \A i \in 1 .. n : r[i] = q[i]
    BY <1>1, AppendProperties
  <1>4. \A d, v : Pending(G, d, v) <=> IF d = c THEN v = p.value ELSE Pending(H, d, v)
    BY <1>1, HeedStore
  <1> HIDE DEF G, r, n, none
  <1>5. \A d, v : Told(V, r, d, v) <=> Told(V, q, d, v) \/ (d = c /\ v = p.value)
    <2>1. ASSUME NEW d, NEW v
          PROVE  (\E i \in DOMAIN r : r[i].change.tick = d /\ r[i].change.value = v) <=>
                 (\E i \in DOMAIN q : q[i].change.tick = d /\ q[i].change.value = v)
                   \/ (d = c /\ v = p.value)
      <3>1. ASSUME NEW i \in DOMAIN q, q[i].change.tick = d, q[i].change.value = v
            PROVE  i \in DOMAIN r /\ r[i] = q[i]
        BY <1>1, <1>3
      <3>2. n + 1 \in DOMAIN r
        BY <1>1, <1>3
      <3>3. ASSUME NEW i \in DOMAIN r PROVE i = n + 1 \/ (i \in DOMAIN q /\ r[i] = q[i])
        BY <1>1, <1>3
      <3> QED
        BY <3>1, <3>2, <3>3, <1>3
    <2> QED
      BY <2>1 DEF Told
  <1>6. \A d, v : Told(G, none, d, v) <=> Pending(G, d, v)
    BY NoLetters DEF Told, Pending, none
  <1>7. \A d, v : Told(H, none, d, v) <=> Pending(H, d, v)
    BY NoLetters DEF Told, Pending, none
  <1>8. ASSUME NEW x \in Call, x[1] # c
        PROVE  (x \in Calls(G, none) <=> x \in Calls(H, none))
                 /\ (x \in Calls(V, r) <=> x \in Calls(V, q))
    <2>1. \A v \in Nat : Told(G, none, x[1], v) <=> Told(H, none, x[1], v)
      BY <1>4, <1>6, <1>7, <1>8
    <2>2. \A v \in Nat : Told(V, r, x[1], v) <=> Told(V, q, x[1], v)
      BY <1>5, <1>8
    <2> QED
      BY <2>1, <2>2, <1>1, <1>2, SameTalk
  <1>9. ASSUME NEW x \in Call, x[1] = c PROVE x \in Calls(G, none) <=> x[2] = p.value
    <2>1. \A v : Told(G, none, x[1], v) <=> v = p.value
      BY <1>4, <1>6, <1>9
    <2>2. G.tick <= x[1]
      BY <1>2, <1>9
    <2> QED
      BY <2>1, <2>2, <1>1 DEF Calls
  <1>10. ASSUME NEW v, Told(V, q, c, v) PROVE p.value < v
    <2>1. PICK x \in Calls(V, q) : x[1] = c /\ x[2] <= v
      BY <1>10, CallsExist
    <2>2. x \in Call /\ x \in Calls(H, none)
      BY <2>1, CallsShape DEF Follows, none
    <2>3. Pending(H, c, x[2])
      BY <2>1, <2>2, <1>1, <1>7, CallsShape
    <2>4. p.value < x[2]
      BY <2>3 DEF Pending
    <2>5. v \in Nat /\ x[2] \in Nat
      BY <1>10, <2>2, ToldCounts DEF Call
    <2> QED
      BY <2>1, <2>4, <2>5, <1>1
  <1>11. ASSUME NEW x \in Call, x[1] = c PROVE x \in Calls(V, r) <=> x[2] = p.value
    <2>1. x[2] \in Nat
      BY DEF Call
    <2>2. \A v \in Nat : Told(V, r, x[1], v) => p.value <= v
      BY <1>1, <1>5, <1>10, <1>11
    <2>3. Told(V, r, x[1], p.value)
      BY <1>5, <1>11
    <2>4. x \in Calls(V, r) => x[2] = p.value
      <3>1. SUFFICES ASSUME x \in Calls(V, r) PROVE x[2] = p.value
        OBVIOUS
      <3>2. Told(V, r, x[1], x[2]) /\ x[2] <= p.value
        BY <3>1, <2>3, <1>1 DEF Calls
      <3> QED
        BY <3>2, <2>1, <2>2, <1>1
    <2>5. x[2] = p.value => x \in Calls(V, r)
      BY <2>2, <2>3, <1>11 DEF Calls
    <2> QED
      BY <2>4, <2>5
  <1>12. \A x \in Call : H.tick <= x[1] /\ V.tick <= x[1] => (x \in Calls(V, r) <=> x \in Calls(G, none))
    BY <1>8, <1>9, <1>11 DEF Follows, none
  <1> DEFINE S == Calls(V, r)
             R == Calls(G, none)
             S0 == Calls(V, q)
             R0 == Calls(H, none)
  <1>13. S \in SUBSET Call /\ R \in SUBSET Call /\ S0 \in SUBSET Call /\ R0 \in SUBSET Call
    BY <1>1, <1>2, <1>3, CallsShape
  <1>14. (\E x \in S : x[1] = c) /\ (\E x \in R : x[1] = c)
    <2> DEFINE z == <<c, p.value>>
    <2>1. z \in Call /\ z[1] = c /\ z[2] = p.value
      BY <1>1 DEF Call
    <2> HIDE DEF z
    <2> QED
      BY <2>1, <1>9, <1>11
  <1>15. \A x \in Call : c <= x[1] => (x \in S <=> x \in R)
    <2>1. ASSUME NEW x \in Call, c <= x[1] PROVE H.tick <= x[1] /\ V.tick <= x[1]
      BY <2>1, <1>1 DEF Call
    <2> QED
      BY <2>1, <1>12
  <1>16. \A x \in Call : x[1] # c => (x \in S <=> x \in S0) /\ (x \in R <=> x \in R0)
    BY <1>8
  <1> HIDE DEF S, R, S0, R0
  <1>17. ASSUME NEW t \in Nat, t < c, NEW v
         PROVE  /\ Rules(S, V.setting, t, v) <=> Rules(S0, V.setting, t, v)
                /\ Rules(R, H.setting, t, v) <=> Rules(R0, H.setting, t, v)
    <2>1. \A x \in Call : x[1] <= t => x[1] # c
      BY <1>1, <1>17 DEF Call
    <2>2. \A x \in Call : x[1] <= t => (x \in S <=> x \in S0)
      BY <2>1, <1>16
    <2>3. \A x \in Call : x[1] <= t => (x \in R <=> x \in R0)
      BY <2>1, <1>16
    <2>4. Rules(S, V.setting, t, v) <=> Rules(S0, V.setting, t, v)
      BY <2>2, <1>13, LaterCallsWait
    <2>5. Rules(R, H.setting, t, v) <=> Rules(R0, H.setting, t, v)
      BY <2>3, <1>13, LaterCallsWait
    <2> QED
      BY <2>4, <2>5
  <1>18. ASSUME NEW t \in Nat, t < c, NEW v PROVE Runs(G, t, v) <=> Runs(H, t, v)
    BY <1>2, <1>17, <1>18 DEF Runs, Ruled, R, R0, none
  <1>19. ASSUME NEW t \in Nat, NEW v \in Nat, V.tick <= t
         PROVE  Ruled(V, r, t, v) <=> Runs(G, t, v)
    <2>1. CASE t < c
      <3>1. Ruled(V, q, t, v) <=> Runs(H, t, v)
        BY <1>19 DEF Follows
      <3>2. Ruled(V, r, t, v) <=> Ruled(V, q, t, v)
        BY <2>1, <1>17 DEF Ruled, S, S0
      <3> QED
        BY <3>1, <3>2, <2>1, <1>18
    <2>2. CASE c <= t
      <3>1. Rules(S, V.setting, t, v) <=> Rules(R, H.setting, t, v)
        BY <2>2, <1>1, <1>13, <1>14, <1>15, EarlierCallsYield
      <3>2. ~(t < G.tick)
        BY <2>2, <1>1, <1>2
      <3> QED
        BY <3>1, <3>2, <1>2 DEF Runs, Ruled, S, R, none
    <2> QED
      BY <2>1, <2>2, <1>1
  <1>20. ASSUME NEW t \in Nat, t < V.tick PROVE Runs(G, t, V.ran[t + 1])
    <2>1. Runs(H, t, V.ran[t + 1])
      BY <1>20 DEF Follows
    <2>2. t < c
      BY <1>1, <1>20
    <2> QED
      BY <2>1, <2>2, <1>18
  <1>21. Follows(G, V, r)
    BY <1>2, <1>12, <1>19, <1>20 DEF Follows, none
  <1>22. m.upto < c \/ (p.value \notin freezing /\ \E v \in freezing : Told(V, q, c, v))
    <2>1. CASE \E e \in H.store : e.tick = c /\ e.value \in freezing
      <3>1. PICK e \in H.store : e.tick = c /\ e.value \in freezing
        BY <2>1
      <3> DEFINE z == <<c, e.value>>
      <3>2. z \in Call /\ z[1] = c /\ z[2] = e.value
        BY <3>1, <1>1, ViewFields DEF Call
      <3>3. \A w : Told(H, none, c, w) => w = e.value
        BY <3>1, <1>7 DEF Pending, Orderly
      <3>4. Told(H, none, c, e.value)
        BY <3>1, <1>7 DEF Pending
      <3> HIDE DEF z
      <3>5. z \in Calls(H, none)
        <4>1. z[2] <= z[2]
          BY <3>2, <1>1, <3>1, ViewFields
        <4>2. \A w \in Nat : Told(H, none, z[1], w) => z[2] <= w
          BY <3>2, <3>3, <4>1
        <4> QED
          BY <3>2, <3>4, <4>2 DEF Calls
      <3>6. z \in Calls(V, q)
        BY <3>2, <3>5 DEF Follows, none
      <3>7. Told(V, q, c, e.value)
        BY <3>2, <3>6, CallsShape
      <3> QED
        BY <3>1, <3>7
    <2> QED
      BY <2>1
  <1>23. ASSUME NEW i \in DOMAIN r
         PROVE  /\ V.tick <= r[i].change.tick
                /\ \A j \in DOMAIN r : i < j /\ r[i].change.tick = r[j].change.tick =>
                     r[j].change.value < r[i].change.value
                /\ \A e \in V.store : e.tick = r[i].change.tick => r[i].change.value < e.value
                /\ \/ r[i].upto < r[i].change.tick
                   \/ /\ r[i].change.value \notin freezing
                      /\ \/ \E j \in DOMAIN r : /\ j < i /\ r[j].change.tick = r[i].change.tick
                                                /\ r[j].change.value \in freezing
                         \/ \E e \in V.store : e.tick = r[i].change.tick /\ e.value \in freezing
    <2>1. \A j \in DOMAIN r : j \in Nat /\ (j = n + 1 \/ (j \in DOMAIN q /\ j < n + 1 /\ r[j] = q[j]))
      BY <1>1, <1>3
    <2>2. \A j \in DOMAIN q : j \in DOMAIN r /\ r[j] = q[j] /\ j < n + 1
      BY <1>1, <1>3
    <2>3. r[n + 1].change = p /\ r[n + 1].upto = m.upto
      BY <1>3
    <2>4. CASE i = n + 1
      <3>1. \A j \in DOMAIN r : ~(i < j)
        BY <2>1, <2>4, <1>1, <1>3
      <3>2. \A e \in V.store : e.tick = c => p.value < e.value
        BY <1>10 DEF Told
      <3>3. (\E v \in freezing : Told(V, q, c, v)) =>
              \/ \E j \in DOMAIN r : /\ j < i /\ r[j].change.tick = c /\ r[j].change.value \in freezing
              \/ \E e \in V.store : e.tick = c /\ e.value \in freezing
        BY <2>2, <2>4 DEF Told
      <3> QED
        BY <2>3, <2>4, <3>1, <3>2, <3>3, <1>22
    <2>5. CASE i \in DOMAIN q /\ r[i] = q[i]
      <3>1. ASSUME NEW j \in DOMAIN r, i < j, q[i].change.tick = r[j].change.tick
            PROVE  r[j].change.value < q[i].change.value
        <4>1. CASE j = n + 1
          <5>1. Told(V, q, c, q[i].change.value)
            BY <4>1, <3>1, <2>3, <2>5 DEF Told
          <5> QED
            BY <5>1, <4>1, <2>3, <1>10
        <4>2. CASE j \in DOMAIN q /\ r[j] = q[j]
          BY <4>2, <3>1, <2>5 DEF Falling
        <4> QED
          BY <4>1, <4>2, <2>1
      <3>2. /\ V.tick <= q[i].change.tick
            /\ \A e \in V.store : e.tick = q[i].change.tick => q[i].change.value < e.value
            /\ \/ q[i].upto < q[i].change.tick
               \/ /\ q[i].change.value \notin freezing
                  /\ \/ \E j \in DOMAIN q : /\ j < i /\ q[j].change.tick = q[i].change.tick
                                            /\ q[j].change.value \in freezing
                     \/ \E e \in V.store : e.tick = q[i].change.tick /\ e.value \in freezing
        BY <2>5 DEF Falling
      <3> QED
        BY <2>2, <2>5, <3>1, <3>2
    <2> QED
      BY <2>1, <2>4, <2>5
  <1>24. Falling(freezing, V, r)
    BY <1>23 DEF Falling
  <1> QED
    BY <1>21, <1>24 DEF G, r
\* The client reads a change: it takes it, and learns nothing new.
LEMMA ClientReads ==
  ASSUME NEW H, NEW V, Orderly(V), NEW q \in Seq(Letter), q # <<>>, Follows(H, V, q),
         NEW freezing, freezing \subseteq {1}, Falling(freezing, V, q),
         NEW p \in Proposal, p = q[1].change, \A e \in V.store : e.proposer = p.proposer
  PROVE  /\ Accepts(V.store, p) /\ V.tick <= p.tick
         /\ Follows(H, Heed(V, p), Tail(q)) /\ Falling(freezing, Heed(V, p), Tail(q))
  <1> DEFINE W == Heed(V, p)
             r == Tail(q)
             n == Len(q)
             c == p.tick
  <1>1. /\ V \in View /\ V.tick \in Nat /\ c \in Nat /\ p.value \in Nat
        /\ n \in Nat /\ n >= 1 /\ DOMAIN q = 1 .. n /\ 1 \in DOMAIN q
    BY ViewFields, LenProperties, EmptySeq DEF Orderly, Proposal
  <1>2. V.tick <= c /\ \A e \in V.store : e.tick = c => p.value < e.value
    BY <1>1 DEF Falling
  <1>3. Accepts(V.store, p)
    <2>1. ASSUME NEW e \in V.store, e.tick = c
          PROVE  IF e.claimed THEN <<p.proposer, p.value>> # <<e.proposer, e.value>>
                 ELSE Before(p, e)
      <3>1. p.value < e.value /\ e.value \in Nat /\ p.proposer = e.proposer
        BY <2>1, <1>1, <1>2, ViewFields
      <3>2. p.value # e.value
        BY <3>1, <1>1
      <3> QED
        BY <3>1, <3>2 DEF Before
    <2> QED
      BY <2>1 DEF Accepts
  <1>4. W \in View /\ W.tick = V.tick /\ W.setting = V.setting /\ W.ran = V.ran
    BY <1>1, HeedFields
  <1>5. /\ \A d, v : Pending(W, d, v) <=> IF d = c THEN v = p.value ELSE Pending(V, d, v)
        /\ \A e \in W.store :
             \/ e \in V.store /\ e.tick # c
             \/ e.tick = c /\ e.value = p.value
        /\ \A e \in V.store : e.tick # c => e \in W.store
    BY <1>1, <1>3, HeedStore
  <1>6. r \in Seq(Letter) /\ DOMAIN r = 1 .. n - 1 /\ \A i \in 1 .. n - 1 : r[i] = q[i + 1]
    BY <1>1, HeadTailProperties, LenProperties
  <1>7. \A i \in DOMAIN r : i \in Nat /\ i + 1 \in DOMAIN q /\ r[i] = q[i + 1] /\ 1 < i + 1
    BY <1>1, <1>6
  <1>8. \A i \in DOMAIN q : i = 1 \/ (i - 1 \in DOMAIN r /\ r[i - 1] = q[i])
    BY <1>1, <1>6
  <1> HIDE DEF W, r, n
  <1> DEFINE Posted(s, d, v) == \E i \in DOMAIN s : s[i].change.tick = d /\ s[i].change.value = v
  <1>9. \A d, v : Posted(q, d, v) <=> Posted(r, d, v) \/ (d = c /\ v = p.value)
    BY <1>1, <1>7, <1>8
  <1>10. \A v : Posted(r, c, v) => v < p.value /\ v \in Nat
    <2>1. ASSUME NEW i \in DOMAIN r, r[i].change.tick = c
          PROVE  r[i].change.value < p.value /\ r[i].change.value \in Nat
      <3>1. i + 1 \in DOMAIN q /\ r[i] = q[i + 1] /\ 1 < i + 1
        BY <1>7
      <3>2. q[i + 1].change.tick = q[1].change.tick
        BY <3>1, <2>1
      <3>3. q[i + 1].change.value < q[1].change.value
        BY <3>1, <3>2, <1>1 DEF Falling
      <3> QED
        BY <3>1, <3>3, LetterFields
    <2> QED
      BY <2>1
  <1>11. \A d, v : Told(V, q, d, v) <=> Pending(V, d, v) \/ Posted(q, d, v)
    BY DEF Told, Pending
  <1>12. \A d, v : Told(W, r, d, v) <=> Pending(W, d, v) \/ Posted(r, d, v)
    BY DEF Told, Pending
  <1> HIDE DEF Posted
  <1>13. ASSUME NEW x \in Call PROVE x \in Calls(V, q) <=> x \in Calls(W, r)
    <2>1. CASE x[1] # c
      <3>1. \A v \in Nat : Told(V, q, x[1], v) <=> Told(W, r, x[1], v)
        BY <2>1, <1>5, <1>9, <1>11, <1>12
      <3> QED
        BY <3>1, <1>1, <1>4, SameTalk
    <2>2. CASE x[1] = c
      <3>1. \A v : Told(W, r, c, v) <=> v = p.value \/ Posted(r, c, v)
        BY <1>5, <1>12
      <3>2. \A v : Told(V, q, c, v) <=> Pending(V, c, v) \/ v = p.value \/ Posted(r, c, v)
        BY <1>9, <1>11
      <3>3. \A v : Pending(V, c, v) => p.value < v /\ v \in Nat
        BY <1>1, <1>2, ViewFields DEF Pending
      <3>4. x[2] \in Nat
        BY DEF Call
      <3>5. ASSUME Told(V, q, c, x[2]), \A w \in Nat : Told(V, q, c, w) => x[2] <= w
            PROVE  Told(W, r, c, x[2]) /\ \A w \in Nat : Told(W, r, c, w) => x[2] <= w
        <4>1. x[2] <= p.value
          BY <3>2, <3>5, <1>1
        <4>2. ~Pending(V, c, x[2])
          BY <4>1, <3>3, <3>4, <1>1
        <4> QED
          BY <4>2, <3>1, <3>2, <3>5
      <3>6. ASSUME Told(W, r, c, x[2]), \A w \in Nat : Told(W, r, c, w) => x[2] <= w
            PROVE  Told(V, q, c, x[2]) /\ \A w \in Nat : Told(V, q, c, w) => x[2] <= w
        <4>1. x[2] <= p.value
          BY <3>1, <3>6, <1>1
        <4>2. ASSUME NEW w \in Nat, Pending(V, c, w) PROVE x[2] <= w
          BY <4>1, <4>2, <3>3, <3>4, <1>1
        <4>3. ASSUME NEW w \in Nat, Told(V, q, c, w) PROVE x[2] <= w
          BY <4>2, <4>3, <3>1, <3>2, <3>6
        <4> QED
          BY <4>3, <3>1, <3>2, <3>6
      <3> QED
        BY <3>5, <3>6, <2>2, <1>4 DEF Calls
    <2> QED
      BY <2>1, <2>2
  <1>14. Calls(W, r) = Calls(V, q)
    BY <1>13 DEF Calls
  <1>15. Follows(H, W, r)
    BY <1>4, <1>14 DEF Follows, Ruled
  <1>16. ASSUME NEW i \in DOMAIN r
         PROVE  /\ W.tick <= r[i].change.tick
                /\ \A j \in DOMAIN r : i < j /\ r[i].change.tick = r[j].change.tick =>
                     r[j].change.value < r[i].change.value
                /\ \A e \in W.store : e.tick = r[i].change.tick => r[i].change.value < e.value
                /\ \/ r[i].upto < r[i].change.tick
                   \/ /\ r[i].change.value \notin freezing
                      /\ \/ \E j \in DOMAIN r : /\ j < i /\ r[j].change.tick = r[i].change.tick
                                                /\ r[j].change.value \in freezing
                         \/ \E e \in W.store : e.tick = r[i].change.tick /\ e.value \in freezing
    <2> DEFINE k == i + 1
    <2>1. k \in DOMAIN q /\ r[i] = q[k] /\ 1 < k /\ i \in Nat
      BY <1>7
    <2>2. q[k].change.value \in Nat
      BY <2>1, LetterFields
    <2>3. ASSUME NEW j \in DOMAIN r, i < j, r[i].change.tick = r[j].change.tick
          PROVE  r[j].change.value < r[i].change.value
      <3>1. j + 1 \in DOMAIN q /\ r[j] = q[j + 1] /\ k < j + 1
        BY <2>1, <2>3, <1>7
      <3>2. q[k].change.tick = q[j + 1].change.tick
        BY <3>1, <2>1, <2>3
      <3> HIDE DEF k
      <3>3. q[j + 1].change.value < q[k].change.value
        BY <3>1, <3>2, <2>1 DEF Falling
      <3> QED
        BY <3>1, <3>3, <2>1
    <2>4. ASSUME NEW e \in W.store, e.tick = r[i].change.tick PROVE r[i].change.value < e.value
      <3>1. CASE e \in V.store
        BY <3>1, <2>1, <2>4 DEF Falling
      <3>2. CASE e.tick = c /\ e.value = p.value
        <4>1. Posted(r, c, r[i].change.value)
          BY <3>2, <2>4 DEF Posted
        <4> QED
          BY <4>1, <3>2, <1>10
      <3> QED
        BY <3>1, <3>2, <1>5
    <2> HIDE DEF k
    <2>5. /\ W.tick <= r[i].change.tick
          /\ \/ q[k].upto < q[k].change.tick
             \/ /\ q[k].change.value \notin freezing
                /\ \/ \E j \in DOMAIN q : /\ j < k /\ q[j].change.tick = q[k].change.tick
                                          /\ q[j].change.value \in freezing
                   \/ \E e \in V.store : e.tick = q[k].change.tick /\ e.value \in freezing
      BY <2>1, <1>4 DEF Falling
    <2>6. ASSUME NEW j \in DOMAIN q, j < k, q[j].change.tick = q[k].change.tick,
                 q[j].change.value \in freezing
          PROVE  \/ \E l \in DOMAIN r : /\ l < i /\ r[l].change.tick = r[i].change.tick
                                        /\ r[l].change.value \in freezing
                 \/ \E e \in W.store : e.tick = r[i].change.tick /\ e.value \in freezing
      <3>1. CASE j = 1
        <4>1. Pending(W, c, p.value)
          BY <1>5
        <4>2. p.value \in freezing /\ c = r[i].change.tick
          BY <3>1, <2>1, <2>6
        <4> QED
          BY <4>1, <4>2 DEF Pending
      <3>2. CASE j - 1 \in DOMAIN r /\ r[j - 1] = q[j]
        <4>1. j - 1 < i
          BY <2>1, <2>6, <1>1 DEF k
        <4> QED
          BY <4>1, <3>2, <2>1, <2>6
      <3> QED
        BY <3>1, <3>2, <1>8
    <2>7. ASSUME NEW e \in V.store, e.tick = q[k].change.tick, e.value \in freezing
          PROVE  e \in W.store
      <3>1. SUFFICES ASSUME e.tick = c PROVE FALSE
        BY <1>5
      <3>2. e.value = 1 /\ p.value < e.value
        BY <3>1, <2>7, <1>2
      <3>3. p.value = 0
        BY <3>2, <1>1
      <3>4. Posted(r, c, q[k].change.value)
        BY <3>1, <2>1, <2>7 DEF Posted
      <3> QED
        BY <3>3, <3>4, <1>10
    <2> QED
      BY <2>1, <2>3, <2>4, <2>5, <2>6, <2>7
  <1>17. Falling(freezing, W, r)
    BY <1>16 DEF Falling
  <1> QED
    BY <1>2, <1>3, <1>15, <1>17 DEF W, r
-----------------------------------------------------------------------------
(***************************************************************************)
(* The types of a session.                                                 *)
(***************************************************************************)

Draft == [proposer : Node, tick : Nat, value : Value]
Mail == [kind : {"request", "at"}, change : Draft, upto : Nat]

\* The view of node n with another store.
Holding(n, store) ==
  [tick |-> tick[n], setting |-> setting[n], store |-> store, ran |-> ran[n]]
ViewOf(n) == Holding(n, pending[n])

Typed ==
  /\ session \in Sessions
  /\ tick \in [Node -> Nat] /\ setting \in [Node -> Value]
  /\ pending \in [Node -> SUBSET Scheduled]
  /\ asked \in [Node -> Seq(Value)]
  /\ committed \in [Player -> Nat]
  /\ wire \in [Links -> Seq(Mail)]
  /\ ran \in [Node -> Seq(Value \ Freezing)]
  /\ \A n \in Node : Orderly(ViewOf(n))

LEMMA Terms ==
  ASSUME session \in Sessions
  PROVE  /\ Player \subseteq Node /\ Host \in Node /\ Links \subseteq Node \X Node
         /\ Node \subseteq Anyone /\ Authority \in {"host", "peers"}
         /\ Value \subseteq Nat /\ Freezing \subseteq Value
         /\ session.initial \in Value \ Freezing
         /\ Freezing = {} \/ (Value = {0, 1} /\ Freezing = {1})
         /\ SyncLatency \in Nat \ {0}
         /\ \A m \in Node : Rank[m] \in Nat
  BY ControlPlaneAssumption
  DEF Player, Node, Host, Links, Anyone, Authority, Value, Freezing, SyncLatency

\* The types of a session are types of any.
LEMMA WiderTypes ==
  ASSUME session \in Sessions
  PROVE  /\ Scheduled \subseteq Entry /\ Draft \subseteq Proposal /\ Mail \subseteq Letter
         /\ Seq(Mail) \subseteq Seq(Letter) /\ Seq(Value \ Freezing) \subseteq Seq(Nat)
  <1>1. Node \subseteq Anyone /\ Value \subseteq Nat
    BY Terms
  <1>2. Scheduled \subseteq Entry
    BY <1>1 DEF Scheduled, Entry
  <1>3. Draft \subseteq Proposal
    BY <1>1 DEF Draft, Proposal
  <1>4. Mail \subseteq Letter
    BY <1>3 DEF Mail, Letter
  <1>5. Seq(Mail) \subseteq Seq(Letter)
    <2> DEFINE A == Mail
               B == Letter
    <2>1. A \subseteq B
      BY <1>4
    <2> HIDE DEF A, B
    <2>2. Seq(A) \subseteq Seq(B)
      BY <2>1, SeqMonotonic
    <2> QED
      BY <2>2 DEF A, B
  <1>6. Seq(Value \ Freezing) \subseteq Seq(Nat)
    <2> DEFINE A == Value \ Freezing
    <2>1. A \subseteq Nat
      BY <1>1
    <2> HIDE DEF A
    <2>2. Seq(A) \subseteq Seq(Nat)
      BY <2>1, SeqMonotonic
    <2> QED
      BY <2>2 DEF A
  <1> QED
    BY <1>2, <1>3, <1>4, <1>5, <1>6

\* A session's terms do not change.
LEMMA TermsStay ==
  ASSUME UNCHANGED session
  PROVE  /\ Node' = Node /\ Player' = Player /\ Host' = Host /\ Authority' = Authority
         /\ Links' = Links /\ Paced' = Paced /\ Value' = Value /\ Freezing' = Freezing
         /\ SyncLatency' = SyncLatency /\ Scheduled' = Scheduled /\ Draft' = Draft /\ Mail' = Mail
  BY DEF Node, Player, Host, Authority, Links, Paced, Value, Freezing, SyncLatency, Scheduled,
         Draft, Mail

LEMMA HoldingFields ==
  ASSUME NEW n, NEW store
  PROVE  /\ Holding(n, store).tick = tick[n] /\ Holding(n, store).setting = setting[n]
         /\ Holding(n, store).store = store /\ Holding(n, store).ran = ran[n]
  BY DEF Holding

LEMMA HoldingIsView ==
  ASSUME Typed, NEW n \in Node, NEW store \in SUBSET Scheduled
  PROVE  Holding(n, store) \in View
  <1>1. tick[n] \in Nat /\ setting[n] \in Nat /\ store \in SUBSET Entry /\ ran[n] \in Seq(Nat)
    <2>1. setting[n] \in Value /\ ran[n] \in Seq(Value \ Freezing) /\ Value \subseteq Nat
      BY Terms DEF Typed
    <2> QED
      BY <2>1, WiderTypes DEF Typed
  <1> QED
    BY <1>1 DEF Holding, View

-----------------------------------------------------------------------------
(***************************************************************************)
(* The requests of a step, one after the other.                            *)
(***************************************************************************)

\* What holds before the first request, and every request for one of the values
\* keeps.
Kept(n, Values, S) ==
  /\ [store |-> pending[n], out |-> <<>>] \in S
  /\ \A acc \in S, value \in Values : RouteRequest(n, acc, value) \in S

\* What every request keeps, all of them keep; the last one was made where it held.
LEMMA RoutedStays ==
  ASSUME NEW n, NEW Values, NEW values \in Seq(Values), NEW S, Kept(n, Values, S)
  PROVE  /\ Routed(n, values) \in S
         /\ values # <<>> => \E acc \in S, value \in Values :
                               Routed(n, values) = RouteRequest(n, acc, value)
  <1> DEFINE N == Len(values)
             b == [store |-> pending[n], out |-> <<>>]
             next(i, acc) == RouteRequest(n, acc, values[i])
             g == [i \in 1 .. N |-> [acc \in S |-> next(i, acc)]]
             h == CHOOSE f : f = [i \in 0 .. N |-> IF i = 0 THEN b ELSE next(i, f[i - 1])]
  <1>1. N \in Nat /\ b \in S
    BY LenProperties DEF Kept
  <1>2. \A i \in 1 .. N, acc \in S : next(i, acc) \in S
    <2>1. \A i \in 1 .. N : values[i] \in Values
      BY ElementOfSeq
    <2> QED
      BY <2>1 DEF Kept
  <1>3. Routed(n, values) = h[N]
    BY DEF Routed
  <1> HIDE DEF next
  <1>4. g \in [1 .. N -> [S -> S]]
    BY <1>2
  <1> HIDE DEF b, g, N, h
  <1>5. PICK f \in [0 .. N -> S] : f[0] = b /\ \A i \in 1 .. N : f[i] = g[i][f[i - 1]]
    BY <1>1, <1>4, RecursionExists
  <1>6. f = [i \in 0 .. N |-> IF i = 0 THEN b ELSE next(i, f[i - 1])]
    <2>1. ASSUME NEW i \in 1 .. N PROVE f[i] = next(i, f[i - 1])
      <3>1. f[i - 1] \in S
        BY <1>1, <1>5
      <3> QED
        BY <3>1, <1>5 DEF g
    <2> QED
      BY <1>1, <1>5, <2>1
  <1>7. h = [i \in 0 .. N |-> IF i = 0 THEN b ELSE next(i, h[i - 1])]
    BY <1>6 DEF h
  <1>8. h[0] = b /\ \A i \in 1 .. N : h[i] = next(i, h[i - 1])
    BY <1>1, <1>7
  <1> DEFINE P == {i \in 0 .. N : h[i] \in S}
  <1>9. 0 \in P /\ \A i \in 1 .. N : i - 1 \in P => i \in P
    BY <1>1, <1>2, <1>8
  <1>10. 0 .. N \subseteq P
    <2> HIDE DEF P
    <2> QED
      BY <1>1, <1>9, StaysIn
  <1>11. h[N] \in S
    BY <1>1, <1>10
  <1>12. ASSUME values # <<>>
         PROVE  \E acc \in S, value \in Values : h[N] = RouteRequest(n, acc, value)
    <2>1. N # 0
      BY <1>12, EmptySeq DEF N
    <2>2. N \in 1 .. N /\ N - 1 \in P
      BY <2>1, <1>1, <1>10
    <2>3. h[N - 1] \in S /\ h[N] = next(N, h[N - 1])
      BY <2>2, <1>8
    <2>4. values[N] \in Values
      BY <2>2, ElementOfSeq DEF N
    <2> QED
      BY <2>3, <2>4 DEF next
  <1> QED
    BY <1>3, <1>11, <1>12

Batch == [store : SUBSET Scheduled, out : Seq(Mail)]

\* What one request makes of a batch.
LEMMA OneRouted ==
  ASSUME Typed, NEW n \in Node, NEW acc \in Batch, NEW value \in Value
  PROVE  LET p == Change(n, value)
             kind == IF Decides(n) THEN "at" ELSE "request"
             sent == Append(acc.out, Message(n, kind, p))
             after == RouteRequest(n, acc, value)
         IN /\ p \in Draft /\ tick[n] <= p.tick /\ p.proposer = n /\ p.value = value
            /\ p.tick = IF Frozen(n) THEN tick[n] ELSE tick[n] + SyncLatency * 2
            /\ Message(n, kind, p) \in Mail
            /\ Message(n, kind, p).kind = kind /\ Message(n, kind, p).change = p
            /\ Message(n, kind, p).upto = IF n \in Player THEN committed[n] ELSE 0
            /\ ~Decides(n) => after.store = acc.store /\ after.out = sent
            /\ Decides(n) /\ ~Accepts(acc.store, p) => after = acc
            /\ Decides(n) /\ Accepts(acc.store, p) =>
                 after.store = Propose(acc.store, p) /\ after.out = sent
            /\ after \in Batch
  <1> DEFINE p == Change(n, value)
             kind == IF Decides(n) THEN "at" ELSE "request"
             m == Message(n, kind, p)
             sent == Append(acc.out, m)
             after == RouteRequest(n, acc, value)
  <1>1. SyncLatency \in Nat /\ tick[n] \in Nat /\ session \in Sessions
    BY Terms DEF Typed
  <1>2. /\ p \in Draft /\ tick[n] <= p.tick /\ p.proposer = n /\ p.value = value /\ p.tick \in Nat
        /\ p.tick = IF Frozen(n) THEN tick[n] ELSE tick[n] + SyncLatency * 2
    BY <1>1 DEF Change, ControlDelay, Draft
  <1> HIDE DEF p
  <1>3. /\ m.kind = kind /\ m.change = p
        /\ m.upto = IF n \in Player THEN committed[n] ELSE 0
    BY DEF Message
  <1>4. m \in Mail
    <2>1. (IF n \in Player THEN committed[n] ELSE 0) \in Nat
      BY DEF Typed
    <2>2. kind \in {"request", "at"}
      OBVIOUS
    <2> HIDE DEF kind
    <2> QED
      BY <1>2, <2>1, <2>2 DEF Message, Mail
  <1>5. acc.store \in SUBSET Scheduled /\ acc.out \in Seq(Mail)
    BY DEF Batch
  <1>6. sent \in Seq(Mail)
    <2> HIDE DEF m
    <2> QED
      BY <1>4, <1>5, AppendProperties
  <1>7. CASE ~Decides(n)
    <2>1. after = [acc EXCEPT !.out = sent]
      BY <1>7 DEF RouteRequest, p
    <2>2. after.store = acc.store /\ after.out = sent /\ after \in Batch
      <3> HIDE DEF sent, after
      <3> QED
        BY <2>1, <1>6 DEF Batch
    <2> QED
      BY <2>2, <1>2, <1>3, <1>4, <1>7 DEF p
  <1>8. CASE Decides(n) /\ ~Accepts(acc.store, p)
    <2>1. after = acc
      BY <1>8 DEF RouteRequest, p
    <2> HIDE DEF after
    <2> QED
      BY <2>1, <1>2, <1>3, <1>4, <1>8 DEF p, after
  <1>9. CASE Decides(n) /\ Accepts(acc.store, p)
    <2>1. after = [store |-> Propose(acc.store, p), out |-> sent]
      BY <1>9 DEF RouteRequest, p
    <2>2. Propose(acc.store, p) \in SUBSET Scheduled
      <3>1. p.proposer \in Node /\ p.tick \in Nat /\ p.value \in Value
        BY <1>2
      <3>2. [proposer |-> p.proposer, tick |-> p.tick, value |-> p.value, claimed |-> FALSE]
              \in Scheduled
        BY <3>1 DEF Scheduled
      <3> QED
        BY <3>2, <1>5 DEF Propose
    <2>3. after.store = Propose(acc.store, p) /\ after.out = sent /\ after \in Batch
      <3> HIDE DEF sent, after
      <3> QED
        BY <2>1, <2>2, <1>6 DEF Batch
    <2> QED
      BY <2>3, <1>2, <1>3, <1>4, <1>9 DEF p
  <1> QED
    BY <1>7, <1>8, <1>9

\* The store stays in order through all of them.
LEMMA RoutedTyped ==
  ASSUME Typed, NEW n \in Node, NEW values \in Seq(Value)
  PROVE  Routed(n, values) \in Batch /\ Orderly(Holding(n, Routed(n, values).store))
  <1> DEFINE Ok(acc) == acc \in Batch /\ Orderly(Holding(n, acc.store))
             S == {acc \in Batch : Ok(acc)}
             b == [store |-> pending[n], out |-> <<>>]
  <1>1. b \in Batch /\ b.store = pending[n]
    <2>1. <<>> \in Seq(Mail)
      BY EmptySeq
    <2>2. pending[n] \in SUBSET Scheduled
      BY DEF Typed
    <2> QED
      BY <2>1, <2>2 DEF Batch
  <1>2. b \in S
    <2> HIDE DEF b
    <2> QED
      BY <1>1 DEF Typed, ViewOf
  <1>3. ASSUME NEW acc \in S, NEW value \in Value PROVE RouteRequest(n, acc, value) \in S
    <2> DEFINE p == Change(n, value)
               after == RouteRequest(n, acc, value)
    <2>1. acc \in Batch /\ Orderly(Holding(n, acc.store)) /\ acc.store \in SUBSET Scheduled
      BY DEF Batch
    <2>2. /\ p \in Draft /\ tick[n] <= p.tick /\ after \in Batch
          /\ after.store = acc.store \/ after.store = Propose(acc.store, p)
      BY <2>1, OneRouted
    <2> HIDE DEF p, after
    <2>3. p \in Proposal
      BY <2>2, WiderTypes DEF Typed
    <2>4. Heed(Holding(n, acc.store), p) = Holding(n, Propose(acc.store, p))
      BY DEF Heed, Holding
    <2>5. Orderly(Holding(n, Propose(acc.store, p)))
      <3>1. Holding(n, acc.store).tick <= p.tick
        BY <2>2, HoldingFields
      <3> QED
        BY <3>1, <2>1, <2>3, <2>4, HeedKeepsOrder
    <2>6. Ok(after)
      BY <2>1, <2>2, <2>5
    <2> QED
      BY <2>6 DEF after
  <1>4. Routed(n, values) \in S
    <2> HIDE DEF S
    <2> QED
      BY <1>2, <1>3, RoutedStays DEF b, Kept
  <1> QED
    BY <1>4
-----------------------------------------------------------------------------
(***************************************************************************)
(* What a step, and the arrival of a message, make of the views.           *)
(***************************************************************************)

\* Node n has decided the requests r, claims what is due, and executes or not.
Stepped(n, r, executes) ==
  LET W == Claim(Holding(n, r.store))
  IN /\ ViewOf(n)' = IF executes THEN Advance(W) ELSE W
     /\ \A m \in Node \ {n} : ViewOf(m)' = ViewOf(m)
     /\ asked' = [asked EXCEPT ![n] = <<>>]
     /\ committed' = Commit(n, W.setting)
     /\ wire' = SendAll(n, r.out)
     /\ executes => W.setting \notin Freezing /\ CanHold(n, committed', tick[n])

LEMMA StepShape ==
  ASSUME Typed, NEW n \in Node, NEW intent \in Seq(Value), NEW ready \in BOOLEAN,
         Step(n, intent, ready), UNCHANGED session
  PROVE  LET r == Routed(n, intent \o asked[n])
         IN /\ r \in Batch /\ Orderly(Holding(n, r.store))
            /\ \E executes \in BOOLEAN : Stepped(n, r, executes)
            /\ tick' \in [Node -> Nat] /\ setting' \in [Node -> Value]
            /\ pending' \in [Node -> SUBSET Scheduled] /\ ran' \in [Node -> Seq(Value \ Freezing)]
  <1> DEFINE values == intent \o asked[n]
             r == Routed(n, values)
             U == Holding(n, r.store)
             W == Claim(U)
             due == Due(r.store, tick[n])
             value == IF due = {} THEN setting[n] ELSE (CHOOSE e \in due : TRUE).value
             sent == Commit(n, value)
             executes == /\ ready /\ value \notin Freezing /\ tick[n] < MaxTick
                         /\ CanHold(n, sent, tick[n])
  <1>1. values \in Seq(Value)
    <2>1. asked[n] \in Seq(Value)
      BY DEF Typed
    <2> QED
      BY <2>1, ConcatProperties
  <1> HIDE DEF values
  <1>2. r \in Batch /\ Orderly(U)
    BY <1>1, RoutedTyped
  <1> HIDE DEF r
  <1>3. r.store \in SUBSET Scheduled /\ r.out \in Seq(Mail)
    BY <1>2 DEF Batch
  <1>4. U.tick = tick[n] /\ U.setting = setting[n] /\ U.store = r.store /\ U.ran = ran[n]
    BY HoldingFields
  <1>5. value = NextValue(U)
    BY <1>4 DEF NextValue
  <1>6. U \in View
    BY <1>2 DEF Orderly
  <1> HIDE DEF U
  <1>7. /\ W.tick = tick[n] /\ W.setting = value /\ W.ran = ran[n]
        /\ W.store = Claimed(r.store, tick[n])
    BY <1>4, <1>5, <1>6, ClaimFields
  <1>8. /\ pending' = [pending EXCEPT ![n] = Claimed(r.store, tick[n])]
        /\ setting' = [setting EXCEPT ![n] = value]
        /\ asked' = [asked EXCEPT ![n] = <<>>]
        /\ committed' = sent
        /\ wire' = SendAll(n, r.out)
        /\ tick' = IF executes THEN [tick EXCEPT ![n] = @ + 1] ELSE tick
        /\ ran' = IF executes THEN [ran EXCEPT ![n] = Append(@, value)] ELSE ran
    BY DEF Step, r, values
  <1>9. setting[n] \in Value /\ tick[n] \in Nat /\ ran[n] \in Seq(Value \ Freezing)
    BY DEF Typed
  <1>10. value \in Value
    <2>1. \A e \in r.store : e.value \in Value
      BY <1>3 DEF Scheduled
    <2> QED
      BY <2>1, <1>2, <1>4, <1>5, <1>9, ValueNow
  <1> HIDE DEF value, due
  <1>11. Claimed(r.store, tick[n]) \in SUBSET Scheduled
    <2> DEFINE C == Claimed(U.store, U.tick)
    <2>1. /\ C \in SUBSET Entry
          /\ \A f \in C : \E e \in U.store :
               f.tick = e.tick /\ f.value = e.value /\ f.proposer = e.proposer
      BY <1>2, ClaimedStore
    <2> HIDE DEF C
    <2>2. ASSUME NEW f \in C PROVE f \in Scheduled
      <3>1. PICK e \in U.store : f.tick = e.tick /\ f.value = e.value /\ f.proposer = e.proposer
        BY <2>1
      <3>2. e \in Scheduled
        BY <1>3, <1>4
      <3>3. f \in Entry
        BY <2>1
      <3> QED
        BY <3>1, <3>2, <3>3 DEF Scheduled, Entry
    <2> QED
      BY <2>2, <1>4 DEF C
  <1>12. setting' \in [Node -> Value] /\ pending' \in [Node -> SUBSET Scheduled]
    <2>1. setting \in [Node -> Value] /\ pending \in [Node -> SUBSET Scheduled]
      BY DEF Typed
    <2> HIDE DEF W, sent, executes
    <2> QED
      BY <2>1, <1>8, <1>10, <1>11
  <1>13. tick' \in [Node -> Nat] /\ ran' \in [Node -> Seq(Value \ Freezing)]
    <2> DEFINE S == Value \ Freezing
    <2>1. tick \in [Node -> Nat] /\ ran \in [Node -> Seq(S)]
      BY DEF Typed
    <2>2. CASE executes
      <3>1. value \in S
        BY <2>2, <1>10
      <3> HIDE DEF S
      <3>2. Append(ran[n], value) \in Seq(S)
        BY <3>1, <2>1, AppendProperties
      <3>3. tick' = [tick EXCEPT ![n] = @ + 1] /\ ran' = [ran EXCEPT ![n] = Append(@, value)]
        BY <2>2, <1>8
      <3> QED
        BY <3>2, <3>3, <2>1, <1>9 DEF S
    <2>3. CASE ~executes
      BY <2>1, <2>3, <1>8
    <2> QED
      BY <2>2, <2>3
  <1>14. executes => value \notin Freezing /\ CanHold(n, sent, tick[n])
    OBVIOUS
  <1> HIDE DEF executes, sent
  <1>15. ViewOf(n)' = IF executes THEN Advance(W) ELSE W
    <2>1. ViewOf(n)' = [tick |-> tick'[n], setting |-> setting'[n], store |-> pending'[n],
                        ran |-> ran'[n]]
      BY DEF ViewOf, Holding
    <2>2. pending'[n] = W.store /\ setting'[n] = W.setting
      BY <1>7, <1>8 DEF Typed
    <2>3. CASE executes
      <3>1. tick'[n] = W.tick + 1 /\ ran'[n] = Append(W.ran, W.setting)
        BY <2>3, <1>7, <1>8 DEF Typed
      <3> QED
        BY <3>1, <2>1, <2>2, <2>3 DEF Advance
    <2>4. CASE ~executes
      <3>1. tick'[n] = W.tick /\ ran'[n] = W.ran
        BY <2>4, <1>7, <1>8
      <3>2. W = [tick |-> W.tick, setting |-> W.setting, store |-> W.store, ran |-> W.ran]
        BY DEF Claim
      <3> QED
        BY <3>1, <3>2, <2>1, <2>2, <2>4
    <2> QED
      BY <2>3, <2>4
  <1>16. ASSUME NEW m \in Node \ {n} PROVE ViewOf(m)' = ViewOf(m)
    <2>1. tick'[m] = tick[m] /\ setting'[m] = setting[m] /\ pending'[m] = pending[m] /\ ran'[m] = ran[m]
      BY <1>8 DEF Typed
    <2> QED
      BY <2>1 DEF ViewOf, Holding
  <1>17. executes \in BOOLEAN
    BY DEF executes
  <1>18. Stepped(n, r, executes)
    <2> HIDE DEF W
    <2>1. /\ asked' = [asked EXCEPT ![n] = <<>>]
          /\ committed' = Commit(n, W.setting)
          /\ wire' = SendAll(n, r.out)
          /\ executes => W.setting \notin Freezing /\ CanHold(n, committed', tick[n])
      BY <1>7, <1>8, <1>14 DEF sent
    <2> QED
      BY <2>1, <1>15, <1>16 DEF Stepped, W, U
  <1> QED
    BY <1>2, <1>12, <1>13, <1>17, <1>18 DEF r, values, U
LEMMA TypedStep ==
  ASSUME Typed, NEW n \in Node, NEW intent \in Seq(Value), NEW ready \in BOOLEAN,
         Step(n, intent, ready), UNCHANGED session
  PROVE  Typed'
  <1> DEFINE r == Routed(n, intent \o asked[n])
             U == Holding(n, r.store)
             W == Claim(U)
  <1>1. /\ r \in Batch /\ Orderly(U)
        /\ \E executes \in BOOLEAN : Stepped(n, r, executes)
        /\ tick' \in [Node -> Nat] /\ setting' \in [Node -> Value]
        /\ pending' \in [Node -> SUBSET Scheduled] /\ ran' \in [Node -> Seq(Value \ Freezing)]
    BY StepShape
  <1> HIDE DEF r
  <1>2. PICK executes \in BOOLEAN : Stepped(n, r, executes)
    BY <1>1
  <1>3. /\ ViewOf(n)' = IF executes THEN Advance(W) ELSE W
        /\ \A m \in Node \ {n} : ViewOf(m)' = ViewOf(m)
        /\ asked' = [asked EXCEPT ![n] = <<>>]
        /\ committed' = Commit(n, W.setting)
        /\ wire' = SendAll(n, r.out)
    BY <1>2 DEF Stepped
  <1> HIDE DEF U
  <1>4. Orderly(W) /\ Cleared(W)
    BY <1>1, ClaimKeepsOrder
  <1> HIDE DEF W
  <1>5. Orderly(ViewOf(n)')
    BY <1>3, <1>4, AdvanceKeepsOrder
  <1>6. \A m \in Node : Orderly(ViewOf(m)')
    BY <1>3, <1>5 DEF Typed
  <1>7. asked' \in [Node -> Seq(Value)]
    <2>1. <<>> \in Seq(Value)
      BY EmptySeq
    <2> QED
      BY <2>1, <1>3 DEF Typed
  <1>8. committed' \in [Player -> Nat]
    <2>1. n \in Player => tick[n] + SyncLatency \in Nat
      BY Terms DEF Typed
    <2> QED
      BY <2>1, <1>3 DEF Typed, Commit
  <1>9. wire' \in [Links -> Seq(Mail)]
    <2>1. \A l \in Links : wire[l] \in Seq(Mail) /\ wire[l] \o r.out \in Seq(Mail)
      BY <1>1, ConcatProperties DEF Batch, Typed
    <2> QED
      BY <2>1, <1>3 DEF SendAll
  <1>10. \A m \in Node' : Orderly(ViewOf(m)')
    BY <1>6, TermsStay
  <1>11. /\ session' \in Sessions /\ Node' = Node /\ Value' = Value /\ Player' = Player
         /\ Links' = Links /\ Mail' = Mail /\ Scheduled' = Scheduled /\ Freezing' = Freezing
    BY TermsStay DEF Typed
  <1> QED
    BY <1>1, <1>7, <1>8, <1>9, <1>10, <1>11 DEF Typed

\* Node n has read msg from node a; it has learnt a change from it, or not.
Learns(n, a, msg) ==
  msg.kind = "at" /\ Admits(n, a, msg.change) /\ Accepts(pending[n], msg.change)

LEMMA TypedArrive ==
  ASSUME Typed, NEW n \in Node, NEW a \in Node, Arrive(n, a), UNCHANGED session
  PROVE  Typed'
  <1> DEFINE msg == Head(wire[<<a, n>>])
             learns == Learns(n, a, msg)
             forwards == IF learns /\ Authority = "peers" THEN <<Message(n, "at", msg.change)>>
                         ELSE <<>>
  <1>1. /\ <<a, n>> \in Links /\ wire[<<a, n>>] # <<>>
        /\ pending' = IF learns THEN [pending EXCEPT ![n] = Propose(@, msg.change)] ELSE pending
        /\ asked' = IF msg.kind = "request" /\ Authority = "host" /\ n = Host
                    THEN [asked EXCEPT ![n] = Append(@, msg.change.value)] ELSE asked
        /\ wire' = [SendAll(n, forwards) EXCEPT ![<<a, n>>] = Tail(@)]
        /\ UNCHANGED <<tick, setting, committed, ran>>
    BY DEF Arrive, Learns
  <1>2. msg \in Mail
    <2>1. wire[<<a, n>>] \in Seq(Mail)
      BY <1>1 DEF Typed
    <2> QED
      BY <2>1, <1>1, HeadTailProperties
  <1>3. msg.change \in Draft /\ msg.change.value \in Value /\ msg.change.tick \in Nat
        /\ msg.change.proposer \in Node
    BY <1>2 DEF Mail, Draft
  <1>4. learns => tick[n] <= msg.change.tick
    BY DEF Learns, Admits
  <1> HIDE DEF msg, learns
  <1>5. pending' \in [Node -> SUBSET Scheduled] /\ \A m \in Node : Orderly(ViewOf(m)')
    <2>1. \A m \in Node : ViewOf(m)' = Holding(m, pending'[m])
      BY <1>1 DEF ViewOf, Holding
    <2>2. CASE ~learns
      <3>1. pending' = pending
        BY <2>2, <1>1
      <3>2. \A m \in Node : ViewOf(m)' = ViewOf(m)
        BY <2>1, <3>1 DEF ViewOf
      <3> QED
        BY <3>1, <3>2 DEF Typed
    <2>3. CASE learns
      <3> DEFINE p == msg.change
                 x == [proposer |-> p.proposer, tick |-> p.tick, value |-> p.value, claimed |-> FALSE]
      <3>1. pending' = [pending EXCEPT ![n] = Propose(@, p)]
        BY <2>3, <1>1
      <3>2. p \in Proposal /\ tick[n] <= p.tick
        BY <2>3, <1>3, <1>4, WiderTypes DEF Typed
      <3>3. Propose(pending[n], p) \in SUBSET Scheduled
        <4>1. x \in Scheduled
          BY <1>3 DEF Scheduled
        <4> QED
          BY <4>1 DEF Propose, Typed
      <3> HIDE DEF p, x
      <3>4. pending' \in [Node -> SUBSET Scheduled]
        BY <3>1, <3>3 DEF Typed
      <3>5. Orderly(ViewOf(n)')
        <4>1. pending'[n] = Propose(pending[n], p)
          BY <3>1 DEF Typed
        <4>2. ViewOf(n)' = Heed(ViewOf(n), p)
          BY <4>1, <2>1 DEF ViewOf, Heed, Holding
        <4>3. Orderly(ViewOf(n)) /\ ViewOf(n).tick = tick[n]
          BY DEF Typed, ViewOf, Holding
        <4> QED
          BY <4>2, <4>3, <3>2, HeedKeepsOrder
      <3>6. ASSUME NEW m \in Node, m # n PROVE Orderly(ViewOf(m)')
        <4>1. pending'[m] = pending[m]
          BY <3>1, <3>6 DEF Typed
        <4>2. ViewOf(m)' = ViewOf(m)
          BY <4>1, <2>1 DEF ViewOf
        <4> QED
          BY <4>2 DEF Typed
      <3> QED
        BY <3>4, <3>5, <3>6
    <2> QED
      BY <2>2, <2>3
  <1>6. asked' \in [Node -> Seq(Value)]
    <2>1. Append(asked[n], msg.change.value) \in Seq(Value)
      BY <1>3, AppendProperties DEF Typed
    <2> QED
      BY <2>1, <1>1 DEF Typed
  <1>7. wire' \in [Links -> Seq(Mail)]
    <2>1. forwards \in Seq(Mail)
      <3> DEFINE m == Message(n, "at", msg.change)
      <3>1. m \in Mail
        BY <1>3 DEF Message, Mail, Typed
      <3> HIDE DEF m
      <3>2. <<>> \in Seq(Mail) /\ <<m>> \in Seq(Mail)
        BY <3>1, EmptySeq
      <3> QED
        BY <3>2 DEF m
    <2> HIDE DEF forwards
    <2>2. \A l \in Links : wire[l] \in Seq(Mail) /\ wire[l] \o forwards \in Seq(Mail)
      BY <2>1, ConcatProperties DEF Typed
    <2> DEFINE sent == SendAll(n, forwards)
    <2>3. sent \in [Links -> Seq(Mail)]
      BY <2>2 DEF SendAll
    <2>4. sent[<<a, n>>] # <<>>
      <3>1. wire[<<a, n>>] \o forwards # <<>>
        <4>1. wire[<<a, n>>] \in Seq(Mail) /\ Len(wire[<<a, n>>]) # 0
          BY <1>1, EmptySeq DEF Typed
        <4>2. Len(wire[<<a, n>>] \o forwards) # 0
          BY <4>1, <2>1, ConcatProperties, LenProperties
        <4> QED
          BY <4>2, EmptySeq
      <3> QED
        BY <3>1, <1>1 DEF SendAll
    <2> HIDE DEF sent
    <2>5. Tail(sent[<<a, n>>]) \in Seq(Mail)
      <3>1. sent[<<a, n>>] \in Seq(Mail)
        BY <2>3, <1>1
      <3> QED
        BY <3>1, <2>4, HeadTailProperties
    <2>6. wire' = [sent EXCEPT ![<<a, n>>] = Tail(@)]
      BY <1>1 DEF sent
    <2> QED
      BY <2>3, <2>5, <2>6
  <1>8. /\ session' \in Sessions /\ Node' = Node /\ Value' = Value /\ Player' = Player
        /\ Links' = Links /\ Mail' = Mail /\ Scheduled' = Scheduled /\ Freezing' = Freezing
    BY TermsStay DEF Typed
  <1>9. \A m \in Node' : Orderly(ViewOf(m)')
    BY <1>5, <1>8
  <1> QED
    BY <1>1, <1>5, <1>6, <1>7, <1>8, <1>9 DEF Typed

LEMMA TypedInit ==
  ASSUME Init
  PROVE  Typed
  <1>1. session \in Sessions
    BY DEF Init
  <1>2. /\ SyncLatency - 1 \in Nat /\ session.initial \in Value /\ session.initial \in Nat
    BY <1>1, Terms
  <1>3. <<>> \in Seq(Value) /\ <<>> \in Seq(Mail) /\ <<>> \in Seq(Nat) /\ Len(<<>>) = 0
        /\ <<>> \in Seq(Value \ Freezing)
    BY EmptySeq
  <1>4. ASSUME NEW n \in Node PROVE Orderly(ViewOf(n))
    <2>1. ViewOf(n) = [tick |-> 0, setting |-> session.initial, store |-> {}, ran |-> <<>>]
      BY DEF Init, ViewOf, Holding
    <2> QED
      BY <2>1, <1>2, <1>3 DEF Orderly, View
  <1> QED
    BY <1>1, <1>2, <1>3, <1>4 DEF Init, Typed

\* A step of the system, one way or the other.
LEMMA NextShape ==
  ASSUME [Next]_vars, Typed
  PROVE  /\ UNCHANGED session
         /\ \/ UNCHANGED vars
            \/ \E n \in Node, intent \in Seq(Value), ready \in BOOLEAN : Step(n, intent, ready)
            \/ \E n, a \in Node : Arrive(n, a)
  <1>1. CASE UNCHANGED vars
    BY <1>1 DEF vars
  <1>2. ASSUME NEW n \in Node, FixedStep(n)
        PROVE  \E intent \in Seq(Value), ready \in BOOLEAN : Step(n, intent, ready)
    <2>1. <<>> \in Seq(Value) /\ \A value \in Value : <<value>> \in Seq(Value)
      BY EmptySeq
    <2> QED
      BY <2>1, <1>2, Zenon DEF FixedStep
  <1>3. CASE Next
    BY <1>2, <1>3, Zenon DEF Next
  <1> QED
    BY <1>1, <1>3

LEMMA TypedNext ==
  ASSUME Typed, [Next]_vars
  PROVE  Typed'
  <1>1. CASE UNCHANGED vars
    <2>1. \A n : ViewOf(n)' = ViewOf(n)
      BY <1>1 DEF vars, ViewOf, Holding
    <2>2. /\ Node' = Node /\ Value' = Value /\ Player' = Player
          /\ Links' = Links /\ Mail' = Mail /\ Scheduled' = Scheduled /\ Freezing' = Freezing
      BY <1>1, TermsStay DEF vars
    <2> QED
      BY <2>1, <2>2, <1>1 DEF Typed, vars
  <1>2. CASE \E n \in Node, intent \in Seq(Value), ready \in BOOLEAN : Step(n, intent, ready)
    BY <1>2, NextShape, TypedStep
  <1>3. CASE \E n, a \in Node : Arrive(n, a)
    BY <1>3, NextShape, TypedArrive
  <1> QED
    BY <1>1, <1>2, <1>3, NextShape

LEMMA TypedHolds == Spec => []Typed
  BY TypedInit, TypedNext, PTL DEF Spec

LEMMA TypedIsTypeOK ==
  ASSUME Typed
  PROVE  TypeOK
  <1>1. ASSUME NEW n \in Node
        PROVE  /\ pending[n] \subseteq Scheduled
               /\ \A e, f \in pending[n] : e.tick = f.tick => e = f
               /\ \A e \in pending[n] : tick[n] <= e.tick + 1 /\ (e.claimed => e.tick <= tick[n])
               /\ asked[n] \in Seq(Value)
               /\ ran[n] \in Seq(Value \ Freezing) /\ Len(ran[n]) = tick[n]
    <2>1. Orderly(ViewOf(n)) /\ ViewOf(n).store = pending[n] /\ ViewOf(n).tick = tick[n]
          /\ ViewOf(n).ran = ran[n]
      BY DEF Typed, ViewOf, Holding
    <2> QED
      BY <2>1 DEF Typed, Orderly
  <1> QED
    BY <1>1 DEF TypeOK, Typed

\* Every store keeps its shape, in every session and whoever decides: one change
\* per tick, handed out only once its tick is there and forgotten once the tick
\* is over (PendingChange).
THEOREM StoresAreSound == Spec => []TypeOK
  BY TypedHolds, TypedIsTypeOK, PTL
-----------------------------------------------------------------------------
(***************************************************************************)
(* A host that plays decides, and the links are paced: the input of a tick *)
(* does not arrive before what the host had sent when it committed it.     *)
(***************************************************************************)

HostLed ==
  /\ Authority = "host" /\ Paced /\ Host \in Player
  /\ \A n \in Node \ {Host} : <<Host, n>> \in Links

\* Every node's changes are the host's, and so is all but requests on the wire.
FromHost ==
  /\ \A n \in Node : \A e \in pending[n] : e.proposer = Host
  /\ \A l \in Links : \A i \in DOMAIN wire[l] :
       IF l[1] = Host THEN wire[l][i].kind = "at" /\ wire[l][i].change.proposer = Host
       ELSE wire[l][i].kind = "request"

\* The host commits no input for the tick a new change is due at, and while
\* it is frozen the change it is frozen by is still at hand.
Margin ==
  /\ committed[Host] <= tick[Host] + SyncLatency
  /\ Frozen(Host) => Cleared(ViewOf(Host)) /\ \E e \in pending[Host] : e.tick = tick[Host]

\* Client n is behind the host, if not in ticks then in what it knows of them.
Behind(n) ==
  /\ tick[n] <= committed[Host] + 1
  /\ Follows(ViewOf(Host), ViewOf(n), wire[<<Host, n>>])
  /\ Falling(Freezing, ViewOf(n), wire[<<Host, n>>])

Led == FromHost /\ Margin /\ \A n \in Node \ {Host} : Behind(n)

\* What a node ran a tick under is what the host did or will.
LEMMA RanAsHost ==
  ASSUME Typed, Led, NEW n \in Node, NEW t \in Nat, t < tick[n]
  PROVE  /\ Runs(ViewOf(Host), t, ran[n][t + 1])
         /\ ran[n][t + 1] \in Value \ Freezing
         /\ t + 1 \in 1 .. Len(ran[n])
  <1>1. /\ tick[n] \in Nat /\ ran[n] \in Seq(Value \ Freezing) /\ Len(ran[n]) = tick[n]
        /\ ViewOf(n).tick = tick[n] /\ ViewOf(n).ran = ran[n]
    BY DEF Typed, Orderly, ViewOf, Holding
  <1>2. t + 1 \in 1 .. Len(ran[n])
    BY <1>1
  <1>3. ran[n][t + 1] \in Value \ Freezing
    <2> DEFINE S == Value \ Freezing
    <2>1. ran[n] \in Seq(S)
      BY <1>1
    <2> HIDE DEF S
    <2>2. ran[n][t + 1] \in S
      BY <2>1, <1>2, ElementOfSeq
    <2> QED
      BY <2>2 DEF S
  <1>4. CASE n = Host
    BY <1>1, <1>4 DEF Runs
  <1>5. CASE n # Host
    <2>1. Behind(n)
      BY <1>5 DEF Led
    <2>2. Follows(ViewOf(Host), ViewOf(n), wire[<<Host, n>>])
      BY <2>1 DEF Behind
    <2> QED
      BY <2>2, <1>1, <1>2, <1>3 DEF Follows
  <1> QED
    BY <1>2, <1>3, <1>4, <1>5

LEMMA OneRuns ==
  ASSUME NEW H \in View, NEW t \in Nat, NEW v, NEW w, Runs(H, t, v), Runs(H, t, w)
  PROVE  v = w
  <1>1. CASE t < H.tick
    BY <1>1 DEF Runs
  <1>2. CASE ~(t < H.tick)
    <2> DEFINE S == Calls(H, <<>>)
    <2>1. S \in SUBSET Call /\ \A x, y \in S : x[1] = y[1] => x = y
      BY NoLetters, CallsShape
    <2>2. Rules(S, H.setting, t, v) /\ Rules(S, H.setting, t, w)
      BY <1>2 DEF Runs, Ruled
    <2> HIDE DEF S
    <2> QED
      BY <2>1, <2>2, OneRules
  <1> QED
    BY <1>1, <1>2

LEMMA ViewTyped ==
  ASSUME Typed, NEW n \in Node
  PROVE  /\ Orderly(ViewOf(n)) /\ ViewOf(n) \in View /\ ViewOf(n).tick = tick[n]
         /\ ViewOf(n).setting = setting[n] /\ ViewOf(n).store = pending[n] /\ ViewOf(n).ran = ran[n]
         /\ Len(ran[n]) = tick[n] /\ tick[n] \in Nat /\ setting[n] \in Value
  BY DEF Typed, Orderly, ViewOf, Holding

\* Nobody passes a tick the host is frozen at.
LEMMA FrozenStops ==
  ASSUME Typed, Led, Frozen(Host), NEW n \in Node
  PROVE  tick[n] <= tick[Host]
  <1> DEFINE H == ViewOf(Host)
             none == <<>>
  <1>1. Host \in Node
    BY Terms DEF Typed
  <1>2. /\ Orderly(H) /\ Cleared(H) /\ H \in View /\ H.tick = tick[Host] /\ H.setting = setting[Host]
        /\ tick[Host] \in Nat /\ tick[n] \in Nat
    BY <1>1, ViewTyped DEF Led, Margin
  <1>3. SUFFICES ASSUME tick[Host] < tick[n] PROVE FALSE
    BY <1>2
  <1>4. /\ Runs(H, tick[Host], ran[n][tick[Host] + 1])
        /\ ran[n][tick[Host] + 1] \in Value \ Freezing
    BY <1>2, <1>3, RanAsHost
  <1> HIDE DEF H
  <1>5. Ruled(H, none, H.tick, H.setting)
    <2>1. none \in Seq(Letter) /\ DOMAIN none = {}
      BY NoLetters
    <2> HIDE DEF none
    <2>2. \A i \in DOMAIN none : none[i].change.tick # H.tick
      BY <2>1
    <2> QED
      BY <2>1, <2>2, <1>2, AdvanceRules
  <1>6. Runs(H, tick[Host], setting[Host])
    BY <1>2, <1>5 DEF Runs
  <1>7. ran[n][tick[Host] + 1] = setting[Host]
    BY <1>2, <1>4, <1>6, OneRuns
  <1> QED
    BY <1>4, <1>7 DEF Frozen

\* What the host decides now is due where nobody has been yet.
LEMMA InTime ==
  ASSUME Typed, HostLed, Led, NEW n \in Node, NEW value \in Value
  PROVE  tick[n] <= Change(Host, value).tick
  <1>1. /\ Host \in Node /\ tick[Host] \in Nat /\ tick[n] \in Nat /\ SyncLatency \in Nat \ {0}
        /\ committed[Host] \in Nat
    BY Terms DEF Typed, HostLed
  <1>2. Change(Host, value).tick = IF Frozen(Host) THEN tick[Host] ELSE tick[Host] + SyncLatency * 2
    BY DEF Change, ControlDelay
  <1>3. CASE Frozen(Host)
    BY <1>2, <1>3, FrozenStops
  <1>4. CASE ~Frozen(Host)
    <2>1. tick[n] <= tick[Host] + SyncLatency + 1
      <3>1. CASE n = Host
        BY <3>1, <1>1
      <3>2. CASE n # Host
        <4>1. Behind(n) /\ Margin
          BY <3>2 DEF Led
        <4>2. tick[n] <= committed[Host] + 1 /\ committed[Host] <= tick[Host] + SyncLatency
          BY <4>1 DEF Behind, Margin
        <4> QED
          BY <4>2, <1>1
      <3> QED
        BY <3>1, <3>2
    <2> QED
      BY <2>1, <1>1, <1>2, <1>4
  <1> QED
    BY <1>3, <1>4
-----------------------------------------------------------------------------
(***************************************************************************)
(* The host decides.                                                       *)
(***************************************************************************)

\* What the host has decided so far, and is about to send, keeps it ahead.
Leading(acc) ==
  /\ acc \in Batch /\ Orderly(Holding(Host, acc.store))
  /\ \A e \in acc.store : e.proposer = Host
  /\ \A i \in DOMAIN acc.out :
       /\ acc.out[i].kind = "at" /\ acc.out[i].change.proposer = Host
       /\ \A n \in Node : tick[n] <= acc.out[i].change.tick
  /\ Frozen(Host) => \E e \in acc.store : e.tick = tick[Host]
  /\ \A n \in Node \ {Host} :
       /\ Follows(Holding(Host, acc.store), ViewOf(n), wire[<<Host, n>>] \o acc.out)
       /\ Falling(Freezing, ViewOf(n), wire[<<Host, n>>] \o acc.out)

\* A change the host accepts is smaller than the one it replaces; if its own
\* input covers the tick already, it lifts the pause the host is in.
LEMMA HostOutbids ==
  ASSUME Typed, HostLed, Led, NEW acc, Leading(acc), NEW value \in Value,
         Accepts(acc.store, Change(Host, value))
  PROVE  LET p == Change(Host, value)
         IN /\ \A e \in acc.store : e.tick = p.tick => value < e.value
            /\ \/ committed[Host] < p.tick
               \/ /\ value \notin Freezing
                  /\ \E e \in acc.store : e.tick = p.tick /\ e.value \in Freezing
  <1> DEFINE p == Change(Host, value)
             H == Holding(Host, acc.store)
  <1>1. /\ Host \in Node /\ SyncLatency \in Nat \ {0} /\ Rank[Host] \in Nat /\ Value \subseteq Nat
        /\ Freezing = {} \/ (Value = {0, 1} /\ Freezing = {1})
    BY Terms DEF Typed
  <1>2. /\ tick[Host] \in Nat /\ committed[Host] \in Nat
        /\ committed[Host] <= tick[Host] + SyncLatency
    BY <1>1 DEF Typed, HostLed, Led, Margin
  <1>3. /\ p.proposer = Host /\ p.value = value
        /\ p.tick = IF Frozen(Host) THEN tick[Host] ELSE tick[Host] + SyncLatency * 2
    BY DEF Change, ControlDelay
  <1>4. /\ Orderly(H) /\ H.store = acc.store /\ H.tick = tick[Host] /\ H.setting = setting[Host]
    BY HoldingFields DEF Leading
  <1>5. \A e \in acc.store : /\ e.proposer = Host /\ e.value \in Value /\ e.tick \in Nat
                             /\ e.claimed \in BOOLEAN
    BY DEF Leading, Batch, Scheduled
  <1>6. \A e \in acc.store : e.tick = p.tick =>
          IF e.claimed THEN <<p.proposer, p.value>> # <<e.proposer, e.value>> ELSE Before(p, e)
    BY DEF Accepts
  <1> HIDE DEF p, H
  <1>7. ASSUME NEW e \in acc.store, e.tick = p.tick, ~e.claimed PROVE value < e.value
    <2>1. Before(p, e) /\ e.proposer = Host
      BY <1>5, <1>6, <1>7
    <2> QED
      BY <2>1, <1>1, <1>3 DEF Before
  <1>8. CASE Frozen(Host)
    <2>1. Value = {0, 1} /\ Freezing = {1} /\ setting[Host] = 1 /\ p.tick = tick[Host]
      BY <1>1, <1>3, <1>8 DEF Frozen
    <2>2. ASSUME NEW e \in acc.store, e.tick = p.tick PROVE value = 0 /\ e.value = 1
      <3>1. CASE e.claimed
        <4>1. e.value = 1
          BY <3>1, <2>1, <2>2, <1>4 DEF Orderly
        <4>2. value # e.value
          BY <3>1, <2>2, <1>3, <1>5, <1>6
        <4> QED
          BY <4>1, <4>2, <2>1
      <3>2. CASE ~e.claimed
        <4>1. value < e.value /\ e.value \in {0, 1} /\ value \in {0, 1}
          BY <3>2, <2>1, <2>2, <1>5, <1>7
        <4> QED
          BY <4>1
      <3> QED
        BY <3>1, <3>2, <1>5
    <2>3. \E e \in acc.store : e.tick = p.tick
      BY <2>1, <1>8 DEF Leading
    <2> QED
      BY <2>1, <2>2, <2>3 DEF p
  <1>9. CASE ~Frozen(Host)
    <2>1. p.tick = tick[Host] + SyncLatency * 2
      BY <1>3, <1>9
    <2>2. committed[Host] < p.tick
      BY <2>1, <1>1, <1>2
    <2>3. ASSUME NEW e \in acc.store, e.tick = p.tick PROVE ~e.claimed
      <3>1. SUFFICES ASSUME e.claimed PROVE FALSE
        BY <1>5
      <3>2. e.tick <= tick[Host]
        BY <3>1, <1>4 DEF Orderly
      <3> QED
        BY <3>2, <2>1, <2>3, <1>1, <1>2
    <2> QED
      BY <2>2, <2>3, <1>7 DEF p
  <1> QED
    BY <1>8, <1>9

LEMMA AppendOnConcat ==
  ASSUME NEW S, NEW s \in Seq(S), NEW t \in Seq(S), NEW x \in S
  PROVE  s \o Append(t, x) = Append(s \o t, x)
  <1>1. <<x>> \in Seq(S)
    OBVIOUS
  <1>2. Append(t, x) = t \o <<x>> /\ Append(s \o t, x) = (s \o t) \o <<x>>
    BY AppendIsConcat, ConcatProperties
  <1> QED
    BY <1>1, <1>2, ConcatAssociative

\* One request more.
LEMMA LeadingStays ==
  ASSUME Typed, HostLed, Led, NEW acc, Leading(acc), NEW value \in Value
  PROVE  Leading(RouteRequest(Host, acc, value))
  <1> DEFINE p == Change(Host, value)
             m == Message(Host, "at", p)
             after == RouteRequest(Host, acc, value)
             sent == Append(acc.out, m)
             H == Holding(Host, acc.store)
             G == Holding(Host, after.store)
  <1>1. Host \in Node /\ Decides(Host) /\ Host \in Player
    BY Terms DEF Typed, Decides, HostLed
  <1>2. /\ acc \in Batch /\ acc.out \in Seq(Mail) /\ acc.store \in SUBSET Scheduled
    BY DEF Leading, Batch
  <1>3. /\ p \in Draft /\ tick[Host] <= p.tick /\ p.proposer = Host /\ p.value = value
        /\ p.tick = IF Frozen(Host) THEN tick[Host] ELSE tick[Host] + SyncLatency * 2
        /\ m \in Mail /\ m.kind = "at" /\ m.change = p /\ m.upto = committed[Host]
        /\ ~Accepts(acc.store, p) => after = acc
        /\ Accepts(acc.store, p) => after.store = Propose(acc.store, p) /\ after.out = sent
        /\ after \in Batch
    BY <1>1, <1>2, OneRouted
  <1>4. CASE ~Accepts(acc.store, p)
    BY <1>3, <1>4
  <1>5. CASE Accepts(acc.store, p)
    <2>1. after.store = Propose(acc.store, p) /\ after.out = sent
      BY <1>3, <1>5
    <2>2. /\ \A e \in acc.store : e.tick = p.tick => value < e.value
          /\ \/ committed[Host] < p.tick
             \/ /\ value \notin Freezing
                /\ \E e \in acc.store : e.tick = p.tick /\ e.value \in Freezing
      BY <1>5, HostOutbids
    <2>3. \A n \in Node : tick[n] <= p.tick
      BY InTime
    <2> HIDE DEF p, m, after
    <2>4. p \in Proposal /\ m \in Letter /\ session \in Sessions
      BY <1>3, WiderTypes DEF Typed
    <2>5. /\ Orderly(H) /\ H.store = acc.store /\ H.tick = tick[Host] /\ H \in View
      BY HoldingFields DEF Leading, Orderly
    <2>6. G = Heed(H, p)
      BY <2>1 DEF Heed, Holding
    <2> HIDE DEF G, H
    <2>7. Orderly(G)
      BY <2>4, <2>5, <2>6, <1>3, HeedKeepsOrder
    <2>8. /\ \A e \in after.store : \/ e \in acc.store
                                    \/ e.tick = p.tick /\ e.proposer = p.proposer
          /\ \A e \in acc.store : e.tick # p.tick => e \in after.store
          /\ \E e \in after.store : e.tick = p.tick
      <3> DEFINE x == [proposer |-> p.proposer, tick |-> p.tick, value |-> p.value, claimed |-> FALSE]
      <3>1. after.store = {e \in acc.store : e.tick # p.tick} \cup {x}
        BY <2>1, <1>5 DEF Propose
      <3>2. x.tick = p.tick /\ x.proposer = p.proposer
        OBVIOUS
      <3> HIDE DEF x
      <3> QED
        BY <3>1, <3>2
    <2>9. \A e \in after.store : e.proposer = Host
      BY <2>8, <1>3 DEF Leading
    <2>10. Frozen(Host) => \E e \in after.store : e.tick = tick[Host]
      BY <2>8, <1>3
    <2>11. ASSUME NEW i \in DOMAIN sent
           PROVE  /\ sent[i].kind = "at" /\ sent[i].change.proposer = Host
                  /\ \A n \in Node : tick[n] <= sent[i].change.tick
      <3>1. /\ DOMAIN sent = 1 .. Len(acc.out) + 1 /\ sent[Len(acc.out) + 1] = m
            /\ \A j \in 1 .. Len(acc.out) : sent[j] = acc.out[j]
            /\ DOMAIN acc.out = 1 .. Len(acc.out) /\ Len(acc.out) \in Nat
        BY <1>2, <1>3, AppendProperties, LenProperties
      <3> HIDE DEF sent
      <3>2. i = Len(acc.out) + 1 \/ (i \in DOMAIN acc.out /\ sent[i] = acc.out[i])
        BY <3>1
      <3>3. CASE i = Len(acc.out) + 1
        BY <3>1, <3>3, <2>3, <1>3
      <3>4. CASE i \in DOMAIN acc.out /\ sent[i] = acc.out[i]
        BY <3>4 DEF Leading
      <3> QED
        BY <3>2, <3>3, <3>4
    <2>12. ASSUME NEW n \in Node \ {Host}
           PROVE  /\ Follows(G, ViewOf(n), wire[<<Host, n>>] \o sent)
                  /\ Falling(Freezing, ViewOf(n), wire[<<Host, n>>] \o sent)
      <3> DEFINE q == wire[<<Host, n>>] \o acc.out
                 V == ViewOf(n)
      <3>1. wire[<<Host, n>>] \in Seq(Mail)
        BY DEF Typed, HostLed
      <3>2. q \in Seq(Mail) /\ wire[<<Host, n>>] \o sent = Append(q, m)
        <4> DEFINE w == wire[<<Host, n>>]
                   o == acc.out
        <4>1. w \in Seq(Mail) /\ o \in Seq(Mail)
          BY <3>1, <1>2
        <4> HIDE DEF w, o
        <4>2. w \o o \in Seq(Mail) /\ w \o Append(o, m) = Append(w \o o, m)
          BY <4>1, <1>3, AppendOnConcat, ConcatProperties
        <4> QED
          BY <4>2 DEF w, o
      <3>3. q \in Seq(Letter)
        BY <3>2, WiderTypes DEF Typed
      <3>4. Follows(H, V, q) /\ Falling(Freezing, V, q)
        BY DEF Leading, H
      <3>5. V \in View /\ Len(V.ran) = V.tick /\ V.tick = tick[n]
        BY ViewTyped
      <3> HIDE DEF q, V, sent
      <3>6. V.tick <= p.tick
        BY <3>5, <2>3
      <3>7. \A e \in H.store : e.tick = p.tick => p.value < e.value
        BY <2>2, <2>5, <1>3
      <3>8. \/ m.upto < p.tick
            \/ p.value \notin Freezing /\ \E e \in H.store : e.tick = p.tick /\ e.value \in Freezing
        BY <2>2, <2>5, <1>3
      <3>9. Accepts(H.store, p) /\ H.tick <= p.tick /\ m.change = p
        BY <2>5, <1>3, <1>5
      <3> DEFINE fr == Freezing
      <3>10. Falling(fr, V, q) /\ \/ m.upto < p.tick
                                  \/ p.value \notin fr /\ \E e \in H.store : e.tick = p.tick /\ e.value \in fr
        BY <3>4, <3>8
      <3> HIDE DEF fr
      <3>11. Follows(Heed(H, p), V, Append(q, m)) /\ Falling(fr, V, Append(q, m))
        BY <2>4, <2>5, <3>3, <3>4, <3>5, <3>6, <3>7, <3>9, <3>10, HostProposes
      <3> QED
        BY <3>2, <3>11, <2>6 DEF V, fr
    <2> HIDE DEF sent
    <2>13. after \in Batch /\ Orderly(Holding(Host, after.store))
      BY <2>7, <1>3 DEF G
    <2>14. \A n \in Node \ {Host} :
             /\ Follows(Holding(Host, after.store), ViewOf(n), wire[<<Host, n>>] \o after.out)
             /\ Falling(Freezing, ViewOf(n), wire[<<Host, n>>] \o after.out)
      BY <2>1, <2>12 DEF G
    <2>15. \A i \in DOMAIN after.out :
             /\ after.out[i].kind = "at" /\ after.out[i].change.proposer = Host
             /\ \A n \in Node : tick[n] <= after.out[i].change.tick
      BY <2>1, <2>11
    <2>16. Leading(after)
      BY <2>9, <2>10, <2>13, <2>14, <2>15 DEF Leading
    <2> QED
      BY <2>16 DEF after
  <1> QED
    BY <1>4, <1>5

\* All the requests of a step.
LEMMA HostRoutes ==
  ASSUME Typed, HostLed, Led, NEW values \in Seq(Value)
  PROVE  Leading(Routed(Host, values))
  <1> DEFINE b == [store |-> pending[Host], out |-> <<>>]
             S == {acc \in Batch : Leading(acc)}
  <1>1. /\ Host \in Node /\ pending[Host] \in SUBSET Scheduled /\ <<>> \in Seq(Mail)
        /\ DOMAIN <<>> = {}
    BY Terms, NoLetters, EmptySeq DEF Typed
  <1>2. b \in Batch /\ b.store = pending[Host] /\ b.out = <<>>
    BY <1>1 DEF Batch
  <1>3. ASSUME NEW n \in Node \ {Host} PROVE wire[<<Host, n>>] \o <<>> = wire[<<Host, n>>]
    <2>1. wire[<<Host, n>>] \in Seq(Mail)
      BY DEF Typed, HostLed
    <2> QED
      BY <2>1, ConcatEmptySeq
  <1> HIDE DEF b
  <1>4. Leading(b)
    <2>1. \A n \in Node \ {Host} :
            /\ Follows(Holding(Host, b.store), ViewOf(n), wire[<<Host, n>>] \o b.out)
            /\ Falling(Freezing, ViewOf(n), wire[<<Host, n>>] \o b.out)
      BY <1>2, <1>3 DEF Led, Behind, ViewOf
    <2>2. Orderly(Holding(Host, b.store))
      BY <1>1, <1>2 DEF Typed, ViewOf
    <2>3. /\ \A e \in b.store : e.proposer = Host
          /\ Frozen(Host) => \E e \in b.store : e.tick = tick[Host]
      BY <1>1, <1>2 DEF Led, FromHost, Margin
    <2>4. \A i \in DOMAIN b.out : FALSE
      BY <1>1, <1>2
    <2> QED
      BY <2>1, <2>2, <2>3, <2>4, <1>2 DEF Leading
  <1>5. ASSUME NEW acc \in S, NEW value \in Value PROVE RouteRequest(Host, acc, value) \in S
    BY <1>5, LeadingStays DEF Leading
  <1>6. Kept(Host, Value, S)
    <2>1. b \in S
      BY <1>2, <1>4
    <2> HIDE DEF S
    <2> QED
      BY <2>1, <1>5 DEF Kept, b
  <1>7. Routed(Host, values) \in S
    <2> HIDE DEF S
    <2> QED
      BY <1>6, RoutedStays
  <1> QED
    BY <1>7
-----------------------------------------------------------------------------
(***************************************************************************)
(* The host stays ahead.                                                   *)
(***************************************************************************)

\* A session's terms do not change, so Led is about the same host throughout.
LEMMA LedAgain ==
  ASSUME UNCHANGED session, NEW h, h = Host,
         \A n \in Node : \A e \in pending'[n] : e.proposer = h,
         \A l \in Links : \A i \in DOMAIN wire'[l] :
           IF l[1] = h THEN wire'[l][i].kind = "at" /\ wire'[l][i].change.proposer = h
           ELSE wire'[l][i].kind = "request",
         committed'[h] <= tick'[h] + SyncLatency,
         setting'[h] \in Freezing =>
           Cleared(ViewOf(h)') /\ \E e \in pending'[h] : e.tick = tick'[h],
         \A n \in Node \ {h} :
           /\ tick'[n] <= committed'[h] + 1
           /\ Follows(ViewOf(h)', ViewOf(n)', wire'[<<h, n>>])
           /\ Falling(Freezing, ViewOf(n)', wire'[<<h, n>>])
  PROVE  Led'
  <1>1. Host' = h /\ Node' = Node /\ Links' = Links /\ SyncLatency' = SyncLatency
        /\ Freezing' = Freezing
    BY TermsStay
  <1>2. FromHost'
    BY <1>1 DEF FromHost
  <1>3. Margin'
    BY <1>1 DEF Margin, Frozen, ViewOf, Holding
  <1>4. ASSUME NEW n \in Node \ {h} PROVE Behind(n)'
    BY <1>1 DEF Behind, ViewOf, Holding
  <1> QED
    BY <1>1, <1>2, <1>3, <1>4 DEF Led

LEMMA LedInit ==
  ASSUME Init, HostLed
  PROVE  Led
  <1>1. Typed
    BY TypedInit
  <1>2. /\ Host \in Node /\ Player \subseteq Node /\ SyncLatency \in Nat \ {0}
        /\ session.initial \notin Freezing /\ Links \subseteq Node \X Node
    BY <1>1, Terms DEF Typed
  <1>3. /\ \A n \in Node : /\ pending[n] = {} /\ tick[n] = 0 /\ setting[n] = session.initial
                           /\ ran[n] = <<>>
        /\ \A l \in Links : wire[l] = <<>>
        /\ committed[Host] = SyncLatency - 1
    BY DEF Init, HostLed
  <1>4. DOMAIN <<>> = {}
    BY NoLetters
  <1>5. FromHost
    BY <1>3, <1>4 DEF FromHost
  <1>6. Margin
    BY <1>2, <1>3 DEF Margin, Frozen
  <1>7. ASSUME NEW n \in Node \ {Host} PROVE Behind(n)
    <2> DEFINE V == ViewOf(n)
               none == <<>>
    <2>1. ViewOf(Host) = V
      BY <1>2, <1>3 DEF ViewOf, Holding
    <2>2. wire[<<Host, n>>] = none
      BY <1>3 DEF HostLed
    <2>3. V.tick = 0
      BY <1>3 DEF ViewOf, Holding
    <2>4. Falling(Freezing, V, none)
      BY <1>4 DEF Falling
    <2>5. Follows(V, V, none)
      <3> HIDE DEF V
      <3>1. \A t \in Nat : ~(t < V.tick)
        BY <2>3
      <3> QED
        BY <3>1 DEF Follows, Runs
    <2>6. tick[n] <= committed[Host] + 1
      BY <1>2, <1>3
    <2> QED
      BY <2>1, <2>2, <2>4, <2>5, <2>6 DEF Behind
  <1> QED
    BY <1>5, <1>6, <1>7 DEF Led

LEMMA LedHostStep ==
  ASSUME Typed, HostLed, Led, NEW h \in Node, h = Host, NEW intent \in Seq(Value),
         NEW ready \in BOOLEAN, Step(h, intent, ready), UNCHANGED session
  PROVE  Led'
  <1> DEFINE values == intent \o asked[h]
             r == Routed(h, values)
             U == Holding(h, r.store)
             W == Claim(U)
  <1>1. values \in Seq(Value)
    BY ConcatProperties DEF Typed
  <1>2. /\ r \in Batch /\ Orderly(U)
        /\ \E executes \in BOOLEAN : Stepped(h, r, executes)
    BY StepShape
  <1> HIDE DEF values
  <1>3. Leading(r)
    BY <1>1, HostRoutes
  <1> HIDE DEF r
  <1>4. PICK executes \in BOOLEAN : Stepped(h, r, executes)
    BY <1>2
  <1>5. /\ ViewOf(h)' = IF executes THEN Advance(W) ELSE W
        /\ \A m \in Node \ {h} : ViewOf(m)' = ViewOf(m)
        /\ committed' = Commit(h, W.setting)
        /\ wire' = SendAll(h, r.out)
        /\ executes => W.setting \notin Freezing
    BY <1>4 DEF Stepped
  <1>6. \A m : ViewOf(m)'.tick = tick'[m] /\ ViewOf(m)'.setting = setting'[m]
               /\ ViewOf(m)'.store = pending'[m]
    BY DEF ViewOf, Holding
  <1>7. U.tick = tick[h] /\ U.setting = setting[h] /\ U.store = r.store
    BY HoldingFields
  <1>8. U \in View /\ Orderly(W) /\ Cleared(W) /\ W \in View
    BY <1>2, ClaimKeepsOrder DEF Orderly
  <1> HIDE DEF U
  <1>9. /\ W.tick = tick[h] /\ W.setting = NextValue(U) /\ W.store = Claimed(U.store, U.tick)
        /\ tick[h] \in Nat /\ SyncLatency \in Nat
    BY <1>7, <1>8, ClaimFields, Terms DEF Typed
  <1> HIDE DEF W
  <1>10. /\ tick'[h] = IF executes THEN tick[h] + 1 ELSE tick[h]
         /\ setting'[h] = W.setting /\ pending'[h] = W.store
    BY <1>5, <1>6, <1>8, <1>9, AdvanceFields
  <1>11. \A m \in Node \ {h} : pending'[m] = pending[m] /\ tick'[m] = tick[m]
    BY <1>5, <1>6, ViewTyped
  <1>12. \A n \in Node : \A e \in pending'[n] : e.proposer = h
    <2>1. ASSUME NEW f \in pending'[h] PROVE f.proposer = h
      <3>1. PICK e \in U.store : f.proposer = e.proposer
        BY <1>2, <1>9, <1>10, ClaimedStore
      <3> QED
        BY <3>1, <1>3, <1>7 DEF Leading
    <2> QED
      BY <2>1, <1>11 DEF Led, FromHost
  <1>13. ASSUME NEW l \in Links, NEW i \in DOMAIN wire'[l]
         PROVE  IF l[1] = h THEN wire'[l][i].kind = "at" /\ wire'[l][i].change.proposer = h
                ELSE wire'[l][i].kind = "request"
    <2>1. CASE l[1] = h
      <3> DEFINE w == wire[l]
                 o == r.out
      <3>1. w \in Seq(Mail) /\ o \in Seq(Mail) /\ wire'[l] = w \o o
        BY <2>1, <1>2, <1>5 DEF SendAll, Typed, Batch
      <3>2. \A j \in DOMAIN w : w[j].kind = "at" /\ w[j].change.proposer = h
        BY <2>1 DEF Led, FromHost
      <3>3. \A j \in DOMAIN o : o[j].kind = "at" /\ o[j].change.proposer = h
        BY <1>3 DEF Leading
      <3> HIDE DEF w, o
      <3>4. /\ i \in 1 .. Len(w) + Len(o) /\ Len(w) \in Nat /\ Len(o) \in Nat
            /\ DOMAIN w = 1 .. Len(w) /\ DOMAIN o = 1 .. Len(o)
            /\ (w \o o)[i] = IF i <= Len(w) THEN w[i] ELSE o[i - Len(w)]
        BY <3>1, ConcatProperties, LenProperties
      <3>5. CASE i <= Len(w)
        BY <3>1, <3>2, <3>4, <3>5, <2>1
      <3>6. CASE ~(i <= Len(w))
        <4>1. i - Len(w) \in DOMAIN o /\ wire'[l][i] = o[i - Len(w)]
          BY <3>1, <3>4, <3>6
        <4> QED
          BY <4>1, <3>3, <2>1
      <3> QED
        BY <3>5, <3>6
    <2>2. CASE l[1] # h
      <3>1. wire'[l] = wire[l]
        BY <2>2, <1>5 DEF SendAll
      <3> QED
        BY <3>1, <2>2 DEF Led, FromHost
    <2> QED
      BY <2>1, <2>2
  <1>14. /\ committed[h] \in Nat /\ committed[h] <= tick[h] + SyncLatency
         /\ committed'[h] = IF W.setting \in Freezing THEN committed[h] ELSE tick[h] + SyncLatency
    BY <1>5 DEF Typed, HostLed, Commit, Led, Margin
  <1>15. committed[h] <= committed'[h] /\ committed'[h] <= tick'[h] + SyncLatency
         /\ committed'[h] \in Nat
    BY <1>9, <1>10, <1>14
  <1>16. ASSUME setting'[h] \in Freezing
         PROVE  Cleared(ViewOf(h)') /\ \E e \in pending'[h] : e.tick = tick'[h]
    <2>1. ~executes /\ ViewOf(h)' = W /\ tick'[h] = tick[h]
      BY <1>5, <1>10, <1>16
    <2>2. \E e \in U.store : e.tick = U.tick
      <3>1. SUFFICES ASSUME \A e \in U.store : e.tick # U.tick PROVE FALSE
        OBVIOUS
      <3>2. W.setting = setting[h]
        BY <3>1, <1>2, <1>7, <1>9, ValueNow
      <3>3. Frozen(Host)
        BY <3>2, <1>10, <1>16 DEF Frozen
      <3> QED
        BY <3>1, <3>3, <1>3, <1>7 DEF Leading
    <2>3. PICK e \in U.store : e.tick = U.tick
      BY <2>2
    <2>4. U.tick <= e.tick
      BY <2>3, <1>7, <1>9
    <2>5. \E f \in W.store : f.tick = e.tick
      BY <2>4, <1>2, <1>9, ClaimedStore
    <2> QED
      BY <2>1, <2>3, <2>5, <1>7, <1>8, <1>10
  <1>17. ASSUME NEW n \in Node \ {h}
         PROVE  /\ tick'[n] <= committed'[h] + 1
                /\ Follows(ViewOf(h)', ViewOf(n)', wire'[<<h, n>>])
                /\ Falling(Freezing, ViewOf(n)', wire'[<<h, n>>])
    <2> DEFINE V == ViewOf(n)
               w == wire[<<h, n>>]
               q == w \o r.out
    <2>1. V \in View /\ Len(V.ran) = V.tick /\ tick[n] \in Nat
      BY ViewTyped
    <2>2. <<h, n>> \in Links
      BY DEF HostLed
    <2>3. wire'[<<h, n>>] = q
      BY <2>2, <1>5 DEF SendAll
    <2>4. q \in Seq(Letter)
      <3>1. w \in Seq(Mail) /\ r.out \in Seq(Mail)
        BY <2>2, <1>2 DEF Typed, Batch
      <3> HIDE DEF w
      <3>2. w \o r.out \in Seq(Mail)
        BY <3>1, ConcatProperties
      <3> QED
        BY <3>2, WiderTypes DEF Typed
    <2>5. Follows(U, V, q) /\ Falling(Freezing, V, q)
      BY <1>3 DEF Leading, U
    <2>6. ViewOf(n)' = V
      BY <1>5
    <2> HIDE DEF V, q
    <2>7. Follows(W, V, q)
      BY <2>1, <2>4, <2>5, <1>2, HostClaims DEF W
    <2>8. Follows(Advance(W), V, q)
      BY <2>1, <2>4, <2>7, <1>8, HostAdvances
    <2>9. Follows(ViewOf(h)', V, q)
      BY <2>7, <2>8, <1>5
    <2>10. tick'[n] <= committed'[h] + 1
      <3>1. Behind(n)
        BY DEF Led
      <3>2. tick[n] <= committed[h] + 1
        BY <3>1 DEF Behind
      <3> QED
        BY <3>2, <2>1, <1>11, <1>14, <1>15
    <2> QED
      BY <2>3, <2>5, <2>6, <2>9, <2>10
  <1> QED
    BY <1>12, <1>13, <1>15, <1>16, <1>17, LedAgain
-----------------------------------------------------------------------------
(***************************************************************************)
(* A client asks, executes, and reads.                                     *)
(***************************************************************************)

\* Requests change nothing at a client, and are all it sends.
LEMMA ClientRoutes ==
  ASSUME Typed, HostLed, NEW n \in Node \ {Host}, NEW values \in Seq(Value)
  PROVE  LET r == Routed(n, values)
         IN r.store = pending[n] /\ \A i \in DOMAIN r.out : r.out[i].kind = "request"
  <1> DEFINE Asks(acc) == /\ acc.store = pending[n]
                          /\ \A i \in DOMAIN acc.out : acc.out[i].kind = "request"
             S == {acc \in Batch : Asks(acc)}
             b == [store |-> pending[n], out |-> <<>>]
  <1>1. ~Decides(n)
    BY DEF Decides, HostLed
  <1>2. b \in S
    <2>1. pending[n] \in SUBSET Scheduled /\ <<>> \in Seq(Mail) /\ DOMAIN <<>> = {}
      BY EmptySeq, NoLetters DEF Typed
    <2>2. b \in Batch /\ b.store = pending[n] /\ b.out = <<>>
      BY <2>1 DEF Batch
    <2> HIDE DEF b
    <2> QED
      BY <2>1, <2>2
  <1>3. ASSUME NEW acc \in S, NEW value \in Value PROVE RouteRequest(n, acc, value) \in S
    <2> DEFINE m == Message(n, "request", Change(n, value))
               after == RouteRequest(n, acc, value)
    <2>1. acc \in Batch /\ Asks(acc) /\ acc.out \in Seq(Mail)
      BY DEF Batch
    <2>2. /\ m \in Mail /\ m.kind = "request"
          /\ after.store = acc.store /\ after.out = Append(acc.out, m) /\ after \in Batch
      <3>1. n \in Node
        OBVIOUS
      <3> QED
        BY <3>1, <2>1, <1>1, OneRouted
    <2> HIDE DEF m, after
    <2>3. \A i \in DOMAIN Append(acc.out, m) : Append(acc.out, m)[i].kind = "request"
      <3> DEFINE o == acc.out
      <3>1. o \in Seq(Mail) /\ \A i \in DOMAIN o : o[i].kind = "request"
        BY <2>1
      <3> HIDE DEF o
      <3>2. /\ DOMAIN Append(o, m) = 1 .. Len(o) + 1 /\ Append(o, m)[Len(o) + 1] = m
            /\ \A j \in 1 .. Len(o) : Append(o, m)[j] = o[j]
            /\ DOMAIN o = 1 .. Len(o) /\ Len(o) \in Nat
        BY <3>1, <2>2, AppendProperties, LenProperties
      <3>3. ASSUME NEW i \in DOMAIN Append(o, m) PROVE Append(o, m)[i].kind = "request"
        <4>1. i = Len(o) + 1 \/ (i \in DOMAIN o /\ Append(o, m)[i] = o[i])
          BY <3>2
        <4> QED
          BY <4>1, <3>1, <3>2, <2>2
      <3> QED
        BY <3>3 DEF o
    <2>4. Asks(after)
      BY <2>1, <2>2, <2>3
    <2> QED
      BY <2>2, <2>4 DEF after
  <1>4. Kept(n, Value, S)
    <2> HIDE DEF S
    <2> QED
      BY <1>2, <1>3 DEF Kept
  <1>5. Routed(n, values) \in S
    <2> HIDE DEF S
    <2> QED
      BY <1>4, RoutedStays
  <1> QED
    BY <1>5

LEMMA LedClientStep ==
  ASSUME Typed, HostLed, Led, NEW h, h = Host, NEW n \in Node \ {h}, NEW intent \in Seq(Value),
         NEW ready \in BOOLEAN, Step(n, intent, ready), UNCHANGED session
  PROVE  Led'
  <1> DEFINE values == intent \o asked[n]
             r == Routed(n, values)
             V == ViewOf(n)
             W == Claim(V)
  <1>1. values \in Seq(Value) /\ n \in Node
    BY ConcatProperties DEF Typed
  <1>2. r \in Batch /\ \E executes \in BOOLEAN : Stepped(n, r, executes)
    BY <1>1, StepShape
  <1> HIDE DEF values
  <1>3. r.store = pending[n] /\ \A i \in DOMAIN r.out : r.out[i].kind = "request"
    BY <1>1, ClientRoutes
  <1> HIDE DEF r
  <1>4. PICK executes \in BOOLEAN : Stepped(n, r, executes)
    BY <1>2
  <1>5. /\ ViewOf(n)' = IF executes THEN Advance(W) ELSE W
        /\ \A m \in Node \ {n} : ViewOf(m)' = ViewOf(m)
        /\ committed' = Commit(n, W.setting)
        /\ wire' = SendAll(n, r.out)
        /\ executes => W.setting \notin Freezing /\ CanHold(n, committed', tick[n])
    <2>1. Holding(n, r.store) = V
      BY <1>3 DEF ViewOf
    <2> QED
      BY <2>1, <1>4 DEF Stepped
  <1>6. \A m : ViewOf(m)'.tick = tick'[m] /\ ViewOf(m)'.setting = setting'[m]
               /\ ViewOf(m)'.store = pending'[m]
    BY DEF ViewOf, Holding
  <1>7. /\ Orderly(V) /\ V \in View /\ V.tick = tick[n] /\ V.store = pending[n] /\ tick[n] \in Nat
    BY <1>1, ViewTyped
  <1>8. /\ h \in Node /\ Behind(n) /\ FromHost /\ Margin /\ committed[h] \in Nat
        /\ <<h, n>> \in Links /\ h \in Player /\ Paced
    BY Terms DEF Typed, Led, HostLed
  <1>9. \A m \in Node \ {n} : /\ pending'[m] = pending[m] /\ tick'[m] = tick[m]
                              /\ setting'[m] = setting[m]
    BY <1>5, <1>6, ViewTyped
  <1>10. committed'[h] = committed[h]
    BY <1>5, <1>8 DEF Commit, Typed
  <1>11. /\ Follows(ViewOf(h), V, wire[<<h, n>>]) /\ Falling(Freezing, V, wire[<<h, n>>])
         /\ tick[n] <= committed[h] + 1
    BY <1>8 DEF Behind
  <1>12. \A l \in Links : l[1] = h => wire'[l] = wire[l]
    BY <1>5 DEF SendAll
  <1> HIDE DEF V
  <1>13. Orderly(W) /\ Cleared(W)
    BY <1>7, ClaimKeepsOrder
  <1>14. W.tick = tick[n] /\ W.store = Claimed(V.store, V.tick) /\ W \in View
    BY <1>7, <1>13, ClaimFields DEF Orderly
  <1>15. wire[<<h, n>>] \in Seq(Mail) /\ wire[<<h, n>>] \in Seq(Letter)
    <2>1. wire[<<h, n>>] \in Seq(Mail)
      BY <1>8 DEF Typed
    <2> QED
      BY <2>1, WiderTypes DEF Typed
  <1> DEFINE q == wire[<<h, n>>]
             fr == Freezing
             H == ViewOf(h)
  <1>16. Follows(H, W, q) /\ Falling(fr, W, q)
    <2> HIDE DEF q, fr, H
    <2>1. q \in Seq(Letter) /\ Follows(H, V, q) /\ Falling(fr, V, q)
      BY <1>11, <1>15 DEF q, fr, H
    <2> QED
      BY <2>1, <1>7, ClientClaims
  <1> HIDE DEF W
  <1>17. ASSUME executes
         PROVE  /\ Follows(H, Advance(W), q) /\ Falling(fr, Advance(W), q)
                /\ tick[n] <= committed[h]
    <2>1. W.setting \notin Freezing /\ CanHold(n, committed', tick[n])
      BY <1>5, <1>17
    <2>2. /\ committed'[h] >= tick[n]
          /\ \A i \in DOMAIN wire[<<h, n>>] : tick[n] <= wire[<<h, n>>][i].upto
      BY <2>1, <1>8 DEF CanHold
    <2>3. \A i \in DOMAIN q : W.tick <= q[i].upto
      BY <2>2, <1>14
    <2>4. W.setting \notin fr /\ q \in Seq(Letter)
      BY <2>1, <1>15
    <2> HIDE DEF q, fr, H
    <2>5. Follows(H, Advance(W), q) /\ Falling(fr, Advance(W), q)
      BY <2>3, <2>4, <1>13, <1>16, ClientAdvances
    <2> QED
      BY <2>2, <2>5, <1>7, <1>8, <1>10
  <1>18. ASSUME NEW m \in Node, NEW f \in pending'[m] PROVE f.proposer = h
    <2>1. CASE m = n
      <3>1. pending'[n] = W.store
        BY <1>5, <1>6, <1>14, AdvanceFields
      <3>2. PICK e \in pending[n] : f.proposer = e.proposer
        BY <2>1, <3>1, <1>7, <1>14, ClaimedStore
      <3> QED
        BY <3>2, <1>1, <1>8 DEF FromHost
    <2>2. CASE m # n
      BY <2>2, <1>8, <1>9 DEF FromHost
    <2> QED
      BY <2>1, <2>2
  <1>19. ASSUME NEW l \in Links, NEW i \in DOMAIN wire'[l]
         PROVE  IF l[1] = h THEN wire'[l][i].kind = "at" /\ wire'[l][i].change.proposer = h
                ELSE wire'[l][i].kind = "request"
    <2>1. CASE l[1] = n
      <3> DEFINE w == wire[l]
                 o == r.out
      <3>1. w \in Seq(Mail) /\ o \in Seq(Mail) /\ wire'[l] = w \o o
        BY <2>1, <1>2, <1>5 DEF SendAll, Typed, Batch
      <3>2. \A j \in DOMAIN w : w[j].kind = "request"
        BY <2>1, <1>8 DEF FromHost
      <3>3. \A j \in DOMAIN o : o[j].kind = "request"
        BY <1>3
      <3> HIDE DEF w, o
      <3>4. /\ i \in 1 .. Len(w) + Len(o) /\ Len(w) \in Nat /\ Len(o) \in Nat
            /\ DOMAIN w = 1 .. Len(w) /\ DOMAIN o = 1 .. Len(o)
            /\ (w \o o)[i] = IF i <= Len(w) THEN w[i] ELSE o[i - Len(w)]
        BY <3>1, ConcatProperties, LenProperties
      <3>5. CASE i <= Len(w)
        BY <3>1, <3>2, <3>4, <3>5, <2>1
      <3>6. CASE ~(i <= Len(w))
        <4>1. i - Len(w) \in DOMAIN o /\ wire'[l][i] = o[i - Len(w)]
          BY <3>1, <3>4, <3>6
        <4> QED
          BY <4>1, <3>3, <2>1
      <3> QED
        BY <3>5, <3>6
    <2>2. CASE l[1] # n
      <3>1. wire'[l] = wire[l]
        BY <2>2, <1>5 DEF SendAll
      <3> QED
        BY <3>1, <1>8 DEF FromHost
    <2> QED
      BY <2>1, <2>2
  <1>20. committed'[h] <= tick'[h] + SyncLatency
    BY <1>8, <1>9, <1>10 DEF Margin
  <1>21. ASSUME setting'[h] \in Freezing
         PROVE  Cleared(ViewOf(h)') /\ \E e \in pending'[h] : e.tick = tick'[h]
    <2>1. Frozen(Host)
      BY <1>8, <1>9, <1>21 DEF Frozen
    <2>2. ViewOf(h)' = ViewOf(h) /\ pending'[h] = pending[h] /\ tick'[h] = tick[h]
      BY <1>5, <1>8, <1>9
    <2> QED
      BY <2>1, <2>2, <1>8 DEF Margin
  <1>22. ASSUME NEW m \in Node \ {h}
         PROVE  /\ tick'[m] <= committed'[h] + 1
                /\ Follows(ViewOf(h)', ViewOf(m)', wire'[<<h, m>>])
                /\ Falling(Freezing, ViewOf(m)', wire'[<<h, m>>])
    <2>1. <<h, m>> \in Links /\ wire'[<<h, m>>] = wire[<<h, m>>] /\ ViewOf(h)' = ViewOf(h)
      BY <1>5, <1>8, <1>12 DEF HostLed
    <2>2. CASE m = n
      <3>1. CASE executes
        <4>1. ViewOf(n)' = Advance(W) /\ Advance(W).tick = tick[n] + 1
          BY <3>1, <1>5, <1>14, AdvanceFields
        <4>2. tick'[n] <= committed'[h] + 1
          BY <4>1, <3>1, <1>6, <1>7, <1>8, <1>10, <1>17
        <4> QED
          BY <4>1, <4>2, <3>1, <2>1, <2>2, <1>17
      <3>2. CASE ~executes
        <4>1. ViewOf(n)' = W /\ tick'[n] = tick[n]
          BY <3>2, <1>5, <1>6, <1>14
        <4> QED
          BY <4>1, <2>1, <2>2, <1>10, <1>11, <1>16
      <3> QED
        BY <3>1, <3>2
    <2>3. CASE m # n
      <3>1. Behind(m)
        BY DEF Led
      <3>2. ViewOf(m)' = ViewOf(m) /\ tick'[m] = tick[m]
        BY <2>3, <1>5, <1>9
      <3> QED
        BY <3>1, <3>2, <2>1, <1>10 DEF Behind
    <2> QED
      BY <2>2, <2>3
  <1> QED
    BY <1>18, <1>19, <1>20, <1>21, <1>22, LedAgain
LEMMA LedArrive ==
  ASSUME Typed, HostLed, Led, NEW h, h = Host, NEW n \in Node, NEW a \in Node, Arrive(n, a),
         UNCHANGED session
  PROVE  Led'
  <1> DEFINE msg == Head(wire[<<a, n>>])
             learns == Learns(n, a, msg)
             forwards == IF learns /\ Authority = "peers" THEN <<Message(n, "at", msg.change)>>
                         ELSE <<>>
  <1>1. /\ <<a, n>> \in Links /\ wire[<<a, n>>] # <<>>
        /\ pending' = IF learns THEN [pending EXCEPT ![n] = Propose(@, msg.change)] ELSE pending
        /\ wire' = [SendAll(n, forwards) EXCEPT ![<<a, n>>] = Tail(@)]
        /\ UNCHANGED <<tick, setting, committed, ran>>
    BY DEF Arrive, Learns
  <1>2. /\ h \in Node /\ FromHost /\ Margin /\ Authority = "host"
        /\ \A m \in Node \ {h} : Behind(m) /\ <<h, m>> \in Links
    BY Terms DEF Typed, Led, HostLed
  <1>3. wire' = [wire EXCEPT ![<<a, n>>] = Tail(@)]
    <2>1. forwards = <<>>
      BY <1>2
    <2>2. SendAll(n, <<>>) = wire
      <3>1. \A l \in Links : wire[l] \o <<>> = wire[l]
        BY ConcatEmptySeq DEF Typed
      <3> QED
        BY <3>1 DEF SendAll, Typed
    <2> HIDE DEF forwards
    <2> QED
      BY <2>1, <2>2, <1>1
  <1> HIDE DEF forwards
  <1> DEFINE q == wire[<<a, n>>]
             r == Tail(q)
  <1>4. /\ q \in Seq(Mail) /\ q # <<>> /\ msg = q[1] /\ 1 \in DOMAIN q /\ msg \in Mail
        /\ r \in Seq(Mail) /\ \A i \in DOMAIN r : i + 1 \in DOMAIN q /\ r[i] = q[i + 1]
    <2>1. q \in Seq(Mail) /\ q # <<>>
      BY <1>1 DEF Typed
    <2> HIDE DEF q
    <2>2. /\ Head(q) \in Mail /\ Tail(q) \in Seq(Mail) /\ Head(q) = q[1]
          /\ Len(Tail(q)) = Len(q) - 1 /\ \A i \in 1 .. Len(Tail(q)) : Tail(q)[i] = q[i + 1]
          /\ Len(q) \in Nat /\ Len(q) # 0 /\ DOMAIN q = 1 .. Len(q)
          /\ DOMAIN Tail(q) = 1 .. Len(Tail(q))
      BY <2>1, HeadTailProperties, LenProperties, EmptySeq
    <2> QED
      BY <2>1, <2>2 DEF q
  <1>5. wire'[<<a, n>>] = r /\ \A l \in Links : l # <<a, n>> => wire'[l] = wire[l]
    BY <1>1, <1>3 DEF Typed
  <1>6. ASSUME NEW l \in Links, NEW i \in DOMAIN wire'[l]
        PROVE  IF l[1] = h THEN wire'[l][i].kind = "at" /\ wire'[l][i].change.proposer = h
               ELSE wire'[l][i].kind = "request"
    <2>1. \A j \in DOMAIN wire[l] :
            IF l[1] = h THEN wire[l][j].kind = "at" /\ wire[l][j].change.proposer = h
            ELSE wire[l][j].kind = "request"
      BY <1>2 DEF FromHost
    <2>2. \E j \in DOMAIN wire[l] : wire'[l][i] = wire[l][j]
      <3>1. CASE l = <<a, n>>
        BY <3>1, <1>4, <1>5
      <3>2. CASE l # <<a, n>>
        BY <3>2, <1>5
      <3> QED
        BY <3>1, <3>2
    <2> QED
      BY <2>1, <2>2
  <1>7. ASSUME NEW m, pending'[m] = pending[m] PROVE ViewOf(m)' = ViewOf(m)
    BY <1>1, <1>7 DEF ViewOf, Holding
  <1>8. committed'[h] <= tick'[h] + SyncLatency
    BY <1>1, <1>2 DEF Margin
  <1>9. ASSUME pending'[h] = pending[h], setting'[h] \in Freezing
        PROVE  Cleared(ViewOf(h)') /\ \E e \in pending'[h] : e.tick = tick'[h]
    BY <1>1, <1>2, <1>7, <1>9 DEF Margin, Frozen
  <1>10. CASE n # h /\ a = h
    <2> DEFINE p == msg.change
               V == ViewOf(n)
               H == ViewOf(h)
               fr == Freezing
    <2>1. msg.kind = "at" /\ p.proposer = h
      BY <1>1, <1>2, <1>4, <1>10 DEF FromHost
    <2>2. Behind(n)
      BY <1>2, <1>10
    <2>3. Follows(H, V, q) /\ Falling(fr, V, q)
      BY <2>2, <1>10 DEF Behind
    <2>4. /\ Orderly(V) /\ V.tick = tick[n] /\ V.store = pending[n] /\ V.setting = setting[n]
          /\ V.ran = ran[n]
      BY ViewTyped
    <2>5. q \in Seq(Letter) /\ p \in Proposal /\ fr \subseteq {1}
      <3>1. p \in Draft
        BY <1>4 DEF Mail
      <3> QED
        BY <3>1, <1>4, WiderTypes, Terms DEF Typed
    <2>6. \A e \in V.store : e.proposer = p.proposer
      BY <2>1, <2>4, <1>2 DEF FromHost
    <2>7. p = q[1].change
      BY <1>4
    <2>8. /\ Accepts(V.store, p) /\ V.tick <= p.tick
          /\ Follows(H, Heed(V, p), r) /\ Falling(fr, Heed(V, p), r)
      <3> HIDE DEF p, V, H, fr, q
      <3> QED
        BY <2>3, <2>4, <2>5, <2>6, <2>7, <1>4, ClientReads
    <2>9. learns
      <3>1. p.tick >= tick[n]
        BY <2>4, <2>8, ViewTyped, <1>4 DEF Mail, Draft
      <3>2. Admits(n, a, p)
        BY <3>1, <2>1, <1>10 DEF Admits
      <3> QED
        BY <3>2, <2>1, <2>4, <2>8 DEF Learns
    <2> HIDE DEF learns
    <2>10. pending'[n] = Propose(pending[n], p) /\ \A m \in Node \ {n} : pending'[m] = pending[m]
      BY <2>9, <1>1 DEF Typed
    <2>11. ViewOf(n)' = Heed(V, p)
      <3>1. ViewOf(n)' = [tick |-> tick[n], setting |-> setting[n], store |-> pending'[n],
                          ran |-> ran[n]]
        BY <1>1 DEF ViewOf, Holding
      <3> HIDE DEF V, p
      <3> QED
        BY <3>1, <2>4, <2>10 DEF Heed
    <2>12. ViewOf(h)' = H /\ pending'[h] = pending[h]
      BY <2>10, <1>2, <1>7, <1>10
    <2>13. ASSUME NEW m \in Node, NEW e \in pending'[m] PROVE e.proposer = h
      <3>1. CASE m = n
        <4> DEFINE x == [proposer |-> p.proposer, tick |-> p.tick, value |-> p.value,
                         claimed |-> FALSE]
        <4>1. Propose(pending[n], p) \subseteq pending[n] \cup {x}
          BY DEF Propose
        <4>2. x.proposer = h
          BY <2>1
        <4> HIDE DEF x
        <4>3. e \in pending[n] \/ e = x
          BY <4>1, <3>1, <2>10
        <4> QED
          BY <4>2, <4>3, <1>2 DEF FromHost
      <3>2. CASE m # n
        BY <3>2, <2>10, <1>2 DEF FromHost
      <3> QED
        BY <3>1, <3>2
    <2>14. ASSUME NEW m \in Node \ {h}
           PROVE  /\ tick'[m] <= committed'[h] + 1
                  /\ Follows(ViewOf(h)', ViewOf(m)', wire'[<<h, m>>])
                  /\ Falling(Freezing, ViewOf(m)', wire'[<<h, m>>])
      <3>1. tick'[m] <= committed'[h] + 1
        BY <1>1, <1>2 DEF Behind
      <3>2. CASE m = n
        BY <3>1, <3>2, <2>8, <2>11, <2>12, <1>5, <1>10
      <3>3. CASE m # n
        <4>1. ViewOf(m)' = ViewOf(m) /\ wire'[<<h, m>>] = wire[<<h, m>>]
          BY <3>3, <2>10, <1>2, <1>5, <1>7
        <4> QED
          BY <3>1, <4>1, <2>12, <1>2 DEF Behind
      <3> QED
        BY <3>2, <3>3
    <2> QED
      BY <2>12, <2>13, <2>14, <1>6, <1>8, <1>9, LedAgain
  <1>11. CASE ~(n # h /\ a = h)
    <2>1. ~learns
      <3>1. CASE a # h
        BY <3>1, <1>2 DEF Learns, Admits
      <3>2. CASE n = h /\ a = h
        <4>1. msg.change.proposer = h
          BY <3>2, <1>1, <1>2, <1>4 DEF FromHost
        <4> QED
          BY <4>1, <3>2 DEF Learns, Admits
      <3> QED
        BY <3>1, <3>2, <1>11
    <2>2. pending' = pending
      BY <2>1, <1>1
    <2>3. \A m : ViewOf(m)' = ViewOf(m)
      BY <2>2, <1>7
    <2>4. \A m \in Node : \A e \in pending'[m] : e.proposer = h
      BY <2>2, <1>2 DEF FromHost
    <2>5. ASSUME NEW m \in Node \ {h}
          PROVE  /\ tick'[m] <= committed'[h] + 1
                 /\ Follows(ViewOf(h)', ViewOf(m)', wire'[<<h, m>>])
                 /\ Falling(Freezing, ViewOf(m)', wire'[<<h, m>>])
      <3>1. wire'[<<h, m>>] = wire[<<h, m>>]
        <4>1. <<h, m>> # <<a, n>>
          BY <1>11
        <4> QED
          BY <4>1, <1>2, <1>5
      <3> QED
        BY <3>1, <2>3, <1>1, <1>2 DEF Behind
    <2> QED
      BY <2>2, <2>4, <2>5, <1>6, <1>8, <1>9, LedAgain
  <1> QED
    BY <1>10, <1>11
-----------------------------------------------------------------------------
(***************************************************************************)
(* What follows.                                                           *)
(***************************************************************************)

\* The inductive invariant.
Inv == Typed /\ (HostLed => Led)

LEMMA HostLedStays ==
  ASSUME UNCHANGED session
  PROVE  HostLed' <=> HostLed
  BY DEF HostLed, Authority, Paced, Host, Player, Node, Links

LEMMA LedNext ==
  ASSUME Typed, HostLed, Led, [Next]_vars
  PROVE  Led'
  <1> DEFINE h == Host
  <1>1. UNCHANGED session /\ h = Host /\ h \in Node
    BY NextShape, Terms DEF Typed
  <1>2. CASE UNCHANGED vars
    <2>1. /\ UNCHANGED <<pending, wire, committed, tick, setting, ran, session>>
          /\ \A m : ViewOf(m)' = ViewOf(m)
      BY <1>2 DEF vars, ViewOf, Holding
    <2>2. FromHost' /\ Margin' /\ \A n \in Node \ {Host} : Behind(n)'
      <3>1. /\ Host' = Host /\ Node' = Node /\ Links' = Links /\ SyncLatency' = SyncLatency
            /\ Freezing' = Freezing
        BY <1>1, TermsStay
      <3>2. FromHost' /\ Margin'
        BY <2>1, <3>1 DEF Led, FromHost, Margin, Frozen, ViewOf, Holding
      <3>3. ASSUME NEW n \in Node \ {Host} PROVE Behind(n)'
        <4>1. Behind(n)
          BY DEF Led
        <4> QED
          BY <4>1, <2>1, <3>1 DEF Behind, ViewOf, Holding
      <3> QED
        BY <3>2, <3>3
    <2>3. Host' = Host /\ Node' = Node
      BY <1>1, TermsStay
    <2> QED
      BY <2>2, <2>3 DEF Led
  <1>3. ASSUME NEW n \in Node, NEW intent \in Seq(Value), NEW ready \in BOOLEAN,
               Step(n, intent, ready)
        PROVE  Led'
    <2>1. CASE n = h
      BY <2>1, <1>1, <1>3, LedHostStep
    <2>2. CASE n # h
      BY <2>2, <1>1, <1>3, LedClientStep
    <2> QED
      BY <2>1, <2>2
  <1>4. ASSUME NEW n \in Node, NEW a \in Node, Arrive(n, a) PROVE Led'
    BY <1>1, <1>4, LedArrive
  <1> QED
    BY <1>2, <1>3, <1>4, NextShape

LEMMA InvHolds == Spec => []Inv
  <1>1. Init => Inv
    BY TypedInit, LedInit DEF Inv
  <1>2. Inv /\ [Next]_vars => Inv'
    <2> SUFFICES ASSUME Inv, [Next]_vars PROVE Inv'
      OBVIOUS
    <2>1. Typed' /\ UNCHANGED session
      BY TypedNext, NextShape DEF Inv
    <2>2. HostLed' => HostLed
      BY <2>1, HostLedStays
    <2>3. HostLed => Led'
      BY LedNext DEF Inv
    <2> QED
      BY <2>1, <2>2, <2>3 DEF Inv
  <1> QED
    BY <1>1, <1>2, PTL DEF Spec

LEMMA LedAgree ==
  ASSUME Typed, Led
  PROVE  SettingsAgree
  <1>1. SUFFICES ASSUME NEW m \in Node, NEW n \in Node, NEW i \in 1 .. Len(ran[m]),
                        i <= Len(ran[n])
                 PROVE  ran[m][i] = ran[n][i]
    BY DEF SettingsAgree
  <1> DEFINE t == i - 1
  <1>2. /\ t \in Nat /\ t + 1 = i /\ t < tick[m] /\ t < tick[n]
    BY <1>1, ViewTyped
  <1>3. ViewOf(Host) \in View
    BY Terms, ViewTyped DEF Typed
  <1> HIDE DEF t
  <1>4. Runs(ViewOf(Host), t, ran[m][t + 1]) /\ Runs(ViewOf(Host), t, ran[n][t + 1])
    BY <1>2, RanAsHost
  <1>5. ran[m][t + 1] = ran[n][t + 1]
    BY <1>2, <1>3, <1>4, OneRuns
  <1> QED
    BY <1>2, <1>5

\* Where a host that plays decides, and its links are paced, all nodes execute
\* every tick under the same setting, for any number of nodes, any latency and
\* any requests ("every node reaches it and applies the change there",
\* CONTROL_DELAY, network.rs).
THEOREM HostLedSettingsAgree == Spec => [](HostLed => ControlInv)
  <1>1. Inv => (HostLed => ControlInv)
    BY TypedIsTypeOK, LedAgree DEF Inv, ControlInv
  <1> QED
    BY <1>1, InvHolds, PTL

LEMMA LedThaws ==
  ASSUME Typed, HostLed, Led
  PROVE  NoneLeftFrozen
  <1>1. SUFFICES ASSUME \A l \in Links : wire[l] = <<>>, NEW n \in Node, Frozen(n),
                        Due(pending[n], tick[n]) = {}, NEW m \in Node
                 PROVE  tick[m] <= tick[n]
    BY DEF NoneLeftFrozen
  <1>2. CASE n = Host
    BY <1>1, <1>2, FrozenStops
  <1>3. CASE n # Host
    <2> DEFINE H == ViewOf(Host)
               V == ViewOf(n)
               W == Claim(V)
               none == <<>>
               t == tick[n]
               v == setting[n]
    <2>1. /\ H \in View /\ Orderly(V) /\ V \in View /\ V.tick = t /\ V.setting = v
          /\ V.store = pending[n] /\ t \in Nat /\ v \in Nat /\ tick[m] \in Nat
      <3>1. Host \in Node /\ Value \subseteq Nat
        BY Terms DEF Typed
      <3> QED
        BY <3>1, ViewTyped
    <2>2. Follows(H, V, none)
      <3>1. Behind(n)
        BY <1>3 DEF Led
      <3>2. wire[<<Host, n>>] = none
        BY <1>1, <1>3 DEF HostLed
      <3> QED
        BY <3>1, <3>2 DEF Behind
    <2> HIDE DEF V, H
    <2>3. W.tick = t /\ W.setting = v /\ Orderly(W) /\ Cleared(W)
      <3>1. W.tick = V.tick /\ W.setting = NextValue(V)
        BY <2>1, ClaimFields
      <3>2. NextValue(V) = V.setting
        BY <2>1, <1>1 DEF NextValue
      <3> QED
        BY <3>1, <3>2, <2>1, ClaimKeepsOrder
    <2>4. none \in Seq(Letter) /\ DOMAIN none = {}
      BY NoLetters
    <2> HIDE DEF none
    <2>5. Ruled(W, none, t, v) => Ruled(V, none, t, v)
      <3>1. V.tick <= t
        BY <2>1
      <3> QED
        BY <3>1, <2>1, <2>4, ClaimRules
    <2> HIDE DEF W
    <2>6. Ruled(W, none, t, v)
      <3>1. \A i \in DOMAIN none : none[i].change.tick # W.tick
        BY <2>4
      <3> HIDE DEF t, v
      <3> QED
        BY <3>1, <2>3, <2>4, AdvanceRules
    <2>7. Runs(H, t, v)
      <3>1. V.tick <= t
        BY <2>1
      <3> QED
        BY <3>1, <2>1, <2>2, <2>5, <2>6 DEF Follows
    <2>8. SUFFICES ASSUME t < tick[m] PROVE FALSE
      BY <2>1
    <2>9. Runs(H, t, ran[m][t + 1]) /\ ran[m][t + 1] \in Value \ Freezing
      BY <2>1, <2>8, RanAsHost DEF H
    <2>10. ran[m][t + 1] = v
      BY <2>1, <2>7, <2>9, OneRuns
    <2> QED
      BY <2>9, <2>10, <1>1 DEF Frozen
  <1> QED
    BY <1>2, <1>3

\* There, a resume reaches everybody: once every message is read nobody stays
\* frozen at a tick another has left ("the resume must be taken whoever sends
\* it", network_tests.rs).
THEOREM HostLedNoneLeftFrozen == Spec => [](HostLed => NoneLeftFrozen)
  <1>1. Inv => (HostLed => NoneLeftFrozen)
    BY LedThaws DEF Inv
  <1> QED
    BY <1>1, InvHolds, PTL

\* Nobody has passed the tick of a change that has just been sent.
Timely ==
  \A l \in Links : Len(wire'[l]) > Len(wire[l]) =>
    LET msg == Last(wire'[l])
    IN (msg.kind = "at" /\ msg.change.proposer = l[1])
         => \A n \in Node : tick[n] <= msg.change.tick

\* What a step puts on the wire is at its end.
LEMMA LastOfConcat ==
  ASSUME NEW S, NEW s \in Seq(S), NEW t \in Seq(S), Len(s \o t) > Len(s)
  PROVE  \E i \in DOMAIN t : Last(s \o t) = t[i]
  <1>1. /\ Len(s \o t) = Len(s) + Len(t) /\ Len(s) \in Nat /\ Len(t) \in Nat
        /\ DOMAIN t = 1 .. Len(t)
        /\ \A i \in 1 .. Len(s) + Len(t) : (s \o t)[i] = IF i <= Len(s) THEN s[i] ELSE t[i - Len(s)]
    BY ConcatProperties, LenProperties
  <1>2. Len(t) \in DOMAIN t /\ (s \o t)[Len(s) + Len(t)] = t[Len(t)]
    BY <1>1
  <1>3. Last(s \o t) = (s \o t)[Len(s) + Len(t)]
    BY <1>1 DEF Last
  <1> QED
    BY <1>2, <1>3

LEMMA LedTimely ==
  ASSUME Typed, HostLed, Led, [Next]_vars
  PROVE  Timely
  <1>1. SUFFICES ASSUME NEW l \in Links, Len(wire'[l]) > Len(wire[l]),
                        Last(wire'[l]).kind = "at", NEW n \in Node
                 PROVE  tick[n] <= Last(wire'[l]).change.tick
    BY Zenon DEF Timely
  <1>2. UNCHANGED session /\ wire[l] \in Seq(Mail) /\ Len(wire[l]) \in Nat /\ Host \in Node
    BY NextShape, Terms, LenProperties DEF Typed
  <1>3. CASE UNCHANGED vars
    BY <1>1, <1>2, <1>3 DEF vars
  <1>4. ASSUME NEW b \in Node, NEW intent \in Seq(Value), NEW ready \in BOOLEAN,
               Step(b, intent, ready)
        PROVE  tick[n] <= Last(wire'[l]).change.tick
    <2> DEFINE values == intent \o asked[b]
               r == Routed(b, values)
    <2>1. values \in Seq(Value)
      BY ConcatProperties DEF Typed
    <2>2. r \in Batch /\ wire' = SendAll(b, r.out)
      BY <1>2, <1>4, StepShape DEF Stepped
    <2> HIDE DEF values
    <2>3. l[1] = b /\ wire'[l] = wire[l] \o r.out
      <3>1. wire'[l] = IF l[1] = b THEN wire[l] \o r.out ELSE wire[l]
        BY <2>2 DEF SendAll
      <3>2. wire'[l] # wire[l]
        BY <1>1, <1>2
      <3> HIDE DEF r
      <3> QED
        BY <3>1, <3>2
    <2>4. PICK i \in DOMAIN r.out : Last(wire'[l]) = r.out[i]
      <3> DEFINE w == wire[l]
                 o == r.out
      <3>1. w \in Seq(Mail) /\ o \in Seq(Mail) /\ Len(w \o o) > Len(w)
        BY <1>1, <1>2, <2>2, <2>3 DEF Batch
      <3> HIDE DEF w, o
      <3>2. \E i \in DOMAIN o : Last(w \o o) = o[i]
        BY <3>1, LastOfConcat
      <3> QED
        BY <3>2, <2>3 DEF w, o
    <2>5. CASE b = Host
      <3>1. Leading(r)
        BY <2>1, <2>5, HostRoutes
      <3> HIDE DEF r
      <3> QED
        BY <3>1, <2>4 DEF Leading
    <2>6. CASE b # Host
      <3>1. \A j \in DOMAIN r.out : r.out[j].kind = "request"
        BY <2>1, <2>6, ClientRoutes
      <3> HIDE DEF r
      <3> QED
        BY <3>1, <2>4, <1>1
    <2> QED
      BY <2>5, <2>6
  <1>5. ASSUME NEW b \in Node, NEW a \in Node, Arrive(b, a)
        PROVE  FALSE
    <2> DEFINE msg == Head(wire[<<a, b>>])
               learns == Learns(b, a, msg)
               forwards == IF learns /\ Authority = "peers" THEN <<Message(b, "at", msg.change)>>
                           ELSE <<>>
    <2>1. /\ <<a, b>> \in Links /\ wire[<<a, b>>] # <<>>
          /\ wire' = [SendAll(b, forwards) EXCEPT ![<<a, b>>] = Tail(@)]
      BY <1>5 DEF Arrive, Learns
    <2>2. forwards = <<>>
      BY DEF HostLed
    <2> HIDE DEF forwards
    <2>3. SendAll(b, <<>>)[l] = wire[l]
      <3>1. wire[l] \o <<>> = wire[l]
        BY <1>2, ConcatEmptySeq
      <3> QED
        BY <3>1 DEF SendAll
    <2>4. wire'[l] = IF l = <<a, b>> THEN Tail(wire[l]) ELSE wire[l]
      BY <2>1, <2>2, <2>3 DEF SendAll
    <2>5. l = <<a, b>> => Len(Tail(wire[l])) = Len(wire[l]) - 1
      BY <2>1, <1>2, HeadTailProperties
    <2> QED
      BY <2>4, <2>5, <1>1, <1>2
  <1> QED
    BY <1>3, <1>4, <1>5, NextShape

\* There, no node has passed the tick of a change when the host sends it
\* (CONTROL_DELAY, network.rs).
THEOREM HostLedSentInTime == Spec /\ HostLed => SentInTime
  <1>1. Inv /\ HostLed /\ [Next]_vars => HostLed'
    BY NextShape, HostLedStays DEF Inv
  <1>2. Inv /\ HostLed /\ [Next]_vars => [Timely]_vars
    BY LedTimely DEF Inv
  <1>3. Spec /\ HostLed => [][Timely]_vars
    BY <1>1, <1>2, InvHolds, PTL DEF Spec
  <1> QED
    BY <1>3, Zenon DEF SentInTime, Timely
-----------------------------------------------------------------------------
(***************************************************************************)
(* One change at a time, between two values.                               *)
(***************************************************************************)

\* The sessions: a request of a client has a way to the host.
Toggled ==
  /\ ~Hasty /\ Value = {0, 1}
  /\ Authority = "host" => \A n \in Node \ {Host} : <<n, Host>> \in Links

\* The value the last request asked for, if each has asked for the other one.
Wanted == (session.initial + requests) % 2

\* A store in which nothing waits but changes to w.
Awaits(store, w) == \A e \in store : e.claimed \/ e.value = w

\* Some change in the store has not been handed out.
Waiting(store) == \E e \in store : ~e.claimed

\* All that is under way is a change to w.
Means(w) ==
  /\ \A n \in Node : Awaits(pending[n], w)
  /\ \A n \in Node : \A i \in DOMAIN asked[n] : asked[n][i] = w
  /\ \A l \in Links : \A i \in DOMAIN wire[l] : wire[l][i].change.value = w

\* A request has reached the host, or is on its way there.
Posted ==
  \/ asked[Host] # <<>>
  \/ \E l \in Links : l[2] = Host /\ \E i \in DOMAIN wire[l] : wire[l][i].kind = "request"

\* Some node has set w, or will.
Carried(w) ==
  \/ \E n \in Node : setting[n] = w \/ Waiting(pending[n])
  \/ Authority = "host" /\ Posted

\* Only a change to the wanted value is under way, and some node has it or will.
InTurn == requests \in Nat /\ Means(Wanted) /\ Carried(Wanted)

\* A change that is taken waits in the store, beside those it does not replace.
LEMMA ProposedWaits ==
  ASSUME NEW store, NEW p, Accepts(store, p)
  PROVE  /\ Waiting(Propose(store, p))
         /\ \A w : Awaits(store, w) /\ p.value = w => Awaits(Propose(store, p), w)
  <1> DEFINE x == [proposer |-> p.proposer, tick |-> p.tick, value |-> p.value, claimed |-> FALSE]
  <1>1. Propose(store, p) = {held \in store : held.tick # p.tick} \cup {x}
    BY DEF Propose
  <1>2. x.claimed = FALSE /\ x.value = p.value
    OBVIOUS
  <1> HIDE DEF x
  <1> QED
    BY <1>1, <1>2 DEF Waiting, Awaits

\* What a change does not change waits for the same value already, or has it.
LEMMA RefusedHas ==
  ASSUME NEW V, Orderly(V), NEW p \in Proposal, V.tick <= p.tick, ~Accepts(V.store, p),
         Awaits(V.store, p.value)
  PROVE  V.setting = p.value \/ Waiting(V.store)
  <1>1. PICK held \in V.store :
          /\ held.tick = p.tick
          /\ ~ IF held.claimed THEN <<p.proposer, p.value>> # <<held.proposer, held.value>>
                               ELSE Before(p, held)
    BY DEF Accepts
  <1>2. CASE ~held.claimed
    BY <1>2 DEF Waiting
  <1>3. CASE held.claimed
    <2>1. held.value = p.value
      BY <1>1, <1>3
    <2>2. held.tick = V.tick
      <3>1. held.tick <= V.tick /\ held.tick \in Nat /\ V.tick \in Nat
        BY <1>3, ViewFields DEF Orderly
      <3> QED
        BY <3>1, <1>1
    <2>3. held.value = V.setting
      BY <1>3, <2>2 DEF Orderly
    <2> QED
      BY <2>1, <2>3
  <1> QED
    BY <1>2, <1>3

\* The last of a list longer by one.
LEMMA AppendHas ==
  ASSUME NEW S, NEW s \in Seq(S), NEW x \in S
  PROVE  /\ \E i \in DOMAIN Append(s, x) : Append(s, x)[i] = x
         /\ \A i \in DOMAIN Append(s, x) : Append(s, x)[i] = x
              \/ \E j \in DOMAIN s : Append(s, x)[i] = s[j]
  <1>1. /\ DOMAIN Append(s, x) = 1 .. Len(s) + 1 /\ Append(s, x)[Len(s) + 1] = x
        /\ \A j \in 1 .. Len(s) : Append(s, x)[j] = s[j]
        /\ DOMAIN s = 1 .. Len(s) /\ Len(s) \in Nat
    BY AppendProperties, LenProperties
  <1>2. Len(s) + 1 \in DOMAIN Append(s, x)
    BY <1>1
  <1>3. ASSUME NEW i \in DOMAIN Append(s, x)
        PROVE  Append(s, x)[i] = x \/ \E j \in DOMAIN s : Append(s, x)[i] = s[j]
    <2>1. i = Len(s) + 1 \/ i \in DOMAIN s
      BY <1>1
    <2> QED
      BY <2>1, <1>1
  <1> QED
    BY <1>1, <1>2, <1>3

\* What is in u is in s or in t, and the other way round.
Joined(s, t, u) ==
  /\ \A i \in DOMAIN u : (\E j \in DOMAIN s : u[i] = s[j]) \/ \E j \in DOMAIN t : u[i] = t[j]
  /\ \A j \in DOMAIN s : \E i \in DOMAIN u : u[i] = s[j]
  /\ \A j \in DOMAIN t : \E i \in DOMAIN u : u[i] = t[j]

\* One list behind another has what is in either, and nothing else.
LEMMA ConcatHas ==
  ASSUME NEW S, NEW s \in Seq(S), NEW t \in Seq(S)
  PROVE  Joined(s, t, s \o t)
  <1> DEFINE u == s \o t
  <1>0. u \in Seq(S)
    BY ConcatProperties
  <1>1. /\ DOMAIN s = 1 .. Len(s) /\ DOMAIN t = 1 .. Len(t) /\ Len(s) \in Nat /\ Len(t) \in Nat
        /\ Len(u) = Len(s) + Len(t) /\ DOMAIN u = 1 .. Len(u)
        /\ \A i \in 1 .. Len(s) : u[i] = s[i]
        /\ \A i \in 1 .. Len(t) : u[Len(s) + i] = t[i]
    BY <1>0, ConcatProperties, LenProperties
  <1> HIDE DEF u
  <1>2. ASSUME NEW i \in DOMAIN u
        PROVE  (\E j \in DOMAIN s : u[i] = s[j]) \/ (\E j \in DOMAIN t : u[i] = t[j])
    <2>1. CASE i <= Len(s)
      <3>1. i \in DOMAIN s
        BY <2>1, <1>1
      <3> QED
        BY <3>1, <1>1
    <2>2. CASE Len(s) < i
      <3>1. i - Len(s) \in DOMAIN t /\ Len(s) + (i - Len(s)) = i
        BY <2>2, <1>1
      <3> QED
        BY <3>1, <1>1
    <2> QED
      BY <2>1, <2>2, <1>1
  <1>3. ASSUME NEW j \in DOMAIN s PROVE j \in DOMAIN u /\ u[j] = s[j]
    BY <1>1
  <1>4. ASSUME NEW j \in DOMAIN t PROVE Len(s) + j \in DOMAIN u /\ u[Len(s) + j] = t[j]
    BY <1>1
  <1>5. Joined(s, t, u)
    BY <1>2, <1>3, <1>4 DEF Joined
  <1> QED
    BY <1>5 DEF u

\* What a batch of requests for w keeps.
Turning(n, w, acc) ==
  /\ acc \in Batch /\ Orderly(Holding(n, acc.store))
  /\ Awaits(acc.store, w)
  /\ Waiting(pending[n]) => Waiting(acc.store)
  /\ \A i \in DOMAIN acc.out : acc.out[i].change.value = w

\* One request for w waits in the store, has its effect already, or goes to the host.
LEMMA OneInTurn ==
  ASSUME Typed, NEW n \in Node, NEW w \in Value, NEW acc, Turning(n, w, acc)
  PROVE  LET after == RouteRequest(n, acc, w)
         IN /\ Turning(n, w, after)
            /\ Decides(n) => setting[n] = w \/ Waiting(after.store)
            /\ ~Decides(n) => \E i \in DOMAIN after.out : after.out[i].kind = "request"
  <1> DEFINE p == Change(n, w)
             kind == IF Decides(n) THEN "at" ELSE "request"
             m == Message(n, kind, p)
             sent == Append(acc.out, m)
             after == RouteRequest(n, acc, w)
             V == Holding(n, acc.store)
  <1>1. acc \in Batch /\ acc.store \in SUBSET Scheduled /\ acc.out \in Seq(Mail)
    BY DEF Turning, Batch
  <1>2. /\ p \in Draft /\ tick[n] <= p.tick /\ p.value = w
        /\ m \in Mail /\ m.kind = kind /\ m.change = p
        /\ ~Decides(n) => after.store = acc.store /\ after.out = sent
        /\ Decides(n) /\ ~Accepts(acc.store, p) => after = acc
        /\ Decides(n) /\ Accepts(acc.store, p) =>
             after.store = Propose(acc.store, p) /\ after.out = sent
        /\ after \in Batch
    BY <1>1, OneRouted
  <1>3. p \in Proposal
    BY <1>2, WiderTypes DEF Typed
  <1>4. V.store = acc.store /\ V.tick = tick[n] /\ V.setting = setting[n] /\ Orderly(V)
    BY HoldingFields DEF Turning
  <1>5. Heed(V, p) = Holding(n, Propose(acc.store, p))
    BY DEF Heed, Holding
  <1>6. Orderly(Holding(n, Propose(acc.store, p)))
    <2> HIDE DEF p, V
    <2> QED
      BY <1>2, <1>3, <1>4, <1>5, HeedKeepsOrder
  <1> HIDE DEF p, m, after, V
  <1>7. /\ \E i \in DOMAIN sent : sent[i] = m
        /\ \A i \in DOMAIN sent : sent[i].change.value = w
    <2>1. /\ \E i \in DOMAIN sent : sent[i] = m
          /\ \A i \in DOMAIN sent : sent[i] = m \/ \E j \in DOMAIN acc.out : sent[i] = acc.out[j]
      BY <1>1, <1>2, AppendHas
    <2> HIDE DEF sent
    <2>2. \A j \in DOMAIN acc.out : acc.out[j].change.value = w
      BY DEF Turning
    <2> QED
      BY <2>1, <2>2, <1>2
  <1> HIDE DEF sent
  <1>8. CASE ~Decides(n)
    <2>1. kind = "request"
      BY <1>8
    <2>2. Turning(n, w, after)
      BY <1>2, <1>7, <1>8 DEF Turning
    <2> QED
      BY <2>1, <2>2, <1>2, <1>7, <1>8 DEF after
  <1>9. CASE Decides(n) /\ ~Accepts(acc.store, p)
    <2>1. setting[n] = w \/ Waiting(acc.store)
      BY <1>2, <1>3, <1>4, <1>9, RefusedHas DEF Turning
    <2> QED
      BY <2>1, <1>2, <1>9 DEF after
  <1>10. CASE Decides(n) /\ Accepts(acc.store, p)
    <2>1. Waiting(after.store) /\ Awaits(after.store, w)
      BY <1>2, <1>10, ProposedWaits DEF Turning
    <2>2. Turning(n, w, after)
      BY <2>1, <1>2, <1>6, <1>7, <1>10 DEF Turning
    <2> QED
      BY <2>1, <2>2, <1>10 DEF after
  <1> QED
    BY <1>8, <1>9, <1>10

\* All requests of a step, when they are for w.
LEMMA RoutedInTurn ==
  ASSUME Typed, NEW n \in Node, NEW w \in Value, NEW values \in Seq({w}), Awaits(pending[n], w)
  PROVE  LET r == Routed(n, values)
         IN /\ Turning(n, w, r)
            /\ values # <<>> /\ Decides(n) => setting[n] = w \/ Waiting(r.store)
            /\ values # <<>> /\ ~Decides(n) => \E i \in DOMAIN r.out : r.out[i].kind = "request"
  <1> DEFINE S == {acc \in Batch : Turning(n, w, acc)}
             b == [store |-> pending[n], out |-> <<>>]
             Ones == {w}
  <1>1. b \in Batch /\ b.store = pending[n] /\ b.out = <<>> /\ DOMAIN <<>> = {}
    <2>1. <<>> \in Seq(Mail) /\ pending[n] \in SUBSET Scheduled
      BY EmptySeq DEF Typed
    <2> QED
      BY <2>1, NoLetters DEF Batch
  <1>2. b \in S
    <2> HIDE DEF b
    <2>1. Orderly(Holding(n, b.store))
      BY <1>1 DEF Typed, ViewOf
    <2> QED
      BY <2>1, <1>1 DEF Turning
  <1>3. ASSUME NEW acc \in S PROVE RouteRequest(n, acc, w) \in S
    <2>1. Turning(n, w, RouteRequest(n, acc, w))
      BY OneInTurn
    <2> QED
      BY <2>1 DEF Turning
  <1>4. Kept(n, Ones, S)
    <2> HIDE DEF S
    <2> QED
      BY <1>2, <1>3 DEF Kept
  <1>5. /\ Routed(n, values) \in S
        /\ values # <<>> => \E acc \in S : Routed(n, values) = RouteRequest(n, acc, w)
    <2>1. values \in Seq(Ones)
      OBVIOUS
    <2>2. /\ Routed(n, values) \in S
          /\ values # <<>> => \E acc \in S, value \in Ones :
                                Routed(n, values) = RouteRequest(n, acc, value)
      <3> HIDE DEF S, Ones
      <3> QED
        BY <2>1, <1>4, RoutedStays
    <2> QED
      BY <2>2
  <1>6. CASE values = <<>>
    BY <1>5, <1>6
  <1>7. CASE values # <<>>
    <2>1. PICK acc \in S : Routed(n, values) = RouteRequest(n, acc, w)
      BY <1>5, <1>7
    <2>2. Turning(n, w, acc)
      OBVIOUS
    <2> QED
      BY <2>1, <2>2, OneInTurn
  <1> QED
    BY <1>6, <1>7

\* What a claim makes of a store in which only changes to w wait.
LEMMA ClaimInTurn ==
  ASSUME NEW V, Orderly(V), NEW w, Awaits(V.store, w)
  PROVE  /\ Awaits(Claimed(V.store, V.tick), w)
         /\ NextValue(V) = V.setting \/ NextValue(V) = w
         /\ Waiting(V.store) => NextValue(V) = w \/ Waiting(Claimed(V.store, V.tick))
  <1> DEFINE C == Claimed(V.store, V.tick)
  <1>1. V.tick \in Nat /\ \A e \in V.store : e.tick \in Nat
    BY ViewFields DEF Orderly
  <1>2. /\ \A e \in V.store : V.tick <= e.tick => \E f \in C : f.tick = e.tick /\ f.value = e.value
        /\ \A f \in C : /\ f.claimed <=> f.tick = V.tick
                        /\ \E e \in V.store : f.tick = e.tick /\ f.value = e.value /\ V.tick <= e.tick
    BY ClaimedStore
  <1>3. /\ \A e \in V.store : e.tick = V.tick => NextValue(V) = e.value
        /\ (\A e \in V.store : e.tick # V.tick) => NextValue(V) = V.setting
    BY ValueNow
  <1>4. /\ \A e \in V.store : e.claimed => e.tick <= V.tick /\ (e.tick = V.tick => e.value = V.setting)
        /\ \A e \in V.store : ~e.claimed => V.tick <= e.tick
    BY DEF Orderly
  <1> HIDE DEF C
  <1>5. ASSUME NEW f \in C, ~f.claimed PROVE f.value = w
    <2>1. PICK e \in V.store : f.tick = e.tick /\ f.value = e.value /\ V.tick <= e.tick
      BY <1>2
    <2>2. ~e.claimed
      BY <2>1, <1>1, <1>2, <1>4, <1>5
    <2> QED
      BY <2>1, <2>2 DEF Awaits
  <1>6. NextValue(V) = V.setting \/ NextValue(V) = w
    <2>1. CASE \A e \in V.store : e.tick # V.tick
      BY <2>1, <1>3
    <2>2. ASSUME NEW e \in V.store, e.tick = V.tick
          PROVE  NextValue(V) = V.setting \/ NextValue(V) = w
      BY <2>2, <1>3, <1>4 DEF Awaits
    <2> QED
      BY <2>1, <2>2
  <1>7. ASSUME NEW e \in V.store, ~e.claimed PROVE NextValue(V) = w \/ Waiting(C)
    <2>1. V.tick <= e.tick /\ e.value = w
      BY <1>4, <1>7 DEF Awaits
    <2>2. CASE e.tick = V.tick
      BY <2>1, <2>2, <1>3
    <2>3. CASE e.tick # V.tick
      <3>1. PICK f \in C : f.tick = e.tick
        BY <2>1, <1>2
      <3> QED
        BY <2>3, <3>1, <1>2 DEF Waiting
    <2> QED
      BY <2>2, <2>3
  <1> QED
    BY <1>5, <1>6, <1>7 DEF C, Awaits, Waiting

\* A node takes a step: with a request for w, or with w on its way already.
LEMMA TurnStep ==
  ASSUME Typed, Toggled, NEW n \in Node, NEW intent \in Seq(Value), NEW ready \in BOOLEAN,
         Step(n, intent, ready), UNCHANGED session, NEW w \in Value, Means(w),
         intent \in Seq({w}), intent # <<>> \/ Carried(w)
  PROVE  Means(w)' /\ Carried(w)'
  <1> DEFINE values == intent \o asked[n]
             r == Routed(n, values)
             V == Holding(n, r.store)
  <1>1. values \in Seq({w}) /\ (values = <<>> <=> intent = <<>> /\ asked[n] = <<>>)
    <2> DEFINE Ones == {w}
               q == asked[n]
    <2>1. q \in Seq(Value) /\ \A i \in DOMAIN q : q[i] \in Ones
      BY DEF Typed, Means
    <2> HIDE DEF q, Ones
    <2>2. q \in Seq(Ones)
      <3>1. Len(q) \in Nat /\ q \in [1 .. Len(q) -> Ones]
        <4>1. q \in [1 .. Len(q) -> Value] /\ Len(q) \in Nat /\ DOMAIN q = 1 .. Len(q)
          BY <2>1, LenProperties
        <4> QED
          BY <2>1, <4>1
      <3> QED
        BY <3>1, IsASeq
    <2>3. intent \in Seq(Ones)
      BY DEF Ones
    <2> QED
      BY <2>2, <2>3, ConcatProperties, ConcatEqualIffEmpty DEF q, Ones
  <1> HIDE DEF values
  <1>2. /\ Turning(n, w, r)
        /\ values # <<>> /\ Decides(n) => setting[n] = w \/ Waiting(r.store)
        /\ values # <<>> /\ ~Decides(n) => \E i \in DOMAIN r.out : r.out[i].kind = "request"
    <2>1. Awaits(pending[n], w)
      BY DEF Means
    <2> QED
      BY <2>1, <1>1, RoutedInTurn
  <1>3. PICK executes \in BOOLEAN : Stepped(n, r, executes)
    BY StepShape DEF values
  <1>4. /\ ViewOf(n)' = IF executes THEN Advance(Claim(V)) ELSE Claim(V)
        /\ \A m \in Node \ {n} : ViewOf(m)' = ViewOf(m)
        /\ asked' = [asked EXCEPT ![n] = <<>>]
        /\ wire' = SendAll(n, r.out)
    BY <1>3 DEF Stepped
  <1> HIDE DEF r
  <1>5. V.store = r.store /\ V.tick = tick[n] /\ V.setting = setting[n] /\ Orderly(V) /\ V \in View
    BY <1>2, HoldingFields DEF Turning, Orderly
  <1> HIDE DEF V
  <1>6. pending'[n] = Claimed(V.store, V.tick) /\ setting'[n] = NextValue(V)
    <2>1. Claim(V) \in View
      BY <1>5, ClaimKeepsOrder DEF Orderly
    <2>2. ViewOf(n)'.store = Claim(V).store /\ ViewOf(n)'.setting = Claim(V).setting
      BY <2>1, <1>4, AdvanceFields
    <2>3. ViewOf(n)'.store = pending'[n] /\ ViewOf(n)'.setting = setting'[n]
      BY DEF ViewOf, Holding
    <2> QED
      BY <2>2, <2>3, <1>5, ClaimFields
  <1>7. ASSUME NEW m \in Node \ {n} PROVE pending'[m] = pending[m] /\ setting'[m] = setting[m]
    <2>1. ViewOf(m)' = ViewOf(m)
      BY <1>4
    <2>2. ViewOf(m)'.store = pending'[m] /\ ViewOf(m)'.setting = setting'[m]
      BY DEF ViewOf, Holding
    <2>3. ViewOf(m).store = pending[m] /\ ViewOf(m).setting = setting[m]
      BY DEF ViewOf, Holding
    <2> QED
      BY <2>1, <2>2, <2>3
  <1>8. /\ Awaits(pending'[n], w)
        /\ setting'[n] = setting[n] \/ setting'[n] = w
        /\ Waiting(r.store) => setting'[n] = w \/ Waiting(pending'[n])
    BY <1>2, <1>5, <1>6, ClaimInTurn DEF Turning
  <1>9. asked'[n] = <<>> /\ \A m \in Node \ {n} : asked'[m] = asked[m]
    BY <1>4 DEF Typed
  <1>10. ASSUME NEW l \in Links
         PROVE  /\ \A i \in DOMAIN wire'[l] : wire'[l][i].change.value = w
                /\ \A i \in DOMAIN wire[l] : \E j \in DOMAIN wire'[l] : wire'[l][j] = wire[l][i]
                /\ l[1] = n => \A i \in DOMAIN r.out : \E j \in DOMAIN wire'[l] : wire'[l][j] = r.out[i]
    <2>1. wire[l] \in Seq(Mail) /\ r.out \in Seq(Mail)
      BY <1>2 DEF Typed, Turning, Batch
    <2>2. /\ \A i \in DOMAIN wire[l] : wire[l][i].change.value = w
          /\ \A i \in DOMAIN r.out : r.out[i].change.value = w
      BY <1>2 DEF Means, Turning
    <2>3. CASE l[1] = n
      <3>1. PICK s \in Seq(Mail) : s = wire[l]
        BY <2>1
      <3>2. PICK t \in Seq(Mail) : t = r.out
        BY <2>1
      <3>3. s \o t \in Seq(Mail) /\ wire'[l] = s \o t
        BY <3>1, <3>2, <1>4, <2>3, ConcatProperties DEF SendAll
      <3>4. Joined(s, t, s \o t)
        BY ConcatHas
      <3>5. Joined(s, t, wire'[l])
        BY <3>3, <3>4
      <3>6. \A i \in DOMAIN wire'[l] : wire'[l][i].change.value = w
        BY <3>1, <3>2, <3>5, <2>2 DEF Joined
      <3> QED
        BY <3>1, <3>2, <3>5, <3>6 DEF Joined
    <2>4. CASE l[1] # n
      <3>1. wire'[l] = wire[l]
        BY <1>4, <2>4 DEF SendAll
      <3> QED
        BY <3>1, <2>2, <2>4
    <2> QED
      BY <2>3, <2>4
  <1>11. Node' = Node /\ Links' = Links /\ Host' = Host /\ Authority' = Authority
    BY TermsStay
  <1>12. Means(w)'
    <2>1. \A m \in Node : Awaits(pending'[m], w)
      BY <1>7, <1>8 DEF Means
    <2>2. \A m \in Node : \A i \in DOMAIN asked'[m] : asked'[m][i] = w
      <3>1. DOMAIN <<>> = {}
        BY NoLetters
      <3> QED
        BY <3>1, <1>9 DEF Means
    <2> QED
      BY <2>1, <2>2, <1>10, <1>11 DEF Means, Awaits
  <1>13. CASE setting'[n] = w \/ Waiting(pending'[n])
    BY <1>11, <1>12, <1>13 DEF Carried, Waiting
  <1>14. CASE \E m \in Node \ {n} : setting[m] = w \/ Waiting(pending[m])
    <2>1. \E m \in Node : setting'[m] = w \/ Waiting(pending'[m])
      BY <1>7, <1>14
    <2> QED
      BY <2>1, <1>11, <1>12 DEF Carried, Waiting
  <1>15. CASE Authority = "host" /\ \E l \in Links : l[2] = Host /\ \E i \in DOMAIN wire[l] :
                                      wire[l][i].kind = "request"
    <2>1. PICK l \in Links : l[2] = Host /\ \E i \in DOMAIN wire[l] : wire[l][i].kind = "request"
      BY <1>15
    <2>2. \E j \in DOMAIN wire'[l] : wire'[l][j].kind = "request"
      BY <2>1, <1>10
    <2> QED
      BY <2>1, <2>2, <1>11, <1>12, <1>15 DEF Carried, Posted
  <1>16. CASE values # <<>> /\ Decides(n)
    <2>1. setting[n] = w \/ Waiting(r.store)
      BY <1>2, <1>16
    <2> QED
      BY <2>1, <1>8, <1>12, <1>13
  <1>17. CASE values # <<>> /\ ~Decides(n)
    <2>1. Authority = "host" /\ n # Host /\ <<n, Host>> \in Links
      BY <1>17, Terms DEF Decides, Toggled, Typed
    <2>2. \E i \in DOMAIN r.out : r.out[i].kind = "request"
      BY <1>2, <1>17
    <2>3. \E j \in DOMAIN wire'[<<n, Host>>] : wire'[<<n, Host>>][j].kind = "request"
      BY <2>1, <2>2, <1>10
    <2> QED
      BY <2>1, <2>3, <1>11, <1>12 DEF Carried, Posted
  <1>18. CASE values = <<>>
    <2>1. Carried(w) /\ asked[n] = <<>>
      BY <1>1, <1>18
    <2>2. CASE setting[n] = w
      BY <2>2, <1>8, <1>12, <1>13
    <2>3. CASE Waiting(pending[n])
      <3>1. Waiting(r.store)
        BY <2>3, <1>2 DEF Turning
      <3> QED
        BY <3>1, <1>8, <1>12, <1>13
    <2>4. CASE Authority = "host" /\ asked[Host] # <<>>
      <3>1. Host \in Node \ {n} /\ asked'[Host] # <<>>
        BY <2>1, <2>4, <1>9, Terms DEF Typed
      <3> QED
        BY <3>1, <2>4, <1>11, <1>12 DEF Carried, Posted
    <2> QED
      BY <2>1, <2>2, <2>3, <2>4, <1>12, <1>14, <1>15 DEF Carried, Posted
  <1> QED
    BY <1>12, <1>13, <1>16, <1>17, <1>18

\* A node reads a message.
LEMMA TurnArrive ==
  ASSUME Typed, NEW n \in Node, NEW a \in Node, Arrive(n, a), UNCHANGED session,
         NEW w \in Value, Means(w), Carried(w)
  PROVE  Means(w)' /\ Carried(w)'
  <1> DEFINE msg == Head(wire[<<a, n>>])
             learns == Learns(n, a, msg)
             forwards == IF learns /\ Authority = "peers" THEN <<Message(n, "at", msg.change)>>
                         ELSE <<>>
             q == wire[<<a, n>>]
             asks == msg.kind = "request" /\ Authority = "host" /\ n = Host
  <1>1. /\ <<a, n>> \in Links /\ q # <<>>
        /\ pending' = IF learns THEN [pending EXCEPT ![n] = Propose(@, msg.change)] ELSE pending
        /\ asked' = IF asks THEN [asked EXCEPT ![n] = Append(@, msg.change.value)] ELSE asked
        /\ wire' = [SendAll(n, forwards) EXCEPT ![<<a, n>>] = Tail(@)]
        /\ UNCHANGED <<tick, setting, committed, ran>>
    BY DEF Arrive, Learns
  <1>2. /\ q \in Seq(Mail) /\ msg = q[1] /\ 1 \in DOMAIN q /\ msg \in Mail /\ msg.change.value = w
        /\ msg.change \in Draft
    <2>1. q \in Seq(Mail)
      BY <1>1 DEF Typed
    <2>2. \A i \in DOMAIN q : q[i].change.value = w
      BY <1>1 DEF Means
    <2> HIDE DEF q
    <2>3. Head(q) \in Mail /\ Head(q) = q[1] /\ Len(q) \in Nat /\ Len(q) # 0 /\ DOMAIN q = 1 .. Len(q)
      BY <2>1, <1>1, HeadTailProperties, LenProperties, EmptySeq
    <2>4. Head(q).change \in Draft /\ 1 \in DOMAIN q
      BY <2>3 DEF Mail
    <2> QED
      BY <2>1, <2>2, <2>3, <2>4 DEF q
  <1>3. forwards \in Seq(Mail) /\ \A i \in DOMAIN forwards : forwards[i].change.value = w
    <2> DEFINE m == Message(n, "at", msg.change)
    <2>1. m \in Mail /\ m.change.value = w
      BY <1>2 DEF Message, Mail, Typed
    <2> HIDE DEF m
    <2>2. <<>> \in Seq(Mail) /\ <<m>> \in Seq(Mail) /\ DOMAIN <<>> = {}
      BY <2>1, EmptySeq, NoLetters
    <2>3. \A i \in DOMAIN <<m>> : <<m>>[i].change.value = w
      BY <2>1
    <2> QED
      BY <2>2, <2>3 DEF m
  <1> HIDE DEF forwards, msg, learns
  <1>4. ASSUME NEW l \in Links
        PROVE  /\ \A i \in DOMAIN wire'[l] : wire'[l][i].change.value = w
               /\ \A i \in DOMAIN wire[l] : \/ l = <<a, n>> /\ i = 1
                                            \/ \E j \in DOMAIN wire'[l] : wire'[l][j] = wire[l][i]
    <2> DEFINE s == wire[l]
               t == IF l[1] = n THEN s \o forwards ELSE s
    <2>1. s \in Seq(Mail) /\ \A i \in DOMAIN s : s[i].change.value = w
      BY DEF Typed, Means
    <2> HIDE DEF s
    <2>2. /\ t \in Seq(Mail) /\ (\A i \in DOMAIN t : t[i].change.value = w)
          /\ Len(s) <= Len(t) /\ (\A i \in DOMAIN s : i \in DOMAIN t /\ t[i] = s[i])
          /\ Len(s) \in Nat /\ DOMAIN s = 1 .. Len(s) /\ Len(t) \in Nat /\ DOMAIN t = 1 .. Len(t)
      <3>1. CASE l[1] = n
        <4>1. /\ s \o forwards \in Seq(Mail) /\ Len(s \o forwards) = Len(s) + Len(forwards)
              /\ Len(s) \in Nat /\ Len(forwards) \in Nat /\ DOMAIN s = 1 .. Len(s)
              /\ \A i \in 1 .. Len(s) : (s \o forwards)[i] = s[i]
              /\ DOMAIN (s \o forwards) = 1 .. Len(s \o forwards)
          BY <2>1, <1>3, ConcatProperties, LenProperties
        <4>2. t = s \o forwards
          BY <3>1
        <4> HIDE DEF t
        <4>3. \A i \in DOMAIN t : \/ \E j \in DOMAIN s : t[i] = s[j]
                                  \/ \E j \in DOMAIN forwards : t[i] = forwards[j]
          <5>1. Joined(s, forwards, s \o forwards)
            BY <2>1, <1>3, ConcatHas
          <5> QED
            BY <5>1, <4>2 DEF Joined
        <4>4. \A i \in DOMAIN t : t[i].change.value = w
          BY <4>3, <2>1, <1>3
        <4>5. Len(s) <= Len(t) /\ Len(t) \in Nat /\ \A i \in DOMAIN s : i \in DOMAIN t
          BY <4>1, <4>2
        <4> QED
          BY <4>1, <4>2, <4>4, <4>5
      <3>2. CASE l[1] # n
        BY <3>2, <2>1, LenProperties
      <3> QED
        BY <3>1, <3>2
    <2>3. wire'[l] = IF l = <<a, n>> THEN Tail(t) ELSE t
      BY <1>1 DEF SendAll, s
    <2> HIDE DEF t
    <2>4. CASE l # <<a, n>>
      BY <2>2, <2>3, <2>4 DEF s
    <2>5. CASE l = <<a, n>>
      <3>1. s = q /\ 1 \in DOMAIN s
        BY <2>5, <1>2 DEF s
      <3>2. t # <<>>
        <4>1. Len(t) # 0
          BY <3>1, <2>2
        <4> QED
          BY <4>1, <2>2, EmptySeq
      <3>3. /\ Tail(t) \in Seq(Mail) /\ Len(Tail(t)) = Len(t) - 1
            /\ DOMAIN Tail(t) = 1 .. Len(Tail(t))
            /\ \A i \in 1 .. Len(Tail(t)) : Tail(t)[i] = t[i + 1]
        BY <2>2, <3>2, HeadTailProperties, LenProperties
      <3>4. \A i \in DOMAIN Tail(t) : i + 1 \in DOMAIN t /\ Tail(t)[i] = t[i + 1]
        BY <2>2, <3>3
      <3>5. \A i \in DOMAIN Tail(t) : Tail(t)[i].change.value = w
        BY <3>4, <2>2
      <3>6. ASSUME NEW i \in DOMAIN s, i # 1 PROVE \E j \in DOMAIN Tail(t) : Tail(t)[j] = s[i]
        <4>1. i - 1 \in DOMAIN Tail(t) /\ (i - 1) + 1 = i
          BY <3>3, <3>6, <2>2
        <4>2. Tail(t)[i - 1] = s[i]
          BY <4>1, <3>4, <3>6, <2>2
        <4> QED
          BY <4>1, <4>2
      <3> QED
        BY <2>3, <2>5, <3>5, <3>6 DEF s
    <2> QED
      BY <2>4, <2>5
  <1>5. ASSUME NEW m \in Node
        PROVE  /\ Awaits(pending'[m], w)
               /\ Waiting(pending[m]) => Waiting(pending'[m])
               /\ setting'[m] = setting[m]
    <2>1. Awaits(pending[m], w)
      BY DEF Means
    <2>2. CASE m = n /\ learns
      <3>1. pending'[m] = Propose(pending[n], msg.change) /\ Accepts(pending[n], msg.change)
        BY <2>2, <1>1 DEF Typed, Learns, learns
      <3> QED
        BY <3>1, <2>1, <2>2, <1>1, <1>2, ProposedWaits
    <2>3. CASE ~(m = n /\ learns)
      <3>1. pending'[m] = pending[m]
        BY <2>3, <1>1 DEF Typed
      <3> QED
        BY <3>1, <2>1, <1>1
    <2> QED
      BY <2>2, <2>3
  <1>6. ASSUME NEW m \in Node
        PROVE  /\ \A i \in DOMAIN asked'[m] : asked'[m][i] = w
               /\ asked[m] # <<>> \/ (asks /\ m = n) => asked'[m] # <<>>
    <2> DEFINE s == asked[m]
    <2>1. s \in Seq(Value) /\ \A i \in DOMAIN s : s[i] = w
      BY DEF Typed, Means
    <2>2. CASE asks /\ m = n
      <3>1. asked'[m] = Append(s, w)
        BY <2>2, <1>1, <1>2 DEF Typed
      <3> HIDE DEF s
      <3>2. /\ \E i \in DOMAIN Append(s, w) : Append(s, w)[i] = w
            /\ \A i \in DOMAIN Append(s, w) : Append(s, w)[i] = w
                 \/ \E j \in DOMAIN s : Append(s, w)[i] = s[j]
        BY <2>1, AppendHas
      <3>3. DOMAIN <<>> = {}
        BY NoLetters
      <3> QED
        BY <3>1, <3>2, <3>3, <2>1
    <2>3. CASE ~(asks /\ m = n)
      <3>1. asked'[m] = s
        BY <2>3, <1>1 DEF Typed
      <3> QED
        BY <3>1, <2>1, <2>3
    <2> QED
      BY <2>2, <2>3
  <1>7. Node' = Node /\ Links' = Links /\ Host' = Host /\ Authority' = Authority /\ Host \in Node
    BY TermsStay, Terms DEF Typed
  <1>8. Means(w)'
    BY <1>4, <1>5, <1>6, <1>7 DEF Means, Awaits
  <1>9. CASE \E m \in Node : setting[m] = w \/ Waiting(pending[m])
    <2>1. \E m \in Node : setting'[m] = w \/ Waiting(pending'[m])
      BY <1>5, <1>9
    <2> QED
      BY <2>1, <1>7, <1>8 DEF Carried, Waiting
  <1>10. CASE Authority = "host" /\ asked[Host] # <<>>
    BY <1>6, <1>7, <1>8, <1>10 DEF Carried, Posted
  <1>11. CASE Authority = "host" /\ \E l \in Links : l[2] = Host /\ \E i \in DOMAIN wire[l] :
                                      wire[l][i].kind = "request"
    <2>1. PICK l \in Links : l[2] = Host /\ \E i \in DOMAIN wire[l] : wire[l][i].kind = "request"
      BY <1>11
    <2>2. PICK i \in DOMAIN wire[l] : wire[l][i].kind = "request"
      BY <2>1
    <2>3. CASE l = <<a, n>> /\ i = 1
      <3>1. asks /\ n = Host
        BY <2>1, <2>2, <2>3, <1>2, <1>11
      <3>2. asked'[Host] # <<>>
        BY <3>1, <1>6
      <3> QED
        BY <3>2, <1>7, <1>8, <1>11 DEF Carried, Posted
    <2>4. CASE ~(l = <<a, n>> /\ i = 1)
      <3>1. \E j \in DOMAIN wire'[l] : wire'[l][j].kind = "request"
        BY <2>2, <2>4, <1>4
      <3> QED
        BY <3>1, <2>1, <1>7, <1>8, <1>11 DEF Carried, Posted
    <2> QED
      BY <2>3, <2>4
  <1> QED
    BY <1>9, <1>10, <1>11 DEF Carried, Posted

\* Nothing is under way and all agree: they have what was wanted.
LEMMA SettledAtWanted ==
  ASSUME Typed, InForce, Carried(Wanted), NEW n \in Node
  PROVE  setting[n] = Wanted
  <1>1. /\ \A m \in Node : ~Waiting(pending[m]) /\ setting[m] = setting[n]
        /\ asked[Host] = <<>> /\ \A l \in Links : wire[l] = <<>>
    BY Terms DEF InForce, Waiting, Typed
  <1>2. ~Posted
    BY <1>1, NoLetters DEF Posted
  <1> QED
    BY <1>1, <1>2 DEF Carried

\* The session does not change.
LEMMA ToggledStays ==
  ASSUME UNCHANGED session
  PROVE  Toggled' <=> Toggled
  BY DEF Toggled, Hasty, Value, Authority, Host, Node, Links

\* At the start the value is the first one.
LEMMA TurnInit ==
  ASSUME Init, Toggled
  PROVE  InTurn
  <1>1. session \in Sessions /\ session.initial \in {0, 1} /\ Host \in Node
    <2>1. session \in Sessions
      BY DEF Init
    <2> QED
      BY <2>1, Terms DEF Toggled
  <1>2. Wanted = session.initial /\ requests = 0
    BY <1>1 DEF Wanted, Init
  <1>3. DOMAIN <<>> = {}
    BY NoLetters
  <1>4. Means(Wanted)
    BY <1>3 DEF Init, Means, Awaits
  <1>5. setting[Host] = Wanted
    BY <1>1, <1>2 DEF Init
  <1> QED
    BY <1>1, <1>2, <1>4, <1>5 DEF InTurn, Carried

\* Two values, one after the other.
LEMMA NextWanted ==
  ASSUME NEW a \in {0, 1}, NEW k \in Nat
  PROVE  /\ (a + k) % 2 \in {0, 1}
         /\ \A b \in {0, 1} : b # (a + k) % 2 => b = (a + (k + 1)) % 2
  <1>1. (a + k) % 2 \in 0 .. 1 /\ (a + (k + 1)) % 2 \in 0 .. 1
    BY SMTT(30)
  <1>2. (a + k) % 2 # (a + (k + 1)) % 2
    BY SMTT(30)
  <1> QED
    BY <1>1, <1>2

\* Every action keeps a change to the wanted value under way, or set, and nothing else.
LEMMA TurnNext ==
  ASSUME Typed, Toggled, InTurn, [Next]_vars
  PROVE  InTurn'
  <1>1. UNCHANGED session
    BY NextShape
  <1>2. session.initial \in {0, 1} /\ requests \in Nat /\ Value = {0, 1}
    BY Terms DEF Typed, Toggled, InTurn
  <1>3. Wanted \in Value
    BY <1>2, NextWanted DEF Wanted
  <1>4. Means(Wanted) /\ Carried(Wanted)
    BY DEF InTurn
  <1>5. PICK w : w = Wanted
    OBVIOUS
  <1>6. ASSUME requests' = requests, Means(w)', Carried(w)' PROVE InTurn'
    <2>1. Wanted' = w
      BY <1>1, <1>5, <1>6 DEF Wanted
    <2> QED
      BY <2>1, <1>2, <1>6 DEF InTurn, Means, Carried
  <1>7. CASE UNCHANGED vars
    <2>1. /\ requests' = requests /\ pending' = pending /\ asked' = asked /\ wire' = wire
          /\ setting' = setting
      BY <1>7 DEF vars
    <2>2. Node' = Node /\ Links' = Links /\ Host' = Host /\ Authority' = Authority
      BY <1>1, TermsStay
    <2>3. Means(w)' /\ Carried(w)'
      BY <2>1, <2>2, <1>4, <1>5 DEF Means, Carried, Awaits, Waiting, Posted
    <2> QED
      BY <2>1, <2>3, <1>6
  <1>8. ASSUME NEW n \in Node, NEW a \in Node, Arrive(n, a) PROVE InTurn'
    <2>1. requests' = requests
      BY <1>8 DEF Arrive
    <2>2. Means(w)' /\ Carried(w)'
      BY <1>1, <1>3, <1>4, <1>5, <1>8, TurnArrive
    <2> QED
      BY <2>1, <2>2, <1>6
  <1>9. ASSUME NEW n \in Node, FixedStep(n) PROVE InTurn'
    <2>1. PICK ready \in BOOLEAN :
            \/ Step(n, <<>>, ready) /\ requests' = requests
            \/ /\ InForce /\ requests' = requests + 1
               /\ \E value \in Value \ {setting[n]} : Step(n, <<value>>, ready)
      BY <1>9, Zenon DEF FixedStep, Toggled
    <2>2. CASE Step(n, <<>>, ready) /\ requests' = requests
      <3>1. <<>> \in Seq(Value) /\ <<>> \in Seq({w})
        BY EmptySeq
      <3>2. Means(w)' /\ Carried(w)'
        BY <2>2, <3>1, <1>1, <1>3, <1>4, <1>5, TurnStep
      <3> QED
        BY <2>2, <3>2, <1>6
    <2>3. CASE /\ InForce /\ requests' = requests + 1
               /\ \E value \in Value \ {setting[n]} : Step(n, <<value>>, ready)
      <3>1. PICK v \in Value \ {setting[n]} : Step(n, <<v>>, ready)
        BY <2>3
      <3>2. setting[n] = Wanted
        BY <2>3, <1>4, <1>9, SettledAtWanted
      <3>3. Wanted' = v /\ requests' \in Nat
        <4>1. Wanted' = (session.initial + (requests + 1)) % 2
          BY <2>3, <1>1 DEF Wanted
        <4> QED
          BY <4>1, <3>1, <3>2, <1>2, <2>3, NextWanted DEF Wanted
      <3>4. Means(v)
        BY <2>3, NoLetters DEF InForce, Means, Awaits
      <3>5. <<v>> \in Seq(Value) /\ <<v>> \in Seq({v}) /\ <<v>> # <<>>
        BY <3>1
      <3>6. Means(v)' /\ Carried(v)'
        BY <3>1, <3>4, <3>5, <1>1, TurnStep
      <3> QED
        BY <3>3, <3>6 DEF InTurn, Means, Carried
    <2> QED
      BY <2>1, <2>2, <2>3
  <1> QED
    BY <1>7, <1>8, <1>9, Zenon DEF Next

\* Where changes between two values are asked for one at a time, each has its
\* effect and none has it twice: in every session of peers, and in every session of
\* a host that all can ask (route_request, receive_change, claim_due).
THEOREM ToggledTakenInTurn == Spec => [](Toggled => TakenInTurn)
  <1> DEFINE J == Typed /\ (Toggled => InTurn)
  <1>1. Init => J
    BY TypedInit, TurnInit
  <1>2. J /\ [Next]_vars => J'
    <2> SUFFICES ASSUME J, [Next]_vars PROVE J'
      OBVIOUS
    <2>1. Typed' /\ UNCHANGED session
      BY TypedNext, NextShape
    <2>2. Toggled' => Toggled
      BY <2>1, ToggledStays
    <2> QED
      BY <2>1, <2>2, TurnNext
  <1>3. J => (Toggled => TakenInTurn)
    <2> SUFFICES ASSUME J, Toggled, InForce, NEW n \in Node
                 PROVE  setting[n] = (session.initial + requests) % 2
      BY DEF TakenInTurn
    <2> QED
      BY SettledAtWanted DEF InTurn, Wanted
  <1> HIDE DEF J
  <1> QED
    BY <1>1, <1>2, <1>3, PTL DEF Spec
=============================================================================
