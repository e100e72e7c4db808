--------------------------- MODULE HarvestProofs ---------------------------
(***************************************************************************)
(* Proofs about Harvest, for every number of carriers, sources, storages   *)
(* and sides, and every yard: crews and trips agree through whatever       *)
(* happens between the passes of a tick, and no resource is made or lost   *)
(* on its way from a source to a bank.                                     *)
(***************************************************************************)
EXTENDS Harvest, NaturalFacts, FiniteSetTheorems, Folds, TLAPS

-----------------------------------------------------------------------------
(***************************************************************************)
(* A step of a carrier's own.                                              *)
(***************************************************************************)

Turn == [w : Worker, crews : [Source -> SUBSET Carrier]]

\* The crews fit the trip: it is in the crew of the source it works and in no
\* other, inside only there, and joined only a crew that takes it.
Sound(c, x) ==
  /\ x \in Turn
  /\ x.w.life = worker[c].life
  /\ \A s \in Source : x.crews[s] \ {c} = crew[s] \ {c}
  /\ \A s \in standing \cap Source :
       /\ c \in x.crews[s] <=> x.w.life # "gone" /\ x.w.job.trip = s
       /\ \/ x.crews[s] \subseteq crew[s]
          \/ ~Excludes(s, c) /\ x.crews[s] = crew[s] \cup {c}
  /\ x.w.life = "alive" /\ x.w.body = "inside" =>
       x.w.job.trip \in standing /\ c \in x.crews[x.w.job.trip]

\* No place has a name that stands for something else.
LEMMA Names ==
  /\ "none" \notin Site /\ "field" \notin Site /\ "none" \notin Source
  /\ Source \cap Storage = {}
  BY HarvestAssumption DEF Site

LEMMA JoblessTyped == Jobless \in Job
  BY HarvestAssumption DEF Jobless, Job

LEMMA SoundNow ==
  ASSUME HarvestInv, NEW c \in Carrier
  PROVE  Sound(c, Now(c))
  <1>1. worker[c] \in Worker /\ crew \in [Source -> SUBSET Carrier]
    BY DEF HarvestInv, HarvestTypeOK
  <1>2. Now(c) \in Turn /\ Now(c).w = worker[c] /\ Now(c).crews = crew
    BY <1>1 DEF Now, Turn
  <1>3. \A s \in standing \cap Source :
          c \in crew[s] <=> worker[c].life # "gone" /\ worker[c].job.trip = s
    BY DEF HarvestInv, CrewsMatch
  <1>4. worker[c].life = "alive" /\ worker[c].body = "inside" =>
          worker[c].job.trip \in standing /\ c \in crew[worker[c].job.trip]
    BY DEF HarvestInv, HiddenAtWork, Lives
  <1> QED
    BY <1>2, <1>3, <1>4 DEF Sound

\* What leaves the trip, the body and the crews alone is sound.
LEMMA SoundEdit ==
  ASSUME NEW c \in Carrier, NEW x, Sound(c, x), NEW y \in Turn,
         y.crews = x.crews, y.w.life = x.w.life, y.w.body = x.w.body,
         y.w.job.trip = x.w.job.trip
  PROVE  Sound(c, y)
  BY DEF Sound

\* A body that came back is on the map, or off it in no source.
LEMMA ReturnedBody ==
  ASSUME NEW w \in Worker
  PROVE  /\ Returned(w) \in Worker
         /\ Returned(w).life = w.life /\ Returned(w).job = w.job
         /\ w.life = "alive" => Returned(w).body # "inside"
  BY DEF Returned, OffMap, Worker

\* A trip put down.
LEMMA SoundStopWork ==
  ASSUME NEW c \in Carrier, NEW x, Sound(c, x)
  PROVE  /\ StopWork(x, c) \in Turn
         /\ StopWork(x, c).w.life = x.w.life /\ StopWork(x, c).w.job.trip = "none"
         /\ StopWork(x, c).w.body = x.w.body
         /\ \A s \in Source : /\ StopWork(x, c).crews[s] \ {c} = crew[s] \ {c}
                              /\ StopWork(x, c).crews[s] \subseteq x.crews[s]
         /\ \A s \in standing \cap Source : c \notin StopWork(x, c).crews[s]
  <1> DEFINE w == [x.w EXCEPT !.job.trip = "none", !.job.progress = 0]
             crews == IF x.w.job.trip \in standing
                      THEN [x.crews EXCEPT ![x.w.job.trip] = @ \ {c}] ELSE x.crews
  <1>1. x.w \in Worker /\ x.w.job \in Job /\ x.crews \in [Source -> SUBSET Carrier]
    BY DEF Sound, Turn, Worker
  <1>2. w \in Worker /\ w.life = x.w.life /\ w.job.trip = "none" /\ w.body = x.w.body
    BY <1>1 DEF Worker, Job
  <1>3. crews \in [Source -> SUBSET Carrier]
    BY <1>1
  <1>4. \A s \in Source : crews[s] \ {c} = crew[s] \ {c} /\ crews[s] \subseteq x.crews[s]
    BY <1>1 DEF Sound
  <1>5. \A s \in standing \cap Source : c \notin crews[s]
    BY <1>1 DEF Sound
  <1>6. StopWork(x, c) = [w |-> w, crews |-> crews]
    BY DEF StopWork
  <1> HIDE DEF w, crews
  <1> QED
    BY <1>2, <1>3, <1>4, <1>5, <1>6 DEF Turn

LEMMA SoundEndTrip ==
  ASSUME NEW c \in Carrier, NEW x, Sound(c, x)
  PROVE  /\ Sound(c, EndTrip(x, c)) /\ EndTrip(x, c).w.job.trip = "none"
         /\ EndTrip(x, c).w.life = x.w.life
         /\ x.w.life = "alive" => EndTrip(x, c).w.body # "inside"
  <1> DEFINE y == StopWork(x, c)
             z == EndTrip(x, c)
  <1>1. z = [y EXCEPT !.w = Returned(y.w)] /\ y \in Turn
    BY SoundStopWork DEF EndTrip
  <1>2. z \in Turn /\ z.w = Returned(y.w) /\ z.crews = y.crews
    BY <1>1, ReturnedBody DEF Turn
  <1>3. y.w \in Worker
    BY <1>1 DEF Turn
  <1>4. /\ z.w.life = x.w.life /\ z.w.job.trip = "none"
        /\ x.w.life = "alive" => z.w.body # "inside"
    BY <1>2, <1>3, SoundStopWork, ReturnedBody
  <1>5. \A s \in standing \cap Source : z.crews[s] \subseteq crew[s] /\ c \notin z.crews[s]
    BY <1>2, SoundStopWork DEF Sound
  <1>6. \A s \in Source : z.crews[s] \ {c} = crew[s] \ {c}
    BY <1>2, SoundStopWork
  <1> HIDE DEF y, z
  <1>7. Sound(c, z)
    BY <1>2, <1>4, <1>5, <1>6, Names DEF Sound
  <1> QED
    BY <1>4, <1>7 DEF z

LEMMA SoundUnemployed ==
  ASSUME NEW c \in Carrier, NEW x, Sound(c, x)
  PROVE  /\ Sound(c, Unemployed(x, c)) /\ Unemployed(x, c).w.job.trip = "none"
         /\ Unemployed(x, c).w.job = Jobless
         /\ Unemployed(x, c).w.life = x.w.life
         /\ x.w.life = "alive" => Unemployed(x, c).w.body # "inside"
  <1> DEFINE y == EndTrip(x, c)
             z == Unemployed(x, c)
  <1>1. Sound(c, y) /\ y.w.job.trip = "none" /\ y.w.life = x.w.life /\ y \in Turn
    BY SoundEndTrip DEF Sound
  <1>2. z = [y EXCEPT !.w.job = Jobless]
    BY DEF Unemployed
  <1>3. /\ z \in Turn /\ z.crews = y.crews /\ z.w.life = y.w.life /\ z.w.body = y.w.body
        /\ z.w.job = Jobless
    BY <1>1, <1>2, JoblessTyped DEF Turn, Worker
  <1>4. Jobless.trip = "none"
    BY DEF Jobless
  <1> HIDE DEF y, z
  <1>5. Sound(c, z)
    BY <1>1, <1>3, <1>4, SoundEdit
  <1> QED
    BY <1>1, <1>3, <1>4, <1>5, SoundEndTrip DEF y, z

\* A trip begun where the crew takes one more.
LEMMA SoundBeginTrip ==
  ASSUME HarvestInv, NEW c \in Carrier, NEW x, Sound(c, x), NEW s \in standing \cap Source,
         x.w.life = "alive", x.w.job.trip = "none", ~Excludes(s, c)
  PROVE  Sound(c, BeginTrip(x, c, s)) /\ BeginTrip(x, c, s).w.job.trip = s
  <1> DEFINE w == [x.w EXCEPT !.job.trip = s, !.job.progress = 0,
                     !.body = IF yard.presence = "hidden" THEN "inside" ELSE @]
             crews == [x.crews EXCEPT ![s] = @ \cup {c}]
             y == BeginTrip(x, c, s)
  <1>1. x.w \in Worker /\ x.w.job \in Job /\ x.crews \in [Source -> SUBSET Carrier]
    BY DEF Sound, Turn, Worker
  <1>2. w \in Worker /\ w.life = "alive" /\ w.job.trip = s
    BY <1>1 DEF Worker, Job
  <1>3. crews \in [Source -> SUBSET Carrier] /\ c \in crews[s]
    BY <1>1
  <1>4. \A r \in Source : crews[r] \ {c} = crew[r] \ {c}
    BY <1>1 DEF Sound
  <1>5. \A r \in standing \cap Source : c \in crews[r] <=> r = s
    BY <1>1, Names DEF Sound
  <1>6. crews[s] = crew[s] \cup {c} /\ \A r \in Source \ {s} : crews[r] = x.crews[r]
    BY <1>1, <1>4
  <1>7. y = [w |-> w, crews |-> crews]
    BY DEF BeginTrip
  <1>8. y \in Turn /\ y.w = w /\ y.crews = crews
    BY <1>2, <1>3, <1>7 DEF Turn
  <1> HIDE DEF w, crews, y
  <1>9. \A r \in standing \cap Source :
          \/ crews[r] \subseteq crew[r]
          \/ ~Excludes(r, c) /\ crews[r] = crew[r] \cup {c}
    BY <1>6 DEF Sound
  <1>10. Sound(c, y)
    BY <1>2, <1>3, <1>4, <1>5, <1>8, <1>9 DEF Sound
  <1> QED
    BY <1>2, <1>8, <1>10 DEF y

-----------------------------------------------------------------------------
(***************************************************************************)
(* The invariant, of any carriers, crews and places alive.                 *)
(***************************************************************************)

CrowdIn(workers, hands) == {c \in hands : workers[c].life = "alive"}

Fine(workers, crews, alive) ==
  /\ workers \in [Carrier -> Worker] /\ crews \in [Source -> SUBSET Carrier]
  /\ \A s \in alive \cap Source :
       crews[s] = {c \in Carrier : workers[c].life # "gone" /\ workers[c].job.trip = s}
  /\ \A c \in Carrier : workers[c].life = "alive" /\ workers[c].body = "inside" =>
       workers[c].job.trip \in alive /\ c \in crews[workers[c].job.trip]
  /\ \A s \in alive \cap Source : \A c \in CrowdIn(workers, crews[s]) :
       Cardinality(CrowdIn(workers, crews[s])) <= yard.limit[c]

LEMMA FineNow == HarvestInv => Fine(worker, crew, standing)
  BY DEF HarvestInv, HarvestTypeOK, CrewsMatch, HiddenAtWork, CrewsFit, Fine, CrowdIn, Lives

LEMMA FineNext ==
  ASSUME Fine(worker', crew', standing'), UNCHANGED yard
  PROVE  CrewsMatch' /\ HiddenAtWork' /\ CrewsFit'
  BY DEF CrewsMatch, HiddenAtWork, CrewsFit, Fine, CrowdIn, Lives

\* A crew that lost some fits as it did.
LEMMA FewerFit ==
  ASSUME NEW S \in SUBSET Carrier, NEW T \in SUBSET S, NEW n \in Nat, Cardinality(S) <= n
  PROVE  Cardinality(T) <= n
  <1>1. IsFiniteSet(S) /\ IsFiniteSet(T) /\ Cardinality(T) <= Cardinality(S)
    BY HarvestAssumption, FS_Subset
  <1>2. Cardinality(S) \in Nat /\ Cardinality(T) \in Nat
    BY <1>1, FS_CardinalityType
  <1> QED
    BY <1>1, <1>2

LEMMA LimitTyped == HarvestInv => \A c \in Carrier : yard.limit[c] \in Nat
  BY YardsAssumption DEF HarvestInv, HarvestTypeOK

\* A sound turn of one carrier.
LEMMA FineTurn ==
  ASSUME HarvestInv, NEW c \in Carrier, NEW x, Sound(c, x)
  PROVE  Fine([worker EXCEPT ![c] = x.w], x.crews, standing)
  <1> DEFINE ws == [worker EXCEPT ![c] = x.w]
  <1>1. x.w \in Worker /\ x.crews \in [Source -> SUBSET Carrier] /\ x.w.life = worker[c].life
    BY DEF Sound, Turn
  <1>2. Fine(worker, crew, standing)
    BY FineNow
  <1>3. /\ ws \in [Carrier -> Worker] /\ ws[c] = x.w
        /\ \A d \in Carrier \ {c} : ws[d] = worker[d]
        /\ \A d \in Carrier : ws[d].life = worker[d].life
    BY <1>1, <1>2 DEF Fine
  <1> HIDE DEF ws
  <1>4. ASSUME NEW s \in standing \cap Source
        PROVE  x.crews[s] = {d \in Carrier : ws[d].life # "gone" /\ ws[d].job.trip = s}
    <2>1. x.crews[s] \ {c} = crew[s] \ {c} /\ x.crews[s] \subseteq Carrier
      BY <1>1 DEF Sound
    <2>2. c \in x.crews[s] <=> ws[c].life # "gone" /\ ws[c].job.trip = s
      BY <1>3 DEF Sound
    <2>3. \A d \in Carrier \ {c} :
            d \in crew[s] <=> ws[d].life # "gone" /\ ws[d].job.trip = s
      BY <1>2, <1>3 DEF Fine
    <2> QED
      BY <2>1, <2>2, <2>3
  <1>5. ASSUME NEW d \in Carrier, ws[d].life = "alive", ws[d].body = "inside"
        PROVE  ws[d].job.trip \in standing /\ d \in x.crews[ws[d].job.trip]
    <2>1. CASE d = c
      BY <1>3, <1>5, <2>1 DEF Sound
    <2>2. CASE d # c
      <3>1. worker[d].job.trip \in standing /\ d \in crew[worker[d].job.trip]
        BY <1>2, <1>3, <1>5, <2>2 DEF Fine
      <3>2. worker[d].job.trip \in Source
        BY <1>2, <3>1, Names DEF Fine, Worker, Job, HarvestInv, HarvestTypeOK
      <3> QED
        BY <1>3, <2>2, <3>1, <3>2 DEF Sound
    <2> QED
      BY <2>1, <2>2
  <1>6. ASSUME NEW s \in standing \cap Source, NEW d \in CrowdIn(ws, x.crews[s])
        PROVE  Cardinality(CrowdIn(ws, x.crews[s])) <= yard.limit[d]
    <2>1. d \in Carrier /\ yard.limit[d] \in Nat /\ x.crews[s] \subseteq Carrier
      BY <1>1, LimitTyped DEF CrowdIn
    <2>2. CASE x.crews[s] \subseteq crew[s]
      <3>1. CrowdIn(ws, x.crews[s]) \subseteq CrowdIn(worker, crew[s])
        BY <1>3, <2>1, <2>2 DEF CrowdIn
      <3>2. Cardinality(CrowdIn(worker, crew[s])) <= yard.limit[d]
        BY <1>2, <3>1 DEF Fine
      <3>3. CrowdIn(worker, crew[s]) \subseteq Carrier
        BY <1>2 DEF Fine, CrowdIn
      <3> QED
        BY <2>1, <3>1, <3>2, <3>3, FewerFit
    <2>3. CASE ~Excludes(s, c) /\ x.crews[s] = crew[s] \cup {c}
      <3> DEFINE crowd == {y \in crew[s] : Lives(y)} \cup {c}
      <3>1. CrowdIn(ws, x.crews[s]) \subseteq crowd
        BY <1>3, <2>1, <2>3 DEF CrowdIn, Lives
      <3>2. crowd \subseteq Carrier
        BY <1>2 DEF Fine
      <3>3. ~(yard.limit[d] < Cardinality(crowd))
        BY <2>3, <3>1 DEF Excludes
      <3>4. Cardinality(crowd) \in Nat
        BY <3>2, HarvestAssumption, FS_Subset, FS_CardinalityType
      <3>5. Cardinality(crowd) <= yard.limit[d]
        BY <2>1, <3>3, <3>4
      <3> QED
        BY <2>1, <3>1, <3>2, <3>5, FewerFit
    <2> QED
      BY <2>2, <2>3 DEF Sound
  <1> QED
    BY <1>1, <1>3, <1>4, <1>5, <1>6 DEF Fine, ws

\* A source on its way out, with everyone inside it let out.
LEMMA FineSettled ==
  ASSUME NEW workers, NEW crews, NEW alive, Fine(workers, crews, alive), NEW s \in Source
  PROVE  Fine(SettleWorkers(workers, crews[s]), crews, alive \ {s})
  <1> DEFINE ws == SettleWorkers(workers, crews[s])
  <1>1. workers \in [Carrier -> Worker] /\ crews \in [Source -> SUBSET Carrier]
    BY DEF Fine
  <1>2. ws = [c \in Carrier |-> IF c \in crews[s] THEN Returned(workers[c]) ELSE workers[c]]
    BY DEF SettleWorkers
  <1>3. \A c \in Carrier :
          /\ ws[c] \in Worker /\ ws[c].life = workers[c].life /\ ws[c].job = workers[c].job
          /\ ws[c].life = "alive" /\ ws[c].body = "inside" =>
               c \notin crews[s] /\ ws[c] = workers[c]
    BY <1>1, <1>2, ReturnedBody
  <1>4. ws \in [Carrier -> Worker]
    BY <1>2, <1>3
  <1> HIDE DEF ws
  <1>5. \A r \in Source : CrowdIn(ws, crews[r]) = CrowdIn(workers, crews[r])
    BY <1>1, <1>3 DEF CrowdIn
  <1> QED
    BY <1>1, <1>3, <1>4, <1>5 DEF Fine, ws

\* A storage gone: nobody was inside it.
LEMMA FineStorageGone ==
  ASSUME NEW workers, NEW crews, NEW alive, Fine(workers, crews, alive), NEW s \in Storage
  PROVE  Fine(workers, crews, alive \ {s})
  <1>1. \A c \in Carrier : workers[c].job.trip # s
    <2>1. workers \in [Carrier -> Worker] /\ s # "none" /\ s \notin Source
      BY Names DEF Fine, Site
    <2> QED
      BY <2>1 DEF Worker, Job
  <1> QED
    BY <1>1, Names DEF Fine

\* What changes no trip, lets nobody inside and brings nobody to life.
LEMMA FineEdit ==
  ASSUME HarvestInv, NEW ws \in [Carrier -> Worker],
         \A c \in Carrier :
           /\ ws[c].life = "alive" => worker[c].life = "alive"
           /\ ws[c].life = "gone" <=> worker[c].life = "gone"
           /\ ws[c].job.trip = worker[c].job.trip
           /\ ws[c].life = "alive" /\ ws[c].body = "inside" => worker[c].body = "inside"
  PROVE  Fine(ws, crew, standing)
  <1>1. Fine(worker, crew, standing)
    BY FineNow
  <1>2. ASSUME NEW s \in standing \cap Source, NEW c \in CrowdIn(ws, crew[s])
        PROVE  Cardinality(CrowdIn(ws, crew[s])) <= yard.limit[c]
    <2>1. CrowdIn(ws, crew[s]) \subseteq CrowdIn(worker, crew[s])
      BY <1>1 DEF Fine, CrowdIn
    <2>2. CrowdIn(worker, crew[s]) \subseteq Carrier /\ yard.limit[c] \in Nat
      BY <1>1, <2>1, LimitTyped DEF Fine, CrowdIn
    <2>3. Cardinality(CrowdIn(worker, crew[s])) <= yard.limit[c]
      BY <1>1, <2>1 DEF Fine
    <2> QED
      BY <2>1, <2>2, <2>3, FewerFit
  <1> QED
    BY <1>1, <1>2 DEF Fine

-----------------------------------------------------------------------------
(***************************************************************************)
(* The carrier's turn.                                                     *)
(***************************************************************************)

\* What the sources and the players hold has its type.
Stores ==
  /\ left \in [Source -> Nat] /\ standing \subseteq Site
  /\ bank \in [Side -> [KindsOfResource -> Nat]]

LEMMA StoresNow == HarvestInv => Stores
  BY DEF HarvestInv, HarvestTypeOK, Stores

LEMMA SettlesFine ==
  ASSUME HarvestInv, NEW c \in Carrier, NEW x, Sound(c, x), Settles(c, x)
  PROVE  Fine(worker', crew', standing') /\ Stores'
  BY FineTurn, StoresNow DEF Settles, Puts, Stores

\* The order waits, walks, or settles on another source.
LEMMA SoundOrder ==
  ASSUME NEW c \in Carrier, NEW x, Sound(c, x)
  PROVE  /\ Sound(c, WaitsOut(x))
         /\ \A t \in Site : Sound(c, [x EXCEPT !.w.job.walk = t])
         /\ \A s \in Source : LET y == [x EXCEPT !.w.job.settled = s] IN
              Sound(c, y) /\ y.w.job.trip = x.w.job.trip /\ y.w.life = x.w.life
  <1>1. x \in Turn /\ x.w \in Worker /\ x.w.job \in Job
    BY DEF Sound, Turn, Worker
  <1>2. Sound(c, WaitsOut(x))
    <2> DEFINE y == WaitsOut(x)
    <2>1. RetryPeriod \in 0 .. RetryPeriod
      BY HarvestAssumption
    <2>2. y \in Turn
      BY <1>1, <2>1 DEF WaitsOut, Turn, Worker, Job
    <2>3. /\ y.crews = x.crews /\ y.w.life = x.w.life /\ y.w.body = x.w.body
          /\ y.w.job.trip = x.w.job.trip
      BY <1>1 DEF WaitsOut, Turn, Worker, Job
    <2> QED
      BY <2>2, <2>3, SoundEdit
  <1>3. ASSUME NEW t \in Site PROVE Sound(c, [x EXCEPT !.w.job.walk = t])
    <2> DEFINE y == [x EXCEPT !.w.job.walk = t]
    <2>1. y \in Turn
      BY <1>1 DEF Turn, Worker, Job
    <2>2. /\ y.crews = x.crews /\ y.w.life = x.w.life /\ y.w.body = x.w.body
          /\ y.w.job.trip = x.w.job.trip
      BY <1>1 DEF Turn, Worker, Job
    <2> HIDE DEF y
    <2>3. Sound(c, y)
      BY <2>1, <2>2, SoundEdit
    <2> QED
      BY <2>3 DEF y
  <1>4. ASSUME NEW s \in Source
        PROVE  LET y == [x EXCEPT !.w.job.settled = s] IN
               Sound(c, y) /\ y.w.job.trip = x.w.job.trip /\ y.w.life = x.w.life
    <2> DEFINE y == [x EXCEPT !.w.job.settled = s]
    <2>1. y \in Turn
      BY <1>1 DEF Turn, Worker, Job
    <2>2. /\ y.crews = x.crews /\ y.w.life = x.w.life /\ y.w.body = x.w.body
          /\ y.w.job.trip = x.w.job.trip
      BY <1>1 DEF Turn, Worker, Job
    <2> HIDE DEF y
    <2>3. Sound(c, y)
      BY <2>1, <2>2, SoundEdit
    <2> QED
      BY <2>2, <2>3 DEF y
  <1> QED
    BY <1>2, <1>3, <1>4

\* What is looked for is found alive, or not at all.
LEMMA SourceFound ==
  ASSUME NEW w, NEW s
  PROVE  /\ s \in ResolveSource(w) => s = "none" \/ s \in standing \cap Source
         /\ \A e : s \in NearestSource(w, e) => s = "none" \/ s \in standing \cap Source
  BY Zenon DEF ResolveSource, NearestSource, Nearest, Matches

LEMMA StorageFound ==
  ASSUME NEW w, NEW t, t \in ResolveStorage(w)
  PROVE  t = "none" \/ t \in Site
  BY DEF ResolveStorage, Nearest, Takes, Site

\* An account credited.
LEMMA Credit ==
  ASSUME NEW K, NEW f \in [K -> Nat], NEW k, NEW n \in Nat
  PROVE  [f EXCEPT ![k] = f[k] + n] \in [K -> Nat]
  <1>1. CASE k \in K
    <2>1. f[k] + n \in Nat
      BY <1>1
    <2> QED
      BY <2>1
  <1>2. CASE k \notin K
    <2>1. [f EXCEPT ![k] = f[k] + n] = f
      BY <1>2
    <2> QED
      BY <2>1
  <1> QED
    BY <1>1, <1>2

\* A load banked.
LEMMA BankLoadFine ==
  ASSUME HarvestInv, NEW c \in Carrier, NEW x, Sound(c, x), BankLoad(c, x),
         UNCHANGED <<left, standing>>
  PROVE  Fine(worker', crew', standing') /\ Stores'
  <1> DEFINE y == [x EXCEPT !.w.hand = Empty, !.w.job.delivered = TRUE]
  <1>1. x \in Turn /\ x.w \in Worker /\ x.w.job \in Job /\ x.w.hand \in Load
    BY DEF Sound, Turn, Worker
  <1>2. Empty \in Load
    BY DEF Empty, Load
  <1>3. y \in Turn
    BY <1>1, <1>2 DEF Turn, Worker, Job
  <1>4. /\ y.crews = x.crews /\ y.w.life = x.w.life /\ y.w.body = x.w.body
        /\ y.w.job.trip = x.w.job.trip
    BY <1>1 DEF Turn, Worker, Job
  <1>5. Puts(c, y)
    BY DEF BankLoad
  <1> HIDE DEF y
  <1>6. Fine(worker', crew', standing')
    BY <1>3, <1>4, <1>5, SoundEdit, FineTurn DEF Puts
  <1>7. bank' = [bank EXCEPT ![x.w.side][x.w.hand.kind] = @ + x.w.hand.n]
    BY DEF BankLoad
  <1>8. x.w.hand.n \in Nat
    BY <1>1 DEF Load
  <1>9. bank' \in [Side -> [KindsOfResource -> Nat]]
    <2>1. bank \in [Side -> [KindsOfResource -> Nat]] /\ x.w.side \in Side
      BY <1>1, StoresNow DEF Stores, Worker
    <2> DEFINE account == [bank[x.w.side] EXCEPT ![x.w.hand.kind] = @ + x.w.hand.n]
    <2>2. account \in [KindsOfResource -> Nat]
      <3>1. bank[x.w.side] \in [KindsOfResource -> Nat]
        BY <2>1
      <3> QED
        BY <1>8, <3>1, Credit
    <2> QED
      BY <1>7, <2>1, <2>2
  <1> QED
    BY <1>6, <1>9, StoresNow DEF Stores

LEMMA DeliverFine ==
  ASSUME HarvestInv, NEW c \in Carrier, NEW x, Sound(c, x), Deliver(c, x)
  PROVE  Fine(worker', crew', standing') /\ Stores'
  <1> DEFINE y == EndTrip(x, c)
  <1>1. Sound(c, y)
    BY SoundEndTrip
  <1>2. \/ Settles(c, y)
        \/ \E t \in ResolveStorage(y.w) :
             \/ Settles(c, Unemployed(y, c))
             \/ BankLoad(c, y) /\ UNCHANGED <<left, standing>>
             \/ Settles(c, WaitsOut(y))
             \/ t # "none" /\ Settles(c, [y EXCEPT !.w.job.walk = t])
    BY Zenon DEF Deliver
  <1> HIDE DEF y
  <1>3. CASE Settles(c, y)
    BY <1>1, <1>3, SettlesFine
  <1>4. CASE Settles(c, Unemployed(y, c))
    BY <1>1, <1>4, SoundUnemployed, SettlesFine
  <1>5. CASE BankLoad(c, y) /\ UNCHANGED <<left, standing>>
    BY <1>1, <1>5, BankLoadFine
  <1>6. CASE Settles(c, WaitsOut(y))
    BY <1>1, <1>6, SoundOrder, SettlesFine
  <1>7. ASSUME NEW t \in ResolveStorage(y.w), t # "none",
               Settles(c, [y EXCEPT !.w.job.walk = t])
        PROVE  Fine(worker', crew', standing') /\ Stores'
    <2>1. Sound(c, [y EXCEPT !.w.job.walk = t])
      BY <1>1, <1>7, StorageFound, SoundOrder
    <2> QED
      BY <1>7, <2>1, SettlesFine
  <1> QED
    BY <1>2, <1>3, <1>4, <1>5, <1>6, <1>7

\* What a trip takes is there to be taken.
LEMMA DrainBound ==
  ASSUME HarvestInv, NEW w \in Worker, NEW s \in Source
  PROVE  /\ Kept(w, s) \in Nat /\ Take(w, s) \in Nat
         /\ Drained(w, s) \in Nat /\ Drained(w, s) <= left[s]
  <1>1. yard.capacity \in Nat /\ yard.drain \in Nat /\ left[s] \in Nat
    BY YardsAssumption DEF HarvestInv, HarvestTypeOK
  <1>2. Kept(w, s) \in Nat
    BY DEF Kept, Worker, Load
  <1>3. Room(w, s) \in Nat
    BY <1>1, <1>2 DEF Room
  <1>4. ASSUME NEW m \in Nat, NEW n \in Nat
        PROVE  Min({m, n}) \in Nat /\ Min({m, n}) <= m /\ Min({m, n}) <= n
    <2>1. \E i \in {m, n} : \A j \in {m, n} : i <= j
      BY <1>4
    <2>2. Min({m, n}) \in {m, n} /\ \A j \in {m, n} : Min({m, n}) <= j
      BY <2>1 DEF Min
    <2> QED
      BY <1>4, <2>2
  <1>5. Take(w, s) \in Nat /\ (yard.drain # 0 => Take(w, s) <= left[s])
    BY <1>1, <1>3, <1>4 DEF Take
  <1>6. /\ Drained(w, s) \in Nat /\ Drained(w, s) <= yard.drain
        /\ Drained(w, s) <= Take(w, s)
    BY <1>1, <1>4, <1>5 DEF Drained
  <1> QED
    BY <1>1, <1>2, <1>5, <1>6

\* A load changes hands, and a source mined out may go.
LEMMA TransferFine ==
  ASSUME HarvestInv, NEW c \in Carrier, NEW x, Sound(c, x), x.w.job.trip \in Source,
         Transfer(c, x)
  PROVE  Fine(worker', crew', standing') /\ Stores'
  <1> DEFINE s == x.w.job.trip
             laden == [x EXCEPT !.w.hand = [kind |-> KindOf[s], n |-> Kept(x.w, s) + Take(x.w, s)]]
             idle == [x EXCEPT !.w.job.progress = 0]
             y == IF yard.banking = "carried" THEN EndTrip(laden, c) ELSE idle
             rest == left[s] - Drained(x.w, s)
             workers == [worker EXCEPT ![c] = y.w]
  <1>1. x \in Turn /\ x.w \in Worker /\ x.w.job \in Job /\ x.w.side \in Side
    BY DEF Sound, Turn, Worker
  <1>2. Kept(x.w, s) \in Nat /\ Take(x.w, s) \in Nat /\ rest \in Nat
    <2>1. left[s] \in Nat
      BY StoresNow DEF Stores
    <2> QED
      BY <1>1, <2>1, DrainBound
  <1>3. Sound(c, laden)
    <2>1. [kind |-> KindOf[s], n |-> Kept(x.w, s) + Take(x.w, s)] \in Load
      BY <1>2 DEF Load, KindsOfResource
    <2> HIDE DEF s
    <2>2. laden \in Turn
      BY <1>1, <2>1 DEF Turn, Worker
    <2>3. /\ laden.crews = x.crews /\ laden.w.life = x.w.life /\ laden.w.body = x.w.body
          /\ laden.w.job.trip = x.w.job.trip
      BY <1>1 DEF Turn, Worker
    <2> HIDE DEF laden
    <2> QED
      BY <2>2, <2>3, SoundEdit
  <1>4. Sound(c, idle)
    <2>1. idle \in Turn
      BY <1>1 DEF Turn, Worker, Job
    <2>2. /\ idle.crews = x.crews /\ idle.w.life = x.w.life /\ idle.w.body = x.w.body
          /\ idle.w.job.trip = x.w.job.trip
      BY <1>1 DEF Turn, Worker, Job
    <2> HIDE DEF idle
    <2> QED
      BY <2>1, <2>2, SoundEdit
  <1>5. /\ left' = [left EXCEPT ![s] = rest] /\ crew' = y.crews
        /\ bank' = IF yard.banking = "carried" THEN bank
                   ELSE [bank EXCEPT ![x.w.side][KindOf[s]] = @ + Take(x.w, s)]
        /\ \/ standing' = standing \ {s} /\ worker' = SettleWorkers(workers, y.crews[s])
           \/ standing' = standing /\ worker' = workers
    BY Zenon DEF Transfer
  <1> HIDE DEF laden, idle, rest
  <1>6. Sound(c, y)
    BY <1>3, <1>4, SoundEndTrip
  <1> HIDE DEF y, s
  <1>7. Fine(workers, y.crews, standing)
    BY <1>6, FineTurn
  <1> HIDE DEF workers
  <1>8. Fine(worker', crew', standing')
    BY <1>5, <1>7, FineSettled DEF s
  <1>9. bank' \in [Side -> [KindsOfResource -> Nat]]
    <2>1. bank \in [Side -> [KindsOfResource -> Nat]] /\ bank[x.w.side] \in [KindsOfResource -> Nat]
      BY <1>1, StoresNow DEF Stores
    <2> DEFINE account == [bank[x.w.side] EXCEPT ![KindOf[s]] = @ + Take(x.w, s)]
    <2>2. account \in [KindsOfResource -> Nat]
      BY <1>2, <2>1, Credit
    <2>3. bank' = bank \/ bank' = [bank EXCEPT ![x.w.side] = account]
      BY <1>5
    <2> HIDE DEF account
    <2> QED
      BY <2>1, <2>2, <2>3
  <1>10. left' \in [Source -> Nat] /\ standing' \subseteq Site
    BY <1>2, <1>5, StoresNow DEF Stores
  <1> QED
    BY <1>8, <1>9, <1>10 DEF Stores

\* A tick at a source alive, on a trip there or on none.
LEMMA WorkSourceFine ==
  ASSUME HarvestInv, NEW c \in Carrier, NEW x, Sound(c, x), NEW s \in standing \cap Source,
         x.w.life = "alive", x.w.job.trip \in {"none", s}, WorkSource(c, x, s)
  PROVE  Fine(worker', crew', standing') /\ Stores'
  <1> DEFINE y == IF x.w.job.trip = s THEN x ELSE BeginTrip(x, c, s)
             z == [y EXCEPT !.w.job.progress = @ + 1]
  <1>1. CASE x.w.job.trip # s /\ Excludes(s, c)
    BY <1>1, SettlesFine DEF WorkSource
  <1>2. CASE ~(x.w.job.trip # s /\ Excludes(s, c))
    <2>1. Transfer(c, z) \/ Settles(c, z)
      BY <1>2, Zenon DEF WorkSource
    <2>2. Sound(c, y) /\ y.w.job.trip = s
      BY <1>2, SoundBeginTrip
    <2> HIDE DEF y
    <2>3. y \in Turn /\ y.w \in Worker /\ y.w.job \in Job
      BY <2>2 DEF Sound, Turn, Worker
    <2>4. /\ z \in Turn /\ z.crews = y.crews /\ z.w.life = y.w.life /\ z.w.body = y.w.body
          /\ z.w.job.trip = y.w.job.trip
      BY <2>3 DEF Turn, Worker, Job
    <2> HIDE DEF z
    <2>5. Sound(c, z) /\ z.w.job.trip = s
      BY <2>2, <2>4, SoundEdit
    <2> QED
      BY <2>1, <2>5, SettlesFine, TransferFine
  <1> QED
    BY <1>1, <1>2

LEMMA GoHarvestFine ==
  ASSUME HarvestInv, NEW c \in Carrier, NEW x, Sound(c, x), NEW s \in standing \cap Source,
         x.w.life = "alive", x.w.job.trip \in {"none", s}, GoHarvest(c, x, s)
  PROVE  Fine(worker', crew', standing') /\ Stores'
  <1> DEFINE y == [x EXCEPT !.w.job.settled = s]
  <1>1. Sound(c, y) /\ y.w.life = "alive" /\ y.w.job.trip \in {"none", s}
    BY SoundOrder
  <1>2. \/ WorkSource(c, y, s)
        \/ Settles(c, [y EXCEPT !.w.job.walk = s])
        \/ \E other \in NearestSource(y.w, {s}) :
             \/ Settles(c, WaitsOut(y))
             \/ other # "none" /\ Settles(c, [y EXCEPT !.w.job.settled = other])
    BY Zenon DEF GoHarvest
  <1> HIDE DEF y
  <1>3. CASE WorkSource(c, y, s)
    BY <1>1, <1>3, WorkSourceFine
  <1>4. CASE Settles(c, [y EXCEPT !.w.job.walk = s])
    <2>1. Sound(c, [y EXCEPT !.w.job.walk = s])
      BY <1>1, SoundOrder DEF Site
    <2> QED
      BY <1>4, <2>1, SettlesFine
  <1>5. CASE Settles(c, WaitsOut(y))
    BY <1>1, <1>5, SoundOrder, SettlesFine
  <1>6. ASSUME NEW other \in NearestSource(y.w, {s}), other # "none",
               Settles(c, [y EXCEPT !.w.job.settled = other])
        PROVE  Fine(worker', crew', standing') /\ Stores'
    <2>1. other \in Source
      BY <1>6, SourceFound
    <2>2. Sound(c, [y EXCEPT !.w.job.settled = other])
      BY <1>1, <2>1, SoundOrder
    <2> QED
      BY <1>6, <2>2, SettlesFine
  <1> QED
    BY <1>2, <1>3, <1>4, <1>5, <1>6

\* One look at the map.
LEMMA LookFine ==
  ASSUME HarvestInv, NEW c \in Carrier, AdvanceHarvest(c)
  PROVE  Fine(worker', crew', standing') /\ Stores'
  <1>1. PICK s \in ResolveSource(worker[c]) :
          LET lost == worker[c].job.trip \notin {"none", s}
              x == IF lost THEN EndTrip(Now(c), c) ELSE Now(c)
          IN  \/ Settles(c, x)
              \/ Deliver(c, x)
              \/ Settles(c, Unemployed(x, c))
              \/ s # "none" /\ GoHarvest(c, x, s)
    BY Zenon DEF AdvanceHarvest
  <1> DEFINE lost == worker[c].job.trip \notin {"none", s}
             x == IF lost THEN EndTrip(Now(c), c) ELSE Now(c)
  <1>2. Sound(c, Now(c)) /\ Now(c).w = worker[c] /\ worker[c].life = "alive"
    BY SoundNow DEF Now, AdvanceHarvest, Looks, Engaged, Lives
  <1>3. Sound(c, x) /\ x.w.life = "alive" /\ x.w.job.trip \in {"none", s}
    BY <1>2, SoundEndTrip
  <1>4. s = "none" \/ s \in standing \cap Source
    BY <1>1, SourceFound
  <1>5. \/ Settles(c, x) \/ Deliver(c, x) \/ Settles(c, Unemployed(x, c))
        \/ s # "none" /\ GoHarvest(c, x, s)
    BY <1>1
  <1> HIDE DEF x
  <1>6. Sound(c, Unemployed(x, c))
    BY <1>3, SoundUnemployed
  <1> QED
    BY <1>3, <1>4, <1>5, <1>6, SettlesFine, DeliverFine, GoHarvestFine

-----------------------------------------------------------------------------
(***************************************************************************)
(* The other passes.                                                       *)
(***************************************************************************)

\* One carrier's part in what all of them do at once.
Lets(c, x) ==
  /\ x \in Turn
  /\ x.w.life = "alive" => worker[c].life = "alive"
  /\ \A s \in standing \cap Source :
       /\ c \in x.crews[s] => c \in crew[s]
       /\ c \in x.crews[s] <=> x.w.life # "gone" /\ x.w.job.trip = s
  /\ x.w.life = "alive" /\ x.w.body = "inside" =>
       x.w.job.trip \in standing /\ c \in x.crews[x.w.job.trip]

LEMMA AllFine ==
  ASSUME HarvestInv, NEW x, \A c \in Carrier : Lets(c, x[c]), AllAtOnce(x)
  PROVE  Fine(worker', crew', standing)
  <1>1. /\ worker' = [c \in Carrier |-> x[c].w]
        /\ crew' = [s \in Source |-> {c \in crew[s] : c \in x[c].crews[s]}]
    BY DEF AllAtOnce
  <1>2. Fine(worker, crew, standing)
    BY FineNow
  <1>3. worker' \in [Carrier -> Worker] /\ crew' \in [Source -> SUBSET Carrier]
    BY <1>1, <1>2 DEF Lets, Turn, Fine
  <1>4. \A s \in Source : crew'[s] \subseteq crew[s] /\ crew[s] \subseteq Carrier
    BY <1>1, <1>2 DEF Fine
  <1>5. \A s \in standing \cap Source : \A c \in Carrier :
          c \in crew'[s] <=> worker'[c].life # "gone" /\ worker'[c].job.trip = s
    BY <1>1 DEF Lets
  <1>6. ASSUME NEW c \in Carrier, worker'[c].life = "alive", worker'[c].body = "inside"
        PROVE  worker'[c].job.trip \in standing /\ c \in crew'[worker'[c].job.trip]
    <2>1. worker'[c].job.trip \in standing
      BY <1>1, <1>6 DEF Lets
    <2>2. worker'[c].job.trip \in Source
      BY <1>3, <2>1, Names DEF Worker, Job, HarvestInv, HarvestTypeOK
    <2> QED
      BY <1>5, <1>6, <2>1, <2>2
  <1>7. ASSUME NEW s \in standing \cap Source, NEW c \in CrowdIn(worker', crew'[s])
        PROVE  Cardinality(CrowdIn(worker', crew'[s])) <= yard.limit[c]
    <2>1. CrowdIn(worker', crew'[s]) \subseteq CrowdIn(worker, crew[s])
      BY <1>1, <1>4 DEF Lets, CrowdIn
    <2>2. CrowdIn(worker, crew[s]) \subseteq Carrier /\ yard.limit[c] \in Nat
      BY <1>4, <2>1, LimitTyped DEF CrowdIn
    <2>3. Cardinality(CrowdIn(worker, crew[s])) <= yard.limit[c]
      BY <1>2, <2>1 DEF Fine
    <2> QED
      BY <2>1, <2>2, <2>3, FewerFit
  <1> QED
    BY <1>3, <1>4, <1>5, <1>6, <1>7 DEF Fine

\* Whoever ends a trip or stays on it takes part as it should.
LEMMA LetsSound ==
  ASSUME NEW c \in Carrier, NEW x, Sound(c, x), x.w.job.trip = "none" \/ x.crews = crew
  PROVE  Lets(c, x)
  BY Names DEF Sound, Lets

LEMMA LetsNow ==
  ASSUME HarvestInv, NEW c \in Carrier
  PROVE  Lets(c, Now(c))
  BY SoundNow, LetsSound DEF Now

LEMMA FlushDyingFine ==
  ASSUME HarvestInv, FlushDying
  PROVE  Fine(worker', crew', standing')
  <1> DEFINE quit(c) == LET x == Unemployed(Now(c), c)
                        IN  [x EXCEPT !.w.life = "gone", !.w.hand = Empty]
             x == [c \in Carrier |-> IF worker[c].life = "dying" THEN quit(c) ELSE Now(c)]
  <1>1. AllAtOnce(x) /\ standing' = standing
    BY Zenon DEF FlushDying, PassEnds
  <1>2. ASSUME NEW c \in Carrier PROVE Lets(c, quit(c))
    <2> DEFINE y == Unemployed(Now(c), c)
    <2>1. Sound(c, y) /\ y.w.job.trip = "none" /\ y \in Turn /\ Empty \in Load
      BY SoundNow, SoundUnemployed DEF Sound, Empty, Load
    <2> DEFINE z == [y EXCEPT !.w.life = "gone"]
    <2>2. quit(c) = [z EXCEPT !.w.hand = Empty]
      OBVIOUS
    <2> HIDE DEF y, quit
    <2>3. /\ z \in Turn /\ z.w.life = "gone" /\ z.crews = y.crews /\ z.w.job = y.w.job
      BY <2>1 DEF Turn, Worker
    <2> HIDE DEF z
    <2>4. /\ quit(c) \in Turn /\ quit(c).w.life = z.w.life /\ quit(c).crews = z.crews
          /\ quit(c).w.job = z.w.job
      BY <2>1, <2>2, <2>3 DEF Turn, Worker
    <2>5. /\ quit(c) \in Turn /\ quit(c).w.life = "gone" /\ quit(c).crews = y.crews
          /\ quit(c).w.job.trip = "none"
      BY <2>1, <2>3, <2>4
    <2>6. \A s \in standing \cap Source : c \notin y.crews[s]
      BY <2>1, Names DEF Sound
    <2> QED
      BY <2>5, <2>6 DEF Lets
  <1>3. \A c \in Carrier : x[c] = quit(c) \/ x[c] = Now(c)
    OBVIOUS
  <1> HIDE DEF x, quit
  <1>4. \A c \in Carrier : Lets(c, x[c])
    BY <1>2, <1>3, LetsNow
  <1> QED
    BY <1>1, <1>4, AllFine

LEMMA PreparedFine ==
  ASSUME HarvestInv, PrepareAll
  PROVE  Fine(worker', crew', standing')
  <1> DEFINE x == [c \in Carrier |-> Prepared(c)]
  <1>1. AllAtOnce(x) /\ standing' = standing
    BY DEF PrepareAll, PassEnds
  <1>2. ASSUME NEW c \in Carrier PROVE Lets(c, Prepared(c))
    <2> DEFINE u == Unemployed(Now(c), c)
               y == [u EXCEPT !.w.told = "nothing"]
               target == worker[c].told
               z == [y EXCEPT !.w = Employed(y.w, target)]
    <2>1. /\ Sound(c, u) /\ u.w.job = Jobless /\ u.w.job.trip = "none"
          /\ u \in Turn /\ u.w \in Worker
      BY SoundNow, SoundUnemployed DEF Sound, Turn
    <2>2. \/ Prepared(c) = Now(c) \/ Prepared(c) = y
          \/ Prepared(c) = z /\ target \in standing
      BY Zenon DEF Prepared, CanHarvest
    <2> HIDE DEF u
    <2>3. /\ y \in Turn /\ y.crews = u.crews /\ y.w.life = u.w.life /\ y.w.body = u.w.body
          /\ y.w.job = u.w.job
      BY <2>1 DEF Turn, Worker
    <2> HIDE DEF y
    <2>4. Sound(c, y)
      BY <2>1, <2>3, SoundEdit
    <2>5. ASSUME target \in standing PROVE Sound(c, z) /\ z.w.job.trip = "none"
      <3> DEFINE job == [Jobless EXCEPT
                   !.order = target,
                   !.kind = IF target \in Source THEN KindOf[target] ELSE y.w.hand.kind,
                   !.settled = IF target \in Source THEN target ELSE "none"]
      <3>1. y.w \in Worker /\ y.w.hand.kind \in KindsOfResource \cup {"none"}
        BY <2>3 DEF Turn, Worker, Load
      <3>2. target \in Site
        BY <2>5 DEF HarvestInv, HarvestTypeOK
      <3>3. job \in Job /\ job.trip = "none"
        BY <3>1, <3>2, JoblessTyped, ZenonT(40) DEF Jobless, Job, KindsOfResource
      <3>4. z = [y EXCEPT !.w = [y.w EXCEPT !.job = job]]
        BY DEF Employed
      <3> HIDE DEF z, job, target
      <3>5. /\ z \in Turn /\ z.crews = y.crews /\ z.w.life = y.w.life /\ z.w.body = y.w.body
            /\ z.w.job.trip = "none"
        BY <2>3, <3>1, <3>3, <3>4 DEF Turn, Worker
      <3> QED
        BY <2>1, <2>3, <2>4, <3>5, SoundEdit
    <2> HIDE DEF z
    <2> QED
      BY <2>1, <2>2, <2>3, <2>4, <2>5, LetsNow, LetsSound
  <1>3. \A c \in Carrier : Lets(c, x[c])
    BY <1>2
  <1> QED
    BY <1>1, <1>3, AllFine

\* A carrier's turn passes, whatever it does with it.
LEMMA AdvanceFine ==
  ASSUME HarvestInv, NEW c \in Carrier, AdvanceCarrier(c)
  PROVE  Fine(worker', crew', standing') /\ Stores'
  <1>1. worker \in [Carrier -> Worker] /\ worker[c] \in Worker
    BY DEF HarvestInv, HarvestTypeOK
  <1>2. CASE Rests(c)
    BY <1>2, FineNow, StoresNow DEF Rests, Stores
  <1>3. CASE Walks(c)
    <2> DEFINE v == [worker EXCEPT ![c].job.walk = "none",
                              ![c].near = IF worker[c].job.walk \in shut THEN @
                                          ELSE worker[c].job.walk]
    <2>1. worker' = v /\ UNCHANGED <<crew, left, bank, standing>> /\ worker[c].job.walk # "none"
      BY <1>3 DEF Walks
    <2>2. worker[c].job.walk \in Site
      BY <1>1, <2>1 DEF Worker, Job
    <2> DEFINE u == [worker EXCEPT ![c].job.walk = "none"]
               near == IF worker[c].job.walk \in shut THEN worker[c].near
                       ELSE worker[c].job.walk
    <2>3. v = [u EXCEPT ![c].near = near]
      OBVIOUS
    <2>4. near \in Site \cup {"field"}
      BY <1>1, <2>2 DEF Worker
    <2>5. /\ u \in [Carrier -> Worker] /\ \A d \in Carrier \ {c} : u[d] = worker[d]
          /\ u[c].life = worker[c].life /\ u[c].body = worker[c].body
          /\ u[c].job.trip = worker[c].job.trip
      BY <1>1 DEF Worker, Job
    <2> HIDE DEF u, v, near
    <2>6. /\ v \in [Carrier -> Worker] /\ \A d \in Carrier \ {c} : v[d] = u[d]
          /\ v[c].life = u[c].life /\ v[c].body = u[c].body /\ v[c].job = u[c].job
      BY <2>3, <2>4, <2>5 DEF Worker
    <2>7. Fine(v, crew, standing)
      BY <2>5, <2>6, FineEdit
    <2> QED
      BY <2>1, <2>7, StoresNow DEF Stores
  <1>4. CASE StandsOut(c)
    <2> DEFINE v == [worker EXCEPT ![c].job.wait = @ - 1]
    <2>1. worker' = v /\ UNCHANGED <<crew, left, bank, standing>> /\ worker[c].job.wait > 0
      BY <1>4 DEF StandsOut
    <2>2. worker[c].job.wait - 1 \in 0 .. RetryPeriod
      BY <1>1, <2>1, HarvestAssumption DEF Worker, Job
    <2>3. /\ v \in [Carrier -> Worker] /\ \A d \in Carrier \ {c} : v[d] = worker[d]
          /\ v[c].life = worker[c].life /\ v[c].body = worker[c].body
          /\ v[c].job.trip = worker[c].job.trip
      BY <1>1, <2>2 DEF Worker, Job
    <2> HIDE DEF v
    <2>4. Fine(v, crew, standing)
      BY <2>3, FineEdit
    <2> QED
      BY <2>1, <2>4, StoresNow DEF Stores
  <1>5. CASE AdvanceHarvest(c)
    BY <1>5, LookFine
  <1> QED
    BY <1>2, <1>3, <1>4, <1>5 DEF AdvanceCarrier

LEMMA RevealFine ==
  ASSUME HarvestInv, ProcessPendingReveals
  PROVE  Fine(worker', crew', standing')
  <1>1. worker \in [Carrier -> Worker]
    BY DEF HarvestInv, HarvestTypeOK
  <1>2. /\ worker' = [c \in Carrier |-> IF worker[c].body = "waiting" THEN Returned(worker[c])
                                        ELSE worker[c]]
        /\ crew' = crew /\ standing' = standing
    BY DEF ProcessPendingReveals, PassEnds
  <1>3. worker' \in [Carrier -> Worker]
    BY <1>1, <1>2, ReturnedBody
  <1>4. \A c \in Carrier :
          /\ worker'[c].life = worker[c].life /\ worker'[c].job = worker[c].job
          /\ worker'[c].life = "alive" /\ worker'[c].body = "inside" =>
               worker[c].body = "inside"
    BY <1>1, <1>2, ReturnedBody
  <1>5. Fine(worker', crew, standing)
    BY <1>3, <1>4, FineEdit
  <1> QED
    BY <1>2, <1>5

-----------------------------------------------------------------------------
(***************************************************************************)
(* What else happens.                                                      *)
(***************************************************************************)

LEMMA CommandFine ==
  ASSUME HarvestInv, NEW c \in Carrier, NEW what \in Site \cup {"stop"},
         CommandCarrier(c, what)
  PROVE  Fine(worker', crew', standing')
  <1> DEFINE v == [worker EXCEPT ![c].told = what]
  <1>1. worker \in [Carrier -> Worker] /\ worker' = v /\ UNCHANGED <<crew, standing>>
    BY DEF HarvestInv, HarvestTypeOK, CommandCarrier
  <1>2. /\ v \in [Carrier -> Worker] /\ \A d \in Carrier \ {c} : v[d] = worker[d]
        /\ v[c].life = worker[c].life /\ v[c].body = worker[c].body
        /\ v[c].job = worker[c].job
    BY <1>1 DEF Worker
  <1> HIDE DEF v
  <1>3. Fine(v, crew, standing)
    BY <1>2, FineEdit
  <1> QED
    BY <1>1, <1>3

LEMMA KillFine ==
  ASSUME HarvestInv, NEW c \in Carrier, KillCarrier(c)
  PROVE  Fine(worker', crew', standing')
  <1> DEFINE v == [worker EXCEPT ![c].life = "dying",
                              ![c].body = IF @ = "waiting" THEN "nothing" ELSE @]
  <1>1. /\ worker \in [Carrier -> Worker] /\ worker' = v /\ UNCHANGED <<crew, standing>>
        /\ worker[c].life = "alive"
    BY DEF HarvestInv, HarvestTypeOK, KillCarrier, Lives
  <1> DEFINE u == [worker EXCEPT ![c].life = "dying"]
             body == IF worker[c].body = "waiting" THEN "nothing" ELSE worker[c].body
  <1>2. v = [u EXCEPT ![c].body = body]
    OBVIOUS
  <1>3. body \in {"map", "inside", "waiting", "nothing"}
    BY <1>1 DEF Worker
  <1>4. /\ u \in [Carrier -> Worker] /\ \A d \in Carrier \ {c} : u[d] = worker[d]
        /\ u[c].life = "dying" /\ u[c].job = worker[c].job
    BY <1>1 DEF Worker
  <1> HIDE DEF u, v, body
  <1>5. /\ v \in [Carrier -> Worker] /\ \A d \in Carrier \ {c} : v[d] = u[d]
        /\ v[c].life = u[c].life /\ v[c].job = u[c].job
    BY <1>2, <1>3, <1>4 DEF Worker
  <1>6. Fine(v, crew, standing)
    BY <1>1, <1>4, <1>5, FineEdit
  <1> QED
    BY <1>1, <1>6

LEMMA DestroyFine ==
  ASSUME HarvestInv, NEW s \in Site, Destroy(s)
  PROVE  Fine(worker', crew', standing')
  <1>1. /\ standing' = standing \ {s} /\ crew' = crew
        /\ worker' = IF s \in Source THEN SettleWorkers(worker, crew[s]) ELSE worker
    BY DEF Destroy
  <1>2. CASE s \in Source
    BY <1>1, <1>2, FineNow, FineSettled
  <1>3. CASE s \notin Source
    <2>1. s \in Storage
      BY <1>3 DEF Site
    <2> QED
      BY <1>1, <1>3, <2>1, FineNow, FineStorageGone
  <1> QED
    BY <1>2, <1>3

LEMMA CaptureFine ==
  ASSUME HarvestInv, NEW c \in Carrier, NEW p \in Side, CaptureCarrier(c, p)
  PROVE  Fine(worker', crew', standing')
  <1> DEFINE x == Unemployed(Now(c), c)
             y == [x EXCEPT !.w.told = "nothing", !.w.side = p]
             z == [x EXCEPT !.w.told = "nothing"]
  <1>1. Sound(c, x) /\ x \in Turn /\ x.w \in Worker
    BY SoundNow, SoundUnemployed DEF Sound, Turn
  <1>2. Puts(c, y) /\ standing' = standing
    BY DEF CaptureCarrier
  <1> HIDE DEF x
  <1>3. y = [z EXCEPT !.w.side = p]
    OBVIOUS
  <1>4. /\ z \in Turn /\ z.crews = x.crews /\ z.w.life = x.w.life /\ z.w.body = x.w.body
        /\ z.w.job = x.w.job
    BY <1>1 DEF Turn, Worker
  <1> HIDE DEF y, z
  <1>5. /\ y \in Turn /\ y.crews = z.crews /\ y.w.life = z.w.life /\ y.w.body = z.w.body
        /\ y.w.job = z.w.job
    BY <1>3, <1>4 DEF Turn, Worker
  <1>6. Sound(c, y)
    BY <1>1, <1>4, <1>5, SoundEdit
  <1> QED
    BY <1>2, <1>6, FineTurn DEF Puts

LEMMA MoveFine ==
  ASSUME HarvestInv, NEW s \in Site, MoveSite(s)
  PROVE  Fine(worker', crew', standing')
  <1>1. /\ worker \in [Carrier -> Worker] /\ crew' = crew /\ standing' = standing
        /\ worker' = [c \in Carrier |->
             IF worker[c].near = s /\ worker[c].body = "map"
             THEN [worker[c] EXCEPT !.near = "field"] ELSE worker[c]]
    BY DEF HarvestInv, HarvestTypeOK, MoveSite
  <1>2. \A c \in Carrier :
          /\ worker'[c] \in Worker /\ worker'[c].life = worker[c].life
          /\ worker'[c].body = worker[c].body /\ worker'[c].job = worker[c].job
    BY <1>1 DEF Worker
  <1>3. worker' \in [Carrier -> Worker]
    BY <1>1, <1>2
  <1>4. Fine(worker', crew, standing)
    BY <1>2, <1>3, FineEdit
  <1> QED
    BY <1>1, <1>4

-----------------------------------------------------------------------------
(***************************************************************************)
(* The theorems.                                                           *)
(***************************************************************************)

\* The pass, the turn, the ways and the bound have their types.
Terms ==
  /\ yard \in Yards /\ shut \subseteq Site /\ crowded \in BOOLEAN
  /\ keeper \in [Storage -> Side]
  /\ pass \in {"commands", "prepare", "advance", "reveal"} /\ upNext \in Carrier
  /\ mishaps \in 0..yard.mishaps

LEMMA InvParts ==
  ASSUME Fine(worker', crew', standing'), Stores', Terms', UNCHANGED yard
  PROVE  HarvestInv'
  BY FineNext DEF Fine, Stores, Terms, HarvestInv, HarvestTypeOK

LEMMA InitHarvest == HarvestInit => HarvestInv
  <1> SUFFICES ASSUME HarvestInit PROVE HarvestInv
    OBVIOUS
  <1>1. /\ yard \in Yards /\ yard.mishaps \in Nat /\ yard.left \in [Source -> Nat]
        /\ yard.standing \subseteq Site /\ yard.hands \in [Carrier -> Load]
        /\ yard.told \in [Carrier -> Site \cup {"stop", "nothing"}]
    BY YardsAssumption DEF HarvestInit
  <1>2. 1 \in Carrier
    <2>1. Cardinality(Carrier) \in Nat /\ Cardinality(Carrier) # 0
      BY HarvestAssumption, FS_CardinalityType, FS_EmptySet
    <2> QED
      BY <2>1, HarvestAssumption
  <1>3. \A c \in Carrier : /\ worker[c] \in Worker /\ worker[c].job.trip = "none"
                           /\ worker[c].body = "map"
    BY <1>1, JoblessTyped, HarvestAssumption DEF HarvestInit, Worker, Jobless
  <1>4. worker \in [Carrier -> Worker]
    BY <1>3 DEF HarvestInit
  <1>5. bank \in [Side -> [KindsOfResource -> Nat]]
    BY DEF HarvestInit
  <1>6. keeper \in [Storage -> Side] /\ mishaps \in 0 .. yard.mishaps
    BY <1>1, HarvestAssumption DEF HarvestInit
  <1>7. HarvestTypeOK
    BY <1>1, <1>2, <1>4, <1>5, <1>6 DEF HarvestInit, HarvestTypeOK
  <1>8. CrewsMatch /\ HiddenAtWork /\ CrewsFit
    BY <1>3, Names DEF HarvestInit, CrewsMatch, HiddenAtWork, CrewsFit
  <1> QED
    BY <1>7, <1>8 DEF HarvestInv

\* What happens between the steps.
LEMMA EventHarvest ==
  ASSUME HarvestInv, HarvestEvent
  PROVE  HarvestInv'
  <1>1. Stores /\ Terms /\ yard.mishaps \in Nat /\ Fine(worker, crew, standing)
    BY FineNow, StoresNow, YardsAssumption DEF HarvestInv, HarvestTypeOK, Terms
  <1>2. ASSUME NEW c \in Carrier, NEW what \in Site \cup {"stop"}, CommandCarrier(c, what)
        PROVE  HarvestInv'
    <2>1. Fine(worker', crew', standing')
      BY <1>2, CommandFine
    <2>2. Stores' /\ Terms' /\ UNCHANGED yard
      BY <1>1, <1>2 DEF CommandCarrier, Stores, Terms
    <2> QED
      BY <2>1, <2>2, InvParts
  <1>3. ASSUME NEW c \in Carrier, KillCarrier(c) PROVE HarvestInv'
    <2>1. Fine(worker', crew', standing')
      BY <1>3, KillFine
    <2>2. Stores' /\ Terms' /\ UNCHANGED yard
      BY <1>1, <1>3 DEF KillCarrier, Mishap, Stores, Terms
    <2> QED
      BY <2>1, <2>2, InvParts
  <1>4. ASSUME NEW c \in Carrier, NEW p \in Side, CaptureCarrier(c, p) PROVE HarvestInv'
    <2>1. Fine(worker', crew', standing')
      BY <1>4, CaptureFine
    <2>2. Stores' /\ Terms' /\ UNCHANGED yard
      BY <1>1, <1>4 DEF CaptureCarrier, Mishap, Stores, Terms
    <2> QED
      BY <2>1, <2>2, InvParts
  <1>5. ASSUME NEW s \in Site, Destroy(s) PROVE HarvestInv'
    <2>1. Fine(worker', crew', standing')
      BY <1>5, DestroyFine
    <2>2. Stores' /\ Terms' /\ UNCHANGED yard
      BY <1>1, <1>5 DEF Destroy, Mishap, Stores, Terms
    <2> QED
      BY <2>1, <2>2, InvParts
  <1>6. ASSUME NEW s \in Site, MoveSite(s) PROVE HarvestInv'
    <2>1. Fine(worker', crew', standing')
      BY <1>6, MoveFine
    <2>2. Stores' /\ Terms' /\ UNCHANGED yard
      BY <1>1, <1>6 DEF MoveSite, Mishap, Stores, Terms
    <2> QED
      BY <2>1, <2>2, InvParts
  <1>7. ASSUME NEW s \in Site, ShutOrOpen(s) PROVE HarvestInv'
    <2>1. Fine(worker', crew', standing')
      BY <1>1, <1>7 DEF ShutOrOpen
    <2>2. Stores' /\ Terms' /\ UNCHANGED yard
      BY <1>1, <1>7 DEF ShutOrOpen, Mishap, Stores, Terms
    <2> QED
      BY <2>1, <2>2, InvParts
  <1>8. ASSUME NEW s \in Storage, NEW p \in Side, CaptureStorage(s, p) PROVE HarvestInv'
    <2>1. Fine(worker', crew', standing')
      BY <1>1, <1>8 DEF CaptureStorage
    <2>2. Stores' /\ Terms' /\ UNCHANGED yard
      BY <1>1, <1>8 DEF CaptureStorage, Mishap, Stores, Terms
    <2> QED
      BY <2>1, <2>2, InvParts
  <1>9. ASSUME CrowdOrClear PROVE HarvestInv'
    <2>1. Fine(worker', crew', standing')
      BY <1>1, <1>9 DEF CrowdOrClear
    <2>2. Stores' /\ UNCHANGED yard
      BY <1>1, <1>9 DEF CrowdOrClear, Mishap, Stores
    <2>3. crowded' \in BOOLEAN
      BY <1>9 DEF CrowdOrClear
    <2>4. Terms'
      BY <1>1, <1>9, <2>3 DEF CrowdOrClear, Mishap, Terms
    <2> QED
      BY <2>1, <2>2, <2>4, InvParts
  <1> QED
    BY <1>2, <1>3, <1>4, <1>5, <1>6, <1>7, <1>8, <1>9 DEF HarvestEvent

\* The passes of the tick.
LEMMA TickHarvest ==
  ASSUME HarvestInv, HarvestTick
  PROVE  HarvestInv'
  <1>1. Stores /\ Terms
    BY StoresNow DEF HarvestInv, HarvestTypeOK, Terms
  <1>2. CASE FlushDying
    <2>1. Stores' /\ Terms' /\ UNCHANGED yard
      BY <1>1, <1>2 DEF FlushDying, PassEnds, Stores, Terms
    <2> QED
      BY <1>2, <2>1, FlushDyingFine, InvParts
  <1>3. CASE PrepareAll
    <2>1. Stores' /\ Terms' /\ UNCHANGED yard
      BY <1>1, <1>3 DEF PrepareAll, PassEnds, Stores, Terms
    <2> QED
      BY <1>3, <2>1, PreparedFine, InvParts
  <1>4. CASE ProcessPendingReveals
    <2>1. Stores' /\ Terms' /\ UNCHANGED yard
      BY <1>1, <1>4 DEF ProcessPendingReveals, PassEnds, Stores, Terms
    <2> QED
      BY <1>4, <2>1, RevealFine, InvParts
  <1>5. ASSUME NEW c \in Carrier, AdvanceCarrier(c) PROVE HarvestInv'
    <2>1. Fine(worker', crew', standing') /\ Stores'
      BY <1>5, AdvanceFine
    <2>2. 1 \in Carrier
      <3>1. Cardinality(Carrier) \in Nat /\ Cardinality(Carrier) # 0
        BY HarvestAssumption, FS_CardinalityType, FS_EmptySet
      <3> QED
        BY <3>1, HarvestAssumption
    <2>3. UNCHANGED yard /\ Terms'
      BY <1>1, <1>5, <2>2 DEF AdvanceCarrier, TurnPassed, MyTurn, Terms
    <2> QED
      BY <2>1, <2>3, InvParts
  <1> QED
    BY <1>2, <1>3, <1>4, <1>5 DEF HarvestTick

\* HarvestInv: every source that stands has the crew that works it, nobody is
\* left inside one that is gone, and no crew is larger than its members take,
\* whatever is killed, destroyed, captured, moved or shut between the passes
\* (UnderHarvestComponent, crew.rs, harvest.rs).
THEOREM CrewsHold == HarvestSpec => []HarvestInv
  <1>1. HarvestInv /\ [HarvestNext]_harvestVars => HarvestInv'
    <2> SUFFICES ASSUME HarvestInv, [HarvestNext]_harvestVars PROVE HarvestInv'
      OBVIOUS
    <2>1. CASE HarvestNext
      BY <2>1, EventHarvest, TickHarvest DEF HarvestNext
    <2>2. CASE UNCHANGED harvestVars
      <3>1. Stores /\ Terms /\ Fine(worker, crew, standing)
        BY FineNow, StoresNow DEF HarvestInv, HarvestTypeOK, Terms
      <3>2. Stores' /\ Terms' /\ UNCHANGED yard
        BY <2>2, <3>1 DEF harvestVars, Stores, Terms
      <3>3. Fine(worker', crew', standing')
        BY <2>2, <3>1 DEF harvestVars
      <3> QED
        BY <3>2, <3>3, InvParts
    <2> QED
      BY <2>1, <2>2
  <1> QED
    BY InitHarvest, <1>1, PTL DEF HarvestSpec

-----------------------------------------------------------------------------
(***************************************************************************)
(* Sums over finite sets.                                                  *)
(***************************************************************************)

\* What holds of no element, and of a set where it holds of all sets less one
\* of its elements, holds of every subset of a finite set.
LEMMA AllSubsets ==
  ASSUME NEW D, IsFiniteSet(D), NEW P, {} \in P,
         \A S \in SUBSET D : S # {} /\ (\A x \in S : S \ {x} \in P) => S \in P
  PROVE  SUBSET D \subseteq P
  <1> DEFINE N == Cardinality(D)
             Q == {n \in 0 .. N : \A S \in SUBSET D : Cardinality(S) = n => S \in P}
  <1>1. N \in Nat
    BY FS_CardinalityType
  <1>2. \A S \in SUBSET D : IsFiniteSet(S) /\ Cardinality(S) \in 0 .. N
    BY FS_Subset, FS_CardinalityType
  <1> HIDE DEF N
  <1>3. 0 \in Q
    BY <1>1, <1>2, FS_EmptySet
  <1>4. ASSUME NEW n \in 1 .. N, n - 1 \in Q PROVE n \in Q
    <2> SUFFICES ASSUME NEW S \in SUBSET D, Cardinality(S) = n PROVE S \in P
      BY <1>1
    <2>1. S # {}
      <3>1. Cardinality({}) = 0 /\ n # 0
        BY <1>1, FS_EmptySet
      <3> QED
        BY <3>1
    <2>2. ASSUME NEW x \in S PROVE S \ {x} \in P
      <3>1. Cardinality(S \ {x}) = n - 1
        BY <1>2, FS_RemoveElement
      <3> QED
        BY <3>1, <1>4
    <2> QED
      BY <2>1, <2>2
  <1> HIDE DEF Q
  <1>5. 0 .. N \subseteq Q
    BY <1>1, <1>3, <1>4, StaysIn
  <1> QED
    BY <1>2, <1>5 DEF Q

\* A sum over the subsets of D takes one element after another.
Pick(S) == CHOOSE x \in S : TRUE
Sums(D, f, h) ==
  /\ h \in [SUBSET D -> Int] /\ h[{}] = 0
  /\ \A S \in SUBSET D : S # {} => h[S] = f[Pick(S)] + h[S \ {Pick(S)}]

LEMMA Picked == \A S : S # {} => Pick(S) \in S
  BY DEF Pick

\* There is one.
LEMMA SumExists ==
  ASSUME NEW D, IsFiniteSet(D), NEW f \in [D -> Int]
  PROVE  \E h : Sums(D, f, h)
  <1> DEFINE N == Cardinality(D)
             Upto(n, h) ==
               /\ h[{}] = 0
               /\ \A S \in SUBSET D :
                    S # {} /\ Cardinality(S) <= n => h[S] = f[Pick(S)] + h[S \ {Pick(S)}]
             Q == {n \in 0 .. N : \E h \in [SUBSET D -> Int] : Upto(n, h)}
  <1>1. N \in Nat
    BY FS_CardinalityType
  <1>2. \A S \in SUBSET D : IsFiniteSet(S) /\ Cardinality(S) \in 0 .. N
    BY FS_Subset, FS_CardinalityType
  <1>3. \A S \in SUBSET D : Cardinality(S) = 0 => S = {}
    BY <1>2, FS_EmptySet
  <1> HIDE DEF N
  <1>4. 0 \in Q
    <2> DEFINE h == [S \in SUBSET D |-> 0]
    <2>1. h \in [SUBSET D -> Int] /\ h[{}] = 0
      OBVIOUS
    <2>2. \A S \in SUBSET D : S # {} => ~(Cardinality(S) <= 0)
      BY <1>2, <1>3, <1>1
    <2> HIDE DEF h
    <2> QED
      BY <1>1, <2>1, <2>2
  <1>5. ASSUME NEW n \in 1 .. N, n - 1 \in Q PROVE n \in Q
    <2>1. PICK h \in [SUBSET D -> Int] : Upto(n - 1, h)
      BY <1>5
    <2> DEFINE g == [S \in SUBSET D |-> IF S # {} /\ Cardinality(S) = n
                                        THEN f[Pick(S)] + h[S \ {Pick(S)}] ELSE h[S]]
    <2>2. g \in [SUBSET D -> Int] /\ g[{}] = 0
      <3>1. \A S \in SUBSET D : S # {} => f[Pick(S)] \in Int /\ h[S \ {Pick(S)}] \in Int
        BY Picked
      <3> QED
        BY <2>1, <3>1
    <2>3. ASSUME NEW S \in SUBSET D, S # {}, Cardinality(S) <= n
          PROVE  g[S] = f[Pick(S)] + g[S \ {Pick(S)}]
      <3>1. Pick(S) \in S /\ S \ {Pick(S)} \in SUBSET D
        BY <2>3, Picked
      <3>2. Cardinality(S \ {Pick(S)}) = Cardinality(S) - 1
        BY <1>2, <3>1, FS_RemoveElement
      <3>3. Cardinality(S \ {Pick(S)}) # n /\ Cardinality(S) \in 0 .. N
        BY <1>1, <1>2, <2>3, <3>2
      <3>4. g[S \ {Pick(S)}] = h[S \ {Pick(S)}]
        BY <3>1, <3>3
      <3>5. CASE Cardinality(S) = n
        BY <2>3, <3>4, <3>5
      <3>6. CASE Cardinality(S) <= n - 1
        <4>1. h[S] = f[Pick(S)] + h[S \ {Pick(S)}]
          BY <2>1, <2>3, <3>6
        <4>2. g[S] = h[S]
          BY <1>1, <3>6, <3>3
        <4> QED
          BY <3>4, <4>1, <4>2
      <3>7. Cardinality(S) = n \/ Cardinality(S) <= n - 1
        BY <1>1, <3>3, <2>3
      <3> HIDE DEF g
      <3> QED
        BY <3>5, <3>6, <3>7
    <2> HIDE DEF g
    <2>4. Upto(n, g)
      BY <2>2, <2>3
    <2> HIDE DEF Upto
    <2> QED
      BY <1>1, <2>2, <2>4
  <1> HIDE DEF Q
  <1>6. N \in Q
    BY <1>1, <1>4, <1>5, StaysIn
  <1>7. PICK h \in [SUBSET D -> Int] : Upto(N, h)
    BY <1>6 DEF Q
  <1>8. ASSUME NEW S \in SUBSET D, S # {} PROVE h[S] = f[Pick(S)] + h[S \ {Pick(S)}]
    <2>1. Cardinality(S) <= N
      BY <1>1, <1>2
    <2> QED
      BY <1>7, <1>8, <2>1
  <1> QED
    BY <1>7, <1>8 DEF Sums

\* An amount is such a sum.
LEMMA AmountSums ==
  ASSUME NEW D, IsFiniteSet(D), NEW f \in [D -> Int]
  PROVE  \E h : Sums(D, f, h) /\ Amount(f) = h[D]
  <1> DEFINE sum == CHOOSE h : h = [S \in SUBSET D |-> IF S = {} THEN 0
                                                       ELSE f[Pick(S)] + h[S \ {Pick(S)}]]
  <1>1. Amount(f) = sum[D]
    <2>1. DOMAIN f = D
      OBVIOUS
    <2> QED
      BY <2>1 DEF Amount, MapThenSumSet, MapThenFoldSet, Pick
  <1>2. PICK h : Sums(D, f, h)
    BY SumExists
  <1>3. h = [S \in SUBSET D |-> IF S = {} THEN 0 ELSE f[Pick(S)] + h[S \ {Pick(S)}]]
    BY <1>2 DEF Sums
  <1>4. sum = [S \in SUBSET D |-> IF S = {} THEN 0 ELSE f[Pick(S)] + sum[S \ {Pick(S)}]]
    BY <1>3
  <1> HIDE DEF sum
  <1> DEFINE P == {S \in SUBSET D : sum[S] = h[S]}
  <1>5. {} \in P
    BY <1>2, <1>4 DEF Sums
  <1>6. ASSUME NEW S \in SUBSET D, S # {}, \A x \in S : S \ {x} \in P PROVE S \in P
    <2>1. Pick(S) \in S
      BY <1>6, Picked
    <2>2. sum[S \ {Pick(S)}] = h[S \ {Pick(S)}]
      BY <1>6, <2>1
    <2>3. sum[S] = f[Pick(S)] + sum[S \ {Pick(S)}]
      BY <1>4, <1>6
    <2>4. h[S] = f[Pick(S)] + h[S \ {Pick(S)}]
      BY <1>2, <1>6 DEF Sums
    <2> QED
      BY <2>2, <2>3, <2>4
  <1> HIDE DEF P
  <1>7. SUBSET D \subseteq P
    BY <1>5, <1>6, AllSubsets
  <1>8. sum[D] = h[D]
    BY <1>7 DEF P
  <1> QED
    BY <1>1, <1>2, <1>8

\* What g and e have together is what f has, but for d at the place m.
Shifted(D, f, g, e, m, d) == \A i \in D : g[i] + e[i] = f[i] + IF i = m THEN d ELSE 0

\* Amounts that differ, with what is lost of them, at one place.
LEMMA AmountsMove ==
  ASSUME NEW D, IsFiniteSet(D), NEW f \in [D -> Int], NEW g \in [D -> Int], NEW e \in [D -> Int],
         NEW m \in D, NEW d \in Int, Shifted(D, f, g, e, m, d)
  PROVE  /\ Amount(f) \in Int /\ Amount(g) \in Int /\ Amount(e) \in Int
         /\ Amount(g) + Amount(e) = Amount(f) + d
  <1>1. PICK F : Sums(D, f, F) /\ Amount(f) = F[D]
    BY AmountSums
  <1>2. PICK G : Sums(D, g, G) /\ Amount(g) = G[D]
    BY AmountSums
  <1>3. PICK E : Sums(D, e, E) /\ Amount(e) = E[D]
    BY AmountSums
  <1> DEFINE P == {S \in SUBSET D : G[S] + E[S] = F[S] + IF m \in S THEN d ELSE 0}
  <1>4. {} \in P
    BY <1>1, <1>2, <1>3 DEF Sums
  <1>5. ASSUME NEW S \in SUBSET D, S # {}, \A x \in S : S \ {x} \in P PROVE S \in P
    <2> DEFINE x == Pick(S)
    <2>1. x \in S
      BY <1>5, Picked
    <2>2. G[S \ {x}] + E[S \ {x}] = F[S \ {x}] + IF m \in S \ {x} THEN d ELSE 0
      BY <1>5, <2>1
    <2>3. /\ F[S] = f[x] + F[S \ {x}] /\ G[S] = g[x] + G[S \ {x}] /\ E[S] = e[x] + E[S \ {x}]
      BY <1>1, <1>2, <1>3, <1>5 DEF Sums
    <2>4. /\ F[S \ {x}] \in Int /\ G[S \ {x}] \in Int /\ E[S \ {x}] \in Int
          /\ f[x] \in Int /\ g[x] \in Int /\ e[x] \in Int
      BY <1>1, <1>2, <1>3, <2>1 DEF Sums
    <2> HIDE DEF x
    <2>5. x = m <=> m \in S /\ m \notin S \ {x}
      BY <2>1
    <2>6. m \in S \ {x} => m \in S
      OBVIOUS
    <2>7. g[x] + e[x] = f[x] + IF x = m THEN d ELSE 0
      BY <2>1 DEF Shifted
    <2>8. PICK a, b \in {0, d} : a = (IF x = m THEN d ELSE 0) /\ b = IF m \in S \ {x} THEN d ELSE 0
      OBVIOUS
    <2>9. (g[x] + G[S \ {x}]) + (e[x] + E[S \ {x}]) = (f[x] + F[S \ {x}]) + (a + b)
      <3>1. a \in Int /\ b \in Int
        OBVIOUS
      <3>2. g[x] + e[x] = f[x] + a /\ G[S \ {x}] + E[S \ {x}] = F[S \ {x}] + b
        BY <2>2, <2>7, <2>8
      <3>3. PICK f1, f2, g1, g2, e1, e2 \in Int :
              /\ f1 = f[x] /\ g1 = g[x] /\ e1 = e[x]
              /\ f2 = F[S \ {x}] /\ g2 = G[S \ {x}] /\ e2 = E[S \ {x}]
        BY <2>4
      <3>4. g1 + e1 = f1 + a /\ g2 + e2 = f2 + b
        BY <3>2, <3>3
      <3>5. (g1 + g2) + (e1 + e2) = (f1 + f2) + (a + b)
        BY <3>1, <3>4
      <3> QED
        BY <3>3, <3>5
    <2>10. a + b = IF m \in S THEN d ELSE 0
      BY <2>5, <2>6, <2>8
    <2> QED
      BY <2>3, <2>9, <2>10
  <1> HIDE DEF P
  <1>6. SUBSET D \subseteq P
    BY <1>4, <1>5, AllSubsets
  <1>7. G[D] + E[D] = F[D] + d
    BY <1>6 DEF P
  <1> QED
    BY <1>1, <1>2, <1>3, <1>7 DEF Sums

\* All that AmountsMove asks for.
Moved(D, f, g, e, m, d) ==
  /\ IsFiniteSet(D) /\ m \in D /\ d \in Int
  /\ f \in [D -> Int] /\ g \in [D -> Int] /\ e \in [D -> Int]
  /\ Shifted(D, f, g, e, m, d)

LEMMA AmountsFollow ==
  \A D, f, g, e, m, d : Moved(D, f, g, e, m, d) =>
    /\ Amount(f) \in Int /\ Amount(g) \in Int /\ Amount(e) \in Int
    /\ Amount(g) + Amount(e) = Amount(f) + d
  <1> SUFFICES ASSUME NEW D, NEW f, NEW g, NEW e, NEW m, NEW d, Moved(D, f, g, e, m, d)
               PROVE  /\ Amount(f) \in Int /\ Amount(g) \in Int /\ Amount(e) \in Int
                      /\ Amount(g) + Amount(e) = Amount(f) + d
    OBVIOUS
  <1> QED
    BY AmountsMove DEF Moved

-----------------------------------------------------------------------------
(***************************************************************************)
(* What there is of a kind of resource.                                    *)
(***************************************************************************)

Balance(k) == Worth(k)' + Loss(k) = Worth(k)

\* The accounts are in numbers.
LEMMA AccountsTyped ==
  ASSUME HarvestInv, HarvestInv', NEW k \in KindsOfResource
  PROVE  /\ InSources(k) \in [Source -> Int] /\ InSources(k)' \in [Source -> Int]
         /\ InHand(k) \in [Carrier -> Int] /\ InHand(k)' \in [Carrier -> Int]
         /\ Banked(k) \in [Side -> Int] /\ Banked(k)' \in [Side -> Int]
         /\ Destroyed(k) \in [Source -> Int] /\ Wasted(k) \in [Carrier -> Int]
  <1>1. /\ left \in [Source -> Nat] /\ left' \in [Source -> Nat]
        /\ bank \in [Side -> [KindsOfResource -> Nat]]
        /\ bank' \in [Side -> [KindsOfResource -> Nat]]
        /\ worker \in [Carrier -> Worker] /\ worker' \in [Carrier -> Worker]
    BY DEF HarvestInv, HarvestTypeOK
  <1>2. \A c \in Carrier : worker[c].hand.n \in Int /\ worker'[c].hand.n \in Int
    BY <1>1 DEF Worker, Load
  <1>3. InSources(k) \in [Source -> Int] /\ InSources(k)' \in [Source -> Int]
    BY <1>1 DEF InSources
  <1>4. InHand(k) \in [Carrier -> Int] /\ InHand(k)' \in [Carrier -> Int]
    BY <1>2 DEF InHand, HandOf
  <1>5. Banked(k) \in [Side -> Int] /\ Banked(k)' \in [Side -> Int]
    <2>1. \A p \in Side : bank[p][k] \in Int /\ bank'[p][k] \in Int
      BY <1>1
    <2> QED
      BY <2>1 DEF Banked
  <1>6. Destroyed(k) \in [Source -> Int]
    BY <1>1 DEF Destroyed
  <1>7. Wasted(k) \in [Carrier -> Int]
    BY <1>2 DEF Wasted, HandOf
  <1> QED
    BY <1>3, <1>4, <1>5, <1>6, <1>7

\* The books of a step that moves something between one source, one carrier
\* and one account.
LEMMA Books ==
  ASSUME HarvestInv, HarvestInv', NEW k \in KindsOfResource,
         NEW s \in Source, NEW c \in Carrier, NEW p \in Side,
         NEW out \in Int, NEW held \in Int, NEW paid \in Int, out + held + paid = 0,
         Shifted(Source, InSources(k), InSources(k)', Destroyed(k), s, out),
         Shifted(Carrier, InHand(k), InHand(k)', Wasted(k), c, held),
         \A q \in Side : Banked(k)'[q] = Banked(k)[q] + IF q = p THEN paid ELSE 0
  PROVE  Balance(k)
  <1>1. IsFiniteSet(Source) /\ IsFiniteSet(Carrier) /\ IsFiniteSet(Side)
    BY HarvestAssumption
  <1>2. PICK i, i1, i2 : i = InSources(k) /\ i1 = InSources(k)' /\ i2 = Destroyed(k)
    OBVIOUS
  <1>3. PICK h, h1, h2 : h = InHand(k) /\ h1 = InHand(k)' /\ h2 = Wasted(k)
    OBVIOUS
  <1>4. PICK b, b1, b2 : b = Banked(k) /\ b1 = Banked(k)' /\ b2 = [q \in Side |-> 0]
    OBVIOUS
  <1>5. /\ i \in [Source -> Int] /\ i1 \in [Source -> Int] /\ i2 \in [Source -> Int]
        /\ h \in [Carrier -> Int] /\ h1 \in [Carrier -> Int] /\ h2 \in [Carrier -> Int]
        /\ b \in [Side -> Int] /\ b1 \in [Side -> Int] /\ b2 \in [Side -> Int]
    BY <1>2, <1>3, <1>4, AccountsTyped
  <1>6. /\ Amount(i) \in Int /\ Amount(i1) \in Int /\ Amount(i2) \in Int
        /\ Amount(i1) + Amount(i2) = Amount(i) + out
    <2>1. Moved(Source, i, i1, i2, s, out)
      BY <1>1, <1>2, <1>5 DEF Moved
    <2> QED
      BY <2>1, AmountsFollow
  <1>7. /\ Amount(h) \in Int /\ Amount(h1) \in Int /\ Amount(h2) \in Int
        /\ Amount(h1) + Amount(h2) = Amount(h) + held
    <2>1. Moved(Carrier, h, h1, h2, c, held)
      BY <1>1, <1>3, <1>5 DEF Moved
    <2> QED
      BY <2>1, AmountsFollow
  <1>8. /\ Amount(b) \in Int /\ Amount(b1) \in Int /\ Amount(b2) \in Int
        /\ Amount(b1) + Amount(b2) = Amount(b) + paid
    <2>1. Shifted(Side, b, b1, b2, p, paid)
      <3>1. \A q \in Side :
              b1[q] = b[q] + (IF q = p THEN paid ELSE 0) /\ b2[q] = 0 /\ b1[q] \in Int
        BY <1>4, <1>5
      <3> QED
        BY <3>1 DEF Shifted
    <2>2. Moved(Side, b, b1, b2, p, paid)
      BY <1>1, <1>5, <2>1 DEF Moved
    <2> QED
      BY <2>2, AmountsFollow
  <1>9. Amount(b2) = 0
    <2>1. Moved(Side, b2, b2, b2, p, 0)
      BY <1>1, <1>4, <1>5 DEF Moved, Shifted
    <2>2. Amount(b2) + Amount(b2) = Amount(b2) + 0
      BY <2>1, AmountsFollow
    <2>3. PICK z \in Int : z = Amount(b2)
      BY <1>8
    <2>4. z + z = z + 0
      BY <2>2, <2>3
    <2>5. z = 0
      BY <2>4
    <2> QED
      BY <2>3, <2>5
  <1>10. /\ Worth(k) = Amount(i) + Amount(h) + Amount(b)
         /\ Worth(k)' = Amount(i1) + Amount(h1) + Amount(b1)
         /\ Loss(k) = Amount(i2) + Amount(h2)
    BY <1>2, <1>3, <1>4 DEF Worth, Loss
  <1>11. PICK u, u1, u2, v, v1, v2, w, w1 \in Int :
           /\ u = Amount(i) /\ u1 = Amount(i1) /\ u2 = Amount(i2)
           /\ v = Amount(h) /\ v1 = Amount(h1) /\ v2 = Amount(h2)
           /\ w = Amount(b) /\ w1 = Amount(b1)
    BY <1>6, <1>7, <1>8
  <1>12. u1 + u2 = u + out /\ v1 + v2 = v + held /\ w1 = w + paid
    BY <1>6, <1>7, <1>8, <1>9, <1>11
  <1>13. (u1 + v1 + w1) + (u2 + v2) = u + v + w
    BY <1>12
  <1> QED
    BY <1>10, <1>11, <1>13 DEF Balance

\* A carrier that holds what it held.
LEMMA HandStays ==
  ASSUME HarvestInv, NEW k \in KindsOfResource, NEW c \in Carrier,
         worker'[c].hand = worker[c].hand
  PROVE  InHand(k)'[c] + Wasted(k)[c] = InHand(k)[c]
  <1>1. worker[c].hand.n \in Int
    BY DEF HarvestInv, HarvestTypeOK, Worker, Load
  <1>2. HandOf(c, k)' = HandOf(c, k) /\ HandOf(c, k) \in Int
    BY <1>1 DEF HandOf
  <1>3. Wasted(k)[c] = 0
    BY DEF Wasted, HandOf
  <1> QED
    BY <1>2, <1>3 DEF InHand

\* A source that has what it had, alive or not.
LEMMA SourceStays ==
  ASSUME HarvestInv, NEW k \in KindsOfResource, NEW r \in Source, left'[r] = left[r],
         standing' \subseteq standing
  PROVE  InSources(k)'[r] + Destroyed(k)[r] = InSources(k)[r]
  <1>1. left[r] \in Int
    BY DEF HarvestInv, HarvestTypeOK
  <1> QED
    BY <1>1 DEF InSources, Destroyed

\* A side that has what it had.
LEMMA BankStays ==
  ASSUME HarvestInv, NEW k \in KindsOfResource, NEW q \in Side, bank'[q][k] = bank[q][k]
  PROVE  Banked(k)'[q] = Banked(k)[q] /\ Banked(k)[q] \in Int
  BY DEF Banked, HarvestInv, HarvestTypeOK

\* Nothing changes hands.
LEMMA QuietBooks ==
  ASSUME HarvestInv, HarvestInv', NEW k \in KindsOfResource,
         standing' \subseteq standing, UNCHANGED <<left, bank>>,
         \A c \in Carrier : worker'[c].hand = worker[c].hand
  PROVE  Balance(k)
  <1>1. PICK s \in Source, c \in Carrier, p \in Side : TRUE
    BY HarvestAssumption DEF KindsOfResource
  <1>2. Shifted(Source, InSources(k), InSources(k)', Destroyed(k), s, 0)
    BY SourceStays, AccountsTyped DEF Shifted
  <1>3. Shifted(Carrier, InHand(k), InHand(k)', Wasted(k), c, 0)
    BY HandStays, AccountsTyped DEF Shifted
  <1>4. ASSUME NEW q \in Side PROVE Banked(k)'[q] = Banked(k)[q] + IF q = p THEN 0 ELSE 0
    BY BankStays, AccountsTyped
  <1> QED
    BY <1>2, <1>3, <1>4, Books

\* A trip begun, put down or given up with its order leaves the load alone.
LEMMA HandKept ==
  ASSUME NEW c \in Carrier, NEW x, Sound(c, x)
  PROVE  /\ EndTrip(x, c).w.hand = x.w.hand
         /\ Unemployed(x, c).w.hand = x.w.hand
         /\ \A s : BeginTrip(x, c, s).w.hand = x.w.hand
  <1>1. x \in Turn /\ x.w \in Worker
    BY DEF Sound, Turn
  <1>2. \A w \in Worker : Returned(w).hand = w.hand
    BY DEF Returned, Worker
  <1>3. EndTrip(x, c).w.hand = x.w.hand
    <2> DEFINE y == StopWork(x, c)
    <2>1. y \in Turn /\ y.w.hand = x.w.hand
      BY <1>1, SoundStopWork DEF StopWork, Worker
    <2> HIDE DEF y
    <2>2. EndTrip(x, c) = [y EXCEPT !.w = Returned(y.w)]
      BY DEF EndTrip, y
    <2> QED
      BY <1>2, <2>1, <2>2 DEF Turn
  <1>4. Unemployed(x, c).w.hand = x.w.hand
    <2> DEFINE y == EndTrip(x, c)
    <2>1. y \in Turn
      BY SoundEndTrip DEF Sound
    <2>2. Unemployed(x, c) = [y EXCEPT !.w.job = Jobless]
      BY DEF Unemployed
    <2>3. y.w.hand = x.w.hand
      BY <1>3
    <2> HIDE DEF y
    <2> QED
      BY <2>1, <2>2, <2>3 DEF Turn, Worker
  <1>5. \A s : BeginTrip(x, c, s).w.hand = x.w.hand
    BY <1>1 DEF BeginTrip, Worker
  <1> QED
    BY <1>3, <1>4, <1>5

\* A step of the order leaves the load alone.
LEMMA HandKeptOnTheWay ==
  ASSUME NEW c \in Carrier, NEW x, Sound(c, x)
  PROVE  /\ WaitsOut(x).w.hand = x.w.hand
         /\ \A t : [x EXCEPT !.w.job.walk = t].w.hand = x.w.hand
         /\ \A s : [x EXCEPT !.w.job.settled = s].w.hand = x.w.hand
         /\ [x EXCEPT !.w.job.progress = @ + 1].w.hand = x.w.hand
  BY DEF Sound, WaitsOut, Turn, Worker

\* A carrier settles for something, and holds what it held.
LEMMA SettlesBooks ==
  ASSUME HarvestInv, HarvestInv', NEW k \in KindsOfResource, NEW c \in Carrier,
         NEW x, Settles(c, x), x.w.hand = worker[c].hand
  PROVE  Balance(k)
  <1>1. /\ worker \in [Carrier -> Worker] /\ worker' = [worker EXCEPT ![c] = x.w]
        /\ UNCHANGED <<left, bank, standing>>
    BY DEF Settles, Puts, HarvestInv, HarvestTypeOK
  <1>2. \A d \in Carrier : worker'[d].hand = worker[d].hand
    BY <1>1
  <1> QED
    BY <1>1, <1>2, QuietBooks

\* A load banked leaves the hands.
LEMMA BankLoadBooks ==
  ASSUME HarvestInv, HarvestInv', NEW k \in KindsOfResource, NEW c \in Carrier, Lives(c),
         NEW x, Sound(c, x), x.w.hand = worker[c].hand, BankLoad(c, x),
         UNCHANGED <<left, standing>>
  PROVE  Balance(k)
  <1> DEFINE n == worker[c].hand.n
             kind == worker[c].hand.kind
             side == x.w.side
             banked == IF kind = k THEN n ELSE 0
             y == [x EXCEPT !.w.hand = Empty, !.w.job.delivered = TRUE]
  <1>1. /\ x \in Turn /\ x.w \in Worker /\ side \in Side /\ n \in Int /\ x.w.life = worker[c].life
        /\ worker \in [Carrier -> Worker] /\ bank \in [Side -> [KindsOfResource -> Nat]]
    BY DEF Sound, Turn, Worker, Load, HarvestInv, HarvestTypeOK
  <1>2. k # "none"
    BY HarvestAssumption DEF KindsOfResource
  <1>3. /\ worker' = [worker EXCEPT ![c] = y.w]
        /\ bank' = [bank EXCEPT ![side][kind] = @ + n]
    BY DEF BankLoad, Puts
  <1>4. y.w.hand = Empty /\ y.w.life = "alive"
    BY <1>1 DEF Turn, Worker, Lives
  <1> HIDE DEF y
  <1>5. PICK s \in Source : TRUE
    BY DEF KindsOfResource
  <1>6. PICK b \in Int : b = banked
    BY <1>1
  <1>7. Shifted(Source, InSources(k), InSources(k)', Destroyed(k), s, 0)
    BY SourceStays, AccountsTyped DEF Shifted
  <1>8. Shifted(Carrier, InHand(k), InHand(k)', Wasted(k), c, 0 - b)
    <2>1. ASSUME NEW d \in Carrier \ {c} PROVE InHand(k)'[d] + Wasted(k)[d] = InHand(k)[d]
      BY <1>1, <1>3, HandStays
    <2>2. InHand(k)'[c] = 0 /\ Wasted(k)[c] = 0 /\ InHand(k)[c] = b
      <3>1. worker'[c].hand = Empty /\ worker'[c].life = "alive"
        BY <1>1, <1>3, <1>4
      <3> QED
        BY <1>2, <1>6, <3>1 DEF InHand, Wasted, HandOf, Empty
    <2> QED
      BY <2>1, <2>2, AccountsTyped DEF Shifted
  <1>9. ASSUME NEW q \in Side PROVE Banked(k)'[q] = Banked(k)[q] + IF q = side THEN b ELSE 0
    <2>1. CASE q # side \/ kind # k
      <3>1. bank'[q][k] = bank[q][k]
        BY <1>1, <1>3, <2>1
      <3> QED
        BY <3>1, <2>1, <1>6, BankStays
    <2>2. CASE q = side /\ kind = k
      <3>1. bank'[q][k] = bank[q][k] + n
        BY <1>1, <1>3, <2>2
      <3> QED
        BY <3>1, <2>2, <1>6 DEF Banked
    <2> QED
      BY <2>1, <2>2
  <1>10. 0 + (0 - b) + b = 0
    OBVIOUS
  <1> HIDE DEF side
  <1> QED
    BY <1>1, <1>7, <1>8, <1>9, <1>10, Books

\* On its way to the storage a carrier keeps its load, and there it banks it.
LEMMA DeliverBooks ==
  ASSUME HarvestInv, HarvestInv', NEW k \in KindsOfResource, NEW c \in Carrier, Lives(c),
         NEW x, Sound(c, x), x.w.hand = worker[c].hand, Deliver(c, x)
  PROVE  Balance(k)
  <1> DEFINE y == EndTrip(x, c)
  <1>1. Sound(c, y) /\ y.w.hand = worker[c].hand
    BY SoundEndTrip, HandKept
  <1>2. \/ Settles(c, y)
        \/ \E t \in ResolveStorage(y.w) :
             \/ Settles(c, Unemployed(y, c))
             \/ BankLoad(c, y) /\ UNCHANGED <<left, standing>>
             \/ Settles(c, WaitsOut(y))
             \/ Settles(c, [y EXCEPT !.w.job.walk = t])
    BY Zenon DEF Deliver
  <1> HIDE DEF y
  <1>3. /\ Unemployed(y, c).w.hand = worker[c].hand /\ WaitsOut(y).w.hand = worker[c].hand
        /\ \A t : [y EXCEPT !.w.job.walk = t].w.hand = worker[c].hand
    BY <1>1, HandKept, HandKeptOnTheWay, ZenonT(40)
  <1>4. CASE Settles(c, y)
    BY <1>1, <1>4, SettlesBooks
  <1>5. CASE Settles(c, Unemployed(y, c))
    BY <1>3, <1>5, SettlesBooks
  <1>6. CASE BankLoad(c, y) /\ UNCHANGED <<left, standing>>
    BY <1>1, <1>6, BankLoadBooks
  <1>7. CASE Settles(c, WaitsOut(y))
    BY <1>3, <1>7, SettlesBooks
  <1>8. ASSUME NEW t, Settles(c, [y EXCEPT !.w.job.walk = t]) PROVE Balance(k)
    BY <1>3, <1>8, SettlesBooks
  <1> QED
    BY <1>2, <1>4, <1>5, <1>6, <1>7, <1>8

\* Where a trip drains what it takes, what a carrier gets its source no longer has.
LEMMA DrainsAll ==
  ASSUME HarvestInv, NEW w \in Worker, NEW s \in Source, yard.drain >= yard.capacity
  PROVE  Drained(w, s) = Take(w, s)
  <1>1. yard.capacity \in Nat /\ yard.drain \in Nat /\ left[s] \in Nat
    BY YardsAssumption DEF HarvestInv, HarvestTypeOK
  <1>2. Kept(w, s) \in Nat
    BY DEF Kept, Worker, Load
  <1>3. Room(w, s) \in Nat /\ Room(w, s) <= yard.capacity
    BY <1>1, <1>2 DEF Room
  <1>4. ASSUME NEW m \in Nat, NEW n \in Nat
        PROVE  Min({m, n}) \in {m, n} /\ Min({m, n}) <= m /\ Min({m, n}) <= n
    <2>1. \E i \in {m, n} : \A j \in {m, n} : i <= j
      BY <1>4
    <2> QED
      BY <1>4, <2>1 DEF Min
  <1>5. Take(w, s) \in Nat /\ Take(w, s) <= yard.drain
    BY <1>1, <1>3, <1>4 DEF Take
  <1>6. Min({yard.drain, Take(w, s)}) = Take(w, s)
    BY <1>1, <1>4, <1>5
  <1> QED
    BY <1>6 DEF Drained

\* A load changes hands.
LEMMA TransferBooks ==
  ASSUME HarvestInv, HarvestInv', NEW k \in KindsOfResource, NEW c \in Carrier,
         yard.drain >= yard.capacity, NEW x, Sound(c, x), x.w.hand = worker[c].hand,
         x.w.job.trip \in standing \cap Source, Transfer(c, x)
  PROVE  Balance(k)
  <1> DEFINE s == x.w.job.trip
             side == x.w.side
             take == Take(x.w, s)
             load == [kind |-> KindOf[s], n |-> Kept(x.w, s) + take]
             laden == [x EXCEPT !.w.hand = load]
             idle == [x EXCEPT !.w.job.progress = 0]
             y == IF yard.banking = "carried" THEN EndTrip(laden, c) ELSE idle
             workers == [worker EXCEPT ![c] = y.w]
  <1>1. /\ x \in Turn /\ x.w \in Worker /\ x.w.job \in Job /\ side \in Side /\ s \in Source
        /\ s \in standing /\ worker \in [Carrier -> Worker] /\ worker' \in [Carrier -> Worker]
        /\ bank \in [Side -> [KindsOfResource -> Nat]] /\ left \in [Source -> Nat]
    BY DEF Sound, Turn, Worker, HarvestInv, HarvestTypeOK
  <1>2. k # "none" /\ KindOf[s] # "none" /\ KindOf[s] \in KindsOfResource
    BY <1>1, HarvestAssumption DEF KindsOfResource
  <1>3. /\ Kept(x.w, s) \in Nat /\ take \in Nat /\ Drained(x.w, s) = take /\ take <= left[s]
    BY <1>1, DrainBound, DrainsAll
  <1>4. load \in Load /\ load.kind = KindOf[s] /\ load.n = Kept(x.w, s) + take
    BY <1>2, <1>3 DEF Load
  <1>5. /\ left' = [left EXCEPT ![s] = left[s] - take]
        /\ bank' = IF yard.banking = "carried" THEN bank
                   ELSE [bank EXCEPT ![side][KindOf[s]] = @ + take]
        /\ \/ standing' = standing \ {s} /\ left[s] - take = 0
              /\ worker' = SettleWorkers(workers, y.crews[s])
           \/ standing' = standing /\ worker' = workers
    BY <1>3, Zenon DEF Transfer
  <1>6. y.w.hand = IF yard.banking = "carried" THEN load ELSE worker[c].hand
    <2>1. CASE yard.banking = "carried"
      <3>1. /\ laden \in Turn /\ laden.w.hand = load /\ laden.crews = x.crews
            /\ laden.w.life = x.w.life /\ laden.w.body = x.w.body /\ laden.w.job.trip = x.w.job.trip
        <4> HIDE DEF load, s
        <4> QED
          BY <1>1, <1>4 DEF Turn, Worker
      <3> HIDE DEF laden, load
      <3>2. Sound(c, laden)
        BY <3>1, SoundEdit
      <3>3. EndTrip(laden, c).w.hand = load
        BY <3>1, <3>2, HandKept
      <3> QED
        BY <2>1, <3>3
    <2>2. CASE yard.banking # "carried"
      <3>1. idle.w.hand = x.w.hand
        BY <1>1 DEF Turn, Worker
      <3> QED
        BY <2>2, <3>1
    <2> QED
      BY <2>1, <2>2
  <1>7. y.w \in Worker
    <2>1. laden \in Turn /\ idle \in Turn
      <3> HIDE DEF load, s
      <3> QED
        BY <1>1, <1>4, ZenonT(40) DEF Turn, Worker, Job
    <2>2. Sound(c, laden)
      <3>1. /\ laden.crews = x.crews
            /\ laden.w.life = x.w.life /\ laden.w.body = x.w.body /\ laden.w.job.trip = x.w.job.trip
        BY <1>1 DEF Turn, Worker
      <3> HIDE DEF laden
      <3> QED
        BY <2>1, <3>1, SoundEdit
    <2> HIDE DEF laden, idle
    <2>3. EndTrip(laden, c) \in Turn
      BY <2>2, SoundEndTrip DEF Sound
    <2> QED
      BY <2>1, <2>3 DEF Turn
  <1> HIDE DEF y, laden, idle
  <1>8. \A d \in Carrier : worker'[d].hand = IF d = c THEN y.w.hand ELSE worker[d].hand
    <2>1. \A w \in Worker : Returned(w).hand = w.hand
      BY DEF Returned, Worker
    <2>2. workers \in [Carrier -> Worker]
      BY <1>1, <1>7
    <2>3. \A d \in Carrier : workers[d].hand = IF d = c THEN y.w.hand ELSE worker[d].hand
      BY <1>1
    <2> HIDE DEF workers
    <2>4. \A d \in Carrier : worker'[d].hand = workers[d].hand
      BY <1>5, <2>1, <2>2 DEF SettleWorkers
    <2> QED
      BY <2>3, <2>4
  <1> HIDE DEF workers
  <1>9. PICK t, o \in Int : t = (IF KindOf[s] = k THEN take ELSE 0) /\ o = 0 - t
    <2>1. PICK t \in Int : t = IF KindOf[s] = k THEN take ELSE 0
      BY <1>3
    <2> QED
      BY <2>1
  <1>10. Shifted(Source, InSources(k), InSources(k)', Destroyed(k), s, o)
    <2>1. standing' \subseteq standing
      BY <1>5
    <2>2. ASSUME NEW r \in Source \ {s} PROVE InSources(k)'[r] + Destroyed(k)[r] = InSources(k)[r]
      <3>1. left'[r] = left[r]
        BY <1>1, <1>5
      <3> QED
        BY <2>1, <3>1, SourceStays
    <2>3. InSources(k)'[s] + Destroyed(k)[s] = InSources(k)[s] + o
      <3>1. left'[s] = left[s] - take /\ left[s] \in Int /\ take \in Int
        BY <1>1, <1>3, <1>5
      <3>2. InSources(k)[s] = IF KindOf[s] = k THEN left[s] ELSE 0
        BY <1>1 DEF InSources
      <3>3. CASE s \in standing'
        <4>1. InSources(k)'[s] = (IF KindOf[s] = k THEN left'[s] ELSE 0) /\ Destroyed(k)[s] = 0
          BY <1>1, <3>3 DEF InSources, Destroyed
        <4> QED
          BY <3>1, <3>2, <4>1, <1>9
      <3>4. CASE s \notin standing'
        <4>1. InSources(k)'[s] = 0 /\ Destroyed(k)[s] = IF KindOf[s] = k THEN left'[s] ELSE 0
          BY <1>1, <3>4 DEF InSources, Destroyed
        <4> QED
          BY <3>1, <3>2, <4>1, <1>9
      <3> QED
        BY <3>3, <3>4
    <2> QED
      BY <1>1, <2>2, <2>3, AccountsTyped DEF Shifted
  <1>11. PICK u, v \in Int : /\ u = (IF yard.banking = "carried" THEN t ELSE 0)
                             /\ v = IF yard.banking = "carried" THEN 0 ELSE t
    OBVIOUS
  <1>12. Shifted(Carrier, InHand(k), InHand(k)', Wasted(k), c, u)
    <2>1. ASSUME NEW d \in Carrier \ {c} PROVE InHand(k)'[d] + Wasted(k)[d] = InHand(k)[d]
      BY <1>8, HandStays
    <2>2. InHand(k)'[c] + Wasted(k)[c] = InHand(k)[c] + u
      <3>1. CASE yard.banking = "carried"
        <4>1. worker'[c].hand = load /\ load # Empty
          BY <1>2, <1>4, <1>6, <1>8, <3>1 DEF Empty
        <4>2. HandOf(c, k) \in Int /\ InHand(k)[c] = HandOf(c, k)
          BY <1>1 DEF HandOf, InHand, Worker, Load
        <4>3. CASE KindOf[s] = k
          <5>1. InHand(k)'[c] = Kept(x.w, s) + take /\ Wasted(k)[c] = 0
            BY <1>4, <4>1, <4>3 DEF InHand, HandOf, Wasted
          <5>2. Kept(x.w, s) = HandOf(c, k)
            BY <3>1, <4>3 DEF Kept, HandOf
          <5> QED
            BY <1>3, <1>9, <1>11, <3>1, <4>2, <4>3, <5>1, <5>2
        <4>4. CASE KindOf[s] # k
          <5>1. InHand(k)'[c] = 0 /\ Wasted(k)[c] = HandOf(c, k)
            BY <1>4, <4>1, <4>4 DEF InHand, HandOf, Wasted
          <5> QED
            BY <1>9, <1>11, <4>2, <4>4, <5>1
        <4> QED
          BY <4>3, <4>4
      <3>2. CASE yard.banking # "carried"
        <4>1. InHand(k)'[c] + Wasted(k)[c] = InHand(k)[c] /\ InHand(k)[c] \in Int
          BY <1>6, <1>8, <3>2, HandStays, AccountsTyped
        <4> QED
          BY <1>11, <3>2, <4>1
      <3> QED
        BY <3>1, <3>2
    <2> QED
      BY <2>1, <2>2, AccountsTyped DEF Shifted
  <1>13. ASSUME NEW q \in Side PROVE Banked(k)'[q] = Banked(k)[q] + IF q = side THEN v ELSE 0
    <2>1. CASE yard.banking = "carried" \/ q # side \/ KindOf[s] # k
      <3>1. bank'[q][k] = bank[q][k]
        BY <1>1, <1>5, <2>1
      <3>2. (IF q = side THEN v ELSE 0) = 0
        BY <1>9, <1>11, <2>1
      <3> QED
        BY <3>1, <3>2, BankStays
    <2>2. CASE yard.banking # "carried" /\ q = side /\ KindOf[s] = k
      <3>1. bank'[q][k] = bank[q][k] + take
        BY <1>1, <1>5, <2>2
      <3>2. v = take
        BY <1>9, <1>11, <2>2
      <3> QED
        BY <3>1, <3>2, <2>2 DEF Banked
    <2> QED
      BY <2>1, <2>2
  <1>14. o + u + v = 0
    BY <1>9, <1>11
  <1>15. \A q \in Side : Banked(k)'[q] = Banked(k)[q] + IF q = side THEN v ELSE 0
    BY <1>13
  <1>16. PICK r \in Source, p \in Side : r = s /\ p = side
    BY <1>1
  <1>17. Shifted(Source, InSources(k), InSources(k)', Destroyed(k), r, o)
    BY <1>10, <1>16
  <1>18. \A q \in Side : Banked(k)'[q] = Banked(k)[q] + IF q = p THEN v ELSE 0
    BY <1>15, <1>16
  <1> HIDE DEF s, side, take, load
  <1> QED
    BY <1>12, <1>14, <1>17, <1>18, Books

\* A tick at a source.
LEMMA WorkSourceBooks ==
  ASSUME HarvestInv, HarvestInv', NEW k \in KindsOfResource, NEW c \in Carrier,
         yard.drain >= yard.capacity, NEW x, Sound(c, x), x.w.hand = worker[c].hand,
         x.w.life = "alive",
         NEW s \in standing \cap Source, x.w.job.trip \in {"none", s}, WorkSource(c, x, s)
  PROVE  Balance(k)
  <1> DEFINE y == IF x.w.job.trip = s THEN x ELSE BeginTrip(x, c, s)
             z == [y EXCEPT !.w.job.progress = @ + 1]
  <1>1. CASE x.w.job.trip # s /\ Excludes(s, c)
    BY <1>1, SettlesBooks DEF WorkSource
  <1>2. CASE ~(x.w.job.trip # s /\ Excludes(s, c))
    <2>1. Transfer(c, z) \/ Settles(c, z)
      BY <1>2, Zenon DEF WorkSource
    <2>2. Sound(c, y) /\ y.w.job.trip = s /\ y.w.hand = worker[c].hand
      <3>1. CASE x.w.job.trip = s
        BY <3>1
      <3>2. CASE x.w.job.trip # s
        <4>1. Sound(c, BeginTrip(x, c, s)) /\ BeginTrip(x, c, s).w.job.trip = s
          BY <1>2, <3>2, SoundBeginTrip
        <4>2. BeginTrip(x, c, s).w.hand = worker[c].hand
          BY HandKept
        <4> QED
          BY <3>2, <4>1, <4>2
      <3> QED
        BY <3>1, <3>2
    <2> HIDE DEF y
    <2>3. y \in Turn /\ y.w \in Worker /\ y.w.job \in Job
      BY <2>2 DEF Sound, Turn, Worker
    <2>4. /\ z \in Turn /\ z.crews = y.crews /\ z.w.life = y.w.life /\ z.w.body = y.w.body
          /\ z.w.job.trip = y.w.job.trip /\ z.w.hand = worker[c].hand
      BY <2>2, <2>3, HandKeptOnTheWay DEF Turn, Worker, Job
    <2> HIDE DEF z
    <2>5. Sound(c, z) /\ z.w.job.trip = s
      BY <2>2, <2>4, SoundEdit
    <2> QED
      BY <2>1, <2>4, <2>5, SettlesBooks, TransferBooks
  <1> QED
    BY <1>1, <1>2

\* Towards a source, and at work there.
LEMMA GoHarvestBooks ==
  ASSUME HarvestInv, HarvestInv', NEW k \in KindsOfResource, NEW c \in Carrier,
         yard.drain >= yard.capacity, NEW x, Sound(c, x), x.w.hand = worker[c].hand,
         x.w.life = "alive",
         NEW s \in standing \cap Source, x.w.job.trip \in {"none", s}, GoHarvest(c, x, s)
  PROVE  Balance(k)
  <1> DEFINE y == [x EXCEPT !.w.job.settled = s]
  <1>1. /\ Sound(c, y) /\ y.w.life = "alive" /\ y.w.job.trip \in {"none", s}
        /\ y.w.hand = worker[c].hand
    BY SoundOrder, HandKeptOnTheWay, ZenonT(40)
  <1>2. \/ WorkSource(c, y, s)
        \/ Settles(c, [y EXCEPT !.w.job.walk = s])
        \/ \E other \in NearestSource(y.w, {s}) :
             Settles(c, WaitsOut(y)) \/ Settles(c, [y EXCEPT !.w.job.settled = other])
    BY Zenon DEF GoHarvest
  <1> HIDE DEF y
  <1>3. /\ WaitsOut(y).w.hand = worker[c].hand
        /\ [y EXCEPT !.w.job.walk = s].w.hand = worker[c].hand
        /\ \A other : [y EXCEPT !.w.job.settled = other].w.hand = worker[c].hand
    BY <1>1, HandKeptOnTheWay, ZenonT(40)
  <1>4. CASE WorkSource(c, y, s)
    BY <1>1, <1>4, WorkSourceBooks
  <1>5. CASE Settles(c, [y EXCEPT !.w.job.walk = s])
    BY <1>3, <1>5, SettlesBooks
  <1>6. CASE Settles(c, WaitsOut(y))
    BY <1>3, <1>6, SettlesBooks
  <1>7. ASSUME NEW other, Settles(c, [y EXCEPT !.w.job.settled = other]) PROVE Balance(k)
    BY <1>3, <1>7, SettlesBooks
  <1> QED
    BY <1>2, <1>4, <1>5, <1>6, <1>7

\* One look at the map.
LEMMA LookBooks ==
  ASSUME HarvestInv, HarvestInv', NEW k \in KindsOfResource, NEW c \in Carrier,
         yard.drain >= yard.capacity, AdvanceHarvest(c)
  PROVE  Balance(k)
  <1>1. PICK s \in ResolveSource(worker[c]) :
          LET lost == worker[c].job.trip \notin {"none", s}
              x == IF lost THEN EndTrip(Now(c), c) ELSE Now(c)
          IN  \/ Settles(c, x)
              \/ Deliver(c, x)
              \/ Settles(c, Unemployed(x, c))
              \/ s # "none" /\ GoHarvest(c, x, s)
    BY Zenon DEF AdvanceHarvest
  <1> DEFINE lost == worker[c].job.trip \notin {"none", s}
             x == IF lost THEN EndTrip(Now(c), c) ELSE Now(c)
  <1>2. Sound(c, Now(c)) /\ Now(c).w = worker[c] /\ worker[c].life = "alive" /\ Lives(c)
    BY SoundNow DEF Now, AdvanceHarvest, Looks, Engaged, Lives
  <1>3. /\ Sound(c, x) /\ x.w.life = "alive" /\ x.w.job.trip \in {"none", s}
        /\ x.w.hand = worker[c].hand
    <2> DEFINE y == EndTrip(Now(c), c)
    <2>1. Sound(c, y) /\ y.w.life = "alive" /\ y.w.job.trip = "none"
      BY <1>2, SoundEndTrip
    <2>2. y.w.hand = worker[c].hand
      BY <1>2, HandKept
    <2> HIDE DEF y
    <2>3. x = IF lost THEN y ELSE Now(c)
      BY DEF y
    <2>4. CASE lost
      BY <2>1, <2>2, <2>3, <2>4
    <2>5. CASE ~lost
      BY <1>2, <2>3, <2>5
    <2> QED
      BY <2>4, <2>5
  <1>4. s = "none" \/ s \in standing \cap Source
    BY <1>1, SourceFound
  <1>5. \/ Settles(c, x) \/ Deliver(c, x) \/ Settles(c, Unemployed(x, c))
        \/ s # "none" /\ GoHarvest(c, x, s)
    BY <1>1
  <1> HIDE DEF x
  <1>6. Unemployed(x, c).w.hand = worker[c].hand
    BY <1>3, HandKept
  <1>7. CASE Settles(c, x)
    BY <1>3, <1>7, SettlesBooks
  <1>8. CASE Deliver(c, x)
    BY <1>2, <1>3, <1>8, DeliverBooks
  <1>9. CASE Settles(c, Unemployed(x, c))
    BY <1>6, <1>9, SettlesBooks
  <1>10. CASE s # "none" /\ GoHarvest(c, x, s)
    BY <1>3, <1>4, <1>10, GoHarvestBooks
  <1> QED
    BY <1>5, <1>7, <1>8, <1>9, <1>10

\* A carrier's turn.
LEMMA AdvanceBooks ==
  ASSUME HarvestInv, HarvestInv', NEW k \in KindsOfResource, NEW c \in Carrier,
         yard.drain >= yard.capacity, AdvanceCarrier(c)
  PROVE  Balance(k)
  <1>1. worker \in [Carrier -> Worker]
    BY DEF HarvestInv, HarvestTypeOK
  <1>2. CASE Rests(c)
    BY <1>2, QuietBooks DEF Rests
  <1>3. CASE Walks(c)
    <2> DEFINE u == [worker EXCEPT ![c].job.walk = "none"]
               near == IF worker[c].job.walk \in shut THEN worker[c].near
                       ELSE worker[c].job.walk
    <2>1. worker' = [u EXCEPT ![c].near = near] /\ UNCHANGED <<left, bank, standing>>
      BY <1>3 DEF Walks
    <2>2. /\ u \in [Carrier -> Worker] /\ \A d \in Carrier : u[d].hand = worker[d].hand
      <3>1. /\ u \in [Carrier -> Worker] /\ u[c].hand = worker[c].hand
            /\ \A d \in Carrier \ {c} : u[d] = worker[d]
        BY <1>1 DEF Worker, Job
      <3> QED
        BY <3>1
    <2> HIDE DEF u, near
    <2>3. \A d \in Carrier : worker'[d].hand = worker[d].hand
      BY <2>1, <2>2 DEF Worker
    <2> QED
      BY <2>1, <2>3, QuietBooks
  <1>4. CASE StandsOut(c)
    <2>1. \A d \in Carrier : worker'[d].hand = worker[d].hand
      BY <1>1, <1>4 DEF StandsOut, Worker
    <2> QED
      BY <1>4, <2>1, QuietBooks DEF StandsOut
  <1>5. CASE AdvanceHarvest(c)
    BY <1>5, LookBooks
  <1> QED
    BY <1>2, <1>3, <1>4, <1>5 DEF AdvanceCarrier

\* The dying go, and with them what they hold.
LEMMA FlushDyingBooks ==
  ASSUME HarvestInv, HarvestInv', NEW k \in KindsOfResource, FlushDying
  PROVE  Balance(k)
  <1> DEFINE quit(c) == LET x == Unemployed(Now(c), c)
                        IN  [x EXCEPT !.w.life = "gone", !.w.hand = Empty]
             x == [c \in Carrier |-> IF worker[c].life = "dying" THEN quit(c) ELSE Now(c)]
  <1>1. AllAtOnce(x) /\ UNCHANGED <<left, bank, standing>>
    BY Zenon DEF FlushDying, PassEnds
  <1>2. ASSUME NEW c \in Carrier PROVE quit(c).w.hand = Empty /\ quit(c).w.life = "gone"
    <2> DEFINE y == Unemployed(Now(c), c)
               z == [y EXCEPT !.w.life = "gone"]
    <2>1. y \in Turn
      BY SoundNow, SoundUnemployed DEF Sound
    <2>2. quit(c) = [z EXCEPT !.w.hand = Empty]
      OBVIOUS
    <2> HIDE DEF y, quit
    <2>3. z \in Turn /\ z.w.life = "gone"
      BY <2>1 DEF Turn, Worker
    <2> HIDE DEF z
    <2> QED
      BY <2>2, <2>3 DEF Turn, Worker
  <1> HIDE DEF quit
  <1>3. ASSUME NEW c \in Carrier
        PROVE  worker'[c] = IF worker[c].life = "dying" THEN quit(c).w ELSE worker[c]
    <2>1. x[c] = IF worker[c].life = "dying" THEN quit(c) ELSE Now(c)
      OBVIOUS
    <2> HIDE DEF x
    <2>2. worker'[c] = x[c].w
      BY <1>1 DEF AllAtOnce
    <2> QED
      BY <2>1, <2>2 DEF Now
  <1> HIDE DEF x
  <1>4. k # "none"
    BY HarvestAssumption DEF KindsOfResource
  <1>5. ASSUME NEW c \in Carrier PROVE InHand(k)'[c] + Wasted(k)[c] = InHand(k)[c]
    <2>1. CASE worker[c].life = "dying"
      <3>1. worker'[c].hand = Empty /\ worker'[c].life = "gone"
        BY <1>2, <1>3, <2>1
      <3>2. HandOf(c, k) \in Int
        BY DEF HandOf, HarvestInv, HarvestTypeOK, Worker, Load
      <3>3. InHand(k)'[c] = 0 /\ Wasted(k)[c] = HandOf(c, k)
        BY <1>4, <3>1 DEF InHand, Wasted, HandOf, Empty
      <3> QED
        BY <3>2, <3>3 DEF InHand
    <2>2. CASE worker[c].life # "dying"
      BY <1>3, <2>2, HandStays
    <2> QED
      BY <2>1, <2>2
  <1>6. PICK s \in Source, d \in Carrier, p \in Side : TRUE
    BY HarvestAssumption DEF KindsOfResource
  <1>7. Shifted(Source, InSources(k), InSources(k)', Destroyed(k), s, 0)
    BY <1>1, SourceStays, AccountsTyped DEF Shifted
  <1>8. Shifted(Carrier, InHand(k), InHand(k)', Wasted(k), d, 0)
    BY <1>5, AccountsTyped DEF Shifted
  <1>9. \A q \in Side : Banked(k)'[q] = Banked(k)[q] + IF q = p THEN 0 ELSE 0
    BY <1>1, BankStays, AccountsTyped
  <1> QED
    BY <1>7, <1>8, <1>9, Books

\* The marked give up their orders and begin the new ones.
LEMMA PreparedBooks ==
  ASSUME HarvestInv, HarvestInv', NEW k \in KindsOfResource, PrepareAll
  PROVE  Balance(k)
  <1>1. ASSUME NEW c \in Carrier PROVE Prepared(c).w.hand = worker[c].hand
    <2> DEFINE u == Unemployed(Now(c), c)
               y == [u EXCEPT !.w.told = "nothing"]
               z == [y EXCEPT !.w = Employed(y.w, worker[c].told)]
    <2>1. Sound(c, Now(c)) /\ Now(c).w = worker[c]
      BY SoundNow DEF Now
    <2>2. u \in Turn /\ u.w.hand = worker[c].hand
      BY <2>1, SoundUnemployed, HandKept DEF Sound
    <2>3. Prepared(c) = Now(c) \/ Prepared(c) = y \/ Prepared(c) = z
      BY Zenon DEF Prepared
    <2> HIDE DEF u
    <2>4. y \in Turn /\ y.w.hand = worker[c].hand
      BY <2>2 DEF Turn, Worker
    <2> HIDE DEF y
    <2>5. Employed(y.w, worker[c].told).hand = worker[c].hand
      BY <2>4 DEF Employed, Turn, Worker
    <2>6. z.w.hand = worker[c].hand
      BY <2>4, <2>5 DEF Turn
    <2> QED
      BY <2>1, <2>3, <2>4, <2>6
  <1>2. \A c \in Carrier : worker'[c] = Prepared(c).w
    BY DEF PrepareAll, AllAtOnce
  <1>3. \A c \in Carrier : worker'[c].hand = worker[c].hand
    BY <1>1, <1>2
  <1> QED
    BY <1>3, QuietBooks DEF PrepareAll, PassEnds

\* Whoever waits off the map comes back with what it held.
LEMMA RevealBooks ==
  ASSUME HarvestInv, HarvestInv', NEW k \in KindsOfResource, ProcessPendingReveals
  PROVE  Balance(k)
  <1>1. worker \in [Carrier -> Worker]
    BY DEF HarvestInv, HarvestTypeOK
  <1>2. \A w \in Worker : Returned(w).hand = w.hand
    BY DEF Returned, Worker
  <1>3. \A c \in Carrier : worker'[c].hand = worker[c].hand
    BY <1>1, <1>2 DEF ProcessPendingReveals
  <1> QED
    BY <1>3, QuietBooks DEF ProcessPendingReveals, PassEnds

\* A command, or a carrier that starts dying, moves no load.
LEMMA MarkBooks ==
  ASSUME HarvestInv, HarvestInv', NEW k \in KindsOfResource, NEW c \in Carrier,
         KillCarrier(c) \/ \E what \in Site \cup {"stop"} : CommandCarrier(c, what)
  PROVE  Balance(k)
  <1>1. worker \in [Carrier -> Worker]
    BY DEF HarvestInv, HarvestTypeOK
  <1>2. CASE KillCarrier(c)
    <2> DEFINE u == [worker EXCEPT ![c].life = "dying"]
               body == IF worker[c].body = "waiting" THEN "nothing" ELSE worker[c].body
    <2>1. worker' = [u EXCEPT ![c].body = body] /\ UNCHANGED <<left, bank, standing>>
      BY <1>2 DEF KillCarrier
    <2>2. u \in [Carrier -> Worker] /\ \A d \in Carrier : u[d].hand = worker[d].hand
      BY <1>1 DEF Worker
    <2> HIDE DEF u, body
    <2>3. \A d \in Carrier : worker'[d].hand = worker[d].hand
      BY <2>1, <2>2 DEF Worker
    <2> QED
      BY <2>1, <2>3, QuietBooks
  <1>3. ASSUME NEW what, CommandCarrier(c, what) PROVE Balance(k)
    <2>1. \A d \in Carrier : worker'[d].hand = worker[d].hand
      BY <1>1, <1>3 DEF CommandCarrier, Worker
    <2> QED
      BY <1>3, <2>1, QuietBooks DEF CommandCarrier
  <1> QED
    BY <1>2, <1>3

\* A carrier changes sides with what it holds.
LEMMA CaptureBooks ==
  ASSUME HarvestInv, HarvestInv', NEW k \in KindsOfResource, NEW c \in Carrier, NEW p \in Side,
         CaptureCarrier(c, p)
  PROVE  Balance(k)
  <1> DEFINE x == Unemployed(Now(c), c)
             z == [x EXCEPT !.w.told = "nothing"]
             y == [z EXCEPT !.w.side = p]
  <1>1. Sound(c, Now(c)) /\ Now(c).w = worker[c]
    BY SoundNow DEF Now
  <1>2. x \in Turn /\ x.w.hand = worker[c].hand
    BY <1>1, SoundUnemployed, HandKept DEF Sound
  <1>3. Puts(c, y) /\ UNCHANGED <<left, bank, standing>>
    BY DEF CaptureCarrier
  <1> HIDE DEF x
  <1>4. z \in Turn /\ z.w.hand = worker[c].hand
    BY <1>2 DEF Turn, Worker
  <1> HIDE DEF z
  <1>5. y.w.hand = worker[c].hand
    BY <1>4 DEF Turn, Worker
  <1> HIDE DEF y
  <1>6. Settles(c, y)
    BY <1>3 DEF Settles
  <1> QED
    BY <1>5, <1>6, SettlesBooks

\* A place destroyed or moved takes no load with it but what its sources held.
LEMMA PlaceBooks ==
  ASSUME HarvestInv, HarvestInv', NEW k \in KindsOfResource, NEW s \in Site,
         Destroy(s) \/ MoveSite(s)
  PROVE  Balance(k)
  <1>1. worker \in [Carrier -> Worker]
    BY DEF HarvestInv, HarvestTypeOK
  <1>2. CASE Destroy(s)
    <2>1. \A w \in Worker : Returned(w).hand = w.hand
      BY DEF Returned, Worker
    <2>2. \A c \in Carrier : worker'[c].hand = worker[c].hand
      BY <1>1, <1>2, <2>1 DEF Destroy, SettleWorkers
    <2> QED
      BY <1>2, <2>2, QuietBooks DEF Destroy
  <1>3. CASE MoveSite(s)
    <2>1. \A c \in Carrier : worker'[c].hand = worker[c].hand
      BY <1>1, <1>3 DEF MoveSite, Worker
    <2> QED
      BY <1>3, <2>1, QuietBooks DEF MoveSite
  <1> QED
    BY <1>2, <1>3

\* Nothing a step does makes or loses any of a kind.
LEMMA StepBooks ==
  ASSUME HarvestInv, HarvestInv', NEW k \in KindsOfResource, yard.drain >= yard.capacity,
         [HarvestNext]_harvestVars
  PROVE  Balance(k)
  <1>1. CASE FlushDying \/ PrepareAll \/ ProcessPendingReveals
    BY <1>1, FlushDyingBooks, PreparedBooks, RevealBooks
  <1>2. ASSUME NEW c \in Carrier, AdvanceCarrier(c) PROVE Balance(k)
    BY <1>2, AdvanceBooks
  <1>3. ASSUME NEW c \in Carrier,
               KillCarrier(c) \/ \E what \in Site \cup {"stop"} : CommandCarrier(c, what)
        PROVE  Balance(k)
    BY <1>3, MarkBooks
  <1>4. ASSUME NEW c \in Carrier, NEW p \in Side, CaptureCarrier(c, p) PROVE Balance(k)
    BY <1>4, CaptureBooks
  <1>5. ASSUME NEW s \in Site, Destroy(s) \/ MoveSite(s) PROVE Balance(k)
    BY <1>5, PlaceBooks
  <1>6. ASSUME \/ \E s \in Site : ShutOrOpen(s)
               \/ \E s \in Storage, p \in Side : CaptureStorage(s, p)
               \/ CrowdOrClear
               \/ UNCHANGED harvestVars
        PROVE  Balance(k)
    <2>1. UNCHANGED <<worker, left, standing, bank>>
      BY <1>6 DEF ShutOrOpen, CaptureStorage, CrowdOrClear, harvestVars
    <2> QED
      BY <2>1, QuietBooks
  <1> QED
    BY <1>1, <1>2, <1>3, <1>4, <1>5, <1>6 DEF HarvestNext, HarvestEvent, HarvestTick

\* NothingMadeOrLost: where a trip drains what it takes, every step leaves as
\* much of a kind in the sources, the hands and the accounts as there was, less
\* the sources destroyed, the loads of the dying and the loads of another kind
\* dropped: no load is banked twice, taken by two or lost on the way, whoever
\* is killed, captured or called away (transfer and bank_load of harvest.rs).
THEOREM NothingIsLost == HarvestSpec => NothingMadeOrLost
  <1>1. HarvestInv /\ HarvestInv' /\ [HarvestNext]_harvestVars
          => [yard.drain >= yard.capacity
                => \A k \in KindsOfResource : Worth(k)' + Loss(k) = Worth(k)]_harvestVars
    BY StepBooks DEF Balance
  <1> QED
    BY CrewsHold, <1>1, PTL DEF HarvestSpec, NothingMadeOrLost
=============================================================================
