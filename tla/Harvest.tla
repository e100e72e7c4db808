------------------------------ MODULE Harvest ------------------------------
(***************************************************************************)
(* The Harvest order: carriers work sources of one kind of resource and    *)
(* deliver to their owner's storages, over the passes of a tick.  Commands *)
(* mark, the dying are flushed, the marked are flushed and the new orders  *)
(* prepared, the carriers advance one after another, and those off the map *)
(* without a cell try again.  A source may be mined out, destroyed or      *)
(* moved, a storage captured, the way to either shut, or every cell taken, *)
(* between any two of these steps.                                         *)
(*                                                                         *)
(* A carrier stands within reach of one place or in the field, and a walk  *)
(* of its order takes one tick.                                            *)
(***************************************************************************)
EXTENDS Integers, FiniteSets, FiniteSetsExt

CONSTANTS Carrier,       \* 1 .. n, in the order of their ids
          Source, Storage, Side,
          KindOf,        \* the resource each source yields
          Spent,         \* DepletionPolicy of each source
          Yards,         \* the games considered, see HarvestInit
          RetryPeriod    \* BLOCKED_WALK_RETRY_PERIOD

ASSUME HarvestAssumption ==
  /\ Carrier = 1..Cardinality(Carrier) /\ IsFiniteSet(Carrier) /\ Carrier # {}
  /\ Source \cap Storage = {}
  /\ {"none", "field", "stop", "nothing"} \cap (Source \cup Storage) = {}
  /\ IsFiniteSet(Source) /\ \A s \in Source : KindOf[s] # "none"
  /\ "a" \in Side /\ IsFiniteSet(Side)
  /\ Spent \in [Source -> {"destroy", "persist"}]
  /\ RetryPeriod \in Nat \ {0}

VARIABLES
  yard,      \* the terms of the game: presence, banking, capacity, drain, ...
  worker,    \* every carrier's components
  crew,      \* UnderHarvestComponent::carriers of every source
  left,      \* ResourceSourceComponent::amount of every source
  standing,  \* the sources and storages alive
  keeper,    \* the owner of each storage
  bank,      \* PlayerResources, by side and kind
  shut,      \* the places no walk leads to
  crowded,   \* whether no cell takes a body that comes back
  pass, upNext,   \* the pass of the tick, and the carrier to advance
  mishaps    \* how much else may still happen

harvestVars ==
  <<yard, worker, crew, left, standing, keeper, bank, shut, crowded, pass, upNext, mishaps>>

Site == Source \cup Storage
KindsOfResource == {KindOf[s] : s \in Source}
Load == [kind : KindsOfResource \cup {"none"}, n : Nat]

\* Capacities, drains, times and crews are u32 in the definitions.
ASSUME YardsAssumption ==
  \A y \in Yards :
    /\ {y.capacity, y.drain, y.time, y.mishaps} \subseteq Nat
    /\ y.limit \in [Carrier -> Nat] /\ y.hands \in [Carrier -> Load]
    /\ y.told \in [Carrier -> Site \cup {"stop", "nothing"}]
    /\ y.left \in [Source -> Nat] /\ y.standing \subseteq Site

\* HarvestComponent::new, or no driver at all.
Jobless == [order |-> "none", kind |-> "none", settled |-> "none", trip |-> "none",
            progress |-> 0, wait |-> 0, delivered |-> FALSE, walk |-> "none"]

\* The first commands are given; a carrier may hold a load from before.
HarvestInit ==
  /\ yard \in Yards
  /\ worker = [c \in Carrier |->
       [life |-> "alive", side |-> "a", body |-> "map", near |-> "field",
        hand |-> yard.hands[c], job |-> Jobless, told |-> yard.told[c]]]
  /\ crew = [s \in Source |-> {}] /\ left = yard.left
  /\ standing = yard.standing /\ keeper = [s \in Storage |-> "a"]
  /\ bank = [p \in Side |-> [k \in KindsOfResource |-> 0]]
  /\ shut = {} /\ crowded = FALSE
  /\ pass = "commands" /\ upNext = 1 /\ mishaps = yard.mishaps

Lives(c) == worker[c].life = "alive"
OffMap(w) == w.body # "map"
Empty == [kind |-> "none", n |-> 0]

-----------------------------------------------------------------------------
(* Trips.                                                                   *)

\* A body back beside its source, or off the map until a cell is free.
Returned(w) ==
  IF w.life # "alive" \/ ~OffMap(w) THEN w
  ELSE [w EXCEPT !.body = IF crowded THEN "waiting" ELSE "map"]

\* What a step works on: the carrier, and the crews.
Now(c) == [w |-> worker[c], crews |-> crew]

\* Mutant: a trip that ends leaves the crew as it was.
StopWork_StaysInCrew(x, c) == [x EXCEPT !.w.job.trip = "none", !.w.job.progress = 0]

\* The work put down, and a source alive given back up.
StopWork(x, c) ==
  LET s == x.w.job.trip IN
  [w |-> [x.w EXCEPT !.job.trip = "none", !.job.progress = 0],
   crews |-> IF s \in standing THEN [x.crews EXCEPT ![s] = @ \ {c}] ELSE x.crews]

EndTrip(x, c) == LET y == StopWork(x, c) IN [y EXCEPT !.w = Returned(@)]

BeginTrip(x, c, s) ==
  [w |-> [x.w EXCEPT !.job.trip = s, !.job.progress = 0,
                     !.body = IF yard.presence = "hidden" THEN "inside" ELSE @],
   crews |-> [x.crews EXCEPT ![s] = @ \cup {c}]]

\* The order over, whichever way it ends.
Unemployed(x, c) == LET y == EndTrip(x, c) IN [y EXCEPT !.w.job = Jobless]

\* Mutant: those inside a source that goes are left there.
SettleWorkers_LeftInside(workers, hands) == workers

\* A source on its way out lets out everyone of its crew hidden inside it.
SettleWorkers(workers, hands) ==
  [c \in Carrier |-> IF c \in hands THEN Returned(workers[c]) ELSE workers[c]]

\* The strictest carrier's limit decides, read against the crew to be.
Excludes(s, c) ==
  LET crowd == {x \in crew[s] : Lives(x)} \cup {c}
  IN  \E x \in crowd : yard.limit[x] < Cardinality(crowd)

-----------------------------------------------------------------------------
(* Targets.                                                                 *)

Matches(s, kind) == s \in standing \cap Source /\ KindOf[s] = kind /\ left[s] > 0

\* The nearest of some places: the one the carrier stands at, or any a walk
\* leads to.
Nearest(w, found) ==
  IF w.near \in found THEN {w.near}
  ELSE IF found \subseteq shut THEN {"none"} ELSE found \ shut

NearestSource(w, except) ==
  Nearest(w, {s \in Source \ except : Matches(s, w.job.kind)})

\* The trip, the settled source and the target, in this order.
ResolveSource(w) ==
  IF Matches(w.job.trip, w.job.kind) THEN {w.job.trip}
  ELSE IF Matches(w.job.settled, w.job.kind) THEN {w.job.settled}
  ELSE IF Matches(w.job.order, w.job.kind) THEN {w.job.order}
  ELSE NearestSource(w, {})

Takes(store, p) == store \in standing \cap Storage /\ keeper[store] = p

ResolveStorage(w) ==
  IF Takes(w.job.order, w.side) THEN {w.job.order}
  ELSE Nearest(w, {t \in Storage : Takes(t, w.side)})

\* What the target has the order harvest: the kind, and the source if it is one.
CanHarvest(w, target) ==
  /\ target \in standing
  /\ target \in Storage => keeper[target] = w.side /\ w.hand.n > 0

Employed(w, target) ==
  [w EXCEPT !.job = [Jobless EXCEPT
     !.order = target,
     !.kind = IF target \in Source THEN KindOf[target] ELSE w.hand.kind,
     !.settled = IF target \in Source THEN target ELSE "none"]]

-----------------------------------------------------------------------------
(* The carrier's turn.                                                      *)

MyTurn(c) == pass = "advance" /\ upNext = c

TurnPassed ==
  IF upNext + 1 \in Carrier THEN upNext' = upNext + 1 /\ UNCHANGED pass
                            ELSE upNext' = 1 /\ pass' = "reveal"

Puts(c, x) == worker' = [worker EXCEPT ![c] = x.w] /\ crew' = x.crews
Settles(c, x) == Puts(c, x) /\ UNCHANGED <<left, bank, standing>>

\* A carrier without an order, or off the map without a cell, does nothing.
Rests(c) ==
  /\ ~Lives(c) \/ worker[c].job.order = "none" \/ worker[c].body = "waiting"
  /\ UNCHANGED <<worker, crew, left, bank, standing>>

Engaged(c) == Lives(c) /\ worker[c].job.order # "none" /\ worker[c].body # "waiting"

\* The walk in front of the order ends, there or short of it.
Walks(c) ==
  /\ Engaged(c) /\ worker[c].job.walk # "none"
  /\ worker' = [worker EXCEPT ![c].job.walk = "none",
                              ![c].near = IF worker[c].job.walk \in shut THEN @
                                          ELSE worker[c].job.walk]
  /\ UNCHANGED <<crew, left, bank, standing>>

\* The retry timer runs down.
StandsOut(c) ==
  /\ Engaged(c) /\ worker[c].job.walk = "none" /\ worker[c].job.wait > 0
  /\ worker' = [worker EXCEPT ![c].job.wait = @ - 1]
  /\ UNCHANGED <<crew, left, bank, standing>>

Looks(c) == Engaged(c) /\ worker[c].job.walk = "none" /\ worker[c].job.wait = 0

\* The way is shut: the walk is tried again after a while.
WaitsOut(x) == [x EXCEPT !.w.job.wait = RetryPeriod]

\* Mutant: the hands keep what they put down.
BankLoad_KeepsLoad(c, x) ==
  /\ bank' = [bank EXCEPT ![x.w.side][x.w.hand.kind] = @ + x.w.hand.n]
  /\ Puts(c, [x EXCEPT !.w.job.delivered = TRUE])

BankLoad(c, x) ==
  /\ bank' = [bank EXCEPT ![x.w.side][x.w.hand.kind] = @ + x.w.hand.n]
  /\ Puts(c, [x EXCEPT !.w.hand = Empty, !.w.job.delivered = TRUE])

\* A delivery ends the trip first, and starts once the carrier stands.
Deliver(c, x0) ==
  LET x == EndTrip(x0, c) IN
  IF OffMap(x.w) THEN Settles(c, x)
  ELSE \E t \in ResolveStorage(x.w) :
         IF t = "none" THEN Settles(c, Unemployed(x, c))
         ELSE IF x.w.near = t THEN BankLoad(c, x) /\ UNCHANGED <<left, standing>>
         ELSE IF t \in shut THEN Settles(c, WaitsOut(x))
         ELSE Settles(c, [x EXCEPT !.w.job.walk = t])

\* What a trip takes, and what it costs the source.
Kept(w, s) == IF yard.banking = "carried" /\ w.hand.kind = KindOf[s] THEN w.hand.n ELSE 0
Room(w, s) == LET k == Kept(w, s) IN IF yard.capacity > k THEN yard.capacity - k ELSE 0
Take(w, s) == IF yard.drain = 0 THEN Room(w, s) ELSE Min({Room(w, s), left[s]})
Drained(w, s) == Min({yard.drain, Take(w, s)})

\* The load changes hands: carried away, or banked on the spot.
Transfer(c, x) ==
  LET s == x.w.job.trip
      take == Take(x.w, s)
      y == IF yard.banking = "carried"
           THEN EndTrip([x EXCEPT !.w.hand = [kind |-> KindOf[s], n |-> Kept(x.w, s) + take]], c)
           ELSE [x EXCEPT !.w.job.progress = 0]
      rest == left[s] - Drained(x.w, s)
      gone == rest = 0 /\ Spent[s] = "destroy"
      workers == [worker EXCEPT ![c] = y.w]
  IN  /\ bank' = IF yard.banking = "carried" THEN bank
                 ELSE [bank EXCEPT ![x.w.side][KindOf[s]] = @ + take]
      /\ left' = [left EXCEPT ![s] = rest]
      /\ standing' = IF gone THEN standing \ {s} ELSE standing
      /\ worker' = IF gone THEN SettleWorkers(workers, y.crews[s]) ELSE workers
      /\ crew' = y.crews

\* A tick at the source: taken up if it is free to be, and worked.
WorkSource(c, x, s) ==
  IF x.w.job.trip # s /\ Excludes(s, c) THEN Settles(c, x)
  ELSE LET y == IF x.w.job.trip = s THEN x ELSE BeginTrip(x, c, s)
           z == [y EXCEPT !.w.job.progress = @ + 1]
       IN  IF z.w.job.progress >= yard.time THEN Transfer(c, z)
           ELSE Settles(c, z)

\* Towards the source, and to work there; one shut off is swapped for another.
GoHarvest(c, x0, s) ==
  LET x == [x0 EXCEPT !.w.job.settled = s] IN
  IF x.w.near = s \/ (x.w.body = "inside" /\ x.w.job.trip = s) THEN WorkSource(c, x, s)
  ELSE IF s \notin shut THEN Settles(c, [x EXCEPT !.w.job.walk = s])
  ELSE \E other \in NearestSource(x.w, {s}) :
         Settles(c, IF other = "none" THEN WaitsOut(x)
                    ELSE [x EXCEPT !.w.job.settled = other])

\* One look at the map: a trip whose source is lost is abandoned, then the
\* carrier delivers, harvests, or is done.
AdvanceHarvest(c) ==
  /\ Looks(c)
  /\ \E s \in ResolveSource(worker[c]) :
       LET lost == worker[c].job.trip \notin {"none", s}
           x == IF lost THEN EndTrip(Now(c), c) ELSE Now(c)
           w == worker[c]
           carrying == w.hand.n > 0 /\ w.hand.kind = w.job.kind
           storeFirst == ~w.job.delivered /\ w.job.order \in standing \cap Storage
           full == w.hand.n >= yard.capacity
       IN  IF lost /\ OffMap(x.w) THEN Settles(c, x)
           ELSE IF carrying /\ (full \/ storeFirst \/ s = "none") THEN Deliver(c, x)
           ELSE IF s = "none" THEN Settles(c, Unemployed(x, c))
           ELSE GoHarvest(c, x, s)

AdvanceCarrier(c) ==
  /\ MyTurn(c) /\ TurnPassed
  /\ Rests(c) \/ Walks(c) \/ StandsOut(c) \/ AdvanceHarvest(c)
  /\ UNCHANGED <<yard, keeper, shut, crowded, mishaps>>

-----------------------------------------------------------------------------
(* The other passes of the tick.                                            *)

OnMap(c) == Lives(c) /\ ~OffMap(worker[c])

\* A command to a carrier on the map: harvest or deliver there, or stop.
CommandCarrier(c, what) ==
  /\ pass = "commands" /\ mishaps > 0 /\ OnMap(c)
  /\ IF what = "stop" THEN worker[c].job.order # "none" ELSE CanHarvest(worker[c], what)
  /\ worker' = [worker EXCEPT ![c].told = what] /\ mishaps' = mishaps - 1
  /\ UNCHANGED <<yard, crew, left, standing, keeper, bank, shut, crowded, pass, upNext>>

\* Every carrier at once, x[c] being what becomes of it and its source's crew.
AllAtOnce(x) ==
  /\ worker' = [c \in Carrier |-> x[c].w]
  /\ crew' = [s \in Source |-> {c \in crew[s] : c \in x[c].crews[s]}]

PassEnds(from, to) ==
  /\ pass = from /\ pass' = to
  /\ UNCHANGED <<yard, left, standing, keeper, bank, shut, crowded, upNext, mishaps>>

\* The commands end; the dying put their work down, where they are, and go.
FlushDying ==
  /\ PassEnds("commands", "prepare")
  /\ AllAtOnce([c \in Carrier |->
       IF worker[c].life = "dying"
       THEN LET x == Unemployed(Now(c), c) IN [x EXCEPT !.w.life = "gone", !.w.hand = Empty]
       ELSE Now(c)])

\* A mark flushes the order, and the new one begins if it still may.  Whoever is
\* marked stood on the map when it was told, and the flush leaves it there: no
\* new order is held back with a carrier that waits for a cell (conduct).
Prepared(c) ==
  LET x == Unemployed(Now(c), c)
      y == [x EXCEPT !.w.told = "nothing"]
  IN  IF ~Lives(c) \/ worker[c].told = "nothing" THEN Now(c)
      ELSE IF worker[c].told # "stop" /\ CanHarvest(x.w, worker[c].told)
           THEN [y EXCEPT !.w = Employed(@, worker[c].told)]
           ELSE y

PrepareAll ==
  /\ PassEnds("prepare", "advance")
  /\ AllAtOnce([c \in Carrier |-> Prepared(c)])

\* Mutant: whoever did not come back as its trip ended is not tried again.
ProcessPendingReveals_Never == PassEnds("reveal", "commands") /\ UNCHANGED <<worker, crew>>

\* Whoever waits off the map tries for a cell.
ProcessPendingReveals ==
  /\ PassEnds("reveal", "commands")
  /\ worker' = [c \in Carrier |-> IF worker[c].body = "waiting" THEN Returned(worker[c])
                                  ELSE worker[c]]
  /\ UNCHANGED crew

-----------------------------------------------------------------------------
(* What else happens, between any two steps.                                *)

Mishap == mishaps > 0 /\ mishaps' = mishaps - 1 /\ UNCHANGED <<yard, pass, upNext>>

\* A carrier starts dying, wherever it is; one that waits waits no more.
KillCarrier(c) ==
  /\ Mishap /\ Lives(c)
  /\ worker' = [worker EXCEPT ![c].life = "dying",
                              ![c].body = IF @ = "waiting" THEN "nothing" ELSE @]
  /\ UNCHANGED <<crew, left, standing, keeper, bank, shut, crowded>>

\* A source or a storage is destroyed.
Destroy(s) ==
  /\ Mishap /\ s \in standing /\ standing' = standing \ {s}
  /\ worker' = IF s \in Source THEN SettleWorkers(worker, crew[s]) ELSE worker
  /\ UNCHANGED <<crew, left, keeper, bank, shut, crowded>>

\* Another player captures a carrier on the map, whose orders end at once.
CaptureCarrier(c, p) ==
  /\ Mishap /\ OnMap(c) /\ p # worker[c].side
  /\ LET x == Unemployed(Now(c), c) IN
       Puts(c, [x EXCEPT !.w.told = "nothing", !.w.side = p])
  /\ UNCHANGED <<left, standing, keeper, bank, shut, crowded>>

CaptureStorage(s, p) ==
  /\ Mishap /\ s \in standing /\ p # keeper[s] /\ keeper' = [keeper EXCEPT ![s] = p]
  /\ UNCHANGED <<worker, crew, left, standing, bank, shut, crowded>>

\* A site is taken elsewhere, and with it whoever is inside.
MoveSite(s) ==
  /\ Mishap /\ s \in standing
  /\ worker' = [c \in Carrier |->
       IF worker[c].near = s /\ worker[c].body = "map" THEN [worker[c] EXCEPT !.near = "field"]
       ELSE worker[c]]
  /\ UNCHANGED <<crew, left, standing, keeper, bank, shut, crowded>>

\* The way to a place is shut or opens; the cells fill up or empty.
ShutOrOpen(s) ==
  /\ Mishap /\ shut' = IF s \in shut THEN shut \ {s} ELSE shut \cup {s}
  /\ UNCHANGED <<worker, crew, left, standing, keeper, bank, crowded>>

CrowdOrClear ==
  /\ Mishap /\ crowded' = ~crowded
  /\ UNCHANGED <<worker, crew, left, standing, keeper, bank, shut>>

HarvestEvent ==
  \/ \E c \in Carrier :
       \/ \E what \in Site \cup {"stop"} : CommandCarrier(c, what)
       \/ KillCarrier(c) \/ \E p \in Side : CaptureCarrier(c, p)
  \/ \E s \in Site : Destroy(s) \/ MoveSite(s) \/ ShutOrOpen(s)
  \/ \E s \in Storage, p \in Side : CaptureStorage(s, p)
  \/ CrowdOrClear

HarvestTick ==
  \/ FlushDying \/ PrepareAll \/ ProcessPendingReveals
  \/ \E c \in Carrier : AdvanceCarrier(c)

HarvestNext == HarvestEvent \/ HarvestTick

\* The schedule runs again and again.
HarvestSpec ==
  HarvestInit /\ [][HarvestNext]_harvestVars /\ WF_<<pass, upNext>>(HarvestTick)

-----------------------------------------------------------------------------
(* Properties.                                                              *)

\* Every variable has its type; no source yields more than it has.
Job == [order : Site \cup {"none"}, kind : KindsOfResource \cup {"none"},
        settled : Source \cup {"none"}, trip : Source \cup {"none"}, progress : Nat,
        wait : 0..RetryPeriod, delivered : BOOLEAN, walk : Site \cup {"none"}]
Worker == [life : {"alive", "dying", "gone"}, side : Side,
           body : {"map", "inside", "waiting", "nothing"}, near : Site \cup {"field"},
           hand : Load, job : Job, told : Site \cup {"stop", "nothing"}]
HarvestTypeOK ==
  /\ yard \in Yards /\ worker \in [Carrier -> Worker]
  /\ crew \in [Source -> SUBSET Carrier] /\ left \in [Source -> Nat]
  /\ standing \subseteq Site /\ shut \subseteq Site /\ crowded \in BOOLEAN
  /\ keeper \in [Storage -> Side] /\ bank \in [Side -> [KindsOfResource -> Nat]]
  /\ pass \in {"commands", "prepare", "advance", "reveal"} /\ upNext \in Carrier
  /\ mishaps \in 0..yard.mishaps

\* The crew of a source that stands is who is on a trip there (the expectation
\* of crew.rs:177: a member leaves only a job it joined).
CrewsMatch ==
  \A s \in standing \cap Source :
    crew[s] = {c \in Carrier : worker[c].life # "gone" /\ worker[c].job.trip = s}

\* Nobody alive is left inside a source that is gone, or that it does not work.
HiddenAtWork ==
  \A c \in Carrier : Lives(c) /\ worker[c].body = "inside" =>
    worker[c].job.trip \in standing /\ c \in crew[worker[c].job.trip]

\* No carrier alive works in a larger crew than it takes.
CrewsFit ==
  \A s \in standing \cap Source :
    LET crowd == {c \in crew[s] : Lives(c)} IN
    \A c \in crowd : Cardinality(crowd) <= yard.limit[c]

HarvestInv == HarvestTypeOK /\ CrewsMatch /\ HiddenAtWork /\ CrewsFit

\* What there is of a kind: in the sources that stand, in hand and banked.
Amount(f) == MapThenSumSet(LAMBDA i : f[i], DOMAIN f)
HandOf(c, k) == IF worker[c].hand.kind = k THEN worker[c].hand.n ELSE 0
InSources(k) == [s \in Source |-> IF s \in standing /\ KindOf[s] = k THEN left[s] ELSE 0]
InHand(k) == [c \in Carrier |-> HandOf(c, k)]
Banked(k) == [p \in Side |-> bank[p][k]]
Worth(k) == Amount(InSources(k)) + Amount(InHand(k)) + Amount(Banked(k))

\* What a step loses: a source destroyed, the load of a carrier that dies, and
\* the load of another kind a transfer drops.
Destroyed(k) ==
  [s \in Source |-> IF s \in standing \ standing' /\ KindOf[s] = k THEN left'[s] ELSE 0]
Wasted(k) ==
  [c \in Carrier |-> LET hand == worker'[c].hand
                     IN  IF hand.kind # k /\ (worker'[c].life = "gone" \/ hand # Empty)
                         THEN HandOf(c, k) ELSE 0]
Loss(k) == Amount(Destroyed(k)) + Amount(Wasted(k))

\* Where a trip drains what it takes, a kind is neither made nor lost but by
\* these losses: no load is banked twice, taken by two or dropped on the way.
NothingMadeOrLost ==
  [][yard.drain >= yard.capacity => \A k \in KindsOfResource : Worth(k)' + Loss(k) = Worth(k)]_harvestVars

\* A carrier inside a source, waiting off the map or with a full load comes out,
\* is set down and banks the load, unless it dies or its order ends, once the
\* ways and the cells stay free (pending_reveal.rs, and the retry of Deliver).
Laden(w) == w.job.order # "none" /\ w.hand.kind = w.job.kind /\ w.hand.n >= yard.capacity
Bound(c) == Lives(c) /\ (OffMap(worker[c]) \/ Laden(worker[c]))
CarriesOn == \A c \in Carrier : Bound(c) ~> (~Bound(c) \/ shut # {} \/ crowded)

\* A replacement an order settled on is gone to, where the way to it stays open
\* (harvest.rs:600, a replacement picked must then stick).
SettledOn(c, s) ==
  /\ Lives(c) /\ worker[c].job.settled = s
  /\ Matches(s, worker[c].job.kind) /\ s \notin shut
SwapSticks ==
  \A c \in Carrier, s \in Source :
    SettledOn(c, s)
      ~> (~SettledOn(c, s) \/ worker[c].near = s \/ worker[c].job.walk = s)
=============================================================================
