------------------------------ MODULE CellWalk ------------------------------
(***************************************************************************)
(* Bodies walking cell by cell (MovementModel::Cell): their claims on the  *)
(* cells, the crossings between them, and the ladder a walk works down     *)
(* when another body holds the cell ahead: trading places, arriving beside *)
(* it, asking it to make way, going round it, waiting, giving up.          *)
(*                                                                         *)
(* Bodies are one cell wide, on one layer, numbered in the order the       *)
(* simulation goes through them.  The map is one cluster of the hierarchy, *)
(* so that a plan has no corridor and one segment leads to its target.     *)
(* Every step costs the same, as in the isometric projection, and a search *)
(* returns any of the cheapest routes: the bias that separates opposing    *)
(* flows (lane_bias) is left out.                                          *)
(***************************************************************************)
EXTENDS OrderQueue, FiniteSetsExt

CONSTANTS
  Width, Height,
  Bodies,        \* 1 .. n
  Scenes,        \* the games considered, see Scene
  SiteCell,      \* the cell a building of side SiteSide can spread over
  SiteSide,
  Goals,         \* where bodies are sent
  Ranges,        \* how near is near enough
  BlockedWait,   \* BLOCKED_WAIT_TICKS
  GiveUp,        \* GIVE_UP_ESCALATIONS
  Growth,        \* MAX_ACCEPTANCE_GROWTH
  Lookahead,     \* DETOUR_LOOKAHEAD
  Penalty,       \* CLAIM_PENALTY, in steps
  MaxEvents      \* bound: commands, deaths, disablings and changes of the building

Cell == (0 .. Width - 1) \X (0 .. Height - 1)

\* The cells no body can stand on; where each body stands at first and the
\* side it is on; the bodies that need a second tick for a crossing, and those
\* that hold their ground when asked aside.
Scene ==
  [terrain : SUBSET Cell, start : [Bodies -> Cell], side : [Bodies -> STRING],
   slow : SUBSET Bodies, stands : SUBSET Bodies]

ASSUME CellWalkAssumption ==
  /\ {Width, Height} \subseteq Nat
  /\ IsFiniteSet(Bodies) /\ Bodies # {} /\ Bodies = 1 .. Cardinality(Bodies)
  /\ Scenes \subseteq Scene
  /\ \A s \in Scenes :
       /\ SiteCell \in Cell \ s.terrain
       /\ \A a, b \in Bodies : s.start[a] \notin s.terrain /\ (s.start[a] = s.start[b] => a = b)
  /\ Goals \subseteq Cell
  /\ {BlockedWait, GiveUp, Growth, Lookahead, Penalty, MaxEvents} \subseteq Nat /\ Ranges \subseteq Nat

VARIABLES
  scene,
  alive,     \* the bodies the simulation goes through
  dying,     \* those that still hold their cell
  disabled,
  at,        \* the cell a body stands on, or left when it crosses
  crossing,  \* the bodies between two cells
  claimed,   \* the claim plane
  site,      \* whether the building holds SiteCell
  queue,
  walk,      \* the MoveComponent of every body that has one
  turn,      \* the body whose order runs next, 0 between two ticks
  events

walkVars ==
  <<scene, alive, dying, disabled, at, crossing, claimed, site, queue, walk, turn, events>>

NoPlan == <<>>
NewWalk ==
  [path |-> <<>>, plan |-> NoPlan, avoid |-> FALSE, detoured |-> FALSE,
   frustration |-> 0, wait |-> 0, winding |-> FALSE]
MoveOrder == [goal : Cell, range : Ranges \cup {0}]

Without(f, b) == [x \in DOMAIN f \ {b} |-> f[x]]
With(f, b, v) == [x \in DOMAIN f \cup {b} |-> IF x = b THEN v ELSE f[x]]

CellWalkInit ==
  /\ alive = Bodies /\ dying = {} /\ disabled = {}
  /\ scene \in Scenes
  /\ at = scene.start /\ crossing = {}
  /\ claimed = {at[b] : b \in Bodies}
  /\ site = FALSE
  /\ queue = [b \in Bodies |-> <<>>]
  /\ walk = <<>>
  /\ turn = 0 /\ events = 0

-----------------------------------------------------------------------------
(* The grid and the searches over it.                                       *)

Near(c, d, r) == \A i \in {1, 2} : c[i] - d[i] \in -r .. r

Standing == scene.terrain \cup (IF site THEN {SiteCell} ELSE {})
Open == Cell \ Standing

\* A diagonal step needs the two cells beside it free as well.
Steps(c, d, free) ==
  c # d /\ Near(c, d, 1) /\ {<<d[1], c[2]>>, <<c[1], d[2]>>, d} \ {c} \subseteq free

\* The cells at most n steps from one of the targets.
Balls(from, targets, free) ==
  LET ball[n \in 0 .. Cardinality(Cell)] ==
        IF n = 0 THEN targets \cap (free \cup {from})
        ELSE UNION {{d} \cup {c \in Cell : Steps(c, d, free) /\ (c = from \/ c \in free)} :
                      d \in ball[n - 1]}
  IN ball

\* The ways of n steps down from a cell, each a step nearer to a target.
Descents(ball, free) ==
  LET down[n \in 0 .. Cardinality(Cell)] ==
        IF n = 0 THEN [c \in Cell |-> {<<>>}]
        ELSE [c \in Cell |->
               UNION {{<<d>> \o rest : rest \in down[n - 1][d]} :
                        d \in {d \in ball[n - 1] : Steps(c, d, free)}}]
  IN down

\* The routes of fewest steps over the free cells to one of the targets.
Routes(from, targets, free) ==
  LET ball == Balls(from, targets, free)
      fewest(n) == from \in ball[n] /\ (n > 0 => from \notin ball[n - 1])
  IN IF from \notin ball[Cardinality(Cell)] THEN {}
     ELSE Descents(ball, free)[CHOOSE n \in 0 .. Cardinality(Cell) : fewest(n)][from]

Accepting(goal, range) == {c \in Cell : Near(c, goal, range)}

\* A step over open cells can be taken back, so this is the region of the cell.
Reachable(from) == Balls(from, {from}, Open)[Cardinality(Cell)]

\* The goal itself, or the nearest reachable cell in its place.
RepairGoal(from, goal, range) ==
  LET region == Reachable(from)
      ring(n) == {c \in region : Near(c, goal, n)}
  IN IF region \cap Accepting(goal, range) # {} THEN <<goal, range>>
     ELSE LET nearest == ring(Min({n \in 0 .. Width + Height : ring(n) # {}}))
          IN <<CHOOSE c \in nearest :
                 \A d \in nearest : c[1] < d[1] \/ (c[1] = d[1] /\ c[2] <= d[2]), 0>>

\* With every claim but the mover's own a wall.
ClaimAwareRoutes(b, o) ==
  LET free == Open \ (claimed \ {at[b]})
  IN IF o.range = 0 /\ o.goal \notin free THEN {}
     ELSE Routes(at[b], Accepting(o.goal, o.range), free)

\* Stepping onto a claimed cell is dear, not forbidden.  The cheapest route is
\* one of the shortest of those that cross no other claims.
Detours(from, rejoin) ==
  LET over(claims) == Routes(from, {rejoin}, Open \ (claimed \ claims))
      routes == UNION {over(claims) : claims \in SUBSET (claimed \ {from})}
      cost(r) == Len(r) + Penalty * Cardinality(Range(r) \cap claimed)
  IN {r \in routes : \A other \in routes : cost(r) <= cost(other)}

-----------------------------------------------------------------------------
(* Who holds what.                                                          *)

Walking(b) == b \in DOMAIN walk
Idle(b) == queue[b] = <<>>
Order(b) == queue[b][1].order

\* A crossing holds the cell it leads to.
Held(b) == IF b \in crossing THEN walk[b].path[1] ELSE at[b]
Claimants(c) == {b \in alive : Held(b) = c}

Acceptance(o, w) ==
  IF o.range = 0 THEN IF w.frustration < Growth THEN w.frustration ELSE Growth
  ELSE o.range
Arrived(o, w, c) == Near(c, o.goal, Acceptance(o, w))

GivesWay(b) ==
  /\ Idle(b) /\ ~Walking(b)
  /\ b \notin dying \cup disabled \cup scene.stands
Clears(b, side) ==
  /\ scene.side[b] = side
  /\ GivesWay(b) \/ (Walking(b) /\ b \notin dying \cup disabled)

-----------------------------------------------------------------------------
(* The ends of a step.                                                      *)

KeepOn(b, w) == walk' = With(walk, b, w) /\ UNCHANGED queue
Finish(b) ==
  /\ walk' = Without(walk, b)
  /\ queue' = [queue EXCEPT ![b] = Tail(@)]

Done(o, w, c) == w.winding \/ Arrived(o, w, c)

\* The step in progress lands.
Land(b, w, others) ==
  LET left == [w EXCEPT !.path = Tail(@)]
  IN IF left.path = <<>> /\ Done(Order(b), left, w.path[1])
     THEN /\ walk' = Without(others, b)
          /\ queue' = [queue EXCEPT ![b] = Tail(@)]
     ELSE walk' = With(others, b, left) /\ UNCHANGED queue

Forgiven(w) == [w EXCEPT !.wait = 0, !.frustration = 0, !.detoured = FALSE]

\* The next run of cells of a walk whose path ran out; an empty path says
\* that it is as close as it can get.
NextSegment(b) ==
  LET w == walk[b]
      o == Order(b)
      to(plan) == Routes(at[b], Accepting(plan[1], plan[2]), Open)
      taking(v, routes) == {[v EXCEPT !.path = r] : r \in routes}
      unplanned == [w EXCEPT !.plan = NoPlan]
      repaired == RepairGoal(at[b], o.goal, o.range)
  IN IF w.plan # NoPlan /\ Near(at[b], w.plan[1], w.plan[2]) THEN {w}
     ELSE IF w.plan # NoPlan /\ to(w.plan) # {} THEN taking(w, to(w.plan))
     ELSE IF w.avoid
          THEN taking([unplanned EXCEPT !.avoid = FALSE],
                      IF ClaimAwareRoutes(b, o) = {} THEN {<<>>} ELSE ClaimAwareRoutes(b, o))
     ELSE taking([w EXCEPT !.plan = repaired], to(repaired))

-----------------------------------------------------------------------------
(* The ladder of a blocked walk.                                            *)

\* (mutant) The wait of a blocked walk is not counted.
Waited_Uncounted(w) == w

Waited(w) == [w EXCEPT !.wait = @ + 1]

Repath(w) == [w EXCEPT !.path = <<>>, !.plan = NoPlan, !.avoid = TRUE, !.detoured = FALSE]
TakeRoute(w, route) == [w EXCEPT !.path = route, !.plan = NoPlan, !.detoured = FALSE]

\* Waiting, then a local detour back onto the segment, then a new plan; the
\* walks and queues are as an ask has left them.
Patience(b, w, walks, queues) ==
  LET rejoin == Min({Len(w.path), 1 + Lookahead})
      beyond == SubSeq(w.path, rejoin + 1, Len(w.path))
      climbed == [w EXCEPT !.wait = 0, !.frustration = @ + 1]
      detours == Detours(at[b], w.path[rejoin]) \ {<<>>}
  IN IF w.wait < BlockedWait
     THEN walk' = With(walks, b, Waited(w)) /\ queue' = queues
     ELSE IF climbed.frustration > GiveUp
     THEN walk' = Without(walks, b) /\ queue' = [queues EXCEPT ![b] = Tail(@)]
     ELSE /\ queue' = queues
          /\ IF ~w.detoured /\ detours # {}
             THEN \E route \in detours :
                    walk' = With(walks, b, [climbed EXCEPT !.detoured = TRUE,
                                                           !.path = route \o beyond])
             ELSE walk' = With(walks, b, Repath(climbed))

\* The cells nearest to a body, of those allowed, that it can be set down on or
\* sent to.
Landings(b, allowed) ==
  LET around == {at[b], Held(b)}
      ring(n) == {c \in (Reachable(Held(b)) \cap allowed) \ claimed :
                    \E a \in around : Near(c, a, n)}
      rings == {n \in 1 .. Width + Height : ring(n) # {}}
  IN IF rings = {} THEN {} ELSE ring(Min(rings))

\* Where a body asked aside walks to: off the way ahead, and not back the
\* way the walk comes.
WaysAside(x, here, path) ==
  Landings(x, {c \in Cell \ Range(path) :
    (c[1] - at[x][1]) * (path[1][1] - here[1]) + (c[2] - at[x][2]) * (path[1][2] - here[2]) >= 0})

Swap(b, x, w) ==
  LET here == at[b]
      next == w.path[1]
      counter == Forgiven(walk[x])
      walks == With(walk, x, IF x \in scene.slow THEN counter ELSE [counter EXCEPT !.path = Tail(@)])
  IN /\ at' = [at EXCEPT ![b] = IF b \in scene.slow THEN @ ELSE next,
                         ![x] = IF x \in scene.slow THEN @ ELSE here]
     /\ crossing' = crossing \cup ({b, x} \cap scene.slow)
     /\ IF b \in scene.slow THEN walk' = With(walks, b, Forgiven(w)) /\ UNCHANGED queue
        ELSE Land(b, Forgiven(w), walks)

HeadOn(b, x, w) ==
  x \notin crossing /\ Walking(x) /\ walk[x].path # <<>> /\ walk[x].path[1] = at[b]

\* The ladder past the exchange: nobody moves.
Resolve(b, w) ==
  LET o == Order(b)
      here == at[b]
      next == w.path[1]
      settled == {x \in Claimants(next) \ crossing : Idle(x) /\ scene.side[x] = scene.side[b]}
      reach == Acceptance(o, w)
      peers == settled # {} /\ o.range = 0
                 /\ Near(next, o.goal, reach) /\ Near(here, o.goal, reach + 1)
      skips == settled # {} /\ Len(w.path) > 1 /\ Near(here, w.path[2], 1)
      leaving == {x \in settled : GivesWay(x) /\ WaysAside(x, here, w.path) # {}}
      resting == {x \in Claimants(next) \ crossing : ~Walking(x)} # {} \/ (site /\ next = SiteCell)
      routes == ClaimAwareRoutes(b, o) \ {<<>>}
  IN IF peers THEN Finish(b)
     ELSE IF skips THEN KeepOn(b, [w EXCEPT !.path = Tail(@), !.wait = 0])
     ELSE IF leaving # {}
     THEN \E x \in leaving : \E c \in WaysAside(x, here, w.path) :
            Patience(b, w, With(walk, x, NewWalk),
                     [queue EXCEPT ![x] = <<[Entry([goal |-> c, range |-> 0])
                                               EXCEPT !.state = "running"]>>])
     ELSE IF resting /\ Arrived(o, w, next) /\ routes # {}
     THEN \E route \in routes : KeepOn(b, TakeRoute(w, route))
     ELSE Patience(b, w, walk, queue)

\* The claim moves when the crossing starts.
SetOff(b, w) ==
  /\ claimed' = (claimed \ {at[b]}) \cup {w.path[1]}
  /\ IF b \in scene.slow
     THEN crossing' = crossing \cup {b} /\ UNCHANGED at /\ KeepOn(b, Forgiven(w))
     ELSE at' = [at EXCEPT ![b] = w.path[1]] /\ UNCHANGED crossing /\ Land(b, Forgiven(w), walk)

\* A step to the cell the body stands on ends the program (can_step).
Step(b, w) ==
  LET next == w.path[1]
  IN /\ next # at[b]
     /\ IF next \notin Standing \cup claimed THEN SetOff(b, w)
        ELSE /\ UNCHANGED claimed
             /\ \/ \E x \in Claimants(next) : HeadOn(b, x, w) /\ Swap(b, x, w)
                \/ /\ \A x \in Claimants(next) : ~HeadOn(b, x, w)
                   /\ Resolve(b, w) /\ UNCHANGED <<at, crossing>>

ProcessCell(b) ==
  IF b \in crossing
  THEN /\ at' = [at EXCEPT ![b] = walk[b].path[1]] /\ crossing' = crossing \ {b}
       /\ Land(b, walk[b], walk) /\ UNCHANGED claimed
  ELSE IF Arrived(Order(b), walk[b], at[b])
  THEN Finish(b) /\ UNCHANGED <<at, crossing, claimed>>
  ELSE \E w \in IF walk[b].path = <<>> THEN NextSegment(b) ELSE {walk[b]} :
         IF w.path = <<>> THEN Finish(b) /\ UNCHANGED <<at, crossing, claimed>> ELSE Step(b, w)

-----------------------------------------------------------------------------
(* The tick.                                                                *)

\* A body that does not operate loses every order.
Marked(b) == IF b \in dying \cup disabled THEN MarkAll(queue[b], "force") ELSE queue[b]
Ends(e) == e.cancel = "force" \/ (e.cancel = "soft" /\ e.state = "new")
Kept(b) ==
  LET marked == Marked(b)
      kept[i \in 0 .. Len(marked)] ==
        IF i = 0 THEN <<>>
        ELSE IF Ends(marked[i]) THEN kept[i - 1] ELSE Append(kept[i - 1], marked[i])
  IN kept[Len(marked)]
CancelledBy(b, policy) == Walking(b) /\ Marked(b)[1].cancel = policy

\* (mutant) A walk told to stop forgets the step in progress as well.
LeaveOnlyCurrentTarget_Clears(w) ==
  [w EXCEPT !.path = <<>>, !.plan = NoPlan, !.winding = TRUE]

\* A started walk told to stop keeps only the step in progress.
LeaveOnlyCurrentTarget(w) ==
  [w EXCEPT !.path = SubSeq(@, 1, Min({1, Len(@)})), !.plan = NoPlan, !.winding = TRUE]

\* (mutant) A walk cut off in a crossing leaves its body where it came from.
SettleCrossing_Back(b) == at[b]

\* A walk cut off in a crossing leaves its body where its claim is.
SettleCrossing(b) == Held(b)

Prepare ==
  LET here == alive \cup dying
      stopped == {b \in here : CancelledBy(b, "force")}
      starts == {b \in here : Kept(b) # <<>> /\ Kept(b)[1].state = "new"}
  IN /\ turn = 0 /\ turn' = 1
     /\ at' = [b \in Bodies |-> IF b \in stopped THEN SettleCrossing(b) ELSE at[b]]
     /\ crossing' = crossing \ stopped
     /\ queue' = [b \in Bodies |->
          IF Kept(b) = <<>> THEN <<>>
          ELSE <<[Kept(b)[1] EXCEPT !.state = "running", !.cancel = Unmarked]>> \o Tail(Kept(b))]
     /\ walk' = [b \in (DOMAIN walk \ stopped) \cup starts |->
          IF b \in starts THEN NewWalk
          ELSE IF CancelledBy(b, "soft") THEN LeaveOnlyCurrentTarget(walk[b]) ELSE walk[b]]
     /\ UNCHANGED <<scene, alive, dying, disabled, claimed, site, events>>

Process(b) ==
  /\ turn = b /\ turn' = (b + 1) % (Cardinality(Bodies) + 1)
  /\ IF b \in alive \ disabled /\ Walking(b) THEN ProcessCell(b)
     ELSE UNCHANGED <<at, crossing, claimed, queue, walk>>
  /\ UNCHANGED <<scene, alive, dying, disabled, site, events>>

Tick == Prepare \/ \E b \in Bodies : Process(b)

Happens == events < MaxEvents /\ events' = events + 1

Command(b, o) ==
  /\ Happens /\ turn = 0 /\ b \in alive
  /\ queue' = [queue EXCEPT ![b] = Push(@, o, "soft")]
  /\ UNCHANGED <<scene, alive, dying, disabled, at, crossing, claimed, site, walk, turn>>

Stop(b) ==
  /\ Happens /\ turn = 0 /\ b \in alive /\ queue[b] # <<>>
  /\ queue' = [queue EXCEPT ![b] = MarkAll(@, "soft")]
  /\ UNCHANGED <<scene, alive, dying, disabled, at, crossing, claimed, site, walk, turn>>

\* A buff comes or goes.
Disable(b) ==
  /\ Happens /\ turn = 0 /\ b \in alive
  /\ disabled' = IF b \in disabled THEN disabled \ {b} ELSE disabled \cup {b}
  /\ UNCHANGED <<scene, alive, dying, at, crossing, claimed, site, queue, walk, turn>>

Die(b) ==
  /\ Happens /\ turn = 0 /\ b \in alive
  /\ alive' = alive \ {b} /\ dying' = dying \cup {b}
  /\ UNCHANGED <<scene, disabled, at, crossing, claimed, site, queue, walk, turn>>

\* The Die order completes and frees the cell.
Freed(b) ==
  /\ turn = 0 /\ b \in dying /\ Idle(b)
  /\ dying' = dying \ {b} /\ claimed' = claimed \ {Held(b)}
  /\ UNCHANGED <<scene, alive, disabled, at, crossing, site, queue, walk, turn, events>>

\* The building changes back onto its larger footprint, setting down a mover
\* that clears; a walker of it plans again from where it is set down.
Spread ==
  /\ Happens /\ turn = 1 /\ ~site /\ site' = TRUE
  /\ \/ /\ SiteCell \notin claimed
        /\ UNCHANGED <<at, crossing, claimed, walk>>
     \/ \E b \in Claimants(SiteCell), c \in Cell :
          /\ Clears(b, SiteSide) /\ c \in Landings(b, Cell \ {SiteCell})
          /\ at' = [at EXCEPT ![b] = c] /\ crossing' = crossing \ {b}
          /\ claimed' = (claimed \ {SiteCell}) \cup {c}
          /\ walk' = IF Walking(b) THEN With(walk, b, Repath(walk[b])) ELSE walk
  /\ UNCHANGED <<scene, alive, dying, disabled, queue, turn>>

Shrink ==
  /\ Happens /\ turn = 1 /\ site /\ site' = FALSE
  /\ UNCHANGED <<scene, alive, dying, disabled, at, crossing, claimed, queue, walk, turn>>

CellWalkNext ==
  \/ Tick
  \/ \E b \in Bodies :
       \/ \E g \in Goals, r \in Ranges : Command(b, [goal |-> g, range |-> r])
       \/ Stop(b) \/ Disable(b) \/ Die(b) \/ Freed(b)
  \/ Spread \/ Shrink

CellWalkSpec == CellWalkInit /\ [][CellWalkNext]_walkVars
CellWalkFairSpec == CellWalkSpec /\ []<><<TRUE>>_turn

-----------------------------------------------------------------------------
CellWalkTypeOK ==
  /\ scene \in Scenes
  /\ alive \subseteq Bodies /\ dying \subseteq Bodies \ alive /\ disabled \subseteq Bodies
  /\ at \in [Bodies -> Cell] /\ claimed \subseteq Cell
  /\ DOMAIN walk \subseteq alive \cup dying /\ crossing \subseteq DOMAIN walk
  /\ \A b \in DOMAIN walk :
       /\ DOMAIN walk[b] = DOMAIN NewWalk
       /\ walk[b].path \in Seq(Cell)
       /\ walk[b].frustration \in 0 .. GiveUp /\ walk[b].wait \in 0 .. BlockedWait
  /\ queue \in [Bodies -> Seq(OrderEntry(MoveOrder))]
  /\ site \in BOOLEAN /\ turn \in 0 .. Cardinality(Bodies) /\ events \in 0 .. MaxEvents

\* One claimant per cell: the claim plane is exactly the cells the bodies
\* hold, no two of them the same one, and none of them under the building or
\* on terrain, through exchanges, deaths and set-downs (ClaimPlane, try_swap,
\* shove_off).
ClaimsMatch ==
  /\ claimed = {Held(b) : b \in alive \cup dying}
  /\ \A a, b \in alive \cup dying : Held(a) = Held(b) => a = b
  /\ claimed \cap Standing = {}

\* A path leads on from where its body is, cell by cell, however it was cut,
\* spliced and skipped; and a crossing always knows the other cell it leads to.
Joins(c, path) ==
  \A i \in 1 .. Len(path) : Near(IF i = 1 THEN c ELSE path[i - 1], path[i], 1)
PathsLead ==
  /\ \A b \in DOMAIN walk : Joins(at[b], walk[b].path)
  /\ \A b \in crossing : walk[b].path # <<>> /\ at[b] # walk[b].path[1]

\* Only the front order of a queue is ever started, and the dead have none.
OnlyFrontRuns ==
  \A b \in Bodies :
    /\ \A i \in DOMAIN queue[b] : queue[b][i].state = "new" \/ (i = 1 /\ queue[b][1].state = "running")
    /\ b \notin alive \cup dying => queue[b] = <<>>

\* A body walks exactly when the front of its queue is a started Move
\* (process_tick, prepare_tick).
DriverMatchesQueue ==
  \A b \in Bodies : Walking(b) <=> (queue[b] # <<>> /\ queue[b][1].state = "running")

\* All four together (MoveComponent, tick_orders): a walk belongs to its order
\* and knows where its body is.
WalkInv == CellWalkTypeOK /\ PathsLead /\ OnlyFrontRuns /\ DriverMatchesQueue

\* The next step of a body at rest leads to another cell (the assertion of
\* NavGrid::can_step); PathsLead lets a path name a cell twice in a row.
StepsLead ==
  \A b \in DOMAIN walk \ crossing : walk[b].path # <<>> => at[b] # walk[b].path[1]

\* Every walk ends: the ladder of a blocked walk (step_blocked_cell) never keeps
\* a crowd going for ever.
WalksEnd == \A b \in Bodies : []<>(b \notin DOMAIN walk)
=============================================================================
