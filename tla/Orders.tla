------------------------------- MODULE Orders -------------------------------
(***************************************************************************)
(* The orders of entities over the phases of a tick: commands push and     *)
(* mark entries of the queues and pay for production and research, the     *)
(* dying are served, then every queue is flushed and its front prepared,   *)
(* suspended watchers are asked, and every front advances by one tick.     *)
(* What acts on an entity from outside its queue (a death, a capture, a    *)
(* holder or a cast that takes it away) falls between two fronts.          *)
(*                                                                         *)
(* Every unit, topic and change of form costs one; a unit fills one supply.*)
(***************************************************************************)
EXTENDS OrderQueue, FiniteSetsExt

CONSTANTS Player, Entity, Topic, Form, UnitType,
          Does,       \* the kinds of order a form has the capability for
          Trains,     \* the unit types a form trains
          Becomes,    \* the form each form changes into
          Terms,      \* how a change out of each form ends early
          Squads,     \* the entities there may be, and how much befalls them
          Stock, Cap, DyingTime,
          MaxPaid     \* bound

Legs == {"AttackMove", "Patrol"}
OnFoot == {"Move", "Attack", "Board"} \cup Legs

ASSUME OrdersAssumption ==
    /\ IsFiniteSet(Entity) /\ Entity = 1..Cardinality(Entity) /\ Entity # {}
    /\ IsFiniteSet(Player) /\ Player = 1..Cardinality(Player)
    /\ Topic \cap (OnFoot \cup {"Train", "Morph", "Die"}) = {}
    /\ Trains \in [Form -> SUBSET UnitType]
    /\ Becomes \in [Form -> Form]
    /\ Terms \in [Form -> {"committed", "forfeit", "refundable"}]
    /\ Squads \subseteq [units: [Entity -> [owner: Player, form: Form, life: {"alive", "gone"}]],
                         deeds: Nat]
    /\ {Stock, Cap, DyingTime, MaxPaid} \subseteq Nat

VARIABLES unit,     \* every entity's components
          stock,    \* every player's resources
          done,     \* the topics every player has completed
          made,     \* the trained units every player has
          stage, turn,    \* the phase of the tick, and whose turn it is
          deeds     \* how much may still happen from outside the queues

ordersVars == <<unit, stock, done, made, stage, turn, deeds>>

Order == OnFoot \cup {"Train", "Morph", "Die"} \cup Topic
Kind(o) == IF o \in Topic THEN "Research" ELSE o
Queued == {"Train", "Research"}    \* production: it queues and waits

\* An entity just spawned; a squad has no more than it names.
Standing(who) ==
    [owner |-> who.owner, form |-> who.form, queue |-> <<>>, drivers |-> {}, paid |-> <<>>,
     crossing |-> FALSE, winding |-> FALSE, change |-> "none", outage |-> "none",
     aboard |-> FALSE, life |-> who.life, left |-> 0]

OrdersInit ==
    /\ \E squad \in Squads :
         /\ unit = [e \in Entity |-> Standing(squad.units[e])]
         /\ deeds = squad.deeds
    /\ stock = [p \in Player |-> Stock]
    /\ done = [p \in Player |-> {}]
    /\ made = [p \in Player |-> 0]
    /\ stage = "commands" /\ turn = 1

Alive(e) == unit[e].life = "alive"
Commanded(e) == Alive(e) /\ ~unit[e].aboard
Changing(u) == u.change = "underWay"
Owned(p) == {e \in Entity : Alive(e) /\ unit[e].owner = p}

\* The kinds a soft cancel leaves in place.
SurvivesSoftCancel(o) == Kind(o) \in Queued \cup {"Die"}
ResistsSoftFlush(queue) == \E i \in DOMAIN queue : SurvivesSoftCancel(queue[i].order)

\* `seen` is the queue that hangs on the entity: none while its orders run.
CanStart(u, seen, o) ==
    \/ o = "Die"
    \/ /\ IF o = "Train" THEN Trains[u.form] # {} ELSE Kind(o) \in Does[u.form]
       /\ IF Kind(o) \in Queued THEN ~Changing(u) /\ u.outage # "orphaned"
                                ELSE u.outage = "none"
       /\ o = "Board" => ~Changing(u)
       /\ o = "Morph" => ~ResistsSoftFlush(seen)

\* What an entry does off the map or in an outage: it holds, runs or ends.
Conduct(u, entry) ==
    LET o == entry.order IN
    IF o = "Die" THEN "completes"
    ELSE IF u.aboard THEN "holds"
    ELSE IF u.outage = "none" THEN "completes"
    ELSE IF Kind(o) \in Queued THEN "holds"
    ELSE IF o = "Morph" /\ Started(entry) /\ Changing(u) THEN "completes"
    ELSE "cancels"

-----------------------------------------------------------------------------
(* Cancels.  A result is the unit, whether the entry stays, what goes back  *)
(* to its owner, and whether the unit dies of it.                           *)

Result(u, stays, back, dies) == [unit |-> u, stays |-> stays, back |-> back, dies |-> dies]
Ended(u) == Result(u, FALSE, 0, FALSE)
Without(u, o) == [u EXCEPT !.drivers = @ \ {Kind(o)}]

\* Mutant: a forced stop leaves the body between two cells.
CancelMove_Unsettled(u, entry, policy) ==
    IF policy = "force" THEN Ended([Without(u, "Move") EXCEPT !.winding = FALSE])
    ELSE IF entry.state = "running" THEN Result([u EXCEPT !.winding = TRUE], TRUE, 0, FALSE)
    ELSE Ended(u)

CancelMove(u, entry, policy) ==
    IF policy = "force"
    THEN Ended([Without(u, "Move") EXCEPT !.crossing = FALSE, !.winding = FALSE])
    ELSE IF entry.state = "running" THEN Result([u EXCEPT !.winding = TRUE], TRUE, 0, FALSE)
    ELSE Ended(u)

\* Mutant: a topic still queued takes the driver of the one in front.
CancelProduction_AnyDriver(u, entry, policy) ==
    IF policy = "soft" THEN Result(u, TRUE, 0, FALSE)
    ELSE IF entry.order = "Train" THEN Ended([Without(u, "Train") EXCEPT !.paid = <<>>])
    ELSE Ended(Without(u, entry.order))

\* Mutant: a forced cancel of production keeps what was queued.
CancelProduction_KeepsPaid(u, entry, policy) ==
    IF policy = "soft" THEN Result(u, TRUE, 0, FALSE)
    ELSE Ended(IF Started(entry) \/ entry.order = "Train" THEN Without(u, entry.order) ELSE u)

CancelProduction(u, entry, policy) ==
    IF policy = "soft" THEN Result(u, TRUE, 0, FALSE)
    ELSE IF entry.order = "Train" THEN Ended([Without(u, "Train") EXCEPT !.paid = <<>>])
    ELSE Ended(IF Started(entry) THEN Without(u, entry.order) ELSE u)

\* `doomed`: the transition kills, or the ground refuses the old form.
CancelMorph(u, entry, policy, doomed) ==
    LET standing == u.life = "alive"
        off == [u EXCEPT !.change = "none"]
    IN  IF entry.state = "new" THEN Ended(u)
        ELSE IF u.change = "clearing" THEN Ended(off)
        ELSE IF Terms[u.form] = "committed" /\ policy = "soft" THEN Result(u, TRUE, 0, FALSE)
        ELSE Result(off, FALSE,
                    IF standing /\ Terms[u.form] = "refundable" /\ policy = "soft" THEN 1 ELSE 0,
                    standing /\ doomed)

Cancel(u, entry, doomed) ==
    LET o == entry.order IN
    CASE o = "Die" -> Result(u, TRUE, 0, FALSE)
      [] o = "Move" -> CancelMove(u, entry, entry.cancel)
      [] Kind(o) \in Queued -> CancelProduction(u, entry, entry.cancel)
      [] o = "Morph" -> CancelMorph(u, entry, entry.cancel, doomed)
      [] OTHER -> Ended(Without(u, o))

\* A body that starts to die snaps onto the cell its crossing claimed.
StartDying(u) == [u EXCEPT !.life = "dying", !.crossing = FALSE, !.left = DyingTime]

\* The next entry of a flush.  A death on the way marks what is left.
Visit(acc, entry, doomed) ==
    LET marked == IF acc.dies THEN Mark(entry, "force") ELSE entry
        cleared == [entry EXCEPT !.cancel = Unmarked]
        r == Cancel(acc.unit, marked, doomed)
    IN  IF marked.cancel = Unmarked
        THEN [acc EXCEPT !.kept = Append(@, entry)]
        ELSE [unit |-> IF r.dies THEN StartDying(r.unit) ELSE r.unit,
              kept |-> IF r.stays THEN Append(acc.kept, cleared)
                       ELSE IF r.dies THEN MarkAll(acc.kept, "force") ELSE acc.kept,
              back |-> acc.back + r.back,
              dies |-> acc.dies \/ r.dies]

\* Every marked entry is cancelled, in order; if its unit dies of it, its Die
\* is queued last.
FlushCanceled(u, doomed) ==
    LET after[i \in 0..Len(u.queue)] ==
            IF i = 0 THEN [unit |-> u, kept |-> <<>>, back |-> 0, dies |-> FALSE]
            ELSE Visit(after[i - 1], u.queue[i], doomed)
        all == after[Len(u.queue)]
    IN  [unit |-> [all.unit EXCEPT !.queue = IF all.dies THEN Append(all.kept, Entry("Die"))
                                                         ELSE all.kept],
         gain |-> all.back]

\* Something outside the entity's own orders ends all but the first `kept`.
DropOrders(u, policy, kept, doomed) ==
    LET Dropped(i) ==
            IF i <= kept THEN [u.queue[i] EXCEPT !.cancel = Unmarked]
            ELSE Mark(u.queue[i], IF policy = "soft" /\ ~SurvivesSoftCancel(u.queue[i].order)
                                  THEN "force" ELSE policy)
    IN  FlushCanceled([u EXCEPT !.queue = [i \in DOMAIN u.queue |-> Dropped(i)]], doomed)

-----------------------------------------------------------------------------
(* Prepare.                                                                 *)

\* `clear`: nobody stands on the ground a change needs.
Starts(u, entry, clear, funds) ==
    /\ CanStart(u, <<>>, entry.order)
    /\ entry.order = "Train" => u.paid # <<>>
    /\ entry.order = "Morph" /\ clear => funds > 0

Begin(u, o, clear) ==
    CASE o = "Die" -> u
      [] o = "Morph" -> [u EXCEPT !.change = IF clear THEN "underWay" ELSE "clearing"]
      [] OTHER -> [u EXCEPT !.drivers = @ \cup {Kind(o)}, !.winding = FALSE]

\* Fronts that cannot start are popped until one runs or holds.
PrepareFront(u, clear, funds) ==
    LET k == SelectInSeq(u.queue, LAMBDA entry :
                 \/ Conduct(u, entry) = "holds"
                 \/ entry.state # "new"
                 \/ Starts(u, entry, clear, funds))
        rest == IF k = 0 THEN <<>> ELSE SubSeq(u.queue, k, Len(u.queue))
        next == [u EXCEPT !.queue = rest]
        run == [u EXCEPT !.queue = [rest EXCEPT ![1].state = "running"]]
    IN  IF k = 0 \/ Conduct(u, Head(rest)) = "holds" \/ Head(rest).state = "running"
        THEN [unit |-> next, gain |-> 0]
        ELSE IF Head(rest).state = "suspended" THEN [unit |-> run, gain |-> 0]
        ELSE [unit |-> Begin(run, Head(rest).order, clear),
              gain |-> IF Head(rest).order = "Morph" /\ clear THEN -1 ELSE 0]

\* An outage first marks what it does not let run.
PrepareTick(u, clear, doomed, funds) ==
    LET swept == IF u.outage = "none" THEN u.queue
                 ELSE [i \in DOMAIN u.queue |->
                         IF Conduct(u, u.queue[i]) = "cancels"
                         THEN [u.queue[i] EXCEPT !.cancel = "force"] ELSE u.queue[i]]
        flushed == FlushCanceled([u EXCEPT !.queue = swept], doomed)
        front == PrepareFront(flushed.unit, clear, funds + flushed.gain)
    IN  [unit |-> front.unit, gain |-> flushed.gain + front.gain]

-----------------------------------------------------------------------------
(* The phases.                                                              *)

Commands == stage = "commands" /\ deeds > 0 /\ deeds' = deeds - 1
Phase(s, e) == stage = s /\ turn = e

\* The next entity, or the next phase.
Following == [commands |-> "dying", dying |-> "prepare", prepare |-> "watch",
              watch |-> "process", process |-> "commands"]
Advance ==
    IF turn = Cardinality(Entity) \/ stage = "commands"
    THEN stage' = Following[stage] /\ turn' = 1
    ELSE turn' = turn + 1 /\ UNCHANGED stage

Waits == UNCHANGED <<stage, turn>>

\* Unit e becomes u, and `gain` goes to its owner.
Becoming(e, r) ==
    /\ unit' = [unit EXCEPT ![e] = r.unit]
    /\ stock' = [stock EXCEPT ![unit[e].owner] = @ + r.gain]

Bare(u) == [unit |-> u, gain |-> 0]
Same == UNCHANGED <<done, made>>

-----------------------------------------------------------------------------
(* Commands of the owner.                                                   *)

Issue(e, o, flush) ==
    /\ Commands /\ Commanded(e)
    /\ CanStart(unit[e], unit[e].queue, o)
    /\ Becoming(e, Bare([unit[e] EXCEPT !.queue = Push(@, o, flush)]))
    /\ Same /\ Waits

Stop(e) ==
    /\ Commands /\ Commanded(e)
    /\ Becoming(e, Bare([unit[e] EXCEPT !.queue = MarkAll(@, "soft")]))
    /\ Same /\ Waits

\* f[1] + ... + f[n]
Total(n, f) == LET upTo[i \in 0..n] == IF i = 0 THEN 0 ELSE upTo[i - 1] + f[i] IN upTo[n]
EntityTotal(f) == Total(Cardinality(Entity), f)

Reserved(p) == EntityTotal([e \in Entity |-> IF e \in Owned(p) THEN Len(unit[e].paid) ELSE 0])

\* Mutant: supply is taken only when the unit stands.
TrainEntity_Unreserved(e, type) ==
    LET u == unit[e] p == u.owner IN
    /\ Commands /\ Commanded(e)
    /\ CanStart(u, u.queue, "Train") /\ type \in Trains[u.form]
    /\ Len(u.paid) < MaxPaid
    /\ made[p] + 1 <= Cap
    /\ stock[p] > 0
    /\ Becoming(e, [unit |-> [u EXCEPT !.paid = Append(@, type),
                                       !.queue = IF Holds(@, "Train") THEN @
                                                 ELSE Append(@, Entry("Train"))],
                    gain |-> -1])
    /\ Same /\ Waits

TrainEntity(e, type) ==
    LET u == unit[e] p == u.owner IN
    /\ Commands /\ Commanded(e)
    /\ CanStart(u, u.queue, "Train") /\ type \in Trains[u.form]
    /\ Len(u.paid) < MaxPaid
    /\ made[p] + Reserved(p) + 1 <= Cap
    /\ stock[p] > 0
    /\ Becoming(e, [unit |-> [u EXCEPT !.paid = Append(@, type),
                                       !.queue = IF Holds(@, "Train") THEN @
                                                 ELSE Append(@, Entry("Train"))],
                    gain |-> -1])
    /\ Same /\ Waits

CancelTrain(e, slot) ==
    /\ Commands /\ Alive(e)
    /\ slot \in DOMAIN unit[e].paid
    /\ Becoming(e, [unit |-> [unit[e] EXCEPT !.paid = RemoveAt(@, slot)], gain |-> 1])
    /\ Same /\ Waits

InFlight(p, t) == \E e \in Owned(p) : Holds(unit[e].queue, t)

StartResearch(e, t) ==
    LET u == unit[e] p == u.owner IN
    /\ Commands /\ Commanded(e)
    /\ CanStart(u, u.queue, t)
    /\ t \notin done[p] /\ ~InFlight(p, t)
    /\ stock[p] > 0
    /\ Becoming(e, [unit |-> [u EXCEPT !.queue = Append(@, Entry(t))], gain |-> -1])
    /\ Same /\ Waits

\* Mutant: every command that names the topic is paid back.
CancelResearch_Again(e, t) ==
    LET q == unit[e].queue
        i == SelectInSeq(q, LAMBDA entry : entry.order = t) IN
    /\ Commands /\ Alive(e)
    /\ i > 0
    /\ Becoming(e, [unit |-> [unit[e] EXCEPT !.queue[i].cancel = "force"], gain |-> 1])
    /\ Same /\ Waits

\* Once: the entry stays until it is flushed, its mark says it was paid back.
CancelResearch(e, t) ==
    LET q == unit[e].queue
        i == SelectInSeq(q, LAMBDA entry : entry.order = t) IN
    /\ Commands /\ Alive(e)
    /\ i > 0 /\ q[i].cancel # "force"
    /\ Becoming(e, [unit |-> [unit[e] EXCEPT !.queue[i].cancel = "force"], gain |-> 1])
    /\ Same /\ Waits

CancelChange(e) ==
    /\ Commands /\ Commanded(e)
    /\ unit[e].queue # <<>> /\ unit[e].queue[1].order = "Morph"
    /\ Becoming(e, Bare([unit[e] EXCEPT !.queue[1].cancel = "soft"]))
    /\ Same /\ Waits

-----------------------------------------------------------------------------
(* What falls on an entity from outside its queue.                          *)

\* A field, a buff or a lost primary switches it off or on, between ticks.
Outage(e, outage) ==
    /\ Commands /\ Alive(e) /\ unit[e].outage # outage
    /\ Becoming(e, Bare([unit[e] EXCEPT !.outage = outage]))
    /\ Same /\ Waits

\* A scenario completes a topic for a player.
Grant(p, t) ==
    /\ Commands /\ t \notin done[p]
    /\ done' = [done EXCEPT ![p] = @ \cup {t}]
    /\ UNCHANGED <<unit, stock, made>> /\ Waits

\* While others' orders advance.
Amid(e) == stage = "process" /\ Alive(e) /\ deeds > 0 /\ deeds' = deeds - 1

Kill(e) ==
    /\ Amid(e)
    /\ Becoming(e, Bare([StartDying(unit[e]) EXCEPT !.queue = Push(@, "Die", "force")]))
    /\ Same /\ Waits

\* Mutant: its orders go with it to the new owner.
ChangeOwner_HandOver(e, p) ==
    /\ Amid(e) /\ unit[e].owner # p
    /\ unit' = [unit EXCEPT ![e].owner = p]
    /\ UNCHANGED stock
    /\ Same /\ Waits

\* Its orders go, but for a change of form under way, which goes on for `p`.
ChangeOwner(e, p) ==
    /\ Amid(e) /\ unit[e].owner # p
    /\ LET r == DropOrders(unit[e], "force", IF Changing(unit[e]) THEN 1 ELSE 0, FALSE) IN
         /\ unit' = [unit EXCEPT ![e] = [r.unit EXCEPT !.owner = p]]
         /\ UNCHANGED stock
    /\ Same /\ Waits

\* A holder takes it aboard, or a cast sets it down elsewhere.
Displace(e, aboard) ==
    /\ Amid(e) /\ Commanded(e) /\ ~Changing(unit[e])
    /\ LET r == DropOrders(unit[e], "soft", 0, FALSE) IN
         Becoming(e, [r EXCEPT !.unit.aboard = aboard])
    /\ Same /\ Waits

\* Let out of its holder, and sent on if the holder was told where to.
LetOut(e, sent) ==
    /\ Amid(e) /\ unit[e].aboard
    /\ Becoming(e, Bare([unit[e] EXCEPT !.aboard = FALSE,
                                        !.queue = IF sent THEN Push(@, "Move", Unmarked) ELSE @]))
    /\ Same /\ Waits

\* An idle mover is asked off ground another needs; its walk starts at once.
MakeWay(e) ==
    /\ Amid(e) /\ Commanded(e) /\ unit[e].queue = <<>>
    /\ CanStart(unit[e], <<>>, "Move")
    /\ Becoming(e, PrepareFront([unit[e] EXCEPT !.queue = <<Entry("Move")>>], TRUE, 0))
    /\ Same /\ Waits

-----------------------------------------------------------------------------
(* One entity's turn in a phase.                                            *)

Turn(s, e) == Phase(s, e) /\ Advance /\ UNCHANGED deeds

EndCommands == stage = "commands" /\ Advance /\ UNCHANGED <<unit, stock, done, made, deeds>>

\* What a turn does not reach: the dead, and in the phases of the living the dying.
Pass(e) ==
    /\ Turn(stage, e) /\ stage # "commands"
    /\ unit[e].life # (IF stage = "dying" THEN "dying" ELSE "alive")
    /\ UNCHANGED <<unit, stock, done, made>>

\* Its queue is flushed and its death advances; the dead leave the world.
ProcessDying(e) ==
    /\ Turn("dying", e) /\ unit[e].life = "dying"
    /\ LET r == PrepareTick(unit[e], TRUE, FALSE, 0)
           u == r.unit
           dies == u.queue # <<>> /\ u.queue[1].order = "Die" IN
         Becoming(e, [r EXCEPT !.unit =
             IF ~dies THEN u
             ELSE IF u.left > 0 THEN [u EXCEPT !.left = @ - 1]
             ELSE [u EXCEPT !.queue = Tail(@), !.life = "gone", !.aboard = FALSE]])
    /\ Same

Prepare(e) ==
    /\ Turn("prepare", e) /\ Alive(e)
    /\ \E clear, doomed \in BOOLEAN :
         Becoming(e, PrepareTick(unit[e], clear, doomed, stock[unit[e].owner]))
    /\ Same

\* Mutant: whoever waits for a walk is asked.
Engages_Anyone(u) ==
    /\ Len(u.queue) > 1
    /\ u.queue[2].state = "suspended"
    /\ u.queue[1].order = "Move"
    /\ ~u.aboard /\ ~u.crossing

\* An attack-move that walks comes upon an enemy, unless it is between cells.
Engages(u) ==
    /\ Len(u.queue) > 1
    /\ u.queue[2].state = "suspended" /\ u.queue[2].order = "AttackMove"
    /\ u.queue[1].order = "Move"
    /\ ~u.aboard /\ ~u.crossing

Watch(e) ==
    LET u == unit[e]
        off == CancelMove(u, u.queue[1], "force").unit
        fights == [off EXCEPT !.queue = <<Entry("Attack")>> \o Tail(@)] IN
    /\ Turn("watch", e) /\ Alive(e)
    /\ \/ UNCHANGED <<unit, stock>>
       \/ Engages(u) /\ Becoming(e, PrepareFront(fights, TRUE, 0))
    /\ Same

Runs(u) ==
    /\ u.queue # <<>>
    /\ u.queue[1].state = "running"
    /\ Conduct(u, u.queue[1]) = "completes"

Idles(e) ==
    /\ Turn("process", e) /\ Alive(e) /\ ~Runs(unit[e])
    /\ UNCHANGED <<unit, stock, done, made>>

\* The front, of a kind, advances.
Advances(e, kinds) ==
    /\ Turn("process", e) /\ Alive(e) /\ Runs(unit[e])
    /\ Kind(unit[e].queue[1].order) \in kinds

Finished(u) == [Without(u, u.queue[1].order) EXCEPT !.queue = Tail(@)]
Suspended(u, o) ==
    [u EXCEPT !.queue = PushSub([@ EXCEPT ![1].state = "suspended"], o)]

\* What an order suspends itself for.
SubOrders(o) ==
    CASE o \in {"Attack", "Board"} -> {"Move"}
      [] o = "AttackMove" -> {"Move", "Attack"}
      [] o = "Patrol" -> {"AttackMove"}
      [] OTHER -> {}

\* From cell to cell; a cancelled walk ends at the next one.
ProcessMove(e) ==
    /\ Advances(e, {"Move"})
    /\ LET u == unit[e] IN
         \/ Becoming(e, Bare([u EXCEPT !.crossing = TRUE]))
         \/ ~u.winding /\ Becoming(e, Bare([u EXCEPT !.crossing = FALSE]))
         \/ Becoming(e, Bare([Finished(u) EXCEPT !.crossing = FALSE, !.winding = FALSE]))
    /\ Same

\* An attack walks into range, strikes, or is over; a leg fights, walks or ends.
ProcessOnFoot(e) ==
    /\ Advances(e, OnFoot \ {"Move", "Patrol"})
    /\ LET u == unit[e] IN
         \/ \E o \in SubOrders(u.queue[1].order) : Becoming(e, Bare(Suspended(u, o)))
         \/ u.queue[1].order # "AttackMove" /\ Becoming(e, Bare(u))
         \/ Becoming(e, Bare(Finished(u)))
    /\ Same

\* A patrol goes on for ever, one leg after another.
ProcessPatrol(e) ==
    /\ Advances(e, {"Patrol"})
    /\ Becoming(e, Bare(IF CanStart(unit[e], <<>>, "AttackMove")
                        THEN Suspended(unit[e], "AttackMove") ELSE unit[e]))
    /\ Same

\* Aboard, what it had queued behind goes, and production waits.
BoardHolder(e) ==
    /\ Advances(e, {"Board"})
    /\ LET r == DropOrders(Finished(unit[e]), "soft", 0, FALSE) IN
         Becoming(e, [r EXCEPT !.unit.aboard = TRUE])
    /\ Same

\* The unit in progress stands, waits for a cell, or is one the form cannot train.
ProcessTrain(e) ==
    /\ Advances(e, {"Train"}) /\ UNCHANGED <<stock, done>>
    /\ LET u == unit[e]
           fewer == [u EXCEPT !.paid = Tail(@)]
           trains == u.paid # <<>> /\ Head(u.paid) \in Trains[u.form] IN
         \/ /\ u.paid = <<>>
            /\ unit' = [unit EXCEPT ![e] = Finished(u)]
            /\ UNCHANGED made
         \/ trains /\ UNCHANGED <<unit, made>>
         \/ /\ trains
            /\ unit' = [unit EXCEPT ![e] = IF fewer.paid = <<>> THEN Finished(fewer) ELSE fewer]
            /\ made' = [made EXCEPT ![u.owner] = @ + 1]
         \/ /\ u.paid # <<>> /\ ~trains
            /\ unit' = [unit EXCEPT ![e] = fewer]
            /\ UNCHANGED made

\* A topic completed meanwhile is paid back.
ProcessResearch(e) ==
    /\ Advances(e, {"Research"}) /\ UNCHANGED made
    /\ LET u == unit[e] t == u.queue[1].order IN
         \/ /\ t \in done[u.owner]
            /\ Becoming(e, [unit |-> Finished(u), gain |-> 1])
            /\ UNCHANGED done
         \/ /\ t \notin done[u.owner]
            /\ UNCHANGED <<unit, stock, done>>
         \/ /\ t \notin done[u.owner]
            /\ Becoming(e, Bare(Finished(u)))
            /\ done' = [done EXCEPT ![u.owner] = @ \cup {t}]

\* A change still waiting for its ground begins, waits on, or gives up.
ProcessClearing(e) ==
    /\ Advances(e, {"Morph"}) /\ unit[e].change = "clearing"
    /\ LET u == unit[e] IN
         \/ /\ CanStart(u, <<>>, "Morph") /\ stock[u.owner] > 0
            /\ \/ Becoming(e, [unit |-> [u EXCEPT !.change = "underWay"], gain |-> -1])
               \/ Becoming(e, Bare(u))
         \/ Becoming(e, Bare([Finished(u) EXCEPT !.change = "none"]))
    /\ Same

\* The roles of the new form are fitted: a queue without a trainer goes.
Landed(u) ==
    LET f == Becomes[u.form] IN
    [Finished(u) EXCEPT !.form = f, !.change = "none",
                        !.paid = IF Trains[f] # {} THEN @ ELSE <<>>]

\* Mutant: a change that kills hands on no Die.
ProcessMorph_NoDie(e) ==
    /\ Advances(e, {"Morph"}) /\ Changing(unit[e])
    /\ LET stays == [Finished(unit[e]) EXCEPT !.change = "none"] IN
         \/ Becoming(e, Bare(unit[e]))
         \/ Becoming(e, Bare(Landed(unit[e])))
         \/ Becoming(e, Bare(StartDying(stays)))
    /\ Same

\* A change under way runs, lands, or fizzles out on its early terms.
ProcessMorph(e) ==
    /\ Advances(e, {"Morph"}) /\ Changing(unit[e])
    /\ LET u == unit[e]
           stays == [Finished(u) EXCEPT !.change = "none"]
           back == IF Terms[u.form] = "refundable" THEN 1 ELSE 0 IN
         \/ Becoming(e, Bare(u))
         \/ Becoming(e, Bare(Landed(u)))
         \/ Becoming(e, [unit |-> stays, gain |-> back])
         \/ Becoming(e, [unit |-> [StartDying(stays) EXCEPT !.queue = Push(@, "Die", "force")],
                         gain |-> back])
    /\ Same

Process(e) ==
    \/ Idles(e) \/ ProcessMove(e) \/ ProcessOnFoot(e) \/ ProcessPatrol(e)
    \/ BoardHolder(e) \/ ProcessTrain(e) \/ ProcessResearch(e)
    \/ ProcessClearing(e) \/ ProcessMorph(e)

Command ==
    \E e \in Entity :
      \/ \E o \in OnFoot \cup {"Morph"}, flush \in {Unmarked, "soft"} : Issue(e, o, flush)
      \/ Stop(e) \/ CancelChange(e)
      \/ \E type \in UnitType : TrainEntity(e, type)
      \/ \E slot \in 1..MaxPaid : CancelTrain(e, slot)
      \/ \E t \in Topic : StartResearch(e, t) \/ CancelResearch(e, t)

Outside ==
    \/ \E e \in Entity :
         \/ \E outage \in {"none", "field", "orphaned"} : Outage(e, outage)
         \/ Kill(e) \/ MakeWay(e)
         \/ \E p \in Player : ChangeOwner(e, p)
         \/ \E flag \in BOOLEAN : Displace(e, flag) \/ LetOut(e, flag)
    \/ \E p \in Player, t \in Topic : Grant(p, t)

Tick ==
    \/ EndCommands
    \/ \E e \in Entity : Pass(e) \/ ProcessDying(e) \/ Prepare(e) \/ Watch(e) \/ Process(e)

OrdersNext == Command \/ Outside \/ Tick

\* A turn can always be taken, and the schedule takes one again and again.
OrdersSpec ==
    OrdersInit /\ [][OrdersNext]_ordersVars /\ []<><<TRUE>>_<<stage, turn>>

-----------------------------------------------------------------------------
(* Properties.                                                              *)

Components ==
    [owner: Player, form: Form, queue: Seq(OrderEntry(Order)),
     drivers: SUBSET (OnFoot \cup Queued), paid: Seq(UnitType),
     crossing: BOOLEAN, winding: BOOLEAN, change: {"none", "clearing", "underWay"},
     outage: {"none", "field", "orphaned"}, aboard: BOOLEAN,
     life: {"alive", "dying", "gone"}, left: 0..DyingTime]

\* Every variable has its type.
OrdersTypeOK ==
    /\ unit \in [Entity -> Components]
    /\ stock \in [Player -> Nat] /\ made \in [Player -> Nat]
    /\ done \in [Player -> SUBSET Topic]
    /\ stage \in DOMAIN Following /\ turn \in Entity /\ deeds \in Nat

\* The driver components on an entity are those of the orders it has started
\* and not ended: a cancel takes away the driver of no other order, and no
\* order leaves its own behind (cancel_processing of every kind).
DriversMatch ==
    \A e \in Entity :
      LET u == unit[e]
          started == {Kind(u.queue[i].order) : i \in {j \in DOMAIN u.queue : Started(u.queue[j])}}
      IN  /\ u.drivers = started \ {"Morph", "Die"}
          /\ u.change # "none" <=> "Morph" \in started

\* Only the front runs; a suspended entry stands right behind the sub-order it
\* asked for, so it neither waits for an order that is not its own nor is
\* overtaken (process_tick, watch_tick, drop_orders). Behind a change of form
\* nothing waits, or a capture would panic (drop_all_but_current).
ChainIntact ==
    \A e \in Entity : LET q == unit[e].queue IN
      /\ \A i \in DOMAIN q : q[i].state = "running" => i = 1
      /\ \A i \in DOMAIN q \ {1} :
            q[i].state = "suspended" =>
              q[i - 1].order \in SubOrders(q[i].order) /\ (i > 2 => q[i - 1].state = "suspended")
      /\ unit[e].change # "none" => Len(q) < 2 \/ q[2].state = "new"

\* A body between two cells has the Move that finishes its crossing, in front
\* and with its driver, whatever was cancelled, interrupted or taken aboard
\* meanwhile (settle_crossing, watch_tick, start_dying).
CrossingHasMove ==
    \A e \in Entity : LET u == unit[e] IN
      u.crossing => ~u.aboard /\ "Move" \in u.drivers /\ u.queue[1].order = "Move"

\* Paid production has the Train order that works it off, and it is not on
\* its way out (train_entity pushes one only when none is queued).
PaidHasOrder ==
    \A e \in Entity : LET u == unit[e] IN
      Alive(e) /\ u.paid # <<>> =>
        \E i \in DOMAIN u.queue : u.queue[i].order = "Train" /\ u.queue[i].cancel # "force"

\* When the fronts advance, each runs or is held, and nothing is marked
\* (the contract prepare_tick documents).
FrontReady ==
    \A e \in Entity : LET u == unit[e] IN
      stage = "watch" /\ Alive(e) /\ u.queue # <<>> =>
        /\ u.queue[1].state = "running" \/ Conduct(u, u.queue[1]) = "holds"
        /\ \A i \in DOMAIN u.queue : u.queue[i].cancel = Unmarked

\* Each queue as a whole: of its types, ready when its turn comes, and with the
\* order that works off what was paid (OrderQueueComponent, TrainQueueComponent).
OrdersInv == OrdersTypeOK /\ PaidHasOrder /\ FrontReady

\* A topic is researched by one entity of a player at most.
OneResearchPerTopic ==
    \A e, f \in Entity : Alive(e) /\ Alive(f) /\ unit[e].owner = unit[f].owner =>
      \A i \in DOMAIN unit[e].queue, j \in DOMAIN unit[f].queue :
        unit[e].queue[i].order \in Topic /\ unit[e].queue[i].order = unit[f].queue[j].order
          => e = f /\ i = j

\* Trained units and those paid for never exceed the supply.
SupplyHeld == \A p \in Player : made[p] + Reserved(p) <= Cap

\* What an entity could still have paid back.
Held(u) ==
    LET pending == {i \in DOMAIN u.queue : u.queue[i].order \in Topic
                                           /\ u.queue[i].cancel # "force"}
    IN  IF u.life # "alive" THEN 0
        ELSE Len(u.paid) + Cardinality(pending)
             + IF Changing(u) /\ Terms[u.form] = "refundable" THEN 1 ELSE 0

Wealth == Total(Cardinality(Player), stock) + EntityTotal([e \in Entity |-> Held(unit[e])])

\* Nothing is paid back twice, or without having been paid: what the players
\* have and could have back never grows, and a command only moves it.
PaidBackOnce ==
    [][Wealth' <= Wealth /\ (Command => Wealth' = Wealth)]_ordersVars

\* Who starts to die is gone in the end, with everything it was doing.
DyingGoes ==
    \A e \in Entity : unit[e].life = "dying" ~>
      unit[e].life = "gone" /\ unit[e].drivers = {} /\ unit[e].queue = <<>>

\* A change of form drops no production that was paid for: the assertion of
\* fit_components.
NoPaidQueueDropped ==
    [][\A e \in Entity : unit'[e].form # unit[e].form => unit'[e].paid = unit[e].paid]_ordersVars
=============================================================================
