------------------------------ MODULE OrderQueue ------------------------------
(* The order queue of one entity: its entries, their marks and the pushes.   *)
(* The front entry is the one that runs; an entry that suspends itself for a *)
(* sub-order stands behind it.                                               *)
EXTENDS Integers, SequencesExt

Policy == {"soft", "force"}
Unmarked == "unmarked"
EntryState == {"new", "running", "suspended"}

\* An order freshly queued: OrderEntry::new.
Entry(o) == [order |-> o, state |-> "new", cancel |-> Unmarked]

OrderEntry(Order) ==
    [order: Order, state: EntryState, cancel: Policy \cup {Unmarked}]

\* A mandatory cancel stands over an advisory one.
Stronger(a, b) == IF "force" \in {a, b} THEN "force" ELSE "soft"

Mark(entry, policy) ==
    [entry EXCEPT !.cancel = IF @ = Unmarked THEN policy ELSE Stronger(@, policy)]

MarkAll(queue, policy) == [i \in DOMAIN queue |-> Mark(queue[i], policy)]

\* Push with a flush marks what is there; `Unmarked` stands for no flush.
Push(queue, o, flush) ==
    Append(IF flush = Unmarked THEN queue ELSE MarkAll(queue, flush), Entry(o))

\* The sub-order of a marked parent goes with it.
PushSub(queue, o) == <<[Entry(o) EXCEPT !.cancel = queue[1].cancel]>> \o queue

Holds(queue, o) == \E i \in DOMAIN queue : queue[i].order = o

Started(entry) == entry.state \in {"running", "suspended"}
=============================================================================
