--------------------------- MODULE ReplicatedInput ---------------------------
(***************************************************************************)
(* What a lockstep match promises: every node feeds its simulation the     *)
(* same inputs in the same order, each at its own pace.  The simulation is *)
(* deterministic, so nodes that consumed equally many inputs are in the    *)
(* same state.                                                             *)
(***************************************************************************)
EXTENDS Naturals, Sequences

CONSTANTS
  Node,    \* the processes of the match
  Input    \* what one tick may feed the simulation

VARIABLE history   \* the inputs each node consumed so far

Coincide(s, t) == \A i \in 1 .. Len(s) : i <= Len(t) => s[i] = t[i]

Init == history = [n \in Node |-> <<>>]

\* A node consumes the next input: a new one if it leads, otherwise the one
\* the leaders already consumed at this place.
Consume(n, input) ==
  /\ \A m \in Node : Len(history[n]) < Len(history[m])
                       => history[m][Len(history[n]) + 1] = input
  /\ history' = [history EXCEPT ![n] = Append(@, input)]

Next == \E n \in Node, input \in Input : Consume(n, input)

Spec == Init /\ [][Next]_history
=============================================================================
