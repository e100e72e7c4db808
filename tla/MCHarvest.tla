----------------------------- MODULE MCHarvest -----------------------------
(***************************************************************************)
(* Two carriers, two sources of gold, one of wood, and two storages.       *)
(***************************************************************************)
EXTENDS Harvest, TLC

Yields == "vein" :> "gold" @@ "lode" :> "gold" @@ "tree" :> "wood"
Ends == "vein" :> "destroy" @@ "lode" :> "persist" @@ "tree" :> "destroy"

Gold(n) == [kind |-> "gold", n |-> n]
Wood(n) == [kind |-> "wood", n |-> n]

\* Two carriers at a mine they enter, the second one sharing it.
Mine ==
  [presence |-> "hidden", banking |-> "carried", capacity |-> 2, drain |-> 2, time |-> 2,
   limit |-> <<2, 2>>, hands |-> <<Empty, Empty>>, told |-> <<"vein", "vein">>,
   left |-> "vein" :> 3 @@ "lode" :> 2 @@ "tree" :> 0,
   standing |-> {"vein", "lode", "hall"}, mishaps |-> 1]
\* The first one works alone, and the second has wood in hand.
Alone == [Mine EXCEPT !.limit = <<1, 2>>, !.hands = <<Empty, Wood(1)>>]
\* In the open, with a load to deliver first and a second hall.
Grove ==
  [Alone EXCEPT !.mishaps = 2, !.presence = "present", !.told = <<"vein", "hall">>,
                !.hands = <<Wood(2), Gold(1)>>,
                !.left = "vein" :> 1 @@ "lode" :> 2 @@ "tree" :> 1,
                !.standing = {"vein", "lode", "tree", "hall", "camp"}]
\* Banked on the spot, by one inside.
Derrick == [Mine EXCEPT !.mishaps = 2, !.banking = "direct", !.capacity = 1, !.drain = 1]
\* Less may happen to them.
BriefGrove == [Grove EXCEPT !.mishaps = 1]
\* One at work in the open, the other looking on.
Glade == [Grove EXCEPT !.told = <<"vein", "nothing">>]
OneYard == {Glade}
AllYards == {Mine, Alone, BriefGrove, Derrick}
=============================================================================
