----------------------------- MODULE MCCellWalk -----------------------------
(***************************************************************************)
(* Three bodies on a map of three by two cells: in the open, where they    *)
(* can go round each other; and in a corridor of one cell's width, where   *)
(* they cannot.  And four at a bend, on a map of ten by three.             *)
(***************************************************************************)
EXTENDS CellWalk

Abreast == <<<<0, 0>>, <<2, 0>>, <<1, 0>>>>
Corner == <<2, 0>>
Ends2 == {<<0, 0>>, <<2, 0>>}

\* One slow walker among its own.
Friends ==
  [terrain |-> {}, start |-> Abreast, side |-> <<"red", "red", "red">>,
   slow |-> {1}, stands |-> {}]
\* The body in the middle holds its ground.
Stubborn == [Friends EXCEPT !.slow = {1, 2, 3}, !.stands = {3}]
\* The body in the middle is another side's.
Rivals == [Friends EXCEPT !.side = <<"red", "red", "blue">>, !.slow = {}]
Corridor ==
  [Rivals EXCEPT !.terrain = {<<0, 1>>, <<1, 1>>}, !.slow = {1}]

\* A row with settled bodies that hold their ground, and the way round them by
\* the far row, which is the cheaper from one end to the last of them and comes
\* back through the cell behind it.
Bend ==
  [terrain |-> ((1 .. 7) \X {1}) \cup {<<9, 1>>, <<9, 2>>},
   start |-> <<<<0, 0>>, <<1, 0>>, <<3, 0>>, <<7, 0>>>>,
   side |-> <<"red", "red", "red", "red">>, slow |-> {}, stands |-> {2, 3, 4}]
Bends == {Bend}
Lowest == <<0, 2>>
FarEnd == {<<9, 0>>}

AllScenes == {Friends, Stubborn, Rivals, Corridor}
=============================================================================
