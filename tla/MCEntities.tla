----------------------------- MODULE MCEntities -----------------------------
(***************************************************************************)
(* Two kinds of squad for TLC: entities under orders of every other kind   *)
(* (Orders), and carriers at work (Harvest).                               *)
(***************************************************************************)
EXTENDS MCOrders, MCHarvest

VARIABLE squad   \* which of the two the game is about

entityVars == <<squad, ordersVars, harvestVars>>

\* What the game is not about is as in its smallest instance.
EntitiesInit ==
  /\ OrdersInit /\ HarvestInit
  /\ \/ squad = "orders" /\ yard = Derrick
     \/ squad = "carriers" /\ unit[1].form = "walker"

EntitiesNext ==
  /\ \/ squad = "orders" /\ OrdersNext /\ UNCHANGED harvestVars
     \/ squad = "carriers" /\ HarvestNext /\ UNCHANGED ordersVars
  /\ UNCHANGED squad

\* The schedule runs the one or the other again and again.
EntitiesSpec ==
  EntitiesInit /\ [][EntitiesNext]_entityVars
  /\ []<><<TRUE>>_<<stage, turn, pass, upNext>>
=============================================================================
