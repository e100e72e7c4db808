------------------------------ MODULE MCOrders ------------------------------
(***************************************************************************)
(* Instances of Orders for TLC: a walker or a lair alone, and two camps of *)
(* two players.                                                            *)
(***************************************************************************)
EXTENDS Orders

Forms == {"walker", "camp", "lair", "husk"}
Abilities ==
    [f \in Forms |-> CASE f = "walker" -> OnFoot
                       [] f = "camp" -> {"Research", "Morph", "Move"}
                       [] f = "lair" -> {"Research", "Morph"}
                       [] f = "husk" -> {"Move"}]
Trainees == [f \in Forms |-> CASE f = "camp" -> {"grunt"} [] f = "lair" -> {"brute"}
                               [] OTHER -> {}]
Grown == [f \in Forms |-> CASE f = "camp" -> "lair" [] f = "lair" -> "camp" [] OTHER -> f]
Decayed == [f \in Forms |-> IF f = "camp" THEN "husk" ELSE f]
Early == [f \in Forms |-> IF f = "lair" THEN "committed" ELSE "refundable"]

At(owner, form) == [owner |-> owner, form |-> form, life |-> "alive"]
Nobody == [owner |-> 1, form |-> "walker", life |-> "gone"]
Squad(first, second, n) == [units |-> <<first, second>>, deeds |-> n]

OneCamp == {Squad(At(1, "camp"), Nobody, 3)}
Parties == {Squad(At(1, "walker"), Nobody, 3),
            Squad(At(1, "lair"), Nobody, 3),
            Squad(At(1, "camp"), At(2, "camp"), 3)}
=============================================================================
