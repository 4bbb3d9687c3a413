--------------------------- MODULE MCTreeScheduler ---------------------------
(***************************************************************************)
(* TreeScheduler over a plan of three leaves, where the third is carried   *)
(* up a level: 4 over {1, 2}, and the root, 5, over {3, 4}.                *)
(***************************************************************************)
EXTENDS TreeScheduler

MCChildren == [n \in 1..5 |-> CASE n = 4 -> {1, 2} [] n = 5 -> {3, 4} [] OTHER -> {}]
MCSmallChildren == [n \in 1..3 |-> IF n = 3 THEN {1, 2} ELSE {}]
=============================================================================
