--------------------------- MODULE MCChargerLists ---------------------------
(* ChargerLists with model values for tasks, cards and charge points.      *)
EXTENDS ChargerLists, TLC

Symmetry == Permutations(Tasks) \cup Permutations(Cards) \cup Permutations(Ids)
=============================================================================
