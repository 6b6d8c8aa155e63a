------------------------------ MODULE MCDuels ------------------------------
(* Duels on small instances; the bounds are in the .cfg files. *)
EXTENDS Duels, TLC

Symmetry ==
  Permutations(Players) \cup Permutations(DuelIds) \cup Permutations(Requests)
=============================================================================
