----------------------------- MODULE MCNotices -----------------------------
(* Notices on small instances; the bounds are in the .cfg files. *)
EXTENDS Notices, TLC

Symmetry == Permutations(Keys) \cup Permutations(Documents)
=============================================================================
