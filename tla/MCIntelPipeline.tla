-------------------------- MODULE MCIntelPipeline --------------------------
(* IntelPipeline on small instances; the bounds are in the .cfg files. *)
EXTENDS IntelPipeline, TLC

Symmetry == Permutations(Sessions \ Detached)
=============================================================================
