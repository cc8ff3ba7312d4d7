--------------------------- MODULE MCBuildService ---------------------------
(* TLC instances of BuildService. *)
EXTENDS BuildService, TLC

Symmetry == Permutations(Slugs)
=============================================================================
