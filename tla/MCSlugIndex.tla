---------------------------- MODULE MCSlugIndex ----------------------------
(* TLC instances of SlugIndex. *)
EXTENDS SlugIndex, TLC

Symmetry == Permutations(Workers) \cup Permutations(Searchers)
=============================================================================
