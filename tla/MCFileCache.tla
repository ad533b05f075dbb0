----------------------------- MODULE MCFileCache -----------------------------
(* Instances of FileCache for TLC: calls and keys are interchangeable. *)
EXTENDS FileCacheRefinement, TLC

Symmetry == Permutations(Calls) \cup Permutations(Keys)
=============================================================================
