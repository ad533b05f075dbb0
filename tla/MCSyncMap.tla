------------------------------ MODULE MCSyncMap ------------------------------
(* Instances of SyncMap for TLC: keys and values are interchangeable. *)
EXTENDS SyncMap, TLC

Symmetry == Permutations(Keys) \cup Permutations(Values)
=============================================================================
