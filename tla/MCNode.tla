------------------------------- MODULE MCNode --------------------------------
(* Instances of Node for TLC. *)
EXTENDS Node
SmallScenarios == {[reports |-> 2, faults |-> FALSE], [reports |-> 1, faults |-> TRUE]}
=============================================================================
