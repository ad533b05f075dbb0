------------------------------ MODULE MCReader ------------------------------
(* Instances of Reader for TLC. *)
EXTENDS Reader

(* Two reads that share one peer, and a read with all kinds of providers next
   to one that serves a peer. *)
SmallScenarios ==
  {[providers |-> {CHOOSE p \in Peers : TRUE}, fromPeer |-> {}]}
    \cup {[providers |-> Providers, fromPeer |-> {r}] : r \in {CHOOSE r \in Reads : TRUE}}
=============================================================================
