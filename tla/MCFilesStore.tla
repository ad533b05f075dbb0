---------------------------- MODULE MCFilesStore -----------------------------
(* Instances of FilesStore for TLC. *)
EXTENDS FilesStore, TLC
CONSTANTS q1, q2
Both(r1, r2) == q1 :> r1 @@ q2 :> r2
AllScenarios ==
  {[want |-> Both(<<1, 1>>, <<1, 2>>), weather |-> {}],
   [want |-> Both(<<0, 0>>, <<0, 0>>), weather |-> {"stat", "fetch", "stopped"}],
   [want |-> Both(<<1, 1>>, <<1, 1>>), weather |-> {"evict", "stopped"}],
   [want |-> Both(<<0, 0>>, None), weather |-> {"stat", "evict", "stopped"}],
   [want |-> Both(<<0, 2>>, None), weather |-> {"evict"}],
   [want |-> Both(<<0, 2>>, None), weather |-> {"shutdown", "stat", "fetch"}]}
StatFails == {[want |-> Both(<<0, 1>>, None), weather |-> {"stat"}]}
=============================================================================
