------------------------------ MODULE MCCluster ------------------------------
(* Instances of Cluster for TLC. *)
EXTENDS Cluster, TLC
CONSTANTS c1, c2, n1, n2, u1, x1, x2
Get(n, u, f, l) == [node |-> n, url |-> u, method |-> "GET", first |-> f, last |-> l]
Head1(n, u) == [node |-> n, url |-> u, method |-> "HEAD", first |-> None, last |-> 0]
Both(a, b) == c1 :> a @@ c2 :> b
SmallScenarios ==
  {[want |-> Both(Get(n1, u1, 0, 1), Get(n2, u1, 0, 1)), weather |-> {}],
   [want |-> Both(Get(n1, u1, 0, 1), Head1(n2, u1)), weather |-> {"evict"}],
   [want |-> Both(Get(n1, u1, 0, 0), Get(n2, u1, 0, 0)), weather |-> {"evict"}],
   [want |-> Both(Get(n1, u1, 0, 0), Get(n1, u1, 0, 1)), weather |-> {"evict", "crash"}],
   [want |-> Both(Get(n1, u1, 0, 1), Get(n2, u1, 1, 1)), weather |-> {"origin", "crash"}],
   [want |-> Both(Get(n1, x1, 0, 0), Get(n2, x2, 0, 1)), weather |-> {}],
   [want |-> Both(Head1(n1, x1), Get(n1, u1, None, 0)), weather |-> {}],
   [want |-> Both(Head1(n1, u1), Head1(n2, u1)), weather |-> {"origin"}]}
=============================================================================
