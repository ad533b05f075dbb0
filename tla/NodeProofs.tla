----------------------------- MODULE NodeProofs ------------------------------
(***************************************************************************)
(* Proofs about Node and Election, for any number of nodes, bootstraps and *)
(* reports of the elector, and about the two sequential data structures    *)
(* that the node is built on: Segments of pkg/math, for ranges, blocks and *)
(* files of any size, and SyncMap of pkg/cache, for every finite set of    *)
(* keys, every capacity and every eviction percentage.                     *)
(***************************************************************************)
EXTENDS Node, Segments, SyncMap, FiniteSetTheorems, SequenceTheorems, TLAPS

-----------------------------------------------------------------------------
(***************************************************************************)
(* The end of the process.  The metrics server starts last, and its end is *)
(* needed for the end of the group.                                        *)
(***************************************************************************)
EndInv ==
  /\ main \in {"config", "router", "serve", "exited"}
  /\ prom \in {"none", "listen", "err"}
  /\ main \in {"config", "router"} => prom = "none"
  /\ main = "exited" /\ prom # "none" => prom = "err" /\ failed /\ "Failed" \in events

(* Electing leaves the servers alone and takes no event back. *)
LEMMA ElectingKeepsEnd ==
  ASSUME EndInv, LeaseMoves \/ Electing, UNCHANGED nodeVars
  PROVE  EndInv'
<1>1. UNCHANGED <<main, failed, prom>>
  BY Zenon DEF nodeVars, mainVars, groupVars
<1>2. events \subseteq events'
  BY Zenon DEF LeaseMoves, Electing, ReportsLeader, Report, GivesUp, Cancelled, Callback, OnNewLeader, Ignore,
         Select, CloseInit, SetId, Bootstrap, Bootstraps, AwaitInit, BootstrapEnds, bootVars
<1> QED
  BY Zenon, <1>1, <1>2 DEF EndInv

(* So does every step of main and of the group but the return of Wait, which
   waits for the metrics server. *)
LEMMA ServingKeepsEnd ==
  ASSUME EndInv, Sigterm \/ Startup \/ Group
  PROVE  EndInv'
<1>1. CASE Sigterm
  BY Zenon, <1>1 DEF Sigterm, EndInv, electionVars, bootVars, mainVars, groupVars
<1>2. CASE Configures
  BY Zenon, <1>2 DEF Configures, EndInv, groupVars
<1>3. CASE ConfigFails \/ RouterFails
  BY Zenon, <1>3 DEF ConfigFails, RouterFails, Return, EndInv, groupVars
<1>4. CASE RouterElects
  BY Zenon, <1>4 DEF RouterElects, EndInv, bootVars, mainVars, groupVars
<1>5. CASE RouterStarts
  BY Zenon, <1>5 DEF RouterStarts, EndInv
<1>6. CASE ProvideStops \/ PromFails \/ RouterCloses \/ \E s \in Servers : ServerFails(s) \/ ShutsDown(s) \/ Drained(s)
  <2>1. UNCHANGED <<main, failed, events>> /\ (prom' = prom \/ (prom = "listen" /\ prom' = "err"))
    BY Zenon, <1>6 DEF ProvideStops, PromFails, RouterCloses, ServerFails, ShutsDown, Drained, electionVars,
                bootVars, mainVars, groupVars
  <2> QED
    BY Zenon, <2>1 DEF EndInv
<1>7. CASE Waits
  <2>1. prom = "err" /\ Errors
    BY Zenon, <1>7 DEF Waits, GroupEnds, Members, EndInv, Errors
  <2>2. main' = "exited" /\ failed' /\ "Failed" \in events' /\ prom' = prom
    BY Zenon, <1>7, <2>1 DEF Waits, Return, groupVars
  <2> QED
    BY Zenon, <2>1, <2>2 DEF EndInv
<1> QED
  BY Zenon, <1>1, <1>2, <1>3, <1>4, <1>5, <1>6, <1>7 DEF Startup, Group

(* Once the group runs, serverCommand returns only after the metrics server has
   failed, with an error and the event P2PFailed. *)
THEOREM OnlyMetricsEndIt == Spec => []EndsWithMetrics
<1>1. Init => EndInv
  BY Zenon DEF Init, EndInv
<1>2. EndInv /\ [Next]_vars => EndInv'
  <2> SUFFICES ASSUME EndInv, [Next]_vars PROVE EndInv'
    BY Zenon
  <2>1. CASE UNCHANGED vars
    BY Zenon, <2>1 DEF vars, electionVars, bootVars, nodeVars, mainVars, groupVars, EndInv
  <2> QED
    BY Zenon, <2>1, ElectingKeepsEnd, ServingKeepsEnd DEF Next, Electing
<1>3. EndInv => EndsWithMetrics
  BY Zenon DEF EndInv, EndsWithMetrics
<1> QED
  BY <1>1, <1>2, <1>3, PTL DEF Spec

-----------------------------------------------------------------------------
(***************************************************************************)
(* The election.                                                           *)
(***************************************************************************)
CBs == {"select", "close", "set", "done", "panic"}

ElectTypes ==
  /\ holder \in Identities \cup {Unknown}
  /\ reports \in Seq(Identities \cup {Unknown})
  /\ cb \in Seq(CBs) /\ Len(cb) = Len(reports)
  /\ pc \in [Callers -> {"idle", "wait", "read", "done"}]
  /\ got \in [Callers -> Identities \cup {NoId, Error}]
  /\ id \in Identities \cup {NoId}
  /\ overlapped \in BOOLEAN /\ initClosed \in BOOLEAN

(* Bootstraps read id after initChan has been closed, which the callback of a
   known leader did, and id is what some callback was told. *)
WaitInv ==
  /\ initClosed => Known # {}
  /\ \A c \in Callers : pc[c] \in {"read", "done"} => initClosed
  /\ id # NoId => \E n \in Known : id = reports[n]
  /\ \A c \in Callers : got[c] \in {NoId, Error} \cup {reports[n] : n \in Known}
  /\ \A n \in Started : cb[n] \in {"close", "set", "panic"} => n \in Known

(* The callback that closed initChan has not set id, or id is set. *)
GapInv == initClosed /\ id = NoId => \E n \in Known : cb[n] = "set"

(* While callbacks do not overlap, all but the last have ended, the last one
   closes initChan only if it is open, and id is that of the latest leader
   once that leader's callback has ended. *)
IsLatest(n) == \A m \in Known : m <= n
OrderInv ==
  /\ Known # {} => \E n \in Known : IsLatest(n)
  /\ ~overlapped =>
       /\ \A n \in Started : /\ n < Len(reports) => cb[n] = "done"
                             /\ cb[n] = "close" => ~initClosed
                             /\ cb[n] # "panic"
       /\ \A n \in Known : IsLatest(n) /\ cb[n] = "done" => id = reports[n]

ElectInv == ElectTypes /\ WaitInv /\ GapInv /\ OrderInv

(* The invariant is about the callbacks, the bootstraps and what they share. *)
LEMMA ElectFrame ==
  ASSUME ElectInv, UNCHANGED <<reports, overlapped, cb, initClosed, id, pc, got>>,
         holder' \in Identities \cup {Unknown}
  PROVE  ElectInv'
  BY DEF ElectInv, ElectTypes, WaitInv, GapInv, OrderInv, IsLatest, Known, Started

(* What a report of the elector adds. *)
LEMMA ReportFacts ==
  ASSUME ElectTypes, Report
  PROVE  /\ ElectTypes' /\ Len(reports) \in Nat /\ Len(reports') = Len(reports) + 1
         /\ \A n \in Started : reports'[n] = reports[n] /\ cb'[n] = cb[n]
         /\ reports'[Len(reports) + 1] = holder /\ cb'[Len(reports) + 1] = "select"
<1>1. /\ reports' = Append(reports, holder) /\ cb' = Append(cb, "select")
      /\ UNCHANGED <<holder, initClosed, id, pc, got>> /\ overlapped' \in BOOLEAN
  BY Zenon DEF Report, bootVars, ElectTypes
<1>2. /\ reports' \in Seq(Identities \cup {Unknown}) /\ Len(reports') = Len(reports) + 1
      /\ \A n \in 1 .. Len(reports) : reports'[n] = reports[n]
      /\ reports'[Len(reports) + 1] = holder /\ Len(reports) \in Nat
  BY <1>1, AppendProperties DEF ElectTypes
<1>3. /\ cb' \in Seq(CBs) /\ Len(cb') = Len(cb) + 1
      /\ \A n \in 1 .. Len(cb) : cb'[n] = cb[n]
      /\ cb'[Len(cb) + 1] = "select"
  BY <1>1, AppendProperties DEF ElectTypes, CBs
<1> QED
  BY Zenon, <1>1, <1>2, <1>3 DEF ElectTypes, Started

(* The known leaders after a report. *)
LEMMA ReportKnown ==
  ASSUME ElectTypes, Report
  PROVE  /\ Started' = Started \cup {Len(reports) + 1}
         /\ \A n \in Started : n < Len(reports) + 1 /\ n \in Nat
         /\ Known \subseteq Started
         /\ Known' = IF holder = Unknown THEN Known ELSE Known \cup {Len(reports) + 1}
<1>1. Len(reports) \in Nat /\ Len(reports') = Len(reports) + 1
  BY Zenon, ReportFacts
<1>2. Started' = Started \cup {Len(reports) + 1} /\ \A n \in Started : n < Len(reports) + 1 /\ n \in Nat
  BY <1>1 DEF Started
<1> QED
  BY Zenon, <1>2, ReportFacts, ElectionAssumption DEF Known

(* What a step of a callback changes. *)
LEMMA CallbackFacts ==
  ASSUME ElectTypes, NEW n \in Started, NEW l \in CBs, cb' = [cb EXCEPT ![n] = l]
  PROVE  /\ cb' \in Seq(CBs) /\ Len(cb') = Len(cb)
         /\ cb'[n] = l /\ \A m \in Started : m # n => cb'[m] = cb[m]
         /\ n \in Nat /\ n <= Len(reports) /\ Len(reports) \in Nat
<1>1. n \in 1 .. Len(cb) /\ cb \in Seq(CBs) /\ Len(reports) \in Nat
  BY DEF ElectTypes, Started
<1> QED
  BY <1>1, ExceptSeq DEF ElectTypes, Started

(* Facts of the invariant that the steps below use. *)
LEMMA KnownFacts ==
  ASSUME ElectTypes
  PROVE  /\ Known \subseteq Started /\ Started \subseteq Nat /\ Len(reports) \in Nat
         /\ \A n \in Started : n <= Len(reports) /\ reports[n] \in Identities \cup {Unknown} /\ cb[n] \in CBs
         /\ \A n \in Known : reports[n] \in Identities
  BY DEF ElectTypes, Known, Started

(* A report begins a callback. *)
LEMMA ReportKeeps ==
  ASSUME ElectInv, Report
  PROVE  ElectInv'
<1> DEFINE new == Len(reports) + 1
<1>1. /\ ElectTypes /\ ElectTypes' /\ Len(reports) \in Nat /\ Len(reports') = new
      /\ \A n \in Started : reports'[n] = reports[n] /\ cb'[n] = cb[n]
      /\ reports'[new] = holder /\ cb'[new] = "select"
  BY Zenon, ReportFacts DEF ElectInv
<1>2. /\ Started' = Started \cup {new} /\ Known \subseteq Started
      /\ \A n \in Started : n < new /\ n \in Nat
      /\ Known' = IF holder = Unknown THEN Known ELSE Known \cup {new}
  BY Zenon, <1>1, ReportKnown
<1>3. /\ UNCHANGED <<initClosed, id, pc, got>>
      /\ ~overlapped' => ~overlapped /\ \A n \in Started : cb[n] = "done"
  BY Zenon DEF Report, bootVars
<1>4. Known \subseteq Known' /\ \A n \in Known : reports'[n] = reports[n] /\ cb'[n] = cb[n]
  BY Zenon, <1>1, <1>2
<1> HIDE DEF new
<1>5. WaitInv'
  <2>1. \A n \in Started' : cb'[n] \in {"close", "set", "panic"} => n \in Known'
    BY Zenon, <1>1, <1>2, <1>4 DEF ElectInv, WaitInv
  <2>2. \A c \in Callers : got'[c] \in {NoId, Error} \cup {reports'[n] : n \in Known'}
    BY <1>3, <1>4 DEF ElectInv, WaitInv
  <2>3. /\ initClosed' => Known' # {}
        /\ \A c \in Callers : pc'[c] \in {"read", "done"} => initClosed'
        /\ id' # NoId => \E n \in Known' : id' = reports'[n]
    BY Zenon, <1>3, <1>4 DEF ElectInv, WaitInv
  <2> QED
    BY Zenon, <2>1, <2>2, <2>3 DEF WaitInv
<1>6. GapInv'
  BY Zenon, <1>3, <1>4 DEF ElectInv, GapInv
<1>7. OrderInv'
  <2>1. holder # Unknown => new \in Known' /\ \A m \in Known' : m <= new
    BY <1>1, <1>2 DEF new
  <2>2. holder # Unknown => \A n \in Known' : (\A m \in Known' : m <= n) => n = new
    BY <1>1, <1>2 DEF new
  <2>3. Known' # {} => \E n \in Known' : \A m \in Known' : m <= n
    BY Zenon, <1>2, <2>1 DEF ElectInv, OrderInv, IsLatest
  <2>4. ~overlapped' =>
          \A n \in Started' : /\ n < Len(reports') => cb'[n] = "done"
                              /\ cb'[n] = "close" => ~initClosed'
                              /\ cb'[n] # "panic"
    BY <1>1, <1>2, <1>3
  <2>5. ~overlapped' => \A n \in Known' : (\A m \in Known' : m <= n) /\ cb'[n] = "done" => id' = reports'[n]
    <3>1. CASE holder = Unknown
      BY Zenon, <1>2, <1>3, <1>4, <3>1 DEF ElectInv, OrderInv, IsLatest
    <3>2. CASE holder # Unknown
      BY Zenon, <1>1, <2>2, <3>2
    <3> QED
      BY Zenon, <3>1, <3>2
  <2> QED
    BY Zenon, <2>3, <2>4, <2>5 DEF OrderInv, IsLatest
<1> QED
  BY Zenon, <1>1, <1>5, <1>6, <1>7 DEF ElectInv

(* Every step of a callback keeps the invariant. *)
LEMMA OnNewLeaderKeeps ==
  ASSUME ElectInv, NEW n \in Started, OnNewLeader(n)
  PROVE  ElectInv'
<1>1. UNCHANGED <<holder, reports, overlapped, pc, got>>
  BY Zenon DEF OnNewLeader, Ignore, Select, CloseInit, SetId, electorVars, bootVars
<1>2. /\ Started' = Started /\ Known' = Known
      /\ \A m : IsLatest(m)' <=> IsLatest(m)
  BY Zenon, <1>1 DEF Started, Known, IsLatest
<1>3. /\ Known \subseteq Started /\ Started \subseteq Nat /\ Len(reports) \in Nat /\ ElectTypes
      /\ n \in Nat /\ n <= Len(reports) /\ NoId \notin Identities
      /\ \A m \in Known : reports[m] \in Identities /\ m <= Len(reports)
  <2>1. NoId \notin Identities
    BY Zenon, ElectionAssumption DEF NoId, Identities
  <2> QED
    BY Zenon, <2>1, KnownFacts DEF ElectInv
<1>4. ~overlapped /\ cb[n] # "done" => n = Len(reports)
  <2>1. ~overlapped /\ cb[n] # "done" => ~(n < Len(reports))
    BY Zenon DEF ElectInv, OrderInv
  <2>2. \A m, k \in Nat : m <= k /\ ~(m < k) => m = k
    OBVIOUS
  <2> QED
    BY Zenon, <1>3, <2>1, <2>2, Zenon
<1>5. ~overlapped /\ cb[n] # "done" => \A m \in Started : m # n => cb[m] = "done"
  <2>1. \A m, k \in Nat : m <= k /\ m # k => m < k
    OBVIOUS
  <2>2. \A m \in Started : m \in Nat /\ m <= Len(reports)
    BY Zenon, <1>3, KnownFacts
  <2>3. ~overlapped /\ cb[n] # "done" => \A m \in Started : m # n => m < Len(reports)
    BY Zenon, <1>3, <1>4, <2>1, <2>2, Zenon
  <2> QED
    BY Zenon, <2>3 DEF ElectInv, OrderInv
(* A step of n to l that leaves id alone; l is no end. *)
<1>6. ASSUME NEW l, l # "done", ~overlapped => l # "panic" /\ (l = "close" => ~initClosed'),
             cb[n] # "done", id' = id, cb'[n] = l, \A m \in Started : m # n => cb'[m] = cb[m]
      PROVE  OrderInv'
  <2>1. Known' # {} => \E m \in Known' : IsLatest(m)'
    BY Zenon, <1>2 DEF ElectInv, OrderInv
  <2>2. ASSUME ~overlapped, NEW m \in Started
        PROVE  /\ m < Len(reports) => cb'[m] = "done"
               /\ cb'[m] = "close" => ~initClosed'
               /\ cb'[m] # "panic"
    <3>1. CASE m = n
      BY <1>3, <1>4, <1>6, <2>2, <3>1
    <3>2. CASE m # n
      BY Zenon, <1>5, <1>6, <2>2, <3>2
    <3> QED
      BY Zenon, <3>1, <3>2
  <2>3. ASSUME ~overlapped, NEW m \in Known, IsLatest(m), cb'[m] = "done"
        PROVE  id' = reports[m]
    BY Zenon, <1>3, <1>6, <2>3 DEF ElectInv, OrderInv
  <2> QED
    BY Zenon, <1>1, <1>2, <2>1, <2>2, <2>3 DEF OrderInv
<1>7. CASE Ignore(n)
  <2>1. cb' = [cb EXCEPT ![n] = "done"] /\ UNCHANGED <<initClosed, id>> /\ n \notin Known /\ cb[n] = "select"
    BY Zenon, <1>7 DEF Ignore, Known
  <2>2. /\ cb' \in Seq(CBs) /\ Len(cb') = Len(cb) /\ cb'[n] = "done"
        /\ \A m \in Started : m # n => cb'[m] = cb[m]
    BY Zenon, <1>3, <2>1, CallbackFacts DEF CBs
  <2>3. ElectTypes'
    BY Zenon, <1>1, <2>1, <2>2 DEF ElectInv, ElectTypes
  <2>4. WaitInv' /\ GapInv'
    BY Zenon, <1>1, <1>2, <1>3, <2>1, <2>2 DEF ElectInv, WaitInv, GapInv
  <2>5. OrderInv'
    BY Zenon, <1>1, <1>2, <1>3, <2>1, <2>2 DEF ElectInv, OrderInv
  <2> QED
    BY Zenon, <2>3, <2>4, <2>5 DEF ElectInv
<1>8. CASE Select(n)
  <2> DEFINE l == IF initClosed THEN "set" ELSE "close"
  <2>1. cb' = [cb EXCEPT ![n] = l] /\ UNCHANGED <<initClosed, id>> /\ n \in Known /\ cb[n] = "select"
    BY Zenon, <1>8 DEF Select, Known
  <2>2. /\ cb' \in Seq(CBs) /\ Len(cb') = Len(cb) /\ cb'[n] = l
        /\ \A m \in Started : m # n => cb'[m] = cb[m]
    BY Zenon, <1>3, <2>1, CallbackFacts DEF CBs
  <2>3. ElectTypes'
    BY Zenon, <1>1, <2>1, <2>2 DEF ElectInv, ElectTypes
  <2>4. WaitInv' /\ GapInv'
    BY Zenon, <1>1, <1>2, <1>3, <2>1, <2>2 DEF ElectInv, WaitInv, GapInv
  <2>5. OrderInv'
    BY Zenon, <1>6, <2>1, <2>2
  <2> QED
    BY Zenon, <2>3, <2>4, <2>5 DEF ElectInv
<1>9. CASE CloseInit(n)
  <2> DEFINE l == IF initClosed THEN "panic" ELSE "set"
  <2>1. cb' = [cb EXCEPT ![n] = l] /\ id' = id /\ initClosed' = TRUE /\ cb[n] = "close"
    BY Zenon, <1>9 DEF CloseInit, Closed
  <2>2. /\ cb' \in Seq(CBs) /\ Len(cb') = Len(cb) /\ cb'[n] = l
        /\ \A m \in Started : m # n => cb'[m] = cb[m]
    BY Zenon, <1>3, <2>1, CallbackFacts DEF CBs
  <2>3. ElectTypes'
    BY Zenon, <1>1, <2>1, <2>2 DEF ElectInv, ElectTypes
  <2>4. n \in Known
    BY Zenon, <2>1 DEF ElectInv, WaitInv
  <2>5. WaitInv'
    BY Zenon, <1>1, <1>2, <1>3, <2>1, <2>2, <2>4 DEF ElectInv, WaitInv
  <2>6. GapInv'
    BY Zenon, <1>2, <1>3, <2>1, <2>2, <2>4 DEF ElectInv, GapInv
  <2>7. OrderInv'
    <3>1. ~overlapped => l # "panic"
      BY Zenon, <2>1 DEF ElectInv, OrderInv
    <3> QED
      BY <1>6, <2>1, <2>2, <3>1
  <2> QED
    BY Zenon, <2>3, <2>5, <2>6, <2>7 DEF ElectInv
<1>10. CASE SetId(n)
  <2>1. cb' = [cb EXCEPT ![n] = "done"] /\ id' = reports[n] /\ initClosed' = initClosed /\ cb[n] = "set"
    BY Zenon, <1>10 DEF SetId, Id
  <2>2. /\ cb' \in Seq(CBs) /\ Len(cb') = Len(cb) /\ cb'[n] = "done"
        /\ \A m \in Started : m # n => cb'[m] = cb[m]
    BY Zenon, <1>3, <2>1, CallbackFacts DEF CBs
  <2>3. n \in Known
    BY Zenon, <2>1 DEF ElectInv, WaitInv
  <2>4. ElectTypes'
    BY Zenon, <1>1, <1>3, <2>1, <2>2, <2>3 DEF ElectInv, ElectTypes
  <2>5. WaitInv' /\ GapInv'
    BY Zenon, <1>1, <1>2, <1>3, <2>1, <2>2, <2>3 DEF ElectInv, WaitInv, GapInv
  <2>6. OrderInv'
    <3>1. ~overlapped => \A m \in Known : IsLatest(m) => m = n
      BY <1>3, <1>4, <2>1, <2>3 DEF IsLatest
    <3> QED
      BY Zenon, <1>1, <1>2, <1>3, <1>4, <2>1, <2>2, <3>1 DEF ElectInv, OrderInv
  <2> QED
    BY Zenon, <2>4, <2>5, <2>6 DEF ElectInv
<1> QED
  BY Zenon, <1>7, <1>8, <1>9, <1>10 DEF OnNewLeader

(* Every step of a bootstrap keeps the invariant. *)
LEMMA BootstrapKeeps ==
  ASSUME ElectInv, NEW c \in Callers, Bootstrap(c) \/ Bootstraps(c)
  PROVE  ElectInv'
<1>1. /\ UNCHANGED <<holder, reports, overlapped, cb, initClosed, id>>
      /\ pc \in [Callers -> {"idle", "wait", "read", "done"}] /\ got \in [Callers -> Identities \cup {NoId, Error}]
      /\ id \in Identities \cup {NoId}
  BY Zenon DEF Bootstrap, Bootstraps, AwaitInit, BootstrapEnds, electorVars, leaderVars, ElectInv, ElectTypes
<1>2. GapInv' /\ OrderInv' /\ Known' = Known
  BY Zenon, <1>1 DEF ElectInv, GapInv, OrderInv, IsLatest, Known, Started
<1>3. CASE Bootstrap(c) \/ AwaitInit(c)
  <2>1. PICK l \in {"wait", "read"} : pc' = [pc EXCEPT ![c] = l] /\ (l = "read" => initClosed) /\ got' = got
    BY Zenon, <1>3 DEF Bootstrap, AwaitInit, InitReceived
  <2>2. ElectTypes'
    BY Zenon, <1>1, <2>1 DEF ElectInv, ElectTypes
  <2>3. WaitInv'
    BY Zenon, <1>1, <1>2, <2>1 DEF ElectInv, WaitInv, Started
  <2> QED
    BY Zenon, <1>2, <2>2, <2>3 DEF ElectInv
<1>4. CASE BootstrapEnds(c)
  <2>1. /\ pc' = [pc EXCEPT ![c] = "done"] /\ got' = [got EXCEPT ![c] = Leader] /\ pc[c] = "read"
    BY Zenon, <1>4 DEF BootstrapEnds
  <2>2. Leader \in Identities \cup {NoId, Error} /\ Leader \in {NoId, Error} \cup {reports[n] : n \in Known}
    BY Zenon, <1>1 DEF Leader, ElectInv, WaitInv
  <2>3. ElectTypes'
    BY Zenon, <1>1, <2>1, <2>2 DEF ElectInv, ElectTypes
  <2>4. initClosed
    BY Zenon, <2>1 DEF ElectInv, WaitInv
  <2>5. \A d \in Callers : got'[d] \in {NoId, Error} \cup {reports[n] : n \in Known}
    BY Zenon, <1>1, <2>1, <2>2 DEF ElectInv, WaitInv
  <2>6. WaitInv'
    BY Zenon, <1>1, <1>2, <2>1, <2>4, <2>5 DEF ElectInv, WaitInv, Started
  <2> QED
    BY Zenon, <1>2, <2>3, <2>6 DEF ElectInv
<1> QED
  BY Zenon, <1>3, <1>4 DEF Bootstraps

LEMMA InitElectInv == Init => ElectInv
<1> SUFFICES ASSUME Init PROVE ElectInv
  BY Zenon
<1>1. /\ holder = Unknown /\ reports = << >> /\ cb = << >> /\ id = NoId
      /\ overlapped = FALSE /\ initClosed = FALSE
      /\ pc = [c \in Callers |-> "idle"] /\ got = [c \in Callers |-> NoId]
  BY Zenon DEF Init, ElectionInit
<1>2. Len(reports) = 0 /\ Len(cb) = 0 /\ reports \in Seq(Identities \cup {Unknown}) /\ cb \in Seq(CBs)
  BY <1>1
<1>3. Started = {} /\ Known = {}
  BY <1>2 DEF Started, Known
<1>4. ElectTypes
  BY Zenon, <1>1, <1>2 DEF ElectTypes
<1> QED
  BY Zenon, <1>1, <1>3, <1>4 DEF ElectInv, WaitInv, GapInv, OrderInv

LEMMA NextElectInv == ElectInv /\ [Next]_vars => ElectInv'
<1> SUFFICES ASSUME ElectInv, [Next]_vars PROVE ElectInv'
  BY Zenon
<1>1. CASE LeaseMoves \/ GivesUp \/ Cancelled
  <2>1. UNCHANGED <<reports, overlapped, cb, initClosed, id, pc, got>>
    BY Zenon, <1>1 DEF LeaseMoves, GivesUp, Cancelled, leaderVars, bootVars
  <2>2. holder' \in Identities \cup {Unknown}
    BY Zenon, <1>1 DEF LeaseMoves, GivesUp, Cancelled, Released, ElectInv, ElectTypes
  <2> QED
    BY Zenon, <2>1, <2>2, ElectFrame
<1>2. CASE Report
  BY Zenon, <1>2, ReportKeeps
<1>3. CASE Callback
  BY Zenon, <1>3, OnNewLeaderKeeps DEF Callback
<1>4. CASE \E c \in Callers : Bootstrap(c) \/ Bootstraps(c)
  BY Zenon, <1>4, BootstrapKeeps
<1>5. CASE Sigterm \/ Startup \/ Group \/ UNCHANGED vars
  <2>1. UNCHANGED <<holder, reports, overlapped, cb, initClosed, id, pc, got>>
    BY Zenon, <1>5 DEF Sigterm, Startup, Group, Configures, ConfigFails, RouterElects, RouterFails, RouterStarts,
       Return, ProvideStops, PromFails, Waits, RouterCloses, ServerFails, ShutsDown, Drained,
       vars, electionVars, electorVars, leaderVars, bootVars
  <2> QED
    BY Zenon, <2>1, ElectFrame DEF ElectInv, ElectTypes
<1> QED
  BY Zenon, <1>1, <1>2, <1>3, <1>4, <1>5 DEF Next, Electing, ReportsLeader

LEMMA ElectInvHolds == Spec => []ElectInv
  BY InitElectInv, NextElectInv, PTL DEF Spec

(* leaderElection.Leader waits for the first report, and what it returns was
   reported. *)
THEOREM LeaderIsReported == Spec => []LeaderWaits
<1>1. ElectInv => LeaderWaits
  BY Zenon DEF ElectInv, WaitInv, LeaderWaits
<1> QED
  BY <1>1, ElectInvHolds, PTL

(* As long as callbacks do not overlap, initChan is closed once and id is the
   leader that was reported last. *)
THEOREM IdIsTheLatest == Spec => []IdIsLatest
<1>1. ElectInv => IdIsLatest
  <2> SUFFICES ASSUME ElectInv, ~overlapped
               PROVE  /\ NoPanic
                      /\ (Known # {} /\ \A n \in Started : cb[n] = "done") =>
                           LET latest == CHOOSE n \in Known : \A m \in Known : m <= n
                           IN id = reports[latest]
    BY Zenon DEF IdIsLatest
  <2>1. NoPanic
    BY Zenon DEF ElectInv, OrderInv, NoPanic
  <2>2. ASSUME Known # {}, \A n \in Started : cb[n] = "done",
               NEW l, l = CHOOSE n \in Known : \A m \in Known : m <= n
        PROVE  id = reports[l]
    <3>1. \E n \in Known : \A m \in Known : m <= n
      BY Zenon, <2>2 DEF ElectInv, OrderInv, IsLatest
    <3>2. l \in Known /\ \A m \in Known : m <= l
      BY Zenon, <2>2, <3>1
    <3>3. l \in Started
      BY Zenon, <3>2 DEF Known
    <3> QED
      BY Zenon, <2>2, <3>2, <3>3 DEF ElectInv, OrderInv, IsLatest
  <2> QED
    BY Zenon, <2>1, <2>2
<1> QED
  BY <1>1, ElectInvHolds, PTL

(* No step but the end of a bootstrap emits P2PDisconnected. *)
LEMMA OnlyBootstrapDisconnects ==
  ASSUME [Next]_vars, "Disconnected" \notin events, "Disconnected" \in events'
  PROVE  \E c \in Callers : BootstrapEnds(c)
<1>1. UNCHANGED vars \/ LeaseMoves \/ Sigterm => UNCHANGED events
  BY Zenon DEF vars, electionVars, bootVars, LeaseMoves, Sigterm
<1>2. Startup => "Disconnected" \notin events'
  BY DEF Startup, Configures, ConfigFails, RouterElects, RouterFails, RouterStarts, Return, electionVars,
         bootVars
<1>3. Group => "Disconnected" \notin events'
  <2>1. ProvideStops \/ PromFails \/ RouterCloses => UNCHANGED events
    BY Zenon DEF ProvideStops, PromFails, RouterCloses, electionVars, bootVars
  <2>2. Waits => "Disconnected" \notin events'
    BY DEF Waits, Return
  <2>3. ASSUME NEW s \in Servers, ServerFails(s) \/ ShutsDown(s) \/ Drained(s)
        PROVE  UNCHANGED events
    BY Zenon, <2>3 DEF ServerFails, ShutsDown, Drained, electionVars, bootVars
  <2> QED
    BY Zenon, <2>1, <2>2, <2>3 DEF Group
<1>4. ASSUME Electing
      PROVE  \E c \in Callers : BootstrapEnds(c)
  <2>1. ReportsLeader \/ GivesUp \/ Cancelled => UNCHANGED events
    BY Zenon DEF ReportsLeader, Report, GivesUp, Cancelled, bootVars
  <2>2. Callback => UNCHANGED events
    BY Zenon DEF Callback, OnNewLeader, Ignore, Select, CloseInit, SetId, bootVars
  <2>3. ASSUME NEW c \in Callers, Bootstrap(c) \/ AwaitInit(c)
        PROVE  UNCHANGED events
    BY Zenon, <2>3 DEF Bootstrap, AwaitInit
  <2> QED
    BY Zenon, <1>4, <2>1, <2>2, <2>3 DEF Electing, Bootstraps
<1> QED
  BY Zenon, <1>1, <1>2, <1>3, <1>4 DEF Next

(* P2PDisconnected is emitted only while a leader is known and its callback has
   closed initChan without having set id. *)
THEOREM DisconnectedOnlyInGap == Spec => DisconnectedInGap
<1>1. ElectInv /\ [Next]_vars =>
        [("Disconnected" \notin events /\ "Disconnected" \in events') =>
           (initClosed /\ \E n \in Known : cb[n] = "set")]_vars
  <2> SUFFICES ASSUME ElectInv, [Next]_vars, "Disconnected" \notin events, "Disconnected" \in events'
               PROVE  initClosed /\ \E n \in Known : cb[n] = "set"
    BY Zenon
  <2>1. PICK c \in Callers : BootstrapEnds(c)
    BY Zenon, OnlyBootstrapDisconnects
  <2>2. Leader = Error /\ pc[c] = "read"
    <3>1. "Connected" # "Disconnected"
      OBVIOUS
    <3> QED
      BY Zenon, <2>1, <3>1 DEF BootstrapEnds
  <2>3. id = NoId
    BY Zenon, <2>2, ElectionAssumption DEF Leader, Error, NoId, Identities, ElectInv, ElectTypes
  <2>4. initClosed
    BY Zenon, <2>2 DEF ElectInv, WaitInv
  <2> QED
    BY Zenon, <2>3, <2>4 DEF ElectInv, GapInv
<1> QED
  BY <1>1, ElectInvHolds, PTL DEF Spec, DisconnectedInGap

-----------------------------------------------------------------------------
(***************************************************************************)
(* Blocks of any size.                                                     *)
(***************************************************************************)

(* A multiple of the block size, as AlignDown returns them. *)
Aligned(x, a) == \E q \in Nat : x = q * a

(* Multiplication by a block size is monotonic. *)
LEMMA TimesMonotonic ==
  ASSUME NEW p \in Nat, NEW q \in Nat, NEW a \in Nat \ {0}, p < q
  PROVE  p * a + a <= q * a
  <1>1. PICK d \in Nat : q = p + 1 + d
    <2>1. q - p - 1 \in Nat /\ q = p + 1 + (q - p - 1)
      OBVIOUS
    <2> QED
      BY Zenon, <2>1
  <1>2. q * a = p * a + a + d * a
    BY <1>1
  <1>3. d * a \in Nat
    BY <1>1
  <1> QED
    BY <1>2, <1>3

(* AlignDown returns the block that holds its argument. *)
LEMMA AlignDownBounds ==
  ASSUME NEW x \in Nat, NEW a \in Nat \ {0}
  PROVE  /\ AlignDown(x, a) \in Nat
         /\ Aligned(AlignDown(x, a), a)
         /\ AlignDown(x, a) <= x /\ x < AlignDown(x, a) + a
  <1>1. x \div a \in Nat
    OBVIOUS
  <1>2. (x \div a) * a \in Nat
    BY <1>1
  <1>3. x = a * (x \div a) + (x % a) /\ x % a \in 0 .. a - 1
    OBVIOUS
  <1>4. a * (x \div a) = (x \div a) * a
    BY <1>1
  <1> DEFINE b == (x \div a) * a
  <1>5. b \in Nat /\ x = b + (x % a)
    BY Zenon, <1>2, <1>3, <1>4
  <1>6. b <= x /\ x < b + a
    BY <1>3, <1>5
  <1>7. Aligned(b, a)
    BY Zenon, <1>1 DEF Aligned
  <1> QED
    BY Zenon, <1>5, <1>6, <1>7 DEF AlignDown

(* An offset lies in one block only. *)
LEMMA OneBlock ==
  ASSUME NEW x \in Nat, NEW a \in Nat \ {0}, NEW b \in Nat,
         Aligned(b, a), b <= x, x < b + a
  PROVE  AlignDown(x, a) = b
  <1>1. PICK p \in Nat : b = p * a
    BY Zenon DEF Aligned
  <1>2. PICK q \in Nat : AlignDown(x, a) = q * a
    BY Zenon, AlignDownBounds DEF Aligned
  <1>3. AlignDown(x, a) \in Nat /\ AlignDown(x, a) <= x /\ x < AlignDown(x, a) + a
    BY Zenon, AlignDownBounds
  <1>4. ~(p < q)
    BY <1>1, <1>2, <1>3, TimesMonotonic
  <1>5. ~(q < p)
    BY <1>1, <1>2, <1>3, TimesMonotonic
  <1>6. p = q
    BY <1>4, <1>5
  <1> QED
    BY Zenon, <1>1, <1>2, <1>6

(* The block after a block. *)
LEMMA NextBlock ==
  ASSUME NEW x \in Nat, NEW a \in Nat \ {0}, Aligned(x, a)
  PROVE  Aligned(x + a, a)
  <1>1. PICK q \in Nat : x = q * a
    BY Zenon DEF Aligned
  <1>2. x + a = (q + 1) * a
    BY <1>1
  <1> QED
    BY <1>2 DEF Aligned

-----------------------------------------------------------------------------
(***************************************************************************)
(* The inductive invariant: i is a block boundary, and the segments sent   *)
(* so far end where the block of i begins, or with the range.              *)
(***************************************************************************)
Progress ==
  /\ Aligned(i, step)
  /\ offset < i + step
  /\ sent = << >> => i <= offset \/ size <= offset
  /\ sent # << >> => offset < i /\ offset < size /\ End(sent[Len(sent)]) = Min64(i, size)
  /\ state = "closed" => i >= size

SegInv == SegTypeOK /\ Progress /\ Tiles /\ InsideBlocks /\ PrefetchMatchesRead

USE DEF Max64, Min64, Start, End

(* NewSegments establishes the invariant. *)
LEMMA InitSegInv == SegInit => SegInv
  <1> SUFFICES ASSUME NEW o \in Offsets, NEW s \in Steps, NEW c \in Counts, NEW z \in Sizes,
                      NewSegments(o, s, c, z)
               PROVE  SegInv
    BY Zenon DEF SegInit
  <1>1. o \in Nat /\ s \in Nat \ {0} /\ c \in Nat /\ z \in Nat
    BY Zenon, SegmentsAssumption
  <1>2. offset = o /\ step = s /\ i = AlignDown(o, s) /\ sent = << >>
        /\ size = Min64(o + c, z) /\ state \in {"loop", "err"}
    BY Zenon DEF NewSegments
  <1>3. i \in Nat /\ Aligned(i, step) /\ i <= offset /\ offset < i + step
    BY Zenon, <1>1, <1>2, AlignDownBounds
  <1>4. SegTypeOK
    BY <1>1, <1>2, <1>3 DEF SegTypeOK
  <1>5. Len(sent) = 0
    BY Zenon, <1>2
  <1> QED
    BY <1>1, <1>2, <1>3, <1>4, <1>5 DEF SegInv, Progress, Tiles, InsideBlocks, PrefetchMatchesRead

(* The segment that Send sends starts where the last one ended, stays in the
   block of i, and ends with that block or with the range. *)
LEMMA SegmentFits ==
  ASSUME SegInv, Send
  PROVE  /\ Segment \in [Index : Nat, Offset : Nat, Count : Nat \ {0}]
         /\ offset < size
         /\ IF sent = << >> THEN Start(Segment) = offset
            ELSE Start(Segment) = End(sent[Len(sent)])
         /\ End(Segment) = Min64(i + step, size)
         /\ Segment.Offset + Segment.Count <= step
         /\ Segment.Index = AlignDown(Start(Segment), step)
         /\ offset = 0 => Segment.Count = ReadCount(size, Segment.Index)
  <1>1. offset \in Nat /\ step \in Nat \ {0} /\ size \in Nat /\ i \in Nat
    BY Zenon DEF SegInv, SegTypeOK
  <1>2. i < size /\ Count > 0 /\ offset < i + step /\ Aligned(i, step)
    BY Zenon DEF Send, SegInv, Progress
  <1>3. Count \in Nat \ {0} /\ offset < size /\ absOffset \in Nat /\ absOffset >= i
        /\ absOffset + Count = Min64(i + step, size)
    BY <1>1, <1>2 DEF Count, absOffset
  <1>4. Segment.Index = i /\ Segment.Offset = absOffset - i /\ Segment.Count = Count
    BY Zenon DEF Segment
  <1>5. Segment \in [Index : Nat, Offset : Nat, Count : Nat \ {0}]
    BY <1>1, <1>3 DEF Segment
  <1>6. Start(Segment) = absOffset /\ End(Segment) = Min64(i + step, size)
    BY <1>1, <1>3, <1>4
  <1>7. IF sent = << >> THEN absOffset = offset ELSE absOffset = End(sent[Len(sent)])
    <2>1. CASE sent = << >>
      <3>1. i <= offset
        BY <2>1, <1>3, <1>1 DEF SegInv, Progress
      <3> QED
        BY <3>1, <2>1, <1>1 DEF absOffset
    <2>2. CASE sent # << >>
      <3>1. offset < i /\ End(sent[Len(sent)]) = Min64(i, size)
        BY Zenon, <2>2 DEF SegInv, Progress
      <3> QED
        BY <3>1, <2>2, <1>1, <1>2 DEF absOffset
    <2> QED
      BY Zenon, <2>1, <2>2
  <1>8. absOffset < i + step
    BY <1>1, <1>2 DEF absOffset
  <1>9. AlignDown(absOffset, step) = i
    BY Zenon, <1>1, <1>2, <1>3, <1>8, OneBlock
  <1>10. offset = 0 => Count = ReadCount(size, i)
    BY <1>1, <1>2 DEF Count, absOffset, ReadCount
  <1>11. Segment.Offset + Segment.Count <= step
    BY <1>1, <1>3, <1>4
  <1> QED
    BY Zenon, <1>3, <1>4, <1>5, <1>6, <1>7, <1>9, <1>10, <1>11

(* Every step of the goroutine of All preserves the invariant. *)
LEMMA NextSegInv == SegInv /\ [SegNext]_segVars => SegInv'
  <1> SUFFICES ASSUME SegInv, [SegNext]_segVars
               PROVE  SegInv'
    BY Zenon
  <1>0. offset \in Nat /\ step \in Nat \ {0} /\ size \in Nat /\ i \in Nat
        /\ sent \in Seq([Index : Nat, Offset : Nat, Count : Nat \ {0}])
    BY Zenon DEF SegInv, SegTypeOK
  <1>1. CASE Send
    <2>1. /\ i' = i + step /\ sent' = Append(sent, Segment)
          /\ offset' = offset /\ step' = step /\ size' = size /\ state' = "loop"
          /\ i < size
      BY Zenon, <1>1 DEF Send
    <2> DEFINE seg == Segment
    <2>2. /\ seg \in [Index : Nat, Offset : Nat, Count : Nat \ {0}]
          /\ offset < size
          /\ IF sent = << >> THEN Start(seg) = offset
             ELSE Start(seg) = End(sent[Len(sent)])
          /\ End(seg) = Min64(i + step, size)
          /\ seg.Offset + seg.Count <= step
          /\ seg.Index = AlignDown(Start(seg), step)
          /\ offset = 0 => seg.Count = ReadCount(size, seg.Index)
      BY Zenon, <1>1, SegmentFits
    <2> HIDE DEF seg
    <2>3. /\ Len(sent) \in Nat /\ Len(sent') = Len(sent) + 1 /\ sent' # << >>
          /\ sent'[Len(sent) + 1] = seg
          /\ \A n \in 1 .. Len(sent) : sent'[n] = sent[n]
          /\ sent' \in Seq([Index : Nat, Offset : Nat, Count : Nat \ {0}])
      BY <2>1, <2>2, <1>0 DEF seg
    <2>4. SegTypeOK'
      BY <2>1, <2>3, <1>0 DEF SegTypeOK
    <2>5. Progress'
      <3>1. Aligned(i', step')
        BY Zenon, <2>1, <1>0, NextBlock DEF SegInv, Progress
      <3>2. offset' < i' /\ offset' < i' + step'
        BY <2>1, <1>0 DEF SegInv, Progress
      <3>3. End(sent'[Len(sent')]) = Min64(i', size')
        BY Zenon, <2>1, <2>2, <2>3
      <3> QED
        BY Zenon, <3>1, <3>2, <3>3, <2>1, <2>2, <2>3 DEF Progress
    <2>6. Tiles'
      <3>1. Start(sent'[1]) = offset
        <4>1. CASE sent = << >>
          BY <4>1, <2>2, <2>3
        <4>2. CASE sent # << >>
          <5>1. Len(sent) >= 1 /\ Start(sent[1]) = offset
            BY <4>2, <1>0 DEF SegInv, Tiles
          <5> QED
            BY <5>1, <2>3
        <4> QED
          BY Zenon, <4>1, <4>2
      <3>2. ASSUME NEW n \in 1 .. Len(sent') - 1
            PROVE  End(sent'[n]) = Start(sent'[n + 1])
        <4>1. sent # << >>
          BY <2>3, <1>0
        <4>2. CASE n = Len(sent)
          BY <4>1, <4>2, <2>2, <2>3
        <4>3. CASE n # Len(sent)
          <5>1. n \in 1 .. Len(sent) - 1 /\ n + 1 \in 1 .. Len(sent) /\ n \in 1 .. Len(sent)
            BY <4>3, <2>3
          <5>2. End(sent[n]) = Start(sent[n + 1])
            BY Zenon, <5>1 DEF SegInv, Tiles
          <5> QED
            BY Zenon, <5>1, <5>2, <2>3
        <4> QED
          BY Zenon, <4>2, <4>3
      <3> QED
        BY Zenon, <3>1, <3>2, <2>1 DEF Tiles
    <2>7. ASSUME NEW n \in 1 .. Len(sent')
          PROVE  /\ sent'[n].Offset + sent'[n].Count <= step
                 /\ sent'[n].Index = AlignDown(Start(sent'[n]), step)
                 /\ offset = 0 => sent'[n].Count = ReadCount(size, sent'[n].Index)
      <3>1. CASE n = Len(sent) + 1
        BY Zenon, <3>1, <2>2, <2>3
      <3>2. CASE n # Len(sent) + 1
        <4>1. n \in 1 .. Len(sent)
          BY <3>2, <2>3
        <4> QED
          BY Zenon, <4>1, <2>3 DEF SegInv, InsideBlocks, PrefetchMatchesRead
      <3> QED
        BY Zenon, <3>1, <3>2
    <2>8. InsideBlocks'
      BY Zenon, <2>7, <2>1 DEF InsideBlocks
    <2>9. PrefetchMatchesRead'
      BY Zenon, <2>7, <2>1 DEF PrefetchMatchesRead, ReadCount
    <2> QED
      BY Zenon, <2>4, <2>5, <2>6, <2>8, <2>9 DEF SegInv
  <1>2. CASE Skip
    <2>1. /\ i' = i + step /\ sent' = sent /\ state' = "loop"
          /\ offset' = offset /\ step' = step /\ size' = size
          /\ i < size /\ Count <= 0
      BY Zenon, <1>2 DEF Skip
    <2>2. offset < i + step /\ (sent # << >> => offset < i)
      BY Zenon DEF SegInv, Progress
    <2>3. size <= offset /\ sent = << >>
      BY <2>1, <2>2, <1>0 DEF Count, absOffset
    <2>4. Aligned(i', step')
      BY Zenon, <2>1, <1>0, NextBlock DEF SegInv, Progress
    <2>5. SegTypeOK' /\ Progress'
      BY <2>1, <2>2, <2>3, <2>4, <1>0 DEF SegTypeOK, Progress
    <2> QED
      BY Zenon, <2>1, <2>3, <2>5 DEF SegInv, Tiles, InsideBlocks, PrefetchMatchesRead, ReadCount
  <1>3. CASE Close
    <2>1. /\ i' = i /\ sent' = sent /\ state' = "closed"
          /\ offset' = offset /\ step' = step /\ size' = size
          /\ i >= size
      BY Zenon, <1>3 DEF Close
    <2>2. SegTypeOK' /\ Progress'
      BY Zenon, <2>1, <1>0 DEF SegInv, SegTypeOK, Progress
    <2>3. Tiles'
      BY <2>1, <1>0 DEF SegInv, Progress, Tiles
    <2> QED
      BY Zenon, <2>1, <2>2, <2>3 DEF SegInv, InsideBlocks, PrefetchMatchesRead, ReadCount
  <1>4. CASE UNCHANGED segVars
    BY Zenon, <1>4 DEF segVars, SegInv, SegTypeOK, Progress, Tiles, InsideBlocks, PrefetchMatchesRead, ReadCount
  <1> QED
    BY Zenon, <1>1, <1>2, <1>3, <1>4 DEF SegNext, Done

(* The invariant holds throughout. *)
LEMMA SegInvHolds == SegSpec => []SegInv
  BY InitSegInv, NextSegInv, PTL DEF SegSpec

(* Segments.All tiles every range, whatever the block size. *)
THEOREM AllTilesTheRange == SegSpec => []Tiles
  <1>1. SegInv => Tiles
    BY Zenon DEF SegInv
  <1> QED
    BY SegInvHolds, <1>1, PTL

(* Segments.All never sends a segment that crosses a cache block. *)
THEOREM AllStaysInsideBlocks == SegSpec => []InsideBlocks
  <1>1. SegInv => InsideBlocks
    BY Zenon DEF SegInv
  <1> QED
    BY SegInvHolds, <1>1, PTL

(* prefetch and ReadAt agree on the length of every block of every file. *)
THEOREM PrefetchAgreesWithReadAt == SegSpec => []PrefetchMatchesRead
  <1>1. SegInv => PrefetchMatchesRead
    BY Zenon DEF SegInv
  <1> QED
    BY SegInvHolds, <1>1, PTL

-----------------------------------------------------------------------------
(***************************************************************************)
(* The metadata map.                                                       *)
(***************************************************************************)
(* The capacity of NewSyncMap is positive. *)
LEMMA CapacityPositive == Capacity \in Nat \ {0}
  BY SyncMapAssumption DEF Capacity

(* Set evicts at least one entry, whatever the percentage rounds to. *)
LEMMA EvictsAtLeastOne ==
  ASSUME NEW n \in Nat
  PROVE  NumToEvict(n) \in Nat \ {0}
  BY SyncMapAssumption DEF NumToEvict

(* The entries of a map are a finite set, counted by a natural number. *)
LEMMA EntriesFinite ==
  ASSUME NEW m
  PROVE  IsFiniteSet(Entries(m)) /\ Cardinality(Entries(m)) \in Nat
  <1>1. Entries(m) \subseteq Keys
    BY Zenon DEF Entries
  <1>2. IsFiniteSet(Entries(m))
    BY Zenon, <1>1, SyncMapAssumption, FS_Subset
  <1> QED
    BY Zenon, <1>2, FS_CardinalityType

(* The map of SyncMap keeps its type: every operation leaves values of known
   keys. *)
THEOREM MapTypeCorrect == MapSpec => []MapTypeOK
<1>1. MapInit => MapTypeOK
  BY DEF MapInit, MapTypeOK
<1>2. MapTypeOK /\ [MapNext]_mapVars => MapTypeOK'
  <2> SUFFICES ASSUME MapTypeOK, [MapNext]_mapVars
               PROVE  MapTypeOK'
    BY Zenon
  <2>1. CASE UNCHANGED mapVars
    BY Zenon, <2>1 DEF MapTypeOK, mapVars
  <2>2. ASSUME NEW k \in Keys, Get(k)
        PROVE  MapTypeOK'
    BY Zenon, <2>2 DEF MapTypeOK, Get
  <2>3. ASSUME NEW k \in Keys, Delete(k)
        PROVE  MapTypeOK'
    BY Zenon, <2>3 DEF MapTypeOK, Delete
  <2>4. ASSUME NEW k \in Keys, NEW v \in Values, Set(k, v)
        PROVE  MapTypeOK'
    <3>1. CASE Update(k, v)
      BY Zenon, <3>1 DEF MapTypeOK, Update
    <3>2. CASE Insert(k, v)
      BY Zenon, <3>2 DEF MapTypeOK, Insert
    <3>3. CASE InsertEvicting(k, v)
      <4>1. PICK E \in Victims(mapObj) :
              mapObj' = [Without(mapObj, E) EXCEPT ![k] = v]
        BY Zenon, <3>3 DEF InsertEvicting
      <4>2. Without(mapObj, E) \in [Keys -> Values \cup {None}]
        BY Zenon DEF Without, MapTypeOK
      <4>3. mapObj' \in [Keys -> Values \cup {None}]
        BY Zenon, <4>1, <4>2
      <4> QED
        BY Zenon, <3>3, <4>3 DEF MapTypeOK, InsertEvicting
    <3> QED
      BY Zenon, <2>4, <3>1, <3>2, <3>3 DEF Set
  <2> QED
    BY Zenon, <2>1, <2>2, <2>3, <2>4 DEF MapNext
<1> QED
  BY <1>1, <1>2, PTL DEF MapSpec

(* Inserting a key into a map with room for it adds one entry. *)
LEMMA InsertCounts ==
  ASSUME NEW m \in [Keys -> Values \cup {None}], NEW k \in Keys, NEW v \in Values,
         m[k] = None
  PROVE  Cardinality(Entries([m EXCEPT ![k] = v])) = Cardinality(Entries(m)) + 1
  <1>1. Entries([m EXCEPT ![k] = v]) = Entries(m) \cup {k}
    BY Zenon, SyncMapAssumption DEF Entries
  <1>2. k \notin Entries(m)
    BY Zenon DEF Entries
  <1> QED
    BY Zenon, <1>1, <1>2, EntriesFinite, FS_AddElement

(* Evicting the victims of a map takes at least one entry out of it. *)
LEMMA EvictionMakesRoom ==
  ASSUME NEW m \in [Keys -> Values \cup {None}], NEW E \in Victims(m),
         Entries(m) # {}
  PROVE  Cardinality(Entries(Without(m, E))) <= Cardinality(Entries(m)) - 1
  <1> DEFINE n == Cardinality(Entries(m))
  <1>1. n \in Nat /\ IsFiniteSet(Entries(m))
    BY Zenon, EntriesFinite
  <1>2. E \subseteq Entries(m)
    BY Zenon DEF Victims
  <1>3. E # {}
    <2>1. CASE E = Entries(m)
      BY Zenon, <2>1
    <2>2. CASE Cardinality(E) = NumToEvict(n)
      BY Zenon, <2>2, <1>1, EvictsAtLeastOne, FS_EmptySet
    <2> QED
      BY Zenon, <2>1, <2>2 DEF Victims
  <1>4. PICK e \in E : TRUE
    BY Zenon, <1>3
  <1>5. Entries(Without(m, E)) \subseteq Entries(m) \ {e}
    BY Zenon, <1>4 DEF Entries, Without
  <1>6. e \in Entries(m)
    BY Zenon, <1>2, <1>4
  <1>7. IsFiniteSet(Entries(m) \ {e}) /\ Cardinality(Entries(m) \ {e}) = n - 1
    BY Zenon, <1>1, <1>6, FS_RemoveElement
  <1>8. Cardinality(Entries(Without(m, E))) <= Cardinality(Entries(m) \ {e})
    BY Zenon, <1>5, <1>7, FS_Subset
  <1> QED
    BY Zenon, <1>7, <1>8

(* SyncMap never holds more entries than its capacity. *)
THEOREM StaysWithinCapacity == MapSpec => []WithinCapacity
<1>1. MapInit => WithinCapacity
  <2> SUFFICES ASSUME MapInit
               PROVE  WithinCapacity
    BY Zenon
  <2>1. Entries(mapObj) = {}
    BY Zenon DEF MapInit, Entries
  <2> QED
    BY <2>1, CapacityPositive, FS_EmptySet DEF WithinCapacity
<1>2. MapTypeOK /\ WithinCapacity /\ [MapNext]_mapVars => WithinCapacity'
  <2> SUFFICES ASSUME MapTypeOK, WithinCapacity, [MapNext]_mapVars
               PROVE  WithinCapacity'
    BY Zenon
  <2>a. Capacity \in Nat \ {0}
    BY Zenon, CapacityPositive
  <2>b. /\ IsFiniteSet(Entries(mapObj))
        /\ Cardinality(Entries(mapObj)) \in Nat
        /\ Cardinality(Entries(mapObj')) \in Nat
    BY Zenon, EntriesFinite
  <2>c. (Entries(mapObj))' = Entries(mapObj')
    BY Zenon DEF Entries
  <2>d. ASSUME Entries(mapObj') \subseteq Entries(mapObj)
        PROVE  WithinCapacity'
    BY <2>a, <2>b, <2>c, <2>d, FS_Subset DEF WithinCapacity, Capacity
  <2>1. CASE UNCHANGED mapVars
    BY Zenon, <2>1, <2>d DEF mapVars
  <2>2. ASSUME NEW k \in Keys, Get(k)
        PROVE  WithinCapacity'
    BY Zenon, <2>2, <2>d DEF Get
  <2>3. ASSUME NEW k \in Keys, Delete(k)
        PROVE  WithinCapacity'
    <3>1. Entries(mapObj') \subseteq Entries(mapObj)
      BY Zenon, <2>3 DEF Delete, Entries, MapTypeOK
    <3> QED
      BY Zenon, <3>1, <2>d
  <2>4. ASSUME NEW k \in Keys, NEW v \in Values, Set(k, v)
        PROVE  WithinCapacity'
    <3>1. CASE Update(k, v)
      <4>1. Entries(mapObj') \subseteq Entries(mapObj)
        BY Zenon, <3>1 DEF Update, Entries, MapTypeOK
      <4> QED
        BY Zenon, <4>1, <2>d
    <3>2. CASE Insert(k, v)
      <4>1. Cardinality(Entries(mapObj')) = Cardinality(Entries(mapObj)) + 1
        BY Zenon, <3>2, InsertCounts DEF Insert, MapTypeOK
      <4> QED
        BY <3>2, <4>1, <2>a, <2>b, <2>c DEF Insert, IsFull, WithinCapacity, Capacity
    <3>3. CASE InsertEvicting(k, v)
      <4>1. PICK E \in Victims(mapObj) :
              mapObj' = [Without(mapObj, E) EXCEPT ![k] = v]
        BY Zenon, <3>3 DEF InsertEvicting
      <4>2. Entries(mapObj) # {}
        BY <3>3, <2>a, FS_EmptySet DEF InsertEvicting, IsFull
      <4>3. Without(mapObj, E) \in [Keys -> Values \cup {None}]
            /\ Without(mapObj, E)[k] = None
        BY Zenon, <3>3 DEF Without, MapTypeOK, InsertEvicting
      <4>4. Cardinality(Entries(mapObj')) = Cardinality(Entries(Without(mapObj, E))) + 1
        BY Zenon, <4>1, <4>3, InsertCounts
      <4>5. Cardinality(Entries(Without(mapObj, E))) <= Cardinality(Entries(mapObj)) - 1
        BY Zenon, <4>2, EvictionMakesRoom DEF MapTypeOK
      <4>6. Cardinality(Entries(Without(mapObj, E))) \in Nat
        BY Zenon, EntriesFinite
      <4> QED
        BY <4>4, <4>5, <4>6, <2>a, <2>b, <2>c DEF WithinCapacity, Capacity
    <3> QED
      BY Zenon, <2>4, <3>1, <3>2, <3>3 DEF Set
  <2> QED
    BY Zenon, <2>1, <2>2, <2>3, <2>4 DEF MapNext
<1> QED
  BY <1>1, <1>2, MapTypeCorrect, PTL DEF MapSpec

(* What SyncMap holds for a key is the value of the last Set of that key, and
   nothing after a Delete. *)
THEOREM NothingStale == MapSpec => []NeverStale
<1>1. MapInit => NeverStale
  BY Zenon DEF MapInit, NeverStale
<1>2. MapTypeOK /\ NeverStale /\ [MapNext]_mapVars => NeverStale'
  <2> SUFFICES ASSUME MapTypeOK, NeverStale, [MapNext]_mapVars
               PROVE  NeverStale'
    BY Zenon
  <2>1. CASE UNCHANGED mapVars
    BY Zenon, <2>1 DEF NeverStale, mapVars
  <2>2. ASSUME NEW k \in Keys, Get(k)
        PROVE  NeverStale'
    BY Zenon, <2>2 DEF NeverStale, Get
  <2>3. ASSUME NEW k \in Keys, Delete(k)
        PROVE  NeverStale'
    BY Zenon, <2>3 DEF NeverStale, MapTypeOK, Delete
  <2>4. ASSUME NEW k \in Keys, NEW v \in Values, Set(k, v)
        PROVE  NeverStale'
    <3>1. CASE Update(k, v)
      BY Zenon, <3>1 DEF NeverStale, MapTypeOK, Update
    <3>2. CASE Insert(k, v)
      BY Zenon, <3>2 DEF NeverStale, MapTypeOK, Insert
    <3>3. CASE InsertEvicting(k, v)
      <4>1. PICK E \in Victims(mapObj) :
              mapObj' = [Without(mapObj, E) EXCEPT ![k] = v]
        BY Zenon, <3>3 DEF InsertEvicting
      <4>2. \A j \in Keys : mapObj'[j] = IF j = k THEN v ELSE Without(mapObj, E)[j]
        BY Zenon, <4>1 DEF Without
      <4>3. \A j \in Keys : Without(mapObj, E)[j] \in {mapObj[j], None}
        BY Zenon DEF Without
      <4>4. last' = [last EXCEPT ![k] = v]
        BY Zenon, <3>3 DEF InsertEvicting
      <4> QED
        BY Zenon, <4>2, <4>3, <4>4 DEF NeverStale, MapTypeOK
    <3> QED
      BY Zenon, <2>4, <3>1, <3>2, <3>3 DEF Set
  <2> QED
    BY Zenon, <2>1, <2>2, <2>3, <2>4 DEF MapNext
<1> QED
  BY <1>1, <1>2, MapTypeCorrect, PTL DEF MapSpec

(* A map that is full loses no more than NumToEvict entries to a Set. *)
LEMMA EvictionIsBounded ==
  ASSUME NEW m \in [Keys -> Values \cup {None}], NEW E \in Victims(m),
         Cardinality(Entries(m)) = Capacity, NEW L, L \subseteq E
  PROVE  Cardinality(L) <= NumToEvict(Capacity)
  <1>1. Capacity \in Nat /\ NumToEvict(Capacity) \in Nat
    BY Zenon, CapacityPositive, EvictsAtLeastOne
  <1>2. IsFiniteSet(Entries(m)) /\ E \subseteq Entries(m)
    BY Zenon, EntriesFinite DEF Victims
  <1>3. IsFiniteSet(E) /\ Cardinality(E) \in Nat
    BY Zenon, <1>2, FS_Subset, FS_CardinalityType
  <1>4. Cardinality(L) <= Cardinality(E) /\ Cardinality(L) \in Nat
    BY Zenon, <1>3, FS_Subset, FS_CardinalityType
  <1>5. Cardinality(E) <= NumToEvict(Capacity)
    BY <1>1, <1>3 DEF Victims
  <1> QED
    BY <1>1, <1>3, <1>4, <1>5

(* SyncMap loses entries only to a Delete of their key or to a Set of a new
   key that finds the map full, and then no more than NumToEvict. *)
THEOREM LosesOnlyWhenFull == MapSpec => EvictsOnlyWhenFull
<1> DEFINE Lost == Entries(mapObj) \ Entries(mapObj')
<1> DEFINE Allowed ==
      \/ Lost = {}
      \/ \E k \in Keys : Lost = {k} /\ last'[k] = None
      \/ /\ Cardinality(Entries(mapObj)) = Capacity
         /\ Cardinality(Lost) <= NumToEvict(Capacity)
         /\ \E k \in Keys : mapObj[k] = None /\ mapObj'[k] # None
<1>1. MapTypeOK /\ WithinCapacity /\ [MapNext]_mapVars => Allowed \/ UNCHANGED mapVars
  <2> SUFFICES ASSUME MapTypeOK, WithinCapacity, [MapNext]_mapVars
               PROVE  Allowed \/ UNCHANGED mapVars
    BY Zenon
  <2>2. ASSUME NEW k \in Keys, Get(k)
        PROVE  Allowed
    BY Zenon, <2>2 DEF Get
  <2>3. ASSUME NEW k \in Keys, Delete(k)
        PROVE  Allowed
    <3>1. Lost \subseteq {k}
      BY Zenon, <2>3 DEF Delete, Entries, MapTypeOK
    <3>2. last'[k] = None
      BY Zenon, <2>3 DEF Delete, MapTypeOK
    <3> QED
      BY Zenon, <3>1, <3>2
  <2>4. ASSUME NEW k \in Keys, NEW v \in Values, Set(k, v)
        PROVE  Allowed
    <3>1. CASE Update(k, v)
      BY Zenon, <3>1, SyncMapAssumption DEF Update, Entries, MapTypeOK
    <3>2. CASE Insert(k, v)
      BY Zenon, <3>2, SyncMapAssumption DEF Insert, Entries, MapTypeOK
    <3>3. CASE InsertEvicting(k, v)
      <4>1. PICK E \in Victims(mapObj) :
              mapObj' = [Without(mapObj, E) EXCEPT ![k] = v]
        BY Zenon, <3>3 DEF InsertEvicting
      <4>2. \A j \in Keys : mapObj'[j] = IF j = k THEN v ELSE Without(mapObj, E)[j]
        BY Zenon, <4>1 DEF Without
      <4>3. Lost \subseteq E
        BY Zenon, <4>2, SyncMapAssumption DEF Without, Entries
      <4>4. Cardinality(Entries(mapObj)) = Capacity
        BY <3>3, EntriesFinite, CapacityPositive
           DEF InsertEvicting, IsFull, WithinCapacity
      <4>5. Cardinality(Lost) <= NumToEvict(Capacity)
        BY Zenon, <4>3, <4>4, EvictionIsBounded DEF MapTypeOK
      <4>6. mapObj[k] = None /\ mapObj'[k] # None
        BY Zenon, <3>3, <4>2, SyncMapAssumption DEF InsertEvicting
      <4> QED
        BY Zenon, <4>4, <4>5, <4>6
    <3> QED
      BY Zenon, <2>4, <3>1, <3>2, <3>3 DEF Set
  <2> QED
    BY Zenon, <2>2, <2>3, <2>4 DEF MapNext
<1>2. MapTypeOK /\ WithinCapacity /\ [MapNext]_mapVars => [Allowed]_mapVars
  BY Zenon, <1>1
<1> QED
  BY <1>2, MapTypeCorrect, StaysWithinCapacity, PTL DEF MapSpec, EvictsOnlyWhenFull
=============================================================================
