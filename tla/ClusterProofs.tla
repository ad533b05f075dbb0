---------------------------- MODULE ClusterProofs ----------------------------
(***************************************************************************)
(* Proofs about Cluster for any number of nodes, clients, URLs and chunks. *)
(***************************************************************************)
EXTENDS Cluster, SequenceTheorems, TLAPS

Data == Urls \X Chunks
Busy == {"stat", "read", "p2p", "origin", "item"} \cup Nodes
PCs == {"idle", "start", "done"} \cup Busy

TypeInv ==
  /\ scenario \in Scenarios
  /\ cache \in [Nodes -> [Keys -> Data \cup {None}]]
  /\ pc \in [Calls -> PCs]
  /\ cur \in [Calls -> Nat]
  /\ sent \in [Calls -> Seq(Data)]
  /\ tried \in [Calls -> SUBSET Nodes]
  /\ status \in [Calls -> Nat]

(* What a request asks for is typed. *)
LEMMA WantTypes ==
  ASSUME TypeInv, NEW x \in Calls
  PROVE  /\ Want(x) \in Wants /\ Want(x).url \in Urls /\ Want(x).node \in Nodes
         /\ Want(x).last \in Chunks /\ Want(x).first \in Chunks \cup {None}
<1>1. scenario.want \in [Clients -> Wants]
  BY Zenon, ClusterAssumption DEF TypeInv
<1>2. (IF FromPeer(x) THEN x[1] ELSE x) \in Clients
  BY Zenon DEF FromPeer, Calls
<1>3. Want(x) \in Wants
  BY Zenon, <1>1, <1>2 DEF Want
<1> QED
  BY Zenon, <1>3 DEF Wants

(* So are its node, its chunks and its keys. *)
LEMMA CallTypes ==
  ASSUME TypeInv, NEW x \in Calls
  PROVE  /\ Node(x) \in Nodes /\ Final(x) \in Chunks /\ First(x) \in Chunks \cup {None}
         /\ ~KeyFails(x) => First(x) \in Chunks
         /\ \A chunk \in Chunks : FileChunkKey(x, chunk) \in Keys
<1>1. FromPeer(x) => x[2] \in Chunks /\ x[3] \in Nodes
  BY Zenon DEF FromPeer, Calls
<1>2. 0 \in Chunks /\ Chunks \subseteq Nat
  BY ClusterAssumption DEF Chunks
<1>3. Node(x) \in Nodes /\ Final(x) \in Chunks /\ First(x) \in Chunks \cup {None}
  BY Zenon, <1>1, <1>2, WantTypes DEF Node, Final, First
<1>4. ~KeyFails(x) => First(x) \in Chunks
  <2>1. CASE FromPeer(x)
    BY Zenon, <1>1, <2>1 DEF First
  <2>2. CASE ~FromPeer(x)
    BY Zenon, <1>2, <2>2, WantTypes DEF First, KeyFails, Method, Wants
  <2> QED
    BY Zenon, <2>1, <2>2
<1>5. ParseDigest(x) \in (Urls \ Opaque) \cup {None}
  BY Zenon, WantTypes DEF ParseDigest
<1> QED
  BY Zenon, <1>3, <1>4, <1>5 DEF FileChunkKey, Keys

(* The request that x sends to a peer is for the same URL, and for one chunk. *)
LEMMA AskedTypes ==
  ASSUME NEW x \in Clients, NEW p \in Nodes, NEW chunk \in Chunks
  PROVE  LET a == <<x, chunk, p>>
         IN /\ a \in Calls /\ a # x /\ a \notin Clients /\ FromPeer(a)
            /\ Want(a) = Want(x) /\ First(a) = chunk /\ ~FromPeer(x)
  BY ClusterAssumption DEF Calls, FromPeer, Want, First

-----------------------------------------------------------------------------
(***************************************************************************)
(* The invariant.  A cache has nothing under the key of a digest but the   *)
(* chunk of that key.  What a call has sent are the chunks from its first  *)
(* one on, up to the one it is at.  The calls that a client's call has     *)
(* made so far are for chunks before the one it is at, or for that chunk   *)
(* to a peer that it has tried, so none is made twice.                     *)
(***************************************************************************)
CacheInv == \A n \in Nodes, k \in Keys : k[1] # None => cache[n][k] \in {None, k}

Content(x, s) ==
  Want(x).url \notin Opaque => \A i \in 1 .. Len(s) : s[i] = <<Want(x).url, First(x) + i - 1>>

CallInv(x) ==
  /\ pc[x] \in {"idle", "start"} => sent[x] = << >>
  /\ pc[x] \in {"p2p"} \cup Nodes => x \in Clients
  /\ pc[x] \in Busy =>
       First(x) \in Chunks /\ cur[x] \in Chunks /\ cur[x] = First(x) + Len(sent[x])
  /\ pc[x] \in Busy /\ x \notin Clients => cur[x] = First(x)
  /\ status[x] = 206 => sent[x] # << >>
  /\ Content(x, sent[x])

AskedInv(x) ==
  \A chunk \in Chunks, p \in Nodes :
    pc[<<x, chunk, p>>] # "idle" =>
      /\ pc[x] \notin {"idle", "start"}
      /\ chunk < cur[x] \/ (chunk = cur[x] /\ p \in tried[x])

Inv == TypeInv /\ CacheInv /\ (\A x \in Calls : CallInv(x)) /\ (\A x \in Clients : AskedInv(x))

(* What requests ask for does not change. *)
LEMMA ScenarioFixed ==
  ASSUME [Next]_vars
  PROVE  scenario' = scenario
<1>1. ASSUME NEW y \in Live, Step(y) PROVE scenario' = scenario
  BY Zenon, <1>1 DEF Step, BadRequest, OpenRefused, Open, Fstat, FstatFails, Hit, ItemDropped, Miss, ResolveTimesOut,
              PeerAnswers, PeerFails, OriginAnswers, OriginFails, AsksPeer, Fills, FillFails
<1>2. ASSUME NEW y \in Calls, NEW chunk \in Chunks, Prefetches(y, chunk) PROVE scenario' = scenario
  BY Zenon, <1>2 DEF Prefetches
<1>3. ASSUME NEW n \in Nodes, NEW k \in Keys, Evict(n, k) PROVE scenario' = scenario
  BY Zenon, <1>3 DEF Evict
<1>4. ASSUME NEW n \in Nodes, Crash(n) PROVE scenario' = scenario
  BY Zenon, <1>4 DEF Crash
<1> QED
  BY Zenon, <1>1, <1>2, <1>3, <1>4 DEF Next, vars

LEMMA WantFixed ==
  ASSUME [Next]_vars, NEW x \in Calls
  PROVE  /\ scenario' = scenario
         /\ Want(x)' = Want(x) /\ First(x)' = First(x) /\ Final(x)' = Final(x) /\ Node(x)' = Node(x)
         /\ \A chunk : FileChunkKey(x, chunk)' = FileChunkKey(x, chunk)
         /\ \A s : Content(x, s)' = Content(x, s)
  BY Zenon, ScenarioFixed DEF Want, First, Final, Node, FileChunkKey, ParseDigest, Content

(* A call whose locals a step leaves alone keeps its invariant. *)
LEMMA CallKept ==
  ASSUME [Next]_vars, NEW x \in Calls, CallInv(x),
         pc'[x] = pc[x], cur'[x] = cur[x], sent'[x] = sent[x], status'[x] = status[x]
  PROVE  CallInv(x)'
  BY WantFixed DEF CallInv

(* A step of Next is a step of one call, or changes no locals of calls. *)
LEMMA NextCases ==
  ASSUME [Next]_vars
  PROVE  \/ \E x \in Calls : Step(x)
         \/ UNCHANGED <<pc, cur, tried, sent, status>>
  BY DEF Next, Live, Prefetches, Crash, Evict, vars

-----------------------------------------------------------------------------
(***************************************************************************)
(* Sending a chunk, and filling the cache with one.                        *)
(***************************************************************************)
Right(x, data) == data \in Data /\ (Want(x).url \notin Opaque => data = <<Want(x).url, cur[x]>>)

(* A call that sends the chunk it is at keeps its invariant. *)
LEMMA SendsKeeps ==
  ASSUME Inv, [Next]_vars, NEW x \in Calls, pc[x] \in Busy, NEW data, Right(x, data), Sends(x, data)
  PROVE  /\ CallInv(x)'
         /\ sent' \in [Calls -> Seq(Data)] /\ cur' \in [Calls -> Nat]
         /\ tried' \in [Calls -> SUBSET Nodes]
         /\ pc' \in [Calls -> PCs] /\ status' \in [Calls -> Nat]
<1>1. /\ CallInv(x) /\ sent[x] \in Seq(Data) /\ data \in Data /\ cur[x] \in Nat
      /\ First(x) \in Chunks /\ Final(x) \in Chunks /\ Chunks \subseteq Nat
  BY CallTypes DEF Inv, TypeInv, CallInv, Right, Chunks
<1>2. /\ sent' = [sent EXCEPT ![x] = Append(@, data)] /\ cur' = [cur EXCEPT ![x] = @ + 1]
      /\ tried' = [tried EXCEPT ![x] = {}]
  BY Zenon DEF Sends
<1>3. /\ pc' = [pc EXCEPT ![x] = IF cur[x] < Final(x) THEN "read" ELSE "done"]
      /\ status' = IF cur[x] < Final(x) THEN status ELSE [status EXCEPT ![x] = 206]
  BY Zenon DEF Sends, Goto, Abort
<1>4. /\ sent' \in [Calls -> Seq(Data)] /\ cur' \in [Calls -> Nat]
      /\ tried' \in [Calls -> SUBSET Nodes]
      /\ pc' \in [Calls -> PCs] /\ status' \in [Calls -> Nat]
  BY <1>1, <1>2, <1>3 DEF Inv, TypeInv, PCs, Busy
<1>5. sent'[x] = Append(sent[x], data) /\ cur'[x] = cur[x] + 1
  BY Zenon, <1>2 DEF Inv, TypeInv
<1>6. pc'[x] = (IF cur[x] < Final(x) THEN "read" ELSE "done")
  BY Zenon, <1>3 DEF Inv, TypeInv
<1>7. /\ Len(sent'[x]) = Len(sent[x]) + 1 /\ Len(sent[x]) \in Nat /\ sent'[x] # << >>
      /\ sent'[x][Len(sent[x]) + 1] = data
      /\ \A i \in 1 .. Len(sent[x]) : sent'[x][i] = sent[x][i]
  BY <1>1, <1>5
<1>8. cur[x] = First(x) + Len(sent[x]) /\ First(x) \in Nat
  BY Zenon, <1>1 DEF CallInv
<1>9. Content(x, sent'[x])
  <2> SUFFICES ASSUME Want(x).url \notin Opaque, NEW i \in 1 .. Len(sent'[x])
               PROVE  sent'[x][i] = <<Want(x).url, First(x) + i - 1>>
    BY Zenon DEF Content
  <2>1. CASE i \in 1 .. Len(sent[x])
    BY Zenon, <1>1, <1>7, <2>1 DEF CallInv, Content
  <2>2. CASE i = Len(sent[x]) + 1
    <3>1. First(x) + i - 1 = cur[x]
      BY <1>7, <1>8, <2>2
    <3> QED
      BY Zenon, <1>7, <2>2, <3>1 DEF Right
  <2> QED
    BY <1>7, <2>1, <2>2
<1>10. cur[x] < Final(x) => x \in Clients
  BY <1>1 DEF CallInv, Calls, FromPeer, First, Final
<1>11. cur[x] < Final(x) => cur'[x] \in Chunks
  BY <1>1, <1>5, ClusterAssumption DEF Chunks
<1>12. cur'[x] = First(x) + Len(sent'[x])
  BY <1>5, <1>7, <1>8
<1>13. CallInv(x)'
  BY <1>1, <1>6, <1>7, <1>9, <1>10, <1>11, <1>12, WantFixed, ClusterAssumption DEF CallInv, Busy
<1> QED
  BY Zenon, <1>4, <1>13

(* What the cache has for a call is the chunk it is at. *)
LEMMA CachedIsRight ==
  ASSUME Inv, NEW x \in Calls, NEW n \in Nodes, NEW chunk \in Chunks,
         cache[n][FileChunkKey(x, chunk)] # None
  PROVE  /\ cache[n][FileChunkKey(x, chunk)] \in Data
         /\ Want(x).url \notin Opaque => cache[n][FileChunkKey(x, chunk)] = <<Want(x).url, chunk>>
<1>1. FileChunkKey(x, chunk) \in Keys
  BY Zenon, CallTypes DEF Inv
<1>2. Want(x).url \notin Opaque =>
        FileChunkKey(x, chunk) = <<Want(x).url, chunk>> /\ Want(x).url # None
  BY Zenon, WantTypes, ClusterAssumption DEF Inv, FileChunkKey, ParseDigest
<1> QED
  BY <1>1, <1>2 DEF Inv, TypeInv, CacheInv

(* Putting the right chunk under a key keeps the caches right. *)
LEMMA FillKeepsCache ==
  ASSUME Inv, NEW x \in Calls, NEW n \in Nodes, NEW chunk \in Chunks, NEW data \in Data,
         Want(x).url \notin Opaque => data = <<Want(x).url, chunk>>,
         cache' = [cache EXCEPT ![n][FileChunkKey(x, chunk)] = data]
  PROVE  CacheInv' /\ cache' \in [Nodes -> [Keys -> Data \cup {None}]]
<1>1. FileChunkKey(x, chunk) \in Keys
  BY Zenon, CallTypes DEF Inv
<1>2. FileChunkKey(x, chunk)[1] # None => FileChunkKey(x, chunk) = data
  BY Zenon, WantTypes DEF Inv, FileChunkKey, ParseDigest
<1>3. cache' \in [Nodes -> [Keys -> Data \cup {None}]]
  BY Zenon, <1>1 DEF Inv, TypeInv
<1>4. \A m \in Nodes, k \in Keys :
        cache'[m][k] = cache[m][k] \/ (k = FileChunkKey(x, chunk) /\ cache'[m][k] = data)
  BY Zenon, <1>1 DEF Inv, TypeInv
<1> QED
  BY Zenon, <1>2, <1>3, <1>4 DEF Inv, CacheInv

-----------------------------------------------------------------------------
(***************************************************************************)
(* The steps of a call x: all but AsksPeer change no locals but those of x *)
(* and go forward.                                                         *)
(***************************************************************************)
Forward(x) ==
  /\ pc[x] # "idle" /\ pc'[x] \notin {"idle", "start"}
  /\ \/ pc[x] = "start"
     \/ cur'[x] > cur[x]
     \/ cur'[x] = cur[x] /\ tried'[x] = tried[x]

OthersKept(x) ==
  \A y \in Calls : y # x =>
    /\ pc'[y] = pc[y] /\ cur'[y] = cur[y] /\ tried'[y] = tried[y]
    /\ sent'[y] = sent[y] /\ status'[y] = status[y]

Good(x) == TypeInv' /\ CacheInv' /\ CallInv(x)' /\ OthersKept(x) /\ Forward(x)

(* A call that ends with an error, or without sending anything. *)
LEMMA AbortIsGood ==
  ASSUME Inv, [Next]_vars, NEW x \in Calls, NEW code \in Nat, code # 206, pc[x] # "idle",
         Abort(x, code), UNCHANGED <<cache, cur, tried, sent>>
  PROVE  Good(x)
<1>1. pc' = [pc EXCEPT ![x] = "done"] /\ status' = [status EXCEPT ![x] = code]
  BY Zenon DEF Abort, Goto
<1>2. TypeInv' /\ CacheInv'
  BY Zenon, <1>1, WantFixed DEF Inv, TypeInv, CacheInv, PCs
<1>3. OthersKept(x) /\ Forward(x)
  BY Zenon, <1>1 DEF Inv, TypeInv, OthersKept, Forward
<1>4. pc'[x] = "done" /\ status'[x] = code /\ sent'[x] = sent[x] /\ CallInv(x)
  BY Zenon, <1>1 DEF Inv, TypeInv
<1>5. CallInv(x)'
  BY Zenon, <1>4, WantFixed, ClusterAssumption DEF CallInv, Busy
<1> QED
  BY Zenon, <1>2, <1>3, <1>5 DEF Good

(* A call that goes on with the chunk it is at. *)
LEMMA GoesOn ==
  ASSUME Inv, [Next]_vars, NEW x \in Calls, NEW l \in Busy, pc[x] \in Busy,
         l \in {"p2p"} \cup Nodes => x \in Clients,
         Goto(x, l), UNCHANGED <<cur, tried, sent, status>>,
         CacheInv', cache' \in [Nodes -> [Keys -> Data \cup {None}]]
  PROVE  Good(x)
<1>1. pc' = [pc EXCEPT ![x] = l]
  BY Zenon DEF Goto
<1>2. TypeInv' /\ CacheInv'
  BY Zenon, <1>1, WantFixed DEF Inv, TypeInv, PCs
<1>3. OthersKept(x) /\ Forward(x)
  BY Zenon, <1>1, ClusterAssumption DEF Inv, TypeInv, OthersKept, Forward, Busy
<1>4. /\ pc'[x] = l /\ status'[x] = status[x] /\ sent'[x] = sent[x] /\ cur'[x] = cur[x]
      /\ CallInv(x)
  BY Zenon, <1>1 DEF Inv, TypeInv
<1>5. CallInv(x)'
  BY <1>4, WantFixed, ClusterAssumption DEF CallInv, Busy
<1> QED
  BY Zenon, <1>2, <1>3, <1>5 DEF Good

LEMMA MoveIsGood ==
  ASSUME Inv, [Next]_vars, NEW x \in Calls, NEW l \in Busy, pc[x] \in Busy,
         l \in {"p2p"} \cup Nodes => x \in Clients,
         Goto(x, l), UNCHANGED <<cache, cur, tried, sent, status>>
  PROVE  Good(x)
<1>1. CacheInv' /\ cache' \in [Nodes -> [Keys -> Data \cup {None}]]
  BY Zenon DEF Inv, TypeInv, CacheInv
<1> QED
  BY Zenon, <1>1, GoesOn

(* A call that sends the chunk it is at. *)
LEMMA SendIsGood ==
  ASSUME Inv, [Next]_vars, NEW x \in Calls, pc[x] \in Busy, NEW data, Right(x, data), Sends(x, data),
         UNCHANGED cache
  PROVE  Good(x)
<1>1. TypeInv' /\ CacheInv' /\ CallInv(x)'
  BY Zenon, SendsKeeps, WantFixed DEF Inv, TypeInv, CacheInv
<1>2. /\ sent' = [sent EXCEPT ![x] = Append(@, data)] /\ cur' = [cur EXCEPT ![x] = @ + 1]
      /\ tried' = [tried EXCEPT ![x] = {}]
      /\ pc' = [pc EXCEPT ![x] = IF cur[x] < Final(x) THEN "read" ELSE "done"]
      /\ status' = IF cur[x] < Final(x) THEN status ELSE [status EXCEPT ![x] = 206]
  BY Zenon DEF Sends, Goto, Abort
<1>3. OthersKept(x)
  BY Zenon, <1>2 DEF Inv, TypeInv, OthersKept
<1>4. Forward(x)
  BY <1>2, ClusterAssumption DEF Inv, TypeInv, Forward, Busy
<1> QED
  BY Zenon, <1>1, <1>3, <1>4 DEF Good

(* Open begins at the first chunk of the request. *)
LEMMA OpenIsGood ==
  ASSUME Inv, [Next]_vars, NEW x \in Calls, Open(x)
  PROVE  Good(x)
<1>1. First(x) \in Chunks /\ Chunks \subseteq Nat
  BY CallTypes DEF Inv, Open, Chunks
<1>2. /\ pc' = [pc EXCEPT ![x] = "stat"] /\ cur' = [cur EXCEPT ![x] = First(x)]
      /\ UNCHANGED <<cache, tried, sent, status>> /\ pc[x] = "start"
  BY Zenon DEF Open, Goto, nodeVars
<1>3. TypeInv' /\ CacheInv'
  BY Zenon, <1>1, <1>2, WantFixed DEF Inv, TypeInv, CacheInv, PCs, Busy
<1>4. OthersKept(x) /\ Forward(x)
  BY Zenon, <1>2 DEF Inv, TypeInv, OthersKept, Forward
<1>5. /\ pc'[x] = "stat" /\ status'[x] = status[x] /\ sent'[x] = << >> /\ cur'[x] = First(x)
      /\ CallInv(x) /\ sent[x] = << >>
  BY <1>2 DEF Inv, TypeInv, CallInv
<1>6. CallInv(x)'
  BY <1>1, <1>5, WantFixed, ClusterAssumption DEF CallInv, Busy
<1> QED
  BY Zenon, <1>3, <1>4, <1>6 DEF Good

(* Filling the item of the chunk that a call is at. *)
LEMMA FillIsGood ==
  ASSUME Inv, [Next]_vars, NEW x \in Calls, pc[x] \in Busy, NEW data, Right(x, data), Fills(x, data)
  PROVE  Good(x)
<1>1. cur[x] \in Chunks /\ Node(x) \in Nodes
  BY Zenon, CallTypes DEF Inv, CallInv
<1>2. /\ cache' = [cache EXCEPT ![Node(x)][FileChunkKey(x, cur[x])] = data] /\ Goto(x, "item")
      /\ UNCHANGED <<cur, tried, sent, status>>
  BY Zenon DEF Fills, Here
<1>3. CacheInv' /\ cache' \in [Nodes -> [Keys -> Data \cup {None}]]
  BY Zenon, <1>1, <1>2, FillKeepsCache DEF Right
<1>4. "item" \in Busy /\ "item" \notin {"p2p"} \cup Nodes
  BY ClusterAssumption DEF Busy
<1> QED
  BY Zenon, <1>2, <1>3, <1>4, GoesOn

(* What a peer answers is the chunk that it was asked for. *)
LEMMA AnswerIsRight ==
  ASSUME Inv, NEW x \in Calls, PeerAnswers(x)
  PROVE  Right(x, sent[Asked(x, pc[x])][1])
<1>1. x \in Clients /\ pc[x] \in Nodes /\ cur[x] \in Chunks /\ Chunks \subseteq Nat
  BY DEF PeerAnswers, Inv, CallInv, Busy, Chunks
<1> DEFINE a == Asked(x, pc[x])
<1>2. /\ a \in Calls /\ Want(a) = Want(x) /\ First(a) = cur[x]
  BY Zenon, <1>1, AskedTypes DEF Asked
<1>3. status[a] = 206 /\ CallInv(a) /\ sent[a] \in Seq(Data)
  BY <1>2 DEF PeerAnswers, Inv, TypeInv
<1>4. sent[a] # << >> /\ Content(a, sent[a])
  BY Zenon, <1>3 DEF CallInv
<1> HIDE DEF a
<1>5. 1 \in 1 .. Len(sent[a]) /\ sent[a][1] \in Data
  <2> SUFFICES ASSUME NEW s \in Seq(Data), s # << >> PROVE 1 \in 1 .. Len(s) /\ s[1] \in Data
    BY Zenon, <1>3, <1>4
  <2>1. Len(s) \in Nat /\ Len(s) # 0
    BY Zenon, EmptySeq
  <2>2. 1 \in 1 .. Len(s)
    BY <2>1
  <2> QED
    BY Zenon, <2>2, ElementOfSeq
<1>6. Want(a).url \notin Opaque => sent[a][1] = <<Want(a).url, First(a) + 1 - 1>>
  BY Zenon, <1>4, <1>5 DEF Content
<1>7. First(a) + 1 - 1 = cur[x]
  <2>1. \A m \in Nat : m + 1 - 1 = m
    OBVIOUS
  <2> QED
    BY Zenon, <1>1, <1>2, <2>1, Zenon
<1>8. Right(x, sent[a][1])
  BY Zenon, <1>2, <1>5, <1>6, <1>7 DEF Right
<1> QED
  BY Zenon, <1>8 DEF a

(* Every step of a call but AsksPeer. *)
LEMMA StepIsGood ==
  ASSUME Inv, [Next]_vars, NEW x \in Calls, Step(x), ~\E p \in Nodes : AsksPeer(x, p)
  PROVE  Good(x)
<1>1. CASE BadRequest(x)
  BY <1>1, AbortIsGood DEF BadRequest, nodeVars
<1>2. CASE OpenRefused(x)
  BY <1>2, AbortIsGood DEF OpenRefused, nodeVars
<1>3. CASE Open(x)
  BY Zenon, <1>3, OpenIsGood
<1>4. CASE Fstat(x)
  <2>1. CASE Method(x) = "GET"
    BY Zenon, <1>4, <2>1, MoveIsGood, ClusterAssumption DEF Fstat, nodeVars, Busy
  <2>2. CASE Method(x) # "GET"
    BY <1>4, <2>2, AbortIsGood DEF Fstat, nodeVars
  <2> QED
    BY Zenon, <2>1, <2>2
<1>5. CASE FstatFails(x)
  BY <1>5, AbortIsGood DEF FstatFails, nodeVars
<1>6. CASE Hit(x)
  <2>1. pc[x] \in Busy /\ cur[x] \in Chunks /\ Node(x) \in Nodes
    BY Zenon, <1>6, CallTypes DEF Hit, Inv, CallInv, Busy
  <2>2. Right(x, cache[Node(x)][Here(x)])
    BY Zenon, <1>6, <2>1, CachedIsRight DEF Hit, Exists, Here, Right
  <2> QED
    BY Zenon, <1>6, <2>1, <2>2, SendIsGood DEF Hit, nodeVars
<1>7. CASE Miss(x)
  <2>1. CASE FromPeer(x)
    BY Zenon, <1>7, <2>1, MoveIsGood, ClusterAssumption DEF Miss, Busy
  <2>2. CASE ~FromPeer(x)
    BY Zenon, <1>7, <2>2, MoveIsGood DEF Miss, Busy, FromPeer
  <2> QED
    BY Zenon, <2>1, <2>2
<1>8. CASE ResolveTimesOut(x)
  BY Zenon, <1>8, MoveIsGood, ClusterAssumption DEF ResolveTimesOut, nodeVars, Busy
<1>9. CASE PeerAnswers(x)
  BY <1>9, AnswerIsRight, FillIsGood DEF PeerAnswers, Busy
<1>10. CASE PeerFails(x)
  <2>1. x \in Clients
    BY Zenon, <1>10 DEF PeerFails, Inv, CallInv
  <2> QED
    BY Zenon, <1>10, <2>1, MoveIsGood DEF PeerFails, nodeVars, Busy
<1>11. CASE OriginAnswers(x)
  <2>1. pc[x] \in Busy /\ cur[x] \in Chunks /\ Want(x).url \in Urls
    BY Zenon, <1>11, WantTypes DEF OriginAnswers, Inv, CallInv, Busy
  <2>2. Right(x, <<Want(x).url, cur[x]>>)
    BY Zenon, <2>1 DEF Right, Data
  <2> QED
    BY Zenon, <1>11, <2>1, <2>2, FillIsGood DEF OriginAnswers
<1>12. CASE OriginFails(x)
  BY <1>12, AbortIsGood DEF OriginFails, FillFails
<1>13. CASE ItemDropped(x)
  BY <1>13, AbortIsGood DEF ItemDropped, nodeVars
<1> QED
  BY Zenon, <1>1, <1>2, <1>3, <1>4, <1>5, <1>6, <1>7, <1>8, <1>9, <1>10, <1>11, <1>12, <1>13 DEF Step

(* Such a step keeps the invariant. *)
LEMMA GoodKeeps ==
  ASSUME Inv, [Next]_vars, NEW x \in Calls, Good(x)
  PROVE  Inv'
<1>1. TypeInv' /\ CacheInv'
  BY Zenon DEF Good
<1>2. ASSUME NEW y \in Calls PROVE CallInv(y)'
  <2>1. CASE y = x
    BY Zenon, <2>1 DEF Good
  <2>2. CASE y # x
    <3>1. CallInv(y) /\ pc'[y] = pc[y] /\ cur'[y] = cur[y] /\ sent'[y] = sent[y] /\ status'[y] = status[y]
      BY Zenon, <1>2, <2>2 DEF Good, OthersKept, Inv
    <3> QED
      BY Zenon, <1>2, <3>1, CallKept
  <2> QED
    BY Zenon, <2>1, <2>2
<1>3. ASSUME NEW c \in Clients PROVE AskedInv(c)'
  <2> SUFFICES ASSUME NEW chunk \in Chunks, NEW p \in Nodes, pc'[<<c, chunk, p>>] # "idle"
               PROVE  /\ pc'[c] \notin {"idle", "start"}
                      /\ chunk < cur'[c] \/ (chunk = cur'[c] /\ p \in tried'[c])
    BY Zenon DEF AskedInv, Chunks
  <2>1. c \in Calls /\ <<c, chunk, p>> \in Calls /\ chunk \in Nat
    BY DEF Calls, Chunks
  <2>2. pc[<<c, chunk, p>>] # "idle"
    BY Zenon, <2>1 DEF Good, OthersKept, Forward
  <2>3. /\ pc[c] \notin {"idle", "start"}
        /\ chunk < cur[c] \/ (chunk = cur[c] /\ p \in tried[c])
    BY Zenon, <2>2 DEF Inv, AskedInv
  <2>4. CASE c # x
    BY Zenon, <2>1, <2>3, <2>4 DEF Good, OthersKept
  <2>5. CASE c = x
    <3>1. cur[c] \in Nat /\ cur'[c] \in Nat
      BY Zenon, <2>1 DEF Inv, TypeInv, Good
    <3>2. /\ pc'[c] \notin {"idle", "start"}
          /\ cur'[c] > cur[c] \/ (cur'[c] = cur[c] /\ tried'[c] = tried[c])
      BY Zenon, <2>3, <2>5 DEF Good, Forward
    <3> QED
      BY <2>1, <2>3, <3>1, <3>2
  <2> QED
    BY Zenon, <2>4, <2>5
<1> QED
  BY Zenon, <1>1, <1>2, <1>3 DEF Inv

(* Asking a peer starts a call that was idle. *)
LEMMA AskKeeps ==
  ASSUME Inv, [Next]_vars, NEW x \in Calls, NEW p \in Nodes, AsksPeer(x, p)
  PROVE  Inv'
<1> DEFINE a == Asked(x, p)
<1>1. /\ x \in Clients /\ cur[x] \in Chunks /\ pc[x] = "p2p" /\ p \notin tried[x]
  BY Zenon DEF AsksPeer, Inv, CallInv, Busy
<1>2. /\ a \in Calls /\ a # x /\ a \notin Clients /\ a = <<x, cur[x], p>>
  BY Zenon, <1>1, AskedTypes DEF Asked
<1>3. pc[a] = "idle"
  <2>1. cur[x] \in Nat
    BY Zenon DEF Inv, TypeInv
  <2>2. AskedInv(x)
    BY Zenon, <1>1 DEF Inv
  <2> QED
    BY <1>1, <1>2, <2>1, <2>2 DEF AskedInv
<1>4. /\ tried' = [tried EXCEPT ![x] = @ \cup {p}]
      /\ pc' = [pc EXCEPT ![x] = p, ![a] = "start"]
      /\ UNCHANGED <<cache, cur, sent, status>>
  BY Zenon DEF AsksPeer, nodeVars
<1> HIDE DEF a
<1>5. /\ pc'[x] = p /\ pc'[a] = "start"
      /\ \A y \in Calls : y \notin {x, a} => pc'[y] = pc[y]
      /\ \A y \in Calls : y # x => tried'[y] = tried[y]
      /\ tried'[x] = tried[x] \cup {p}
  BY Zenon, <1>2, <1>4 DEF Inv, TypeInv
<1>6. TypeInv' /\ CacheInv'
  BY Zenon, <1>2, <1>4, WantFixed DEF Inv, TypeInv, CacheInv, PCs, Busy
<1>7. ASSUME NEW y \in Calls PROVE CallInv(y)'
  <2>1. CallInv(y)
    BY Zenon, <1>7 DEF Inv
  <2>2. CASE y = x
    BY <1>1, <1>4, <1>5, <2>1, <2>2, WantFixed, ClusterAssumption DEF CallInv, Busy
  <2>3. CASE y = a
    BY <1>3, <1>4, <1>5, <2>1, <2>3, WantFixed, ClusterAssumption DEF CallInv, Busy
  <2>4. CASE y \notin {x, a}
    BY Zenon, <1>4, <1>5, <1>7, <2>1, <2>4, CallKept
  <2> QED
    BY Zenon, <2>2, <2>3, <2>4
<1>8. ASSUME NEW c \in Clients PROVE AskedInv(c)'
  <2> SUFFICES ASSUME NEW chunk \in Chunks, NEW q \in Nodes, pc'[<<c, chunk, q>>] # "idle"
               PROVE  /\ pc'[c] \notin {"idle", "start"}
                      /\ chunk < cur'[c] \/ (chunk = cur'[c] /\ q \in tried'[c])
    BY Zenon DEF AskedInv, Chunks
  <2>1. c \in Calls /\ <<c, chunk, q>> \in Calls /\ <<c, chunk, q>> \notin Clients
    BY ClusterAssumption DEF Calls
  <2>2. c # a /\ <<c, chunk, q>> # x
    BY Zenon, <1>1, <1>2, <2>1
  <2>3. CASE <<c, chunk, q>> = a
    BY <1>2, <1>4, <1>5, <2>3, ClusterAssumption
  <2>4. CASE <<c, chunk, q>> # a
    <3>1. /\ pc[c] \notin {"idle", "start"}
          /\ chunk < cur[c] \/ (chunk = cur[c] /\ q \in tried[c])
      BY Zenon, <1>5, <2>1, <2>2, <2>4 DEF Inv, AskedInv
    <3>2. pc'[c] \notin {"idle", "start"} /\ tried[c] \subseteq tried'[c]
      BY Zenon, <1>5, <2>1, <2>2, <3>1, ClusterAssumption
    <3> QED
      BY Zenon, <1>4, <3>1, <3>2
  <2> QED
    BY Zenon, <2>3, <2>4
<1> QED
  BY Zenon, <1>6, <1>7, <1>8 DEF Inv

(* What a worker prefetches is the chunk of the key. *)
LEMMA PrefetchKeeps ==
  ASSUME Inv, NEW x \in Calls, NEW chunk \in Chunks, Prefetches(x, chunk)
  PROVE  CacheInv' /\ cache' \in [Nodes -> [Keys -> Data \cup {None}]]
<1> DEFINE n == Node(x)
           k == FileChunkKey(x, chunk)
           peers == {p \in Nodes \ {n} : Provides(p, x) /\ cache[p][k] # None /\ ~FromPeer(x)}
           data == {<<Want(x).url, chunk>>} \cup {cache[p][k] : p \in peers}
<1>1. PICK d \in IF cache[n][k] = None THEN data ELSE {cache[n][k]} :
             cache' = [cache EXCEPT ![n][k] = d]
  BY Zenon DEF Prefetches
<1>2. n \in Nodes /\ Want(x).url \in Urls
  BY Zenon, CallTypes, WantTypes DEF Inv
<1>3. d \in Data /\ (Want(x).url \notin Opaque => d = <<Want(x).url, chunk>>)
  <2>1. CASE d = <<Want(x).url, chunk>>
    BY Zenon, <1>2, <2>1 DEF Data
  <2>2. ASSUME NEW p \in Nodes, d = cache[p][k], cache[p][k] # None
        PROVE  d \in Data /\ (Want(x).url \notin Opaque => d = <<Want(x).url, chunk>>)
    BY Zenon, <2>2, CachedIsRight
  <2>3. d = <<Want(x).url, chunk>> \/ \E p \in Nodes : d = cache[p][k] /\ cache[p][k] # None
    BY Zenon, <1>1, <1>2
  <2> QED
    BY Zenon, <2>1, <2>2, <2>3
<1> QED
  BY Zenon, <1>1, <1>2, <1>3, FillKeepsCache

-----------------------------------------------------------------------------
LEMMA InitInv == Init => Inv
<1> SUFFICES ASSUME Init PROVE Inv
  BY Zenon
<1>1. /\ scenario \in Scenarios
      /\ cache = [n \in Nodes |-> [k \in Keys |-> None]]
      /\ pc = [x \in Calls |-> IF FromPeer(x) THEN "idle" ELSE "start"]
      /\ cur = [x \in Calls |-> 0] /\ tried = [x \in Calls |-> {}]
      /\ sent = [x \in Calls |-> << >>] /\ status = [x \in Calls |-> 0]
  BY Zenon DEF Init
<1>2. << >> \in Seq(Data)
  OBVIOUS
<1>3. TypeInv
  BY Zenon, <1>1, <1>2 DEF TypeInv, PCs
<1>4. CacheInv
  BY Zenon, <1>1 DEF CacheInv
<1>5. ASSUME NEW x \in Calls PROVE CallInv(x)
  <2>1. pc[x] \in {"idle", "start"} /\ sent[x] = << >> /\ status[x] = 0
    BY Zenon, <1>1
  <2>2. pc[x] \notin Busy
    BY Zenon, <2>1, ClusterAssumption DEF Busy
  <2>3. Content(x, << >>)
    BY DEF Content
  <2> QED
    BY <2>1, <2>2, <2>3 DEF CallInv, Busy
<1>6. ASSUME NEW c \in Clients PROVE AskedInv(c)
  BY Zenon, <1>1, AskedTypes DEF AskedInv
<1> QED
  BY Zenon, <1>3, <1>4, <1>5, <1>6 DEF Inv

LEMMA NextInv == Inv /\ [Next]_vars => Inv'
<1> SUFFICES ASSUME Inv, [Next]_vars PROVE Inv'
  BY Zenon
<1>1. ASSUME NEW x \in Calls, Step(x) PROVE Inv'
  <2>1. CASE \E p \in Nodes : AsksPeer(x, p)
    BY Zenon, <2>1, AskKeeps
  <2>2. CASE ~\E p \in Nodes : AsksPeer(x, p)
    BY Zenon, <1>1, <2>2, StepIsGood, GoodKeeps
  <2> QED
    BY Zenon, <2>1, <2>2
<1>2. ASSUME UNCHANGED <<pc, cur, tried, sent, status>>, CacheInv',
             cache' \in [Nodes -> [Keys -> Data \cup {None}]]
      PROVE  Inv'
  <2>1. \A x \in Calls : CallInv(x)'
    BY Zenon, <1>2, CallKept DEF Inv
  <2>2. \A c \in Clients : AskedInv(c)'
    BY Zenon, <1>2 DEF Inv, AskedInv, Chunks
  <2>3. TypeInv'
    BY Zenon, <1>2, ScenarioFixed DEF Inv, TypeInv
  <2> QED
    BY Zenon, <1>2, <2>1, <2>2, <2>3 DEF Inv
<1>3. ASSUME NEW x \in Calls, NEW chunk \in Chunks, Prefetches(x, chunk) PROVE Inv'
  <2>1. UNCHANGED <<pc, cur, tried, sent, status>>
    BY Zenon, <1>3 DEF Prefetches
  <2>2. CacheInv' /\ cache' \in [Nodes -> [Keys -> Data \cup {None}]]
    BY Zenon, <1>3, PrefetchKeeps
  <2> QED
    BY Zenon, <1>2, <2>1, <2>2
<1>4. ASSUME NEW n \in Nodes, NEW k \in Keys, Evict(n, k) PROVE Inv'
  <2>1. /\ cache' = [cache EXCEPT ![n][k] = None]
        /\ UNCHANGED <<pc, cur, tried, sent, status>>
    BY Zenon, <1>4 DEF Evict
  <2>2. CacheInv' /\ cache' \in [Nodes -> [Keys -> Data \cup {None}]]
    BY Zenon, <2>1 DEF Inv, TypeInv, CacheInv
  <2> QED
    BY Zenon, <1>2, <2>1, <2>2
<1>5. ASSUME NEW n \in Nodes, Crash(n) PROVE Inv'
  BY Zenon, <1>2, <1>5 DEF Crash, Inv, TypeInv, CacheInv
<1>6. CASE UNCHANGED vars
  BY Zenon, <1>2, <1>6 DEF vars, nodeVars, Inv, TypeInv, CacheInv
<1> QED
  BY Zenon, <1>1, <1>3, <1>4, <1>5, <1>6 DEF Next, Live

(* The caches of all nodes have under the key of a digest that digest's chunk
   or nothing, and every request has sent the chunks from its first one on. *)
THEOREM CachesAreRight == Spec => []Inv
  BY InitInv, NextInv, PTL DEF Spec

(* What FilesHandler.Handle sends, to a client or a peer, is what was asked
   for, whichever way the chunks went and whatever was evicted or crashed. *)
THEOREM OnlyContentServed == Spec => []ServedIsContent
<1>1. Inv => ServedIsContent
  BY Zenon DEF Inv, CallInv, Content, ServedIsContent
<1> QED
  BY <1>1, CachesAreRight, PTL

-----------------------------------------------------------------------------
(***************************************************************************)
(* What a peer asks for is in the cache from Open until it is evicted.     *)
(***************************************************************************)
Present(x) ==
  FromPeer(x) =>
    /\ pc[x] \in {"stat", "read"} /\ x \notin missed => cache[Node(x)][Here(x)] # None
    /\ pc[x] \in {"origin", "item"} => x \in missed

PresentInv == Inv /\ \A x \in Calls : Present(x)

CacheGrows ==
  missed' = missed /\ \A n \in Nodes, k \in Keys : cache[n][k] # None => cache'[n][k] # None

(* A fetch that ends puts a chunk into the cache and takes none out. *)
LEMMA FillGrows ==
  ASSUME Inv, NEW x \in Calls, pc[x] \in Busy, NEW data \in Data, Fills(x, data)
  PROVE  CacheGrows
<1>1. Node(x) \in Nodes /\ Here(x) \in Keys
  BY Zenon, CallTypes DEF Inv, CallInv, Here
<1>2. cache' = [cache EXCEPT ![Node(x)][Here(x)] = data] /\ missed' = missed
  BY Zenon DEF Fills
<1>3. data # None
  BY Zenon, ClusterAssumption DEF Data
<1> QED
  BY Zenon, <1>1, <1>2, <1>3 DEF CacheGrows, Inv, TypeInv

LEMMA StepGrows ==
  ASSUME Inv, NEW x \in Calls, Step(x)
  PROVE  CacheGrows
<1>1. CASE PeerAnswers(x)
  BY <1>1, AnswerIsRight, FillGrows DEF PeerAnswers, Busy, Right
<1>2. CASE OriginAnswers(x)
  <2>1. pc[x] \in Busy /\ <<Want(x).url, cur[x]>> \in Data
    BY Zenon, <1>2, WantTypes DEF OriginAnswers, Inv, CallInv, Busy, Data
  <2> QED
    BY Zenon, <1>2, <2>1, FillGrows DEF OriginAnswers
<1>3. CASE UNCHANGED <<cache, missed>>
  BY Zenon, <1>3 DEF CacheGrows
<1> QED
  BY Zenon, <1>1, <1>2, <1>3 DEF Step, BadRequest, OpenRefused, Open, Fstat, FstatFails, Hit, ItemDropped, Miss, nodeVars,
                          ResolveTimesOut, PeerFails, OriginFails, AsksPeer, FillFails

LEMMA PrefetchGrows ==
  ASSUME Inv, NEW x \in Calls, NEW chunk \in Chunks, Prefetches(x, chunk)
  PROVE  CacheGrows
<1> DEFINE n == Node(x)
           k == FileChunkKey(x, chunk)
           peers == {p \in Nodes \ {n} : Provides(p, x) /\ cache[p][k] # None /\ ~FromPeer(x)}
           data == {<<Want(x).url, chunk>>} \cup {cache[p][k] : p \in peers}
<1>1. PICK d \in IF cache[n][k] = None THEN data ELSE {cache[n][k]} :
             cache' = [cache EXCEPT ![n][k] = d]
  BY Zenon DEF Prefetches
<1>2. n \in Nodes /\ k \in Keys /\ Want(x).url \in Urls /\ missed' = missed
  BY CallTypes, WantTypes DEF Inv, Prefetches
<1>3. d # None
  <2>1. <<Want(x).url, chunk>> # None
    BY <1>2, ClusterAssumption
  <2> QED
    BY Zenon, <1>1, <2>1
<1> HIDE DEF n, k
<1> QED
  BY Zenon, <1>1, <1>2, <1>3 DEF CacheGrows, Inv, TypeInv

(* The steps of a request from a peer. *)
LEMMA PeerStep ==
  ASSUME Inv, Inv', [Next]_vars, NEW x \in Calls, FromPeer(x), Present(x), Step(x)
  PROVE  Present(x)'
<1>1. /\ pc \in [Calls -> PCs] /\ cur \in [Calls -> Nat] /\ x \notin Clients /\ CallInv(x)
      /\ Node(x)' = Node(x) /\ FromPeer(x)' = FromPeer(x)
      /\ \A chunk : FileChunkKey(x, chunk)' = FileChunkKey(x, chunk)
  BY Zenon, WantFixed DEF Inv, TypeInv, FromPeer
<1>2. CASE pc'[x] = "done"
  BY Zenon, <1>2 DEF Present
<1>3. CASE Open(x)
  <2>1. pc'[x] = "stat" /\ cur'[x] = First(x) /\ cache' = cache
    BY Zenon, <1>1, <1>3 DEF Open, Goto, nodeVars
  <2>2. cache[Node(x)][FileChunkKey(x, First(x))] # None
    BY Zenon, <1>3 DEF Open, Refuses, Exists
  <2>3. Here(x)' = FileChunkKey(x, First(x))
    BY Zenon, <1>1, <2>1 DEF Here
  <2> QED
    BY Zenon, <1>1, <2>1, <2>2, <2>3 DEF Present
<1>4. CASE Fstat(x)
  <2>1. /\ Method(x) = "GET" /\ pc[x] = "stat"
        /\ pc'[x] = "read" /\ cur' = cur /\ cache' = cache /\ missed' = missed
    BY Zenon, <1>1, <1>4 DEF Fstat, Goto, nodeVars, Method
  <2>2. Here(x)' = Here(x)
    BY Zenon, <1>1, <2>1 DEF Here
  <2> QED
    BY Zenon, <1>1, <2>1, <2>2 DEF Present
<1>5. CASE Miss(x)
  <2>1. pc[x] = "read" /\ pc'[x] = "origin" /\ missed' = missed
    BY Zenon, <1>1, <1>5 DEF Miss, Goto
  <2>2. cache[Node(x)][Here(x)] = None
    BY Zenon, <1>5 DEF Miss, Exists, Here
  <2> QED
    BY Zenon, <1>1, <2>1, <2>2 DEF Present
<1>6. ASSUME NEW data, Sends(x, data), pc[x] \in Busy PROVE pc'[x] = "done"
  <2>1. cur[x] = Final(x) /\ cur[x] \in Nat
    BY Zenon, <1>1, <1>6 DEF CallInv, First, Final, FromPeer
  <2>2. ~(cur[x] < Final(x))
    BY <2>1
  <2> QED
    BY Zenon, <1>1, <1>6, <2>2 DEF Sends, Abort, Goto
<1>7. CASE Hit(x)
  BY Zenon, <1>2, <1>6, <1>7 DEF Hit, Busy
<1>8. CASE OriginAnswers(x)
  <2>1. pc[x] = "origin" /\ pc'[x] = "item" /\ missed' = missed
    BY Zenon, <1>1, <1>8 DEF OriginAnswers, Fills, Goto
  <2> QED
    BY Zenon, <1>1, <2>1 DEF Present
<1>9. ASSUME NEW code, Abort(x, code) PROVE pc'[x] = "done"
  BY Zenon, <1>1, <1>9 DEF Abort, Goto
<1>10. pc[x] \notin {"p2p"} \cup Nodes
  BY Zenon, <1>1 DEF CallInv
<1> QED
  BY Zenon, <1>2, <1>3, <1>4, <1>5, <1>7, <1>8, <1>9, <1>10
     DEF Step, BadRequest, OpenRefused, FstatFails, ItemDropped, OriginFails, FillFails,
         ResolveTimesOut, PeerAnswers, PeerFails, AsksPeer

(* A request from a peer whose locals a step leaves alone, and whose chunk it
   does not take out of the cache. *)
LEMMA PresentKept ==
  ASSUME Inv, [Next]_vars, NEW x \in Calls, Present(x), missed \subseteq missed',
         pc'[x] = pc[x], cur'[x] = cur[x],
         x \notin missed' /\ cache[Node(x)][Here(x)] # None => cache'[Node(x)][Here(x)] # None
  PROVE  Present(x)'
<1>1. Node(x)' = Node(x) /\ FromPeer(x)' = FromPeer(x) /\ Here(x)' = Here(x)
  BY Zenon, WantFixed DEF FromPeer, Here
<1> QED
  BY Zenon, <1>1 DEF Present

LEMMA GrowsKeeps ==
  ASSUME Inv, [Next]_vars, NEW x \in Calls, Present(x), CacheGrows, pc'[x] = pc[x], cur'[x] = cur[x]
  PROVE  Present(x)'
<1>1. CASE pc[x] \in Busy
  <2>1. Node(x) \in Nodes /\ Here(x) \in Keys
    BY Zenon, <1>1, CallTypes DEF Inv, CallInv, Here
  <2> QED
    BY Zenon, <2>1, PresentKept DEF CacheGrows
<1>2. CASE pc[x] \notin Busy
  BY Zenon, <1>2 DEF Present, Busy
<1> QED
  BY Zenon, <1>1, <1>2

LEMMA NextPresent == PresentInv /\ [Next]_vars => PresentInv'
<1> SUFFICES ASSUME Inv, \A x \in Calls : Present(x), [Next]_vars, Inv', NEW x \in Calls
             PROVE  Present(x)'
  BY Zenon, NextInv DEF PresentInv
<1>1. ASSUME NEW y \in Calls, Step(y) PROVE Present(x)'
  <2>1. CacheGrows
    BY Zenon, <1>1, StepGrows
  <2>2. CASE y = x /\ FromPeer(x)
    BY Zenon, <1>1, <2>2, PeerStep
  <2>3. CASE ~FromPeer(x)
    BY Zenon, <2>3 DEF Present, FromPeer
  <2>4. CASE y # x /\ \E p \in Nodes : AsksPeer(y, p)
    <3>1. PICK p \in Nodes : AsksPeer(y, p)
      BY Zenon, <2>4
    <3>2. /\ pc' = [pc EXCEPT ![y] = p, ![Asked(y, p)] = "start"] /\ cur' = cur
          /\ pc \in [Calls -> PCs]
      BY Zenon, <3>1 DEF AsksPeer, Inv, TypeInv
    <3>3. pc'[x] = "start" \/ pc'[x] = pc[x]
      BY Zenon, <2>4, <3>2
    <3>4. CASE pc'[x] = "start"
      BY Zenon, <3>4 DEF Present
    <3> QED
      BY Zenon, <2>1, <3>2, <3>3, <3>4, GrowsKeeps
  <2>5. CASE y # x /\ ~\E p \in Nodes : AsksPeer(y, p)
    <3>1. pc'[x] = pc[x] /\ cur'[x] = cur[x]
      BY Zenon, <1>1, <2>5, StepIsGood DEF Good, OthersKept
    <3> QED
      BY Zenon, <2>1, <3>1, GrowsKeeps
  <2> QED
    BY Zenon, <2>2, <2>3, <2>4, <2>5
<1>2. ASSUME NEW y \in Calls, NEW chunk \in Chunks, Prefetches(y, chunk) PROVE Present(x)'
  <2>1. CacheGrows
    BY Zenon, <1>2, PrefetchGrows
  <2> QED
    BY Zenon, <1>2, <2>1, GrowsKeeps DEF Prefetches
<1>3. ASSUME NEW n \in Nodes, NEW k \in Keys, Evict(n, k) PROVE Present(x)'
  <2>1. /\ cache' = [cache EXCEPT ![n][k] = None] /\ pc' = pc /\ cur' = cur
        /\ missed' = missed \cup {y \in Reading(n, k) : FromPeer(y)}
    BY Zenon, <1>3 DEF Evict
  <2>2. CASE FromPeer(x) /\ pc[x] \in {"stat", "read"}
    <3>1. x \notin missed' => cache'[Node(x)][Here(x)] = cache[Node(x)][Here(x)]
      <4>1. Node(x) \in Nodes /\ Here(x) \in Keys
        BY Zenon, <2>2, CallTypes DEF Inv, CallInv, Here, Busy
      <4>2. x \notin missed' => Node(x) # n \/ Here(x) # k
        BY Zenon, <2>1, <2>2 DEF Reading
      <4>3. cache \in [Nodes -> [Keys -> Data \cup {None}]] /\ cache' = [cache EXCEPT ![n][k] = None]
        BY Zenon, <2>1 DEF Inv, TypeInv
      <4> QED
        BY Zenon, <4>1, <4>2, <4>3, SMTT(30)
    <3> QED
      BY Zenon, <2>1, <3>1, PresentKept
  <2>3. CASE ~(FromPeer(x) /\ pc[x] \in {"stat", "read"})
    BY Zenon, <2>1, <2>3 DEF Present, FromPeer
  <2> QED
    BY Zenon, <2>2, <2>3
<1>4. CASE UNCHANGED <<pc, cur, cache, missed>>
  BY Zenon, <1>4, PresentKept
<1> QED
  BY Zenon, <1>1, <1>2, <1>3, <1>4 DEF Next, Live, Crash, vars, nodeVars

(* What a peer asks for stays in the cache from the check in FilesStore.Open to
   the read, unless it is evicted. *)
THEOREM PeerChunksStay == Spec => []PresentInv
<1>1. Init => PresentInv
  BY Zenon, InitInv DEF Init, PresentInv, Present
<1> QED
  BY <1>1, NextPresent, PTL DEF Spec

(* FilesStore.Open's promise to peers: what the handler sends to a peer is in
   the cache when Open looks and is read from there.  Only after an eviction in
   between does the handler go to the origin, and it never asks a third node. *)
THEOREM PeersGetCachedChunks == Spec => []PeerAnsweredFromCache
<1>1. PresentInv => PeerAnsweredFromCache
  BY Zenon, ClusterAssumption DEF PresentInv, Inv, Present, CallInv, FromPeer, PeerAnsweredFromCache
<1> QED
  BY <1>1, PeerChunksStay, PTL
=============================================================================
