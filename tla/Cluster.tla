------------------------------- MODULE Cluster -------------------------------
(***************************************************************************)
(* Several nodes and the requests between them: FilesHandler.Handle with   *)
(* store.Key and Open, file.ReadAt, the item lock that GetOrCreate holds   *)
(* over a fetch, and the fetch itself, from a peer or from the origin.     *)
(*                                                                         *)
(* A request of a client sends a request to a peer for one chunk at a      *)
(* time; that one is named by the client's request, the chunk and the      *)
(* peer.  The chunk cache of a node is taken at what ChunkCache says, with *)
(* evictions; the byte ranges within chunks are in File, the lookup of     *)
(* peers in Reader, the prefetch workers in FilesStore: here a worker gets *)
(* a chunk in one step.  The origin and the DHT are external.              *)
(***************************************************************************)
EXTENDS Integers, Sequences

CONSTANTS
  Nodes, Clients, None,
  Urls,       \* URLs of blobs; every one has a content of its own
  Opaque,     \* the URLs in which ParseDigest finds no digest
  FileSize,   \* chunks of a blob
  Scenarios   \* what clients ask for, and what may go wrong

Chunks == 0 .. FileSize - 1
(* "origin": requests to the origin may fail.  "crash": a node may stop.
   "evict": chunks may be evicted. *)
Faults == {"origin", "crash", "evict"}
Wants == [node : Nodes, url : Urls, method : {"GET", "HEAD"},
          first : Chunks \cup {None}, last : Chunks]

ASSUME ClusterAssumption ==
  /\ Opaque \subseteq Urls /\ None \notin Urls /\ None \notin Nodes
  /\ FileSize \in Nat \ {0}
  /\ None \notin Chunks /\ None \notin Urls \X Chunks
  /\ Clients \cap (Clients \X Chunks \X Nodes) = {}
  /\ Nodes \cap {"idle", "start", "stat", "read", "p2p", "origin", "item", "done"} = {}
  /\ Scenarios \subseteq [want : [Clients -> Wants], weather : SUBSET Faults]

VARIABLES
  scenario,
  up,         \* the nodes that run
  cache,      \* what each node has cached under each key
  lock,       \* the call that fills the item of each key, holding its lock
  adverts,    \* the keys that each node provides in the DHT
  pc, cur, tried, sent, status,   \* the locals of each call of Handle
  dropped,    \* the calls whose item was evicted when they had it already
  missed      \* history: a peer's chunk was evicted after Exists had found it

nodeVars == <<up, cache, lock, adverts>>
vars == <<scenario, nodeVars, pc, cur, tried, sent, status, dropped, missed>>

Calls == Clients \cup (Clients \X Chunks \X Nodes)
Keys == ((Urls \ Opaque) \cup {None}) \X Chunks

FromPeer(x) == x \notin Clients
Want(x) == scenario.want[IF FromPeer(x) THEN x[1] ELSE x]
Node(x) == IF FromPeer(x) THEN x[3] ELSE Want(x).node
First(x) == IF FromPeer(x) THEN x[2] ELSE IF Want(x).method = "HEAD" THEN 0 ELSE Want(x).first
Final(x) == IF FromPeer(x) THEN x[2] ELSE Want(x).last
Method(x) == IF FromPeer(x) THEN "GET" ELSE Want(x).method

Init ==
  /\ scenario \in Scenarios
  /\ up = Nodes
  /\ cache = [n \in Nodes |-> [k \in Keys |-> None]]
  /\ lock = [n \in Nodes |-> [k \in Keys |-> None]]
  /\ adverts = [n \in Nodes |-> {}]
  /\ pc = [x \in Calls |-> IF FromPeer(x) THEN "idle" ELSE "start"]
  /\ cur = [x \in Calls |-> 0]
  /\ tried = [x \in Calls |-> {}]
  /\ sent = [x \in Calls |-> << >>]
  /\ status = [x \in Calls |-> 0]
  /\ dropped = {} /\ missed = {}

Goto(x, l) == pc' = [pc EXCEPT ![x] = l]
Abort(x, code) == Goto(x, "done") /\ status' = [status EXCEPT ![x] = code]

-----------------------------------------------------------------------------
(***************************************************************************)
(* Handle: store.Key, Open and Fstat.                                      *)
(***************************************************************************)

(* The error of ParseDigest is lost when there is a range: the name is then
   the empty digest. *)
ParseDigest(x) == IF Want(x).url \in Opaque THEN None ELSE Want(x).url
KeyFails(x) == IF Method(x) = "GET" THEN First(x) = None ELSE ParseDigest(x) = None

FileChunkKeyNoOffset(x, chunk) == <<ParseDigest(x), 0>>
FileChunkKey(x, chunk) == <<ParseDigest(x), chunk>>

Here(x) == FileChunkKey(x, cur[x])
Exists(x, chunk) == cache[Node(x)][FileChunkKey(x, chunk)] # None
Unlocked(x, chunk) == lock[Node(x)][FileChunkKey(x, chunk)] = None

BadRequest(x) ==
  /\ pc[x] = "start"
  /\ KeyFails(x)
  /\ Abort(x, 400)
  /\ UNCHANGED <<scenario, nodeVars, cur, tried, sent, dropped, missed>>

(* For a peer, Open asks the cache first; Exists waits for the item lock. *)
RefusesNot(x) == FALSE
Refuses(x) == FromPeer(x) /\ ~Exists(x, First(x))

OpenRefused(x) ==
  /\ pc[x] = "start"
  /\ FromPeer(x)
  /\ Unlocked(x, First(x)) /\ Refuses(x)
  /\ Abort(x, 404)
  /\ UNCHANGED <<scenario, nodeVars, cur, tried, sent, dropped, missed>>

Open(x) ==
  /\ pc[x] = "start"
  /\ ~KeyFails(x)
  /\ FromPeer(x) => Unlocked(x, First(x)) /\ ~Refuses(x)
  /\ Goto(x, "stat")
  /\ cur' = [cur EXCEPT ![x] = First(x)]
  /\ UNCHANGED <<scenario, nodeVars, tried, sent, status, dropped, missed>>

(* Fstat; the size comes from the metadata cache or from the origin. *)
Fstat(x) ==
  /\ pc[x] = "stat"
  /\ IF Method(x) = "GET" THEN Goto(x, "read") /\ UNCHANGED status ELSE Abort(x, 200)
  /\ UNCHANGED <<scenario, nodeVars, cur, tried, sent, dropped, missed>>

FstatFails(x) ==
  /\ pc[x] = "stat"
  /\ "origin" \in scenario.weather
  /\ Abort(x, 500)
  /\ UNCHANGED <<scenario, nodeVars, cur, tried, sent, dropped, missed>>

-----------------------------------------------------------------------------
(***************************************************************************)
(* ReadAt and GetOrCreate: a chunk that is cached is sent, otherwise the   *)
(* call takes the item lock and fetches it.                                *)
(***************************************************************************)
Sends(x, data) ==
  /\ sent' = [sent EXCEPT ![x] = Append(@, data)]
  /\ cur' = [cur EXCEPT ![x] = @ + 1]
  /\ tried' = [tried EXCEPT ![x] = {}]
  /\ IF cur[x] < Final(x) THEN Goto(x, "read") /\ UNCHANGED status ELSE Abort(x, 206)

(* The item of the call has the chunk, from before or by its own fill. *)
Hit(x) ==
  /\ pc[x] \in {"read", "item"}
  /\ x \notin dropped
  /\ Unlocked(x, cur[x]) /\ Exists(x, cur[x])
  /\ Sends(x, cache[Node(x)][Here(x)])
  /\ UNCHANGED <<scenario, nodeVars, dropped, missed>>

(* The item of the call has been evicted.  Its file cannot be looked at any
   more, which is an error, or a panic once the item is filled; the HTTP server
   recovers from that one.  The response has begun and is broken off. *)
ItemDropped(x) ==
  /\ pc[x] \in {"read", "item"}
  /\ x \in dropped
  /\ Abort(x, 500)
  /\ UNCHANGED <<scenario, nodeVars, cur, tried, sent, dropped, missed>>

(* doP2p refuses a request that comes from a peer. *)
Miss(x) ==
  /\ pc[x] = "read"
  /\ x \notin dropped
  /\ Unlocked(x, cur[x]) /\ ~Exists(x, cur[x])
  /\ lock' = [lock EXCEPT ![Node(x)][Here(x)] = x]
  /\ Goto(x, IF FromPeer(x) THEN "origin" ELSE "p2p")
  /\ UNCHANGED <<scenario, up, cache, adverts, cur, tried, sent, status, dropped, missed>>

Fills(x, data) ==
  /\ cache' = [cache EXCEPT ![Node(x)][Here(x)] = data]
  /\ lock' = [lock EXCEPT ![Node(x)][Here(x)] = None]
  /\ Goto(x, "item")
  /\ UNCHANGED <<scenario, up, adverts, cur, tried, sent, status, dropped, missed>>

(* The fetch fails, which breaks the response off as well. *)
FillFails(x) ==
  /\ lock' = [lock EXCEPT ![Node(x)][Here(x)] = None]
  /\ Abort(x, 500)
  /\ UNCHANGED <<scenario, up, cache, adverts, cur, tried, sent, dropped, missed>>

-----------------------------------------------------------------------------
(***************************************************************************)
(* FetchFile: the peers that provide the chunk of the request's first byte *)
(* are asked, whichever chunk is fetched.                                  *)
(***************************************************************************)
Provides(p, x) == FileChunkKey(x, First(x)) \in adverts[p]
Asked(x, p) == <<x, cur[x], p>>

AsksPeer(x, p) ==
  /\ pc[x] = "p2p"
  /\ p # Node(x) /\ p \notin tried[x]
  /\ Provides(p, x)
  /\ tried' = [tried EXCEPT ![x] = @ \cup {p}]
  /\ pc' = [pc EXCEPT ![x] = p, ![Asked(x, p)] = "start"]
  /\ UNCHANGED <<scenario, nodeVars, cur, sent, status, dropped, missed>>

(* The lookup times out, or the key is cached as not found. *)
ResolveTimesOut(x) ==
  /\ pc[x] = "p2p"
  /\ Goto(x, "origin")
  /\ UNCHANGED <<scenario, nodeVars, cur, tried, sent, status, dropped, missed>>

PeerAnswers(x) ==
  /\ pc[x] \in Nodes
  /\ status[Asked(x, pc[x])] = 206
  /\ Fills(x, sent[Asked(x, pc[x])][1])

(* An error of the peer, or the timeout of the HTTP client: the handler at the
   peer goes on and its answer is lost. *)
ClientTimeoutNone == FALSE
ClientTimeout == TRUE
PeerFails(x) ==
  /\ pc[x] \in Nodes
  /\ status[Asked(x, pc[x])] \in {400, 404, 500} \/ ClientTimeout
  /\ Goto(x, "p2p")
  /\ UNCHANGED <<scenario, nodeVars, cur, tried, sent, status, dropped, missed>>

OriginAnswers(x) == pc[x] = "origin" /\ Fills(x, <<Want(x).url, cur[x]>>)
OriginFails(x) == pc[x] = "origin" /\ "origin" \in scenario.weather /\ FillFails(x)

-----------------------------------------------------------------------------
(***************************************************************************)
(* What happens beside the calls.                                          *)
(***************************************************************************)

(* The prefetch of a file that x has opened: a worker gets a chunk, as ReadAt
   would, and the provider advertises it. *)
Prefetches(x, chunk) ==
  LET n == Node(x)
      k == FileChunkKey(x, chunk)
      peers == {p \in Nodes \ {n} : Provides(p, x) /\ cache[p][k] # None /\ ~FromPeer(x)}
      data == {<<Want(x).url, chunk>>} \cup {cache[p][k] : p \in peers}
  IN /\ n \in up
     /\ pc[x] \notin {"idle", "start"} /\ status[x] \notin {400, 404}
     /\ lock[n][k] = None
     /\ \E d \in IF cache[n][k] = None THEN data ELSE {cache[n][k]} :
          cache' = [cache EXCEPT ![n][k] = d]
     /\ adverts' = [adverts EXCEPT ![n] = @ \cup {k}]
     /\ UNCHANGED <<scenario, up, lock, pc, cur, tried, sent, status, dropped, missed>>

(* A chunk goes and its advertisement stays.  The drop of its item waits for
   the item lock; a call that has filled the item still has it, and a call that
   is about to read may have it. *)
Reading(n, k) == {x \in Calls : pc[x] \in {"stat", "read"} /\ Node(x) = n /\ Here(x) = k}
Filled(n, k) == {x \in Calls : pc[x] = "item" /\ Node(x) = n /\ Here(x) = k}

Evict(n, k) ==
  /\ "evict" \in scenario.weather
  /\ cache[n][k] # None
  /\ lock[n][k] = None
  /\ cache' = [cache EXCEPT ![n][k] = None]
  /\ \E had \in SUBSET {x \in Reading(n, k) : pc[x] = "read"} :
       dropped' = dropped \cup had \cup Filled(n, k)
  /\ missed' = missed \cup {x \in Reading(n, k) : FromPeer(x)}
  /\ UNCHANGED <<scenario, up, lock, adverts, pc, cur, tried, sent, status>>

(* A node stops.  With evictions this is also the panic of a prefetch worker
   whose item is dropped after it has filled it: nothing recovers from it. *)
Crash(n) ==
  /\ "crash" \in scenario.weather
  /\ up = Nodes
  /\ up' = up \ {n}
  /\ UNCHANGED <<scenario, cache, lock, adverts, pc, cur, tried, sent, status, dropped, missed>>

-----------------------------------------------------------------------------
Step(x) ==
  /\ Node(x) \in up
  /\ \/ BadRequest(x) \/ OpenRefused(x) \/ Open(x) \/ Fstat(x) \/ FstatFails(x)
     \/ Hit(x) \/ ItemDropped(x) \/ Miss(x) \/ ResolveTimesOut(x) \/ PeerAnswers(x) \/ PeerFails(x)
     \/ OriginAnswers(x) \/ OriginFails(x)
     \/ \E p \in Nodes : AsksPeer(x, p)

Live == {x \in Calls : pc[x] \notin {"idle", "done"}}

Next ==
  \/ \E x \in Live : Step(x)
  \/ \E x \in {y \in Calls : pc[y] # "idle"}, chunk \in Chunks : Prefetches(x, chunk)
  \/ \E n \in Nodes : Crash(n) \/ \E k \in Keys : Evict(n, k)

Spec == Init /\ [][Next]_vars

(* Handlers get to run, lookups and requests end by their timeouts and the
   origin answers or fails.  Nothing makes a worker prefetch. *)
FairSpec == Spec /\ \A x \in Calls : WF_vars(x \in Live /\ Step(x))

-----------------------------------------------------------------------------
(* What a node sends, to a client or to a peer, is the chunk that was asked
   for, chunk by chunk from the first: through peers whose advertisements are
   stale, which are asked for other chunks than they advertise, and which
   answer from their cache or from the origin.  URLs without a digest are the
   exception: Key gives them all the same name, and the chunks of one are sent
   for another. *)
ServedIsContent ==
  \A x \in Calls : (sent[x] # << >> /\ Want(x).url \notin Opaque) =>
    \A i \in 1 .. Len(sent[x]) : sent[x][i] = <<Want(x).url, First(x) + i - 1>>

(* "Don't serve it unless we have the requested range cached": what a node sends
   to a peer comes from its cache, where Open has found it.  Only when the chunk
   is evicted between Open and the read does the handler get it again, and then
   from the origin: a request of a peer never waits for a third node.  (This is
   about the answer.  Open also prefetches the whole file, for a peer as well,
   and gets the chunks that are not cached from the origin.) *)
PeerAnsweredFromCache ==
  \A x \in Calls : (FromPeer(x) /\ pc[x] \in {"p2p", "origin", "item"} \cup Nodes) =>
    x \in missed /\ pc[x] \in {"origin", "item"}

(* Every request of a client is answered as long as its node runs, and in full
   when the origin does not fail and the node does not evict the chunk while the
   request has its item: no peer that is gone, has evicted the chunk or is slow
   makes it fail.  Two nodes that fill the same chunk may wait for each other's
   item lock through the requests they send one another; the timeout of the HTTP
   client ends that. *)
EveryClientServed ==
  \A c \in Clients :
    pc[c] = "start" ~>
      \/ Node(c) \notin up
      \/ status[c] \in {200, 400}
      \/ status[c] = 206 /\ Len(sent[c]) = Final(c) - First(c) + 1
      \/ status[c] = 500 /\ ("origin" \in scenario.weather \/ c \in dropped)
=============================================================================
