# Verification of peerd in TLA+

peerd runs on every node of a Kubernetes cluster. Containerd asks the local peerd for ranges of
image blobs; peerd serves them from a cache of chunks on disk, and fetches a missing chunk from a
peer that advertises it in a DHT, or from the origin. This directory models the concurrent core of
peerd in TLA+, checks it with TLC on small instances, and proves what matters most with TLAPS.

## The system

| Part | Code | State | Operations | Modelled in |
|---|---|---|---|---|
| chunk cache | `pkg/cache/filecache.go`, `item.go` | ristretto store and set buffer, items (file, lock), files on disk, `fdCnt` | `GetOrCreate`, `Exists`, `fill`, `writeAll`, `bytes`, `drop` | `FileCache`; its promise: `ChunkCache` |
| metadata map | `pkg/cache/syncmap.go` | a map with a capacity | `Get`, `Set`, `Delete` | `SyncMap` |
| block arithmetic | `pkg/math` | none | `AlignDown`, `Min64`, `Max64`, `NewSegments`, `All` | `Blocks`, `Segments` |
| file | `pkg/files/store/file.go` | offset, size, `statLock`, `chunkOffset` | `Seek`, `Read`, `ReadAt`, `Fstat`, `prefetch` | `File`, `FilesStore` |
| files store | `pkg/files/store/store.go` | `prefetchChan`, `blobsChan` | `Open`, `Key`, `prefetch` workers, `Subscribe` | `FilesStore`, `Cluster` |
| content provider | `pkg/discovery/content/provider` | none | `Provide` | `FilesStore`, `Node` |
| content reader | `pkg/discovery/content/reader`, `pkg/files/files.go` | the buffer of a read | `PreadRemote`, `doP2p`, `FetchFile`, `FstatRemote` | `Reader`, `Cluster`, `FilesStore` |
| router | `pkg/discovery/routing/router.go` | lookup cache, `active`, the host | `NewRouter`, bootstrap, `Resolve...`, `Provide`, `Close` | `Reader`, `Election`, `Node`, `Cluster` |
| leader election | `pkg/k8s/election` | `id`, `initChan` | `Leader`, `RunOrDie`, `onNewLeader` | `Election` |
| server | `cmd/proxy` | an errgroup of servers | start, shutdown, exit | `Node` |
| HTTP handlers | `pkg/handlers` | the response | `Handle`, `fill` | `Cluster`, `File` |
| events | `pkg/k8s/events` | none | when each event is emitted | `Node`, `Election`, `Reader` |
| request context, URL parser, peer network | `pkg/context`, `pkg/urlparser`, `pkg/peernet` | none that outlives a request | is it from a peer, range, digest, client timeout | `Cluster` |
| metrics, Kubernetes client, test programs | `pkg/metrics`, `pkg/k8s/k8s.go`, `tests` | | | not modelled |

A request goes through them in this order. The handler asks `Key` for the name of the chunk and calls
`Open`, which refuses a peer whose chunk is not cached, learns the size (`Fstat`, metadata map or
origin) and starts a prefetch goroutine; that goroutine cuts the file into segments and queues them
on `prefetchChan`. `http.ServeContent` then seeks and reads; every `ReadAt` is one `GetOrCreate` of
one chunk. Prefetch workers call `GetOrCreate` as well and send the key of every chunk to
`blobsChan`, from which `Provide` advertises it. A missing chunk is fetched with `FetchFile`, which
asks peers found by `Resolve` and then the origin. The DHT is bootstrapped from the address that
`Leader` returns.

What is hard here: an item is shared by calls, by ristretto's policy goroutine and by its callbacks;
`waitForSet` is a sleep; locks are released between a fill and the read after it; two goroutines of
one file share its size without a lock; channels are bounded and have several producers; peers break
off, time out or answer late; a node holds the lock of an item while it asks a node that may wait for
the same chunk; callbacks of the election run in goroutines of their own; a restart finds
half-written files; the process ends in several ways. `PROJECT.json` lists these hazards line by line.

## Modules

Every module names the Go functions it models, and each action is a stretch of code that
other goroutines cannot observe in the middle: up to the next lock, channel operation, file
operation or call to another process. Operators named like another one with a suffix
(`CanLockIgnoringReaders` next to `CanLock`) are plausible mistakes; a run with the mistake in place
must violate a property.

**`FileCache`** (`MCFileCache`, `FileCacheProofs`, `FileCacheOwnership`, `FileCacheCalm`,
`FileCacheImplements`). `Calls` of `GetOrCreate` and `Exists` on `Keys`.
An item is named after the call that created it. `store` and `setBuf` are ristretto's map and set
buffer; `writer` and `readers` are `item.lock`; `file`, `inode` and `pos` are `item.file` (none,
open, nil), the file it refers to and its offset; `dir` and `content` are the directory and the
bytes of every inode, so that two items can share a file and a removed file lives on while it is
open. A byte is the pair of its key and its position, or a hole. The policy goroutine admits, evicts
or rejects one buffered item at a time and then drops the victims (`Drop` waits for `item.lock`).
Initially the directory may hold what an earlier process left, down to part of a chunk. `Prompt` says
that the set buffer is drained within `waitForSet`; `IOFaults` that file operations fail. `Calm` is
the fair-weather assumption: prompt, room for all keys, no faults.

**`ChunkCache`, `FileCacheRefinement`.** What the cache promises, in five variables without locks,
items or files: a chunk, once whole, stays whole; it is fetched by one call at a time, and only while
it is not whole; a call gets the chunk or the error of its own fetch. `FileCacheRefinement` maps
`FileCache` to it (`WholeOnDisk`, `LeftBehind`, `Fetching`). A chunk is whole when the file of its
item has all bytes; a call is fetching while it fills. Files of an earlier process are in `left`:
`Exists` takes them for cached as soon as a call has opened them, whatever part of the chunk they
hold.

**`SyncMap`** (`MCSyncMap`, `NodeProofs`). The metadata map; which entries are evicted is any
choice, as Go's map iteration is. `last` remembers the last value set for each key.

**`Blocks`, `Segments`** (`MCSegments`, `NodeProofs`). The arithmetic, and
`Segments.All` as the loop that it is, from `NewSegments` to the close of the channel.

**`File`** (`MCFile`, `FilesProofs`). One reader of one file, byte by byte: a byte is its offset.
The reader is `http.ServeContent` (external: seeks, then copies exactly the range). Sizes and chunks
are taken as right here; whether they are is asked of `FilesStore` and `FileCache`.

**`FilesStore`** (`MCFilesStore`, `FilesProofs`). Requests with their two goroutines, prefetch workers, the two
bounded channels, the provider and the shutdown. Offsets are counted in chunks. `Fstat` is seven
steps, because `file.size` is shared: a lookup in the metadata map (`meta` is the size stored there)
and the assignment of what it found are apart. The chunk cache is the set of chunks in it, without
two kinds: a panic of `FetchFile` leaves the item locked (`stuck`), and a fill without bytes truncates
the file and leaves its offset behind, so that no later call finds the right length (`spoiled`). A
scenario fixes which ranges are asked for and, as `weather`, which faults may happen, so that a
property can say under which faults it holds. `"stopped"` is a server whose context had ended and
whose provider had returned before the requests came.

**`Reader`** (`MCReader`, `ReaderProofs`). Reads of one chunk: `doP2p`'s select loop, the goroutine of
`Resolve` with `peersCh`, the timeout of the context, the lookup cache and the origin. A buffer
holds, for each byte, the server it came from.

**`Cluster`** (`MCCluster`, `ClusterProofs`). Several nodes, each with the cache of `ChunkCache` plus
evictions, and calls of `Handle` on them: `Key`, `Open`, `Fstat`, `ReadAt`, the item lock and
`FetchFile`. A fetch from a peer is a call on that peer, named by the client's call, the chunk and the
peer. A call that has filled an item reads it in a second step (`pc = "item"`), as in `GetOrCreate`;
`Evict` puts the calls that have the item then, and any of those that are about to read it, into
`dropped`, and these fail: with the error of `Stat`, or with the panic in `bytes`. Prefetching and
advertising a chunk is one step here; `FilesStore` has it in detail. It happens for requests of peers
too, and then takes missing chunks from the origin only. `Opaque` are the URLs in which `ParseDigest`
finds no digest. `missed` remembers that a chunk went between `Open` and the read. Nodes crash, origins
fail and chunks are evicted when the scenario's `weather` says so.

**`Election`, `Node`** (`MCNode`, `NodeProofs`). `Election` has the lease, the elector of client-go
(external) that reports each new holder to a callback, the callbacks step by step, and the bootstrap
callback of the router, which calls `Leader` and emits an event. client-go runs each callback in its own
goroutine; `overlapped` remembers that one began before an earlier one had ended. `Node` extends it
with `serverCommand`: start, errgroup, SIGTERM, the shutdown of the servers, the closing of the router
and the exit. The group's context ends with SIGTERM or the first error; the elector and the router have the
process's context, which only SIGTERM ends.

## Runs

| Run | Instance | Shows |
|---|---|---|
| `cache_load` | 3 calls, 2 keys, room for 1, 2-byte chunks, slow set buffer, faults | a fill is alone with its file and finds it open, an item is dropped once, the store hands out open items, `fdCnt` counts every open file |
| `cache_calm` | 3 calls, 2 keys, calm, fair | `GetOrCreate` returns the chunk, `FileCache` implements `ChunkCache`, every call returns |
| `syncmap` | 4 keys, capacity 3, a share that rounds to 0 | capacity, freshness, eviction only when full |
| `segments` | offsets, counts and sizes to 9, steps 1, 2, 4 | tiling, block boundaries, agreement with `ReadAt` |
| `file` | files to 8 bytes, blocks of 3, buffers to 5, fair | prefix, whole range, peers' chunks served, termination |
| `store` | 2 requests (1 from a peer), 1 worker, 3 chunks, channels of 1, six scenarios, fair | sizes are right; `ReadAt` panics, spoils a chunk or leaves its item locked only after the metadata map has forgotten a size, and every other request returns; only cached chunks are announced, one request announces the file |
| `reader` | 2 reads, 2 peers, this node, a peer with odd addresses, fair | bytes of one server only, no blocked sender, one event, each peer asked once and none for a peer, every read returns |
| `cluster` | 2 nodes, 2 clients, 1 URL with and 2 without a digest, 2 chunks, eight scenarios, fair | what is sent is the content, what a node sends to a peer was in its cache when the peer asked, every client is served unless the origin fails or its item is evicted under it |
| `node` | 2 nodes, 1 bootstrap, 2 reports, failing servers, SIGTERM, fair | `Leader` waits and returns, `id` is the latest leader and follows the lease, `P2PDisconnected` only while `id` is being set, servers stop, the node leaves the cluster, only the metrics server lets `serverCommand` return |

Three runs end in a violation: the code does not do what a line of its documentation or tests says.
`PROJECT.json` quotes the line for each.

| Run | What happens |
|---|---|
| `cache_torn` | a set buffer slower than `waitForSet`: two items share one file; a third call refills the first item at its old offset, and the caller of the second returns the hole that this leaves |
| `cache_panic` | eviction between fill and read: `bytes` meets a nil file |
| `store_statlock` | failed stat: the prefetch goroutine waits for `statLock` for ever |

**Where the properties stop.** The modules contain more behaviour than the properties promise, and
each condition in a property stands for a behaviour of the code:

- `Calm` (`cache_calm`). Out of calm weather an item evicted or rejected before the first `Stat` makes
  `GetOrCreate` fail without a fetch, and a failed write leaves the file offset behind, so that the
  next fill writes after a hole. `Exists` answers yes for any bytes that an earlier process left.
- `"evict" \notin weather` (`SizeIsRight`, `PanicsOnlyIfForgotten`). When the metadata map forgets a
  size, one goroutine's lookup sets `file.size` to 0 under the other: `Fstat` and `Seek` may return 0,
  and `ReadAt` computes a count that is 0 or negative. A negative count panics and leaves the item
  locked, so that every later call for that chunk hangs; a count of 0 truncates a cached chunk.
  `EveryRequestReturns` excuses the request that panics and those that wait for its item. If the
  stat of the prefetch fails too, it leaves `statLock` locked and the request itself hangs.
- `weather = {}` (`OpenAnnouncesFile`). Chunks that `ReadAt` adds to the cache are not announced; only
  prefetch workers announce.
- `res = "ok"` (`OneSource`). An empty body from the origin is accepted, with the buffer as it was
  (`res = "empty"`).
- `Want(x).url \notin Opaque` (`ServedIsContent`). `Key` overwrites the error of `ParseDigest` when the
  request has a range, and all URLs without a digest get the same name: a node may send the chunk of
  one for another.
- `x \in missed` (`PeerAnsweredFromCache`). `Open` checks the cache for a peer and `ReadAt` reads it
  later; a chunk evicted in between is fetched from the origin on behalf of the peer. The property is
  about the answer: `Open` also prefetches the whole file for the peer, from the origin.
- `c \in dropped` (`EveryClientServed`). A client is broken off without a failure of the origin when
  the item that its call has is evicted before the first `Stat` or between fill and read.
- A peer that opened chunk 0 may read any chunk: offset 0 stands for "no restriction" in `ReadAt`.
  `PeerChunkServed` says only that the peer's own chunk is not refused.
- `EveryClientServed` needs the timeout of the HTTP client. Two nodes that fill the same chunk hold
  its item locks and ask each other; `Exists` waits for the lock at both, until `peernet`'s 90 seconds
  have passed. The mutant of this property is a client without a timeout.
- `~overlapped`, `elector = "run"` (`IdIsLatest`, `FollowsLease`). Overlapping callbacks may set the
  older leader last or close `initChan` twice, and an elector that has given up is not started again.
- `EndsWithMetrics`. Nobody shuts the metrics server down, so that `g.Wait` does not return after
  SIGTERM; `ServersStop` and `LeavesCluster` say what does end.
- `ServeContent` copies exactly a range. `ReadAt` returns `io.EOF` when the buffer reaches past the
  end of the file even if its chunk ended earlier; a reader that copies until `io.EOF` would stop there.

**Bounds.** Two keys and three calls are what a lost item takes: one call that fills, one that
evicts, one that comes late. A chunk of two bytes can be empty, torn or whole. Channels of one
element are full and empty in turn, with three chunks queued for each of two requests. The scenarios of
`store` are no fault, failing stats and fetches, metadata eviction (three times), and shutdown with faults; two
requests meet in the first three. With a working provider, two requests and a forgetful metadata map
the state space is out of reach; the third scenario has the provider stopped. Two peers, this node and an unusable peer cover every branch of
`Resolve`. In `cluster` two nodes ask each other for two chunks each without faults, and for fewer
with a crash and a failing origin; with evictions they ask each other for one chunk, or one asks for
two that the other prefetches, or two clients of one node read the same chunk and the node may stop. The other
scenarios are two URLs that share a name, bad requests, and `HEAD` with a failing origin. In `node` two reports give a leader and its successor, or an
unknown holder, and let callbacks overlap; with failing servers one report is enough. The number of
reports is the only bound on a behaviour; `FollowsLease` excuses a run that has used it up.

**Symmetry** is used for the calls and keys of the cache and for the keys of the metadata map, and only
without liveness properties and without refinement.

**Fairness.** Goroutines are scheduled (weak fairness of each goroutine's next step), HTTP calls end
because every client has a timeout, the resolve context ends by its deadline, the DHT search ends
with its context, `Shutdown` ends by its timeout of 30 seconds, and the elector polls the lease and
watches its context. Nothing obliges clients to send requests, workers of `Cluster` to prefetch, the
lease to move, the DHT to bootstrap, a server to fail or SIGTERM to arrive. `SelectTimeout` and
`SelectPeer` share one fairness condition: `select` prefers neither.

**Deadlock** is checked except where the system may come to rest: a server without requests (`store`,
`store_statlock`, `cluster`), and a cache in which a panic leaves a lock held (`cache_load`,
`cache_panic`, `cache_torn`).

## Proofs

| Module | Theorem | Argument |
|---|---|---|
| `FileCacheProofs` | `TypeCorrect` | `TypeInv`: `TypeOK` and which locals are set at which point of a call |
| | `FillIsExclusive`, `FillFindsFileOpen` | `LockInv`: who holds `item.lock` follows from where each call is; a file is closed only under the lock |
| `FileCacheOwnership` | `DropHappensOnce`, `StoreIsOpen` | `OwnInv`: an item is in exactly one place: with its creator, in the set buffer, in the store under its own key, or with the one goroutine that drops it |
| | `FdCntCovers` | `FdInv`: a step opens at most one item and then adds 1; it subtracts 1 only where it closes one |
| `FileCacheImplements` | `ReturnsTheChunk`, `NoPanicWhenCalm` | `CalmInv`: a key has one open item, in the store unless its creator is setting it, and that item has its file to itself; the file is a prefix of the chunk, and the whole chunk wherever it is read |
| | `CalmImplementsChunkCache` | the same invariant; `RefMap` says what is whole in terms of the one item of a key, and every step is a step of `ChunkCache` or none |
| `FilesProofs` | `ServesPrefix`, `ServesWholeRange` | `CopyInv`: while a range is copied, the offset is where the bytes sent end, so each `Read` gets at least one byte, none past the range, and no `io.EOF` |
| | `ServesPeersChunk` | `PeerInv`: a read is refused only in another chunk than the one the range begins in; offsets in order lie in blocks in order |
| | `StoreTypeCorrect`, `AnnouncesCachedChunks` | `AnnounceInv`: a worker sends a chunk on only after `GetOrCreate` has put it in the cache, and chunks stay in the cache or are spoiled there |
| | `SizesAreRight`, `NoPanicWithKnownSize` | `SizeInv`: once a size has been stored the metadata map has it, so that neither goroutine of a file can set the shared size back to 0; a request reads only with the size known, and then no count is 0 or negative |
| `ReaderProofs` | `SourceIsOne` | a server that answers in full overwrites the whole buffer, and nothing is written after that |
| | `SenderIsNeverBlocked`, `EachPeerAskedOnce` | the peers asked, the peers in `peersCh` and the one being sent are different and were all found, and at most `Count` are |
| | `ActiveAtMostOnce` | the event is sent in the step that swaps `active` from false |
| `ClusterProofs` | `CachesAreRight`, `OnlyContentServed` | `Inv`: the key of a digest holds its chunk or nothing, each call has sent its chunks up to `cur`, and a peer's call that was asked for a chunk sends that chunk |
| | `PeersGetCachedChunks` | `PresentInv`: past `Open`, the chunk of a peer's call is in the cache or the call is in `missed` |
| `NodeProofs` | `OnlyMetricsEndIt` | `EndInv`: the metrics server listens or has failed, and the group ends only with all its members |
| | `LeaderIsReported`, `IdIsTheLatest`, `DisconnectedOnlyInGap` | `ElectInv`: `initChan` is closed only by a callback with a known leader; from then on a callback is about to set `id`, or it is set; without overlap the callbacks run one after the other |
| | `MapTypeCorrect`, `StaysWithinCapacity` | at least one victim leaves before a new key enters |
| | `NothingStale`, `LosesOnlyWhenFull` | an entry is what `Set` put there last; victims are chosen only at capacity |
| | `AllTilesTheRange`, `AllStaysInsideBlocks`, `PrefetchAgreesWithReadAt` | the loop index is aligned, an offset lies in one block, and the segments sent end where the index starts |

None of the invariants is inductive by itself. That a fill excludes others, for instance, says nothing
of a call that is about to lock; `LockInv` ties both lock variables to the program counters. That an
item is dropped once needs to know that an item in the set buffer is not in the store as well. That
the content is sent needs to know what is in every cache and what every peer is about to answer.

`FileCacheCalm` has the lemmas on the first two parts of `CalmInv`, and `FileCacheImplements` the
rest. The proof of the refinement follows a chunk through `GetOrCreate`. `PlaceInv` shows that in calm
weather the creator of an item holds `fileCache.lock` until the item is in the store, so that the next
call finds it there and no key gets a second item; the set buffer holds one item at most, and nothing
is refused, evicted or dropped (`CalmSteps`: every step is one of `CalmNext`). `DiskInv` builds on
that: an item's file is the one that an earlier process left at the path or one of its own, no other
open item has it, and `LockInv` keeps other calls away while it is truncated and written at offset 0.
`AnswerInv` and the refinement then go action by action: a call that begins is `Ask`, or `Exists` when
it does not find the key, the second `Stat` is `Fetch`, the write is `FetchSucceeds`, the read is
`Get`; all other steps change nothing that `ChunkCache` knows.

The proofs assume what `ConstantsAssumption`, `KeysFinite`, `SyncMapAssumption`, `SegmentsAssumption`,
`FileAssumption`, `StoreAssumption`, `ReaderAssumption`, `ClusterAssumption`, `ElectionAssumption` and `NodeAssumption`
state (names of different things differ, sizes and blocks are positive), and no bound on the number of
calls, keys, bytes, entries, peers, nodes or callbacks. TLC evaluates each in the runs of its module.

The theorems of `FileCacheImplements` assume `Calm`; they are about the code as long as `waitForSet` outlasts
ristretto's buffer, the chunks in use fit in the cache and the disk does not fail. `cache_torn` and
`cache_panic` show that neither of the first two can be left out. Ristretto's set buffer has room for at
least one entry (`SetBufSize` is not 0; it is 32 768 in ristretto).

Only model-checked: the liveness properties, which need fairness (`EveryCallReturns`, `CopyTerminates`,
`EveryRequestReturns`, `OpenAnnouncesFile`, `EveryReadReturns`, `LeaderReturns`, `FollowsLease`,
`ServersStop`, `LeavesCluster`, `EveryClientServed`). Every other property that a passing run checks is
also proved.

## Not modelled

The metrics are write-only counters of an external library, `pkg/k8s/k8s.go` builds a client from a
configuration file, and the programs under `tests` generate load. HTTP routing and headers, TLS
identities, loggers, the flags of the command and the address filters of the host keep no state that
outlives a request or the start of the process. The regular expressions of the URL parser are
abstracted to whether they find a digest. The insides of ristretto, client-go, libp2p and `net/http`
are external: what they promise to this code is modelled in the module that uses them. Integers stay
far below 2^63 and have no width. A time is an event that may happen.

Some abstractions limit what `Cluster` says: a prefetch is one step, so that workers never hold an item
lock there; an eviction happens when the item is not being filled, as the drop waits for the item
lock; and a restarted node is not there. `FileCache` has all three, for one node. A `200` with which a
peer answers a ranged request, which `preadRemote` accepts, is left out: the handlers of peerd answer
a range with `206`.
