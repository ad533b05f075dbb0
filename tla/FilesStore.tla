----------------------------- MODULE FilesStore ------------------------------
(***************************************************************************)
(* pkg/files/store and provider.Provide: a request opens a file (Open),    *)
(* learns its size (Fstat), starts a goroutine that queues its chunks for  *)
(* the prefetch workers (prefetch), and reads its range (ReadAt).  Workers *)
(* put chunks in the cache and notify the provider, which advertises them. *)
(*                                                                         *)
(* The chunk cache is taken at what GetOrCreate promises (see FileCache),  *)
(* the metadata cache at what SyncMap does.  A file is FileSize chunks     *)
(* long.  Every request has a file of its own, and all ask for one blob.   *)
(***************************************************************************)
EXTENDS Integers, Sequences

CONSTANTS
  Requests,      \* calls of FilesHandler.Handle
  FromPeer,      \* the requests that a peer sent
  Workers,       \* the prefetch workers; there are PrefetchWorkers of them
  PrefetchCap,   \* capacity of prefetchChan: PrefetchWorkers
  BlobsCap,      \* capacity of blobsChan
  FileSize,      \* size of the blob, in chunks
  None,
  Scenarios      \* what requests ask for, and what may go wrong

(* "stat": FstatRemote may fail.  "fetch": fetching a chunk may fail.
   "evict": the metadata cache may evict the size.
   "shutdown": the context of the server may be cancelled.
   "stopped": that has happened, and Provide has returned; requests that the
   HTTP server has accepted before are still served. *)
Faults == {"stat", "fetch", "evict", "shutdown", "stopped"}
Chunks == 0 .. FileSize - 1
Ranges == {w \in Chunks \X Chunks : w[1] <= w[2]}

ASSUME StoreAssumption ==
  /\ FromPeer \subseteq Requests
  /\ PrefetchCap \in Nat /\ BlobsCap \in Nat /\ FileSize \in Nat \ {0}
  /\ None \notin Int \cup Ranges
  /\ Scenarios \subseteq [want : [Requests -> Ranges \cup {None}], weather : SUBSET Faults]

VARIABLES
  meta,          \* the size in the metadata cache, or None
  cached,        \* chunks with bytes in the cache
  spoiled,       \* chunks whose file a fill with no bytes has truncated
  stuck,         \* chunks whose item.lock a panic has left locked
  prefetchChan, blobsChan,
  notified,      \* history: chunks that were sent to blobsChan
  advertised,    \* chunks that Provide has advertised
  ctxDone,       \* the context of the server is cancelled
  providing,     \* Provide has not returned
  statLock,      \* holder of file.statLock, for each file
  fsize,         \* file.size, for each file
  want,          \* what each request asks for: its first and last chunk, or None
  weather,       \* what may go wrong in this behaviour
  pc,            \* where the goroutines of each request are: "open" and "pre"
  stat,          \* what the last Fstat of each goroutine returned
  total,         \* the size that ServeContent got from Seek, for each request
  count,         \* the second argument of prefetch, then the chunks left to queue
  next,          \* the chunk each goroutine reads or queues next
  work           \* the chunk of each worker, and whether it is cached

disk == <<cached, spoiled, stuck>>
chanVars == <<prefetchChan, blobsChan, notified, advertised, ctxDone, providing>>
fileVars == <<statLock, fsize>>
inputs == <<want, weather>>
callVars == <<pc, stat, total, count, next>>
vars == <<meta, disk, chanVars, fileVars, inputs, callVars, work>>

Threads == {"open", "pre"}
Failed == -1
Prefetchable == Workers # {}

Init ==
  /\ \E s \in Scenarios : want = s.want /\ weather = s.weather
  /\ meta = None
  /\ cached = {} /\ spoiled = {} /\ stuck = {}
  /\ prefetchChan = << >> /\ blobsChan = << >>
  /\ notified = {} /\ advertised = {}
  /\ ctxDone = ("stopped" \in weather) /\ providing = ~ctxDone
  /\ statLock = [q \in Requests |-> None]
  /\ fsize = [q \in Requests |-> 0]
  /\ pc = [q \in Requests |->
             [open |-> IF want[q] = None THEN "done" ELSE "start", pre |-> "none"]]
  /\ stat = [q \in Requests |-> [open |-> 0, pre |-> 0]]
  /\ total = [q \in Requests |-> 0]
  /\ count = [q \in Requests |-> 0]
  /\ next = [q \in Requests |-> [open |-> IF want[q] = None THEN 0 ELSE want[q][1], pre |-> 0]]
  /\ work = [w \in Workers |-> [chunk |-> None, got |-> FALSE]]

Goto(q, t, l) == pc' = [pc EXCEPT ![q][t] = l]

-----------------------------------------------------------------------------
(***************************************************************************)
(* Open and ReadAt.  Every call of Fstat goes from "stat" to "stated".     *)
(***************************************************************************)

(* A request from a peer is refused unless its first chunk is cached: Exists
   takes the lock of the item and looks whether its file has bytes. *)
OpenRefused(q) ==
  /\ pc[q].open = "start"
  /\ q \in FromPeer /\ want[q][1] \notin cached \cup stuck
  /\ Goto(q, "open", "done")
  /\ UNCHANGED <<meta, disk, chanVars, fileVars, inputs, stat, total, count, next, work>>

Open(q) ==
  /\ pc[q].open = "start"
  /\ q \in FromPeer => want[q][1] \in cached \ stuck
  /\ Goto(q, "open", "stat")
  /\ UNCHANGED <<meta, disk, chanVars, fileVars, inputs, stat, total, count, next, work>>

(* What a lookup in the metadata cache leaves in file.size, and the size at the
   origin: fstatRemote takes it from Content-Range, or from Content-Length. *)
Size(v) == IF v = None THEN 0 ELSE v
RemoteSizeOfPart == 1
RemoteSize == FileSize

FstatGet(q, t) ==
  /\ pc[q][t] = "stat"
  /\ stat' = [stat EXCEPT ![q][t] = meta]
  /\ Goto(q, t, "got")
  /\ UNCHANGED <<meta, disk, chanVars, fileVars, inputs, total, count, next, work>>

FstatLock(q, t) ==
  /\ pc[q][t] = "lock"
  /\ statLock[q] = None
  /\ statLock' = [statLock EXCEPT ![q] = t]
  /\ stat' = [stat EXCEPT ![q][t] = meta]
  /\ Goto(q, t, "got")
  /\ UNCHANGED <<meta, disk, chanVars, fsize, inputs, total, count, next, work>>

UnlockForgotten(q, t) == statLock[q]
Unlock(q, t) == IF statLock[q] = t THEN None ELSE statLock[q]

(* file.size gets what the lookup returned, whatever the other goroutine of
   the file has done meanwhile: the first of the two lookups is not locked. *)
FstatSet(q, t) ==
  /\ pc[q][t] = "got"
  /\ fsize' = [fsize EXCEPT ![q] = Size(stat[q][t])]
  /\ \/ /\ stat[q][t] # None
        /\ statLock' = [statLock EXCEPT ![q] = Unlock(q, t)]
        /\ Goto(q, t, "return")
     \/ /\ stat[q][t] = None
        /\ Goto(q, t, IF statLock[q] = t THEN "remote" ELSE "lock")
        /\ UNCHANGED statLock
  /\ UNCHANGED <<meta, disk, chanVars, inputs, stat, total, count, next, work>>

FstatRemote(q, t) ==
  /\ pc[q][t] = "remote"
  /\ fsize' = [fsize EXCEPT ![q] = RemoteSize]
  /\ Goto(q, t, "put")
  /\ UNCHANGED <<meta, disk, chanVars, statLock, inputs, stat, total, count, next, work>>

(* PutSize stores what file.size is by then. *)
PutSizeNot(q) == meta
PutSize(q) == fsize[q]
FstatPut(q, t) ==
  /\ pc[q][t] = "put"
  /\ meta' = PutSize(q)
  /\ statLock' = [statLock EXCEPT ![q] = Unlock(q, t)]
  /\ Goto(q, t, "return")
  /\ UNCHANGED <<disk, chanVars, fsize, inputs, stat, total, count, next, work>>

(* The error return of Fstat leaves statLock locked.  (FstatRemote returns -1
   for the size when there is no valid URL; such a request never gets here.) *)
FstatRemoteFails(q, t) ==
  /\ pc[q][t] = "remote"
  /\ "stat" \in weather
  /\ fsize' = [fsize EXCEPT ![q] = 0]
  /\ stat' = [stat EXCEPT ![q][t] = Failed]
  /\ Goto(q, t, "stated")
  /\ UNCHANGED <<meta, disk, chanVars, statLock, inputs, total, count, next, work>>

(* Fstat returns what file.size is by then. *)
FstatReturns(q, t) ==
  /\ pc[q][t] = "return"
  /\ stat' = [stat EXCEPT ![q][t] = fsize[q]]
  /\ Goto(q, t, "stated")
  /\ UNCHANGED <<meta, disk, chanVars, fileVars, inputs, total, count, next, work>>

(* Open starts the prefetch, also when its Fstat failed. *)
OpenReturns(q) ==
  /\ pc[q].open = "stated" /\ pc[q].pre = "none"
  /\ count' = [count EXCEPT ![q] = IF stat[q].open = Failed THEN 0 ELSE stat[q].open]
  /\ pc' = [pc EXCEPT ![q] = [open |-> IF stat[q].open = Failed THEN "done" ELSE "seek",
                              pre |-> IF Prefetchable THEN "stat" ELSE "done"]]
  /\ UNCHANGED <<meta, disk, chanVars, fileVars, inputs, stat, total, next, work>>

(* ServeContent seeks to the end of the file to learn its size; a range that
   begins past it is not served. *)
SeekEnd(q) ==
  /\ pc[q].open = "seek"
  /\ total' = [total EXCEPT ![q] = fsize[q]]
  /\ Goto(q, "open", IF want[q][1] < fsize[q] THEN "stat" ELSE "done")
  /\ UNCHANGED <<meta, disk, chanVars, fileVars, inputs, stat, count, next, work>>

(* A file opened for a peer reads its first chunk only, unless that is 0. *)
OnlyChunk(q) == q \in FromPeer /\ want[q][1] # 0 /\ next[q].open # want[q][1]

Reading(q) ==
  pc[q].open = "stated" /\ pc[q].pre # "none" /\ stat[q].open # Failed /\ ~OnlyChunk(q)

(* GetOrCreate waits for the lock of the item.  It fails when the chunk has to
   be fetched and that fails.  It also fails when the file of the item has been
   truncated by a fill with no bytes: the next fill writes where the file ended
   before, so that the file is too long, and every later one as well. *)
GetFails(c) ==
  /\ c \notin stuck
  /\ \/ "fetch" \in weather /\ c \notin cached \ spoiled /\ UNCHANGED cached
     \/ c \in spoiled /\ cached' = cached \cup {c}
  /\ UNCHANGED <<spoiled, stuck>>

GetSucceeds(c) ==
  /\ c \notin stuck \cup spoiled
  /\ cached' = cached \cup {c}
  /\ UNCHANGED <<spoiled, stuck>>

ReadAt(q) ==
  /\ Reading(q)
  /\ LET c == next[q].open
     IN /\ c < stat[q].open
        /\ GetSucceeds(c)
        /\ next' = [next EXCEPT ![q].open = c + 1]
        /\ Goto(q, "open", IF c < want[q][2] /\ c + 1 < total[q] THEN "stat" ELSE "done")
  /\ UNCHANGED <<meta, chanVars, fileVars, inputs, stat, total, count, work>>

ReadAtFails(q) ==
  /\ pc[q].open = "stated" /\ pc[q].pre # "none"
  /\ \/ stat[q].open = Failed /\ UNCHANGED disk
     \/ stat[q].open # Failed /\ OnlyChunk(q) /\ UNCHANGED disk
     \/ Reading(q) /\ next[q].open < stat[q].open /\ GetFails(next[q].open)
  /\ Goto(q, "open", "done")
  /\ UNCHANGED <<meta, chanVars, fileVars, inputs, stat, total, count, next, work>>

(* A chunk that begins past the size that Fstat returned has a negative count:
   FetchFile cannot make a buffer and panics, while fill holds item.lock.  The
   HTTP server recovers, and nobody ever unlocks the item. *)
ReadAtPastEnd(q) ==
  /\ Reading(q)
  /\ next[q].open > stat[q].open
  /\ next[q].open \notin stuck
  /\ stuck' = stuck \cup {next[q].open}
  /\ Goto(q, "open", "panic")
  /\ UNCHANGED <<meta, cached, spoiled, chanVars, fileVars, inputs, stat, total, count, next, work>>

(* A chunk that begins at that size has a count of 0, and a cached one is filled
   again with the 0 bytes of an empty range, unless the origin refuses that.  A
   range that begins inside the chunk then slices its bytes at a negative length,
   after the item is unlocked. *)
ReadAtEnd(q) ==
  /\ Reading(q)
  /\ next[q].open = stat[q].open
  /\ next[q].open \notin stuck
  /\ \/ /\ cached' = cached \ {next[q].open}
        /\ spoiled' = spoiled \cup ({next[q].open} \cap cached)
        /\ \E l \in {"done", "panic"} : Goto(q, "open", l)
     \/ next[q].open \in cached /\ Goto(q, "open", "done") /\ UNCHANGED <<cached, spoiled>>
  /\ UNCHANGED <<meta, stuck, chanVars, fileVars, inputs, stat, total, count, next, work>>

-----------------------------------------------------------------------------
(***************************************************************************)
(* The goroutine of file.prefetch.                                         *)
(***************************************************************************)
PrefetchStarts(q) ==
  /\ pc[q].pre = "stated"
  /\ count' = [count EXCEPT ![q] = IF stat[q].pre = Failed THEN 0
                                   ELSE IF @ < stat[q].pre THEN @ ELSE stat[q].pre]
  /\ Goto(q, "pre", "queue")
  /\ UNCHANGED <<meta, disk, chanVars, fileVars, inputs, stat, total, next, work>>

MoreToQueueOneLess(q) == next[q].pre + 1 < count[q]
MoreToQueue(q) == next[q].pre < count[q]

PrefetchQueues(q) ==
  /\ pc[q].pre = "queue"
  /\ MoreToQueue(q)
  /\ Len(prefetchChan) < PrefetchCap
  /\ prefetchChan' = Append(prefetchChan, next[q].pre)
  /\ next' = [next EXCEPT ![q].pre = @ + 1]
  /\ UNCHANGED <<meta, disk, blobsChan, notified, advertised, ctxDone, providing, fileVars,
                 inputs, pc, stat, total, count, work>>

PrefetchEnds(q) ==
  /\ pc[q].pre = "queue"
  /\ ~MoreToQueue(q)
  /\ Goto(q, "pre", "done")
  /\ UNCHANGED <<meta, disk, chanVars, fileVars, inputs, stat, total, count, next, work>>

-----------------------------------------------------------------------------
(***************************************************************************)
(* The prefetch workers, and the provider.                                 *)
(***************************************************************************)
WorkerTakes(w) ==
  /\ work[w].chunk = None
  /\ prefetchChan # << >>
  /\ work' = [work EXCEPT ![w].chunk = Head(prefetchChan)]
  /\ prefetchChan' = Tail(prefetchChan)
  /\ UNCHANGED <<meta, disk, blobsChan, notified, advertised, ctxDone, providing, fileVars, inputs, callVars>>

WorkerFetches(w) ==
  /\ work[w].chunk # None /\ ~work[w].got
  /\ GetSucceeds(work[w].chunk)
  /\ work' = [work EXCEPT ![w].got = TRUE]
  /\ UNCHANGED <<meta, chanVars, fileVars, inputs, callVars>>

AfterFailureNotifies(w) == [work EXCEPT ![w].got = TRUE]
AfterFailure(w) == [work EXCEPT ![w].chunk = None]

WorkerFails(w) ==
  /\ work[w].chunk # None /\ ~work[w].got
  /\ GetFails(work[w].chunk)
  /\ work' = AfterFailure(w)
  /\ UNCHANGED <<meta, chanVars, fileVars, inputs, callVars>>

WorkerNotifies(w) ==
  /\ work[w].got
  /\ Len(blobsChan) < BlobsCap
  /\ blobsChan' = Append(blobsChan, work[w].chunk)
  /\ notified' = notified \cup {work[w].chunk}
  /\ work' = [work EXCEPT ![w] = [chunk |-> None, got |-> FALSE]]
  /\ UNCHANGED <<meta, disk, prefetchChan, advertised, ctxDone, providing, fileVars, inputs, callVars>>

(* router.Provide may fail; the blob is then not advertised. *)
Provide ==
  /\ providing
  /\ blobsChan # << >>
  /\ blobsChan' = Tail(blobsChan)
  /\ advertised' \in {advertised} \cup
                     (IF ctxDone THEN {} ELSE {advertised \cup {Head(blobsChan)}})
  /\ UNCHANGED <<meta, disk, prefetchChan, notified, ctxDone, providing, fileVars, inputs,
                 callVars, work>>

ProvideStops ==
  /\ providing /\ ctxDone
  /\ providing' = FALSE
  /\ UNCHANGED <<meta, disk, prefetchChan, blobsChan, notified, advertised, ctxDone,
                 fileVars, inputs, callVars, work>>

Shutdown ==
  /\ "shutdown" \in weather /\ ~ctxDone
  /\ ctxDone' = TRUE
  /\ UNCHANGED <<meta, disk, prefetchChan, blobsChan, notified, advertised, providing,
                 fileVars, inputs, callVars, work>>

(* A Set of another name makes the metadata cache forget this one. *)
MetaEvict ==
  /\ "evict" \in weather /\ meta # None
  /\ meta' = None
  /\ UNCHANGED <<disk, chanVars, fileVars, inputs, callVars, work>>

-----------------------------------------------------------------------------
Fstat(q, t) ==
  \/ FstatGet(q, t) \/ FstatLock(q, t) \/ FstatSet(q, t) \/ FstatRemote(q, t)
  \/ FstatRemoteFails(q, t) \/ FstatPut(q, t) \/ FstatReturns(q, t)

Serving(q) ==
  \/ Fstat(q, "open") \/ OpenReturns(q) \/ SeekEnd(q)
  \/ ReadAt(q) \/ ReadAtFails(q) \/ ReadAtPastEnd(q) \/ ReadAtEnd(q)

Prefetching(q) ==
  Fstat(q, "pre") \/ PrefetchStarts(q) \/ PrefetchQueues(q) \/ PrefetchEnds(q)

Working(w) == WorkerTakes(w) \/ WorkerFetches(w) \/ WorkerFails(w) \/ WorkerNotifies(w)

Next ==
  \/ \E q \in Requests : OpenRefused(q) \/ Open(q) \/ Serving(q) \/ Prefetching(q)
  \/ \E w \in Workers : Working(w)
  \/ Provide \/ ProvideStops \/ Shutdown \/ MetaEvict

Spec == Init /\ [][Next]_vars

(* Goroutines get to run and remote calls end by the HTTP client's timeout.
   Nobody has to send a request, to stop the server or to evict a size. *)
Fairness ==
  /\ \A q \in Requests : WF_vars(Serving(q)) /\ WF_vars(Prefetching(q))
  /\ \A w \in Workers : WF_vars(Working(w))
  /\ WF_vars(Provide \/ ProvideStops)

FairSpec == Spec /\ Fairness

-----------------------------------------------------------------------------
(* Fstat returns the size of the file or fails, and ServeContent is told that
   size: as long as the metadata cache keeps the size, neither goroutine of a
   file sees the 0 that the other one's lookup leaves in file.size. *)
SizeIsRight ==
  "evict" \notin weather => \A q \in Requests :
    /\ \A t \in Threads : pc[q][t] = "stated" => stat[q][t] \in {FileSize, Failed}
    /\ (pc[q].open = "stated" /\ pc[q].pre # "none") => total[q] = FileSize

(* A request panics, locks a chunk for good or spoils one (see ReadAtPastEnd and
   ReadAtEnd) only where the metadata cache may have forgotten the size of its
   file: else the chunk that ReadAt wants is in the file, whatever the prefetch
   of the request does to file.size meanwhile. *)
PanicsOnlyIfForgotten ==
  "evict" \in weather \/ (stuck \cup spoiled = {} /\ \A q \in Requests : pc[q].open # "panic")

(* A chunk is announced only once it is in the cache: what Provide takes from
   blobsChan, and what it has advertised, could be served to a peer at that
   time, and still can be unless a request has spoiled it since.  (The eviction
   of chunks is in FileCache.) *)
AnnouncedIsCached ==
  notified \cup advertised \cup {blobsChan[n] : n \in 1 .. Len(blobsChan)}
    \subseteq cached \cup spoiled

(* No request waits for another one, for the workers, for the provider or for
   a prefetch: every request returns, whatever becomes of them.  When the
   metadata cache forgets the size, a request may also panic, or wait for good
   for a chunk that a request which panicked has left locked.  If getting the
   size fails as well it can hang in Fstat: its prefetch has left statLock
   locked. *)
EveryRequestReturns ==
  \A q \in Requests :
    pc[q].open = "stat" /\ ~({"stat", "evict"} \subseteq weather)
      ~> \/ pc[q].open = "done"
         \/ "evict" \in weather /\ (pc[q].open = "panic" \/ next[q].open \in stuck)

(* When nothing goes wrong, one request for a range of a file brings all of
   the file into the cache and announces all of it, although both channels are
   bounded and the requests, the workers and the provider wait for each other. *)
OpenAnnouncesFile ==
  \A q \in Requests : (weather = {} /\ pc[q].open = "seek") ~> notified = Chunks

(* Every prefetch goroutine ends. *)
PrefetchTerminates ==
  \A q \in Requests : pc[q].pre = "stat" ~> pc[q].pre = "done"
=============================================================================
