------------------------------ MODULE FileCache ------------------------------
(***************************************************************************)
(* The chunk cache of pkg/cache: fileCache.GetOrCreate and Exists, the     *)
(* item they work on (an open file guarded by a RWMutex), and the          *)
(* ristretto cache that admits and evicts items.                           *)
(*                                                                         *)
(* Every call runs in its own goroutine and is a process of its own.  A    *)
(* call creates at most one item, and an item creates at most one file, so *)
(* an item and an inode are named by the call that created them.  A file   *)
(* that an earlier process, stopped at any moment, left in the cache       *)
(* directory is an inode named by its key.                                 *)
(*                                                                         *)
(* Ristretto is external.  Set puts the item in a bounded buffer           *)
(* (setBuf); its policy goroutine takes entries out of the buffer, admits  *)
(* or rejects them, and calls OnExit, which is item.drop, for every item   *)
(* that leaves the cache or is refused.  Get sees admitted items only.     *)
(***************************************************************************)
EXTENDS Integers, Sequences, FiniteSets

CONSTANTS
  Calls,       \* calls of GetOrCreate and Exists
  Keys,        \* chunk keys: path/name/offset
  None,        \* no item, no file, no lock holder
  Policy,      \* the policy goroutine of ristretto
  ChunkLen,    \* bytes of a chunk, the "count" of GetOrCreate
  Capacity,    \* items that fit in FilesCacheMaxCost
  SetBufSize,  \* capacity of ristretto's set buffer
  Prompt,      \* TRUE: waitForSet outlasts the set buffer
  IOFaults     \* TRUE: mkdir, open, truncate and write may fail

ASSUME ConstantsAssumption ==
  /\ None \notin Calls \cup Keys \cup {Policy}
  /\ Policy \notin Calls
  /\ Calls \cap Keys = {}
  /\ ChunkLen \in Nat \ {0}
  /\ Capacity \in Nat
  /\ SetBufSize \in Nat \ {0}
  /\ Prompt \in BOOLEAN
  /\ IOFaults \in BOOLEAN

ASSUME KeysFinite == IsFiniteSet(Keys)

VARIABLES
  store,      \* ristretto's store: the admitted item of each key
  setBuf,     \* items set but not yet seen by the policy, oldest first
  dropping,   \* the item a goroutine is dropping (OnExit), or None
  cacheLock,  \* holder of fileCache.lock
  writer,     \* holder of item.lock in write mode
  readers,    \* holders of item.lock in read mode
  file,       \* item.file: "none" before newItem, "open", "nil" after drop
  inode,      \* the file that item.file is open on
  pos,        \* write offset of item.file
  content,    \* bytes of each inode
  dir,        \* the cache directory: the inode at each key's path
  fdCnt,      \* the global counter of open items
  pc, key, it, size, got, res   \* the locals of each call

storeVars == <<store, setBuf, dropping>>
lockVars == <<cacheLock, writer, readers>>
itemVars == <<file, inode, pos, fdCnt>>
diskVars == <<content, dir>>
callVars == <<pc, key, it, size, got, res>>
vars == <<storeVars, lockVars, itemVars, diskVars, callVars>>

Bytes == (Keys \X (1 .. ChunkLen)) \cup {<< >>}
Hole == << >>
PrefixPastEnd(k, len) == [n \in 1 .. len + 1 |-> <<k, n>>]
Prefix(k, len) == [n \in 1 .. len |-> <<k, n>>]
Chunk(k) == Prefix(k, ChunkLen)
Inodes == Calls \cup Keys
Goroutines == Calls \cup {Policy}
Filling == {"fetch", "trunc", "write"}
Reading == {"bytes", "pread"}
Results == {"none", "ok", "err", "yes", "no", "panic"}
PCs == {"start", "recheck", "new", "set", "exit", "wait", "rlock", "wlock",
        "relock", "exists", "done"} \cup Filling \cup Reading

InSeq(s, i) == \E n \in 1 .. Len(s) : s[n] = i
InBuf(i) == InSeq(setBuf, i)
Cached == {k \in Keys : store[k] # None}
Size(i) == Len(content[inode[i]])

(***************************************************************************)
(* The file after writing data at offset p: a gap reads as zeros.          *)
(***************************************************************************)
WriteAt(old, p, data) ==
  [n \in 1 .. (IF Len(old) > p + Len(data) THEN Len(old) ELSE p + Len(data)) |->
     IF n > p /\ n <= p + Len(data) THEN data[n - p]
     ELSE IF n <= Len(old) THEN old[n] ELSE Hole]

Init ==
  /\ store = [k \in Keys |-> None]
  /\ setBuf = << >>
  /\ dropping = [g \in Goroutines |-> None]
  /\ cacheLock = None
  /\ writer = [i \in Calls |-> None]
  /\ readers = [i \in Calls |-> {}]
  /\ file = [i \in Calls |-> "none"]
  /\ inode = [i \in Calls |-> None]
  /\ pos = [i \in Calls |-> 0]
  /\ \E left \in [Keys -> 0 .. ChunkLen] :
       /\ content = [i \in Inodes |->
                       IF i \in Keys THEN Prefix(i, left[i]) ELSE << >>]
       /\ dir = [k \in Keys |-> IF left[k] = 0 THEN None ELSE k]
  /\ fdCnt = 0
  /\ pc = [c \in Calls |-> "start"]
  /\ key = [c \in Calls |-> None]
  /\ it = [c \in Calls |-> None]
  /\ size = [c \in Calls |-> 0]
  /\ got = [c \in Calls |-> << >>]
  /\ res = [c \in Calls |-> "none"]

Goto(c, l) == pc' = [pc EXCEPT ![c] = l]
Return(c, r) ==
  /\ pc' = [pc EXCEPT ![c] = "done"]
  /\ res' = [res EXCEPT ![c] = r]

(***************************************************************************)
(* item.lock.  Go's RWMutex: a writer excludes everyone, readers share.    *)
(***************************************************************************)
CanRLock(i) == writer[i] = None
CanLockIgnoringReaders(i) == writer[i] = None
CanLock(i) == writer[i] = None /\ readers[i] = {}

-----------------------------------------------------------------------------
(***************************************************************************)
(* GetOrCreate: find or create the item.                                   *)
(***************************************************************************)
GetHit(c, k) ==
  /\ pc[c] = "start"
  /\ store[k] # None
  /\ key' = [key EXCEPT ![c] = k]
  /\ it' = [it EXCEPT ![c] = store[k]]
  /\ Goto(c, "rlock")
  /\ UNCHANGED <<storeVars, lockVars, itemVars, diskVars, size, got, res>>

GetMiss(c, k) ==
  /\ pc[c] = "start"
  /\ store[k] = None
  /\ key' = [key EXCEPT ![c] = k]
  /\ Goto(c, "recheck")
  /\ UNCHANGED <<storeVars, lockVars, itemVars, diskVars, it, size, got, res>>

(* The second Get, under fileCache.lock. *)
RecheckHit(c) ==
  /\ pc[c] = "recheck"
  /\ cacheLock = None
  /\ store[key[c]] # None
  /\ it' = [it EXCEPT ![c] = store[key[c]]]
  /\ Goto(c, "rlock")
  /\ UNCHANGED <<storeVars, lockVars, itemVars, diskVars, key, size, got, res>>

RecheckMiss(c) ==
  /\ pc[c] = "recheck"
  /\ cacheLock = None
  /\ store[key[c]] = None
  /\ cacheLock' = c
  /\ Goto(c, "new")
  /\ UNCHANGED <<storeVars, writer, readers, itemVars, diskVars, key, it, size, got, res>>

FdAfterOpenUncounted == fdCnt
FdAfterOpen == fdCnt + 1

(* newItem opens the path with O_CREATE: an existing file is reused. *)
NewItem(c) ==
  /\ pc[c] = "new"
  /\ LET k == key[c]
         ino == IF dir[k] = None THEN c ELSE dir[k]
     IN /\ dir' = [dir EXCEPT ![k] = ino]
        /\ inode' = [inode EXCEPT ![c] = ino]
  /\ file' = [file EXCEPT ![c] = "open"]
  /\ fdCnt' = FdAfterOpen
  /\ it' = [it EXCEPT ![c] = c]
  /\ Goto(c, "set")
  /\ UNCHANGED <<storeVars, lockVars, pos, content, key, size, got, res>>

(* newItem fails in MkdirAll, or in OpenFile once fdCnt has been raised. *)
NewItemFails(c) ==
  /\ pc[c] = "new"
  /\ IOFaults
  /\ fdCnt' \in {fdCnt, fdCnt + 1}
  /\ cacheLock' = None
  /\ Return(c, "err")
  /\ UNCHANGED <<storeVars, writer, readers, file, inode, pos, diskVars, key, it, size, got>>

(* ristretto's Set: a key that is not in the store is queued ... *)
SetQueued(c) ==
  /\ pc[c] = "set"
  /\ store[key[c]] = None
  /\ Len(setBuf) < SetBufSize
  /\ setBuf' = Append(setBuf, c)
  /\ Goto(c, "wait")
  /\ UNCHANGED <<store, dropping, lockVars, itemVars, diskVars, key, it, size, got, res>>

(* ... or refused when the buffer is full; the open item is forgotten. *)
SetRefused(c) ==
  /\ pc[c] = "set"
  /\ store[key[c]] = None
  /\ Len(setBuf) >= SetBufSize
  /\ cacheLock' = None
  /\ Return(c, "err")
  /\ UNCHANGED <<storeVars, writer, readers, itemVars, diskVars, key, it, size, got>>

(* A key admitted since the recheck is updated in place: Set itself calls
   OnExit for the item it replaces, with fileCache.lock held. *)
SetReplaces(c) ==
  /\ pc[c] = "set"
  /\ store[key[c]] # None
  /\ store' = [store EXCEPT ![key[c]] = c]
  /\ dropping' = [dropping EXCEPT ![c] = store[key[c]]]
  /\ Goto(c, "exit")
  /\ UNCHANGED <<setBuf, lockVars, itemVars, diskVars, key, it, size, got, res>>

(* waitForSet sleeps 10ms and does not look at the cache. *)
WaitedNotAtAll(c) == TRUE
Waited(c) == Prompt => ~InBuf(c)

WaitForSet(c) ==
  /\ pc[c] = "wait"
  /\ Waited(c)
  /\ cacheLock' = None
  /\ Goto(c, "rlock")
  /\ UNCHANGED <<storeVars, writer, readers, itemVars, diskVars, key, it, size, got, res>>

-----------------------------------------------------------------------------
(***************************************************************************)
(* GetOrCreate: check the size of the file, fill it if need be.            *)
(***************************************************************************)
Complete(i) == Size(i) = ChunkLen

StatFails(c) ==
  /\ pc[c] = "rlock"
  /\ CanRLock(it[c])
  /\ file[it[c]] = "nil"
  /\ Return(c, "err")
  /\ UNCHANGED <<storeVars, lockVars, itemVars, diskVars, key, it, size, got>>

StatMatches(c) ==
  /\ pc[c] = "rlock"
  /\ CanRLock(it[c])
  /\ file[it[c]] = "open"
  /\ Complete(it[c])
  /\ readers' = [readers EXCEPT ![it[c]] = @ \cup {c}]
  /\ Goto(c, "bytes")
  /\ UNCHANGED <<storeVars, cacheLock, writer, itemVars, diskVars, key, it, size, got, res>>

StatDiffers(c) ==
  /\ pc[c] = "rlock"
  /\ CanRLock(it[c])
  /\ file[it[c]] = "open"
  /\ ~Complete(it[c])
  /\ Goto(c, "wlock")
  /\ UNCHANGED <<storeVars, lockVars, itemVars, diskVars, key, it, size, got, res>>

(* "check again after acquiring lock": nothing of the first Stat is kept. *)
NeedsFillUnchecked(i) == TRUE
NeedsFill(i) == Size(i) # ChunkLen

RestatFails(c) ==
  /\ pc[c] = "wlock"
  /\ CanLock(it[c])
  /\ file[it[c]] = "nil"
  /\ Return(c, "err")
  /\ UNCHANGED <<storeVars, lockVars, itemVars, diskVars, key, it, size, got>>

RestatMatches(c) ==
  /\ pc[c] = "wlock"
  /\ CanLock(it[c])
  /\ file[it[c]] = "open"
  /\ ~NeedsFill(it[c])
  /\ Goto(c, "relock")
  /\ UNCHANGED <<storeVars, lockVars, itemVars, diskVars, key, it, size, got, res>>

RestatDiffers(c) ==
  /\ pc[c] = "wlock"
  /\ CanLock(it[c])
  /\ file[it[c]] = "open"
  /\ NeedsFill(it[c])
  /\ writer' = [writer EXCEPT ![it[c]] = c]
  /\ Goto(c, "fetch")
  /\ UNCHANGED <<storeVars, cacheLock, readers, itemVars, diskVars, key, it, size, got, res>>

(* item.fill: fetch runs with item.lock held in write mode. *)
FetchSucceeds(c) ==
  /\ pc[c] = "fetch"
  /\ Goto(c, "trunc")
  /\ UNCHANGED <<storeVars, lockVars, itemVars, diskVars, key, it, size, got, res>>

(* The deferred Unlock of GetOrCreate's fill. *)
UnlockForgotten(i) == writer
Unlock(i) == [writer EXCEPT ![i] = None]

(* A failed fetch removes the path; the item stays in the cache, open. *)
FetchFails(c) ==
  /\ pc[c] = "fetch"
  /\ dir' = [dir EXCEPT ![key[c]] = None]
  /\ writer' = Unlock(it[c])
  /\ Return(c, "err")
  /\ UNCHANGED <<storeVars, cacheLock, readers, itemVars, content, key, it, size, got>>

(* writeAll truncates the file; the write offset stays where it was. *)
Truncate(c) ==
  /\ pc[c] = "trunc"
  /\ content' = [content EXCEPT ![inode[it[c]]] = << >>]
  /\ Goto(c, "write")
  /\ UNCHANGED <<storeVars, lockVars, itemVars, dir, key, it, size, got, res>>

TruncateFails(c) ==
  /\ pc[c] = "trunc"
  /\ IOFaults
  /\ writer' = Unlock(it[c])
  /\ Return(c, "err")
  /\ UNCHANGED <<storeVars, cacheLock, readers, itemVars, diskVars, key, it, size, got>>

WriteLen(c, n) ==
  LET i == it[c]
  IN /\ content' = [content EXCEPT ![inode[i]] =
                      WriteAt(@, pos[i], Prefix(key[c], n))]
     /\ pos' = [pos EXCEPT ![i] = @ + n]
     /\ writer' = Unlock(i)

Write(c) ==
  /\ pc[c] = "write"
  /\ WriteLen(c, ChunkLen)
  /\ Goto(c, "relock")
  /\ UNCHANGED <<storeVars, cacheLock, readers, file, inode, dir, fdCnt, key, it, size, got, res>>

(* A write error, after some of the bytes; writeAll removes the path. *)
WriteFails(c) ==
  /\ pc[c] = "write"
  /\ IOFaults
  /\ \E n \in 0 .. ChunkLen - 1 : WriteLen(c, n)
  /\ dir' = [dir EXCEPT ![key[c]] = None]
  /\ Return(c, "err")
  /\ UNCHANGED <<storeVars, cacheLock, readers, file, inode, fdCnt, key, it, size, got>>

-----------------------------------------------------------------------------
(***************************************************************************)
(* GetOrCreate: read the file back (item.bytes, readFromStart).            *)
(***************************************************************************)
Relock(c) ==
  /\ pc[c] = "relock"
  /\ CanRLock(it[c])
  /\ readers' = [readers EXCEPT ![it[c]] = @ \cup {c}]
  /\ Goto(c, "bytes")
  /\ UNCHANGED <<storeVars, cacheLock, writer, itemVars, diskVars, key, it, size, got, res>>

BytesStat(c) ==
  /\ pc[c] = "bytes"
  /\ file[it[c]] = "open"
  /\ size' = [size EXCEPT ![c] = Size(it[c])]
  /\ Goto(c, "pread")
  /\ UNCHANGED <<storeVars, lockVars, itemVars, diskVars, key, it, got, res>>

(* Stat on the nil file fails and the error branch of item.bytes calls
   i.file.Name(), which dereferences nil.  item.lock stays read-locked. *)
BytesPanics(c) ==
  /\ pc[c] = "bytes"
  /\ file[it[c]] = "nil"
  /\ Return(c, "panic")
  /\ UNCHANGED <<storeVars, lockVars, itemVars, diskVars, key, it, size, got>>

(* ReadAt of size bytes: too few is an error, and so is a wrong length. *)
Pread(c) ==
  /\ pc[c] = "pread"
  /\ LET i == it[c]
         whole == Len(content[inode[i]]) >= size[c] /\ size[c] = ChunkLen
     IN /\ readers' = [readers EXCEPT ![i] = @ \ {c}]
        /\ Return(c, IF whole THEN "ok" ELSE "err")
        /\ got' = [got EXCEPT ![c] =
                     IF whole THEN SubSeq(content[inode[i]], 1, size[c]) ELSE << >>]
  /\ UNCHANGED <<storeVars, cacheLock, writer, itemVars, diskVars, key, it, size>>

-----------------------------------------------------------------------------
(***************************************************************************)
(* Exists.                                                                 *)
(***************************************************************************)
ExistsMiss(c, k) ==
  /\ pc[c] = "start"
  /\ store[k] = None
  /\ key' = [key EXCEPT ![c] = k]
  /\ Return(c, "no")
  /\ UNCHANGED <<storeVars, lockVars, itemVars, diskVars, it, size, got>>

ExistsHit(c, k) ==
  /\ pc[c] = "start"
  /\ store[k] # None
  /\ key' = [key EXCEPT ![c] = k]
  /\ it' = [it EXCEPT ![c] = store[k]]
  /\ Goto(c, "exists")
  /\ UNCHANGED <<storeVars, lockVars, itemVars, diskVars, size, got, res>>

(* Exists takes item.lock in write mode, so it waits for a fill. *)
ExistsStat(c) ==
  /\ pc[c] = "exists"
  /\ CanLock(it[c])
  /\ Return(c, IF file[it[c]] = "open" /\ Size(it[c]) > 0 THEN "yes" ELSE "no")
  /\ UNCHANGED <<storeVars, lockVars, itemVars, diskVars, key, it, size, got>>

-----------------------------------------------------------------------------
(***************************************************************************)
(* The policy goroutine takes the oldest entry of the set buffer.          *)
(***************************************************************************)
PolicyIdle == dropping[Policy] = None /\ setBuf # << >>

AfterHeadSame == setBuf
AfterHead == Tail(setBuf)

(* Every item costs one block of FilesCacheMaxCost. *)
Fits == Cardinality(Cached) < Capacity

Admit ==
  /\ PolicyIdle
  /\ store[key[Head(setBuf)]] = None
  /\ Fits
  /\ store' = [store EXCEPT ![key[Head(setBuf)]] = Head(setBuf)]
  /\ setBuf' = AfterHead
  /\ UNCHANGED <<dropping, lockVars, itemVars, diskVars, callVars>>

VictimStays(k) == [store EXCEPT ![key[Head(setBuf)]] = Head(setBuf)]
VictimLeaves(k) == [store EXCEPT ![k] = None, ![key[Head(setBuf)]] = Head(setBuf)]

(* The cache is full: the victim leaves the store, and is dropped next. *)
AdmitEvicting(k) ==
  /\ PolicyIdle
  /\ store[key[Head(setBuf)]] = None
  /\ ~Fits
  /\ store[k] # None
  /\ store' = VictimLeaves(k)
  /\ dropping' = [dropping EXCEPT ![Policy] = store[k]]
  /\ setBuf' = AfterHead
  /\ UNCHANGED <<lockVars, itemVars, diskVars, callVars>>

(* Refused: the key is already there, or the victims are used more often. *)
Reject ==
  /\ PolicyIdle
  /\ \/ store[key[Head(setBuf)]] # None
     \/ ~Fits
  /\ dropping' = [dropping EXCEPT ![Policy] = Head(setBuf)]
  /\ setBuf' = AfterHead
  /\ UNCHANGED <<store, lockVars, itemVars, diskVars, callVars>>

(* item.drop, run by g under item.lock in write mode: the file is closed,
   whatever is at the item's path is removed, and item.file becomes nil. *)
CanDropUnlocked(i) == TRUE
CanDrop(i) == CanLock(i)

Drop(g) ==
  /\ dropping[g] # None
  /\ CanDrop(dropping[g])
  /\ fdCnt' = fdCnt - 1
  /\ dir' = [dir EXCEPT ![key[dropping[g]]] = None]
  /\ file' = [file EXCEPT ![dropping[g]] = "nil"]
  /\ dropping' = [dropping EXCEPT ![g] = None]
  /\ pc' = IF g \in Calls THEN [pc EXCEPT ![g] = "wait"] ELSE pc
  /\ UNCHANGED <<store, setBuf, lockVars, inode, pos, content, key, it, size, got, res>>

-----------------------------------------------------------------------------
CallStep(c) ==
  \/ \E k \in Keys : GetHit(c, k) \/ GetMiss(c, k) \/ ExistsMiss(c, k) \/ ExistsHit(c, k)
  \/ RecheckHit(c) \/ RecheckMiss(c) \/ NewItem(c) \/ NewItemFails(c)
  \/ SetQueued(c) \/ SetRefused(c) \/ SetReplaces(c) \/ WaitForSet(c)
  \/ StatFails(c) \/ StatMatches(c) \/ StatDiffers(c)
  \/ RestatFails(c) \/ RestatMatches(c) \/ RestatDiffers(c)
  \/ FetchSucceeds(c) \/ FetchFails(c)
  \/ Truncate(c) \/ TruncateFails(c) \/ Write(c) \/ WriteFails(c)
  \/ Relock(c) \/ BytesStat(c) \/ BytesPanics(c) \/ Pread(c)
  \/ ExistsStat(c)

PolicyStep ==
  \/ Admit
  \/ \E k \in Keys : AdmitEvicting(k)
  \/ Reject

(* Every call has returned and ristretto has nothing left to do. *)
Quiet ==
  /\ \A c \in Calls : pc[c] = "done"
  /\ setBuf = << >>
  /\ \A g \in Goroutines : dropping[g] = None
  /\ UNCHANGED vars

Next ==
  \/ \E c \in Calls : CallStep(c)
  \/ PolicyStep
  \/ \E g \in Goroutines : Drop(g)
  \/ Quiet

Spec == Init /\ [][Next]_vars

(* A call that has begun keeps running: the Go scheduler runs every runnable
   goroutine, a fetch ends by its HTTP timeout, and neither Mutex nor RWMutex
   starves a waiter.  Nothing makes a caller begin a call. *)
Fairness ==
  /\ \A c \in Calls : WF_vars(pc[c] # "start" /\ CallStep(c))
  /\ WF_vars(PolicyStep)
  /\ \A g \in Goroutines : WF_vars(Drop(g))

FairSpec == Spec /\ Fairness

-----------------------------------------------------------------------------
(***************************************************************************)
(* Properties that hold whatever the scheduling, the load and the disk do. *)
(***************************************************************************)

StoreTypeOK ==
  /\ store \in [Keys -> Calls \cup {None}]
  /\ setBuf \in Seq(Calls)
  /\ dropping \in [Goroutines -> Calls \cup {None}]
LockTypeOK ==
  /\ cacheLock \in Calls \cup {None}
  /\ writer \in [Calls -> Calls \cup {None}]
  /\ readers \in [Calls -> SUBSET Calls]
ItemTypeOK ==
  /\ file \in [Calls -> {"none", "open", "nil"}]
  /\ inode \in [Calls -> Inodes \cup {None}]
  /\ pos \in [Calls -> Nat]
  /\ fdCnt \in Int
DiskTypeOK ==
  /\ content \in [Inodes -> Seq(Bytes)]
  /\ dir \in [Keys -> Inodes \cup {None}]
CallTypeOK ==
  /\ pc \in [Calls -> PCs]
  /\ key \in [Calls -> Keys \cup {None}]
  /\ it \in [Calls -> Calls \cup {None}]
  /\ size \in [Calls -> Nat]
  /\ got \in [Calls -> Seq(Bytes)]
  /\ res \in [Calls -> Results]

(* The state of fileCache, item, ristretto and the cache directory is typed. *)
TypeOK == StoreTypeOK /\ LockTypeOK /\ ItemTypeOK /\ DiskTypeOK /\ CallTypeOK

(* While one call fills an item (fetch, truncate and write in item.fill), no
   other call fills it or reads it (item.bytes): GetOrCreate never reads a
   file through an item whose fill is under way. *)
FillExcludesOthers ==
  \A c, d \in Calls :
    (c # d /\ pc[c] \in Filling /\ pc[d] \in Filling \cup Reading) => it[c] # it[d]

(* item.fill never works on a dropped item: between the second Stat and the
   last write, no eviction closes the file under it. *)
FillsOpenFile ==
  \A c \in Calls : pc[c] \in Filling => file[it[c]] = "open"

(* ristretto hands an item to OnExit once: an item that item.drop is about to
   close is still open, nobody else is dropping it, and Get cannot return it
   any more.  A second drop would dereference the nil file. *)
DroppedOnce ==
  \A g \in Goroutines : dropping[g] # None =>
    /\ file[dropping[g]] = "open"
    /\ \A h \in Goroutines : h # g => dropping[h] # dropping[g]
    /\ \A k \in Keys : store[k] # dropping[g]
    /\ ~InBuf(dropping[g])

(* What Get can return is an open item that was created for that key. *)
StoreHoldsOpenItems ==
  \A k \in Keys : store[k] # None => file[store[k]] = "open" /\ key[store[k]] = k

(* The fd counter never reports fewer open items than there are. *)
FdCntCoversOpenFiles ==
  fdCnt >= Cardinality({i \in Calls : file[i] = "open"})

-----------------------------------------------------------------------------
(***************************************************************************)
(* Properties that hold when waitForSet does wait for the set, every chunk *)
(* fits in the cache, and the disk does not fail.                          *)
(***************************************************************************)
Roomy == Cardinality(Keys) <= Capacity
Calm == Prompt /\ Roomy /\ ~IOFaults

(* The bytes that GetOrCreate returns without an error are the chunk. *)
Integrity ==
  \A c \in Calls : res[c] = "ok" => got[c] = Chunk(key[c])

(* No call dereferences the file of a dropped item. *)
NoPanic == \A c \in Calls : res[c] # "panic"

(* Every call that begins returns: no call waits for fileCache.lock or for
   item.lock for ever, whatever the other calls and the policy do. *)
EveryCallReturns ==
  \A c \in Calls : pc[c] # "start" ~> pc[c] = "done"
=============================================================================
