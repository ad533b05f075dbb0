---------------------------- MODULE FileCacheCalm ----------------------------
(***************************************************************************)
(* Lemmas about FileCache in calm weather, when nothing fails, is refused  *)
(* or is evicted: where its items are, and what its files hold.            *)
(***************************************************************************)
EXTENDS FileCacheProofs

-----------------------------------------------------------------------------
(***************************************************************************)
(* Where items are.  In calm weather one item is set at a time, under      *)
(* fileCache.lock, and it is in the store when the lock is released.       *)
(***************************************************************************)
Setting == {"new", "set", "wait"}

LockHeld == \A c \in Calls : pc[c] \in Setting => cacheLock = c
BufWaits == Len(setBuf) <= 1 /\ \A i \in Calls : InBuf(i) => pc[i] = "wait"
NotStoredYet ==
  \A c \in Calls : pc[c] \in {"new", "set"} \/ InBuf(c) => store[key[c]] = None
NothingDropped ==
  /\ \A g \in Goroutines : dropping[g] = None
  /\ \A i \in Calls : file[i] # "nil" /\ pc[i] # "exit"
OpenPlaced ==
  \A i \in Calls : file[i] = "open" => pc[i] = "set" \/ InBuf(i) \/ store[key[i]] = i
HoldsStored == \A c \in Calls : pc[c] \in Holding => store[key[c]] = it[c]
PlaceInv ==
  LockHeld /\ BufWaits /\ NotStoredYet /\ NothingDropped /\ OpenPlaced /\ HoldsStored

(***************************************************************************)
(* What is on disk.  A file holds the first bytes of its chunk; one that   *)
(* this process created is empty or whole, and one that is whole stays so. *)
(***************************************************************************)
Data(i) == content[inode[i]]
HasItem(k) == \E i \in Calls : file[i] = "open" /\ key[i] = k

PathsKept == \A k \in Keys : ~HasItem(k) => dir[k] \in {k, None}
LeftFiles == \A k \in Keys : \E n \in 0 .. ChunkLen : content[k] = Prefix(k, n)
FreshItems == \A i \in Calls : file[i] = "none" => pos[i] = 0 /\ content[i] = << >>
OwnFiles ==
  \A i \in Calls : file[i] = "open" =>
    /\ inode[i] \in {i, key[i]}
    /\ content[i] \in {<< >>, Chunk(key[i])}
    /\ pc[i] = "set" \/ InBuf(i) => content[i] = << >>
    /\ Data(i) # Chunk(key[i]) => pos[i] = 0
FillsMissing ==
  \A c \in Calls : pc[c] \in Filling =>
    /\ Data(it[c]) # Chunk(key[c])
    /\ pc[c] = "write" => Data(it[c]) = << >>
ReadsWhole ==
  \A c \in Calls :
    /\ pc[c] \in Reading \cup {"relock"} => Data(it[c]) = Chunk(key[c])
    /\ pc[c] = "pread" => size[c] = ChunkLen
DiskInv == PathsKept /\ LeftFiles /\ FreshItems /\ OwnFiles /\ FillsMissing /\ ReadsWhole

NotAnswered ==
  \A c \in Calls : /\ pc[c] # "done" => res[c] = "none"
                   /\ pc[c] = "start" => key[c] = None
AnswerInv == NotAnswered /\ Integrity /\ NoPanic

CalmInv == PlaceInv /\ DiskInv /\ AnswerInv

-----------------------------------------------------------------------------
(***************************************************************************)
(* The steps that calm weather leaves.                                     *)
(***************************************************************************)
CalmStep(c) ==
  \/ \E k \in Keys : GetHit(c, k) \/ GetMiss(c, k) \/ ExistsMiss(c, k) \/ ExistsHit(c, k)
  \/ RecheckHit(c) \/ RecheckMiss(c) \/ NewItem(c) \/ SetQueued(c) \/ WaitForSet(c)
  \/ StatMatches(c) \/ StatDiffers(c) \/ RestatMatches(c) \/ RestatDiffers(c)
  \/ FetchSucceeds(c) \/ FetchFails(c) \/ Truncate(c) \/ Write(c)
  \/ Relock(c) \/ BytesStat(c) \/ Pread(c) \/ ExistsStat(c)
CalmNext == (\E c \in Calls : CalmStep(c)) \/ Admit

USE DEF Filling, Reading

(* The types of what the calm invariant is about. *)
LEMMA CalmTypes ==
  ASSUME TypeInv
  PROVE  /\ pc \in [Calls -> PCs] /\ key \in [Calls -> Keys \cup {None}]
         /\ it \in [Calls -> Calls \cup {None}] /\ file \in [Calls -> {"none", "open", "nil"}]
         /\ store \in [Keys -> Calls \cup {None}] /\ setBuf \in Seq(Calls)
         /\ None \notin Calls /\ None \notin Keys /\ Calls \cap Keys = {}
         /\ \A c \in Calls : pc[c] # "start" => key[c] \in Keys
         /\ \A c \in Calls : pc[c] \in Holding => it[c] \in Calls /\ key[it[c]] = key[c]
         /\ \A i \in Calls : file[i] # "none" => key[i] \in Keys /\ pc[i] \notin NoItemYet
         /\ \A i \in Calls : InBuf(i) => file[i] # "none"
  <1>1. /\ pc \in [Calls -> PCs] /\ key \in [Calls -> Keys \cup {None}]
        /\ it \in [Calls -> Calls \cup {None}] /\ file \in [Calls -> {"none", "open", "nil"}]
        /\ store \in [Keys -> Calls \cup {None}] /\ setBuf \in Seq(Calls)
    BY Zenon DEF TypeInv, TypeOK, StoreTypeOK, ItemTypeOK, CallTypeOK
  <1>2. /\ \A c \in Calls : pc[c] # "start" => key[c] \in Keys
        /\ \A c \in Calls : pc[c] \in Holding => it[c] \in Calls /\ key[it[c]] = key[c]
        /\ \A i \in Calls : file[i] # "none" => pc[i] \notin NoItemYet
        /\ \A i \in Calls : InBuf(i) => file[i] # "none"
    BY Zenon DEF TypeInv, WellFormed, KeysSet, HoldingSet, CreatedSet, BufSet
  <1> QED
    BY Zenon, <1>1, <1>2, ConstantsAssumption DEF NoItemYet

(* While a call is about to set its item, nothing else waits in the buffer. *)
LEMMA SetAlone ==
  ASSUME TypeInv, PlaceInv, NEW c \in Calls, pc[c] \in {"new", "set"}
  PROVE  setBuf = << >> /\ \A i : ~InBuf(i)
  <1>1. ASSUME NEW n \in 1 .. Len(setBuf)
        PROVE  FALSE
    <2>1. setBuf[n] \in Calls /\ InBuf(setBuf[n])
      BY CalmTypes DEF InBuf, InSeq
    <2>2. pc[setBuf[n]] = "wait" /\ cacheLock = setBuf[n] /\ cacheLock = c
      BY Zenon, <2>1 DEF PlaceInv, BufWaits, LockHeld, Setting
    <2> QED
      BY Zenon, <2>2
  <1>2. \A i : ~InBuf(i)
    BY Zenon, <1>1 DEF InBuf, InSeq
  <1>3. setBuf = << >>
    BY <1>1, CalmTypes
  <1> QED
    BY Zenon, <1>2, <1>3

-----------------------------------------------------------------------------
(***************************************************************************)
(* Items stay where they belong.                                           *)
(***************************************************************************)

(* A step of the call c that creates no item and sets none. *)
LEMMA PlaceMoves ==
  ASSUME TypeInv, PlaceInv, NEW c \in Calls, NEW l,
         pc' = [pc EXCEPT ![c] = l], UNCHANGED <<store, setBuf, dropping, file>>,
         \A d \in Calls : d # c => key'[d] = key[d] /\ it'[d] = it[d],
         \A i \in Calls : file[i] = "open" => key'[i] = key[i],
         \/ UNCHANGED cacheLock /\ (l \in Setting => pc[c] \in Setting)
         \/ cacheLock = None /\ cacheLock' = c
         \/ pc[c] \in Setting /\ l \notin Setting,
         l \in {"new", "set"} => store[key'[c]] = None,
         InBuf(c) => l = "wait", pc[c] # "set", l # "exit",
         l \in Holding => store[key'[c]] = it'[c]
  PROVE  PlaceInv'
  <1>t. /\ pc \in [Calls -> PCs] /\ file \in [Calls -> {"none", "open", "nil"}]
        /\ None \notin Calls /\ \A i \in Calls : InBuf(i) => file[i] # "none"
    BY Zenon, CalmTypes
  <1>1. pc'[c] = l /\ \A d \in Calls : d # c => pc'[d] = pc[d]
    BY Zenon, <1>t
  <1>2. \A i : InBuf(i)' <=> InBuf(i)
    BY Zenon DEF InBuf
  <1>3. \A i \in Calls : InBuf(i) => key'[i] = key[i]
    BY Zenon, <1>t DEF PlaceInv, NothingDropped
  <1>4. LockHeld'
    BY <1>1, <1>t DEF PlaceInv, LockHeld
  <1>5. BufWaits'
    BY Zenon, <1>1, <1>2 DEF PlaceInv, BufWaits
  <1>6. NotStoredYet'
    BY Zenon, <1>1, <1>2, <1>3 DEF PlaceInv, NotStoredYet
  <1>7. NothingDropped'
    BY Zenon, <1>1 DEF PlaceInv, NothingDropped
  <1>8. OpenPlaced'
    BY Zenon, <1>1, <1>2 DEF PlaceInv, OpenPlaced
  <1>9. HoldsStored'
    BY <1>1 DEF PlaceInv, HoldsStored
  <1> QED
    BY Zenon, <1>4, <1>5, <1>6, <1>7, <1>8, <1>9 DEF PlaceInv

(* A step of a call that works on an item, and keeps that item. *)
LEMMA HoldingMoves ==
  ASSUME TypeInv, PlaceInv, NEW c \in Calls, pc[c] \in Holding,
         NEW l, l \in Holding \cup {"done"}, pc' = [pc EXCEPT ![c] = l],
         UNCHANGED <<store, setBuf, dropping, file, cacheLock, key, it>>
  PROVE  PlaceInv'
  <1>1. /\ pc[c] \notin Setting /\ l \notin Setting /\ l # "exit"
        /\ pc[c] # "wait" /\ pc[c] # "set" /\ l \notin {"new", "set"}
    BY Zenon DEF Holding, Setting
  <1>2. ~InBuf(c)
    BY Zenon, <1>1 DEF PlaceInv, BufWaits
  <1>3. store[key[c]] = it[c]
    BY Zenon DEF PlaceInv, HoldsStored
  <1> QED
    BY Zenon, <1>1, <1>2, <1>3, PlaceMoves

(* A call begins, or looks again under fileCache.lock. *)
LEMMA LookupPlaceInv ==
  ASSUME TypeInv, PlaceInv, NEW c \in Calls,
         \/ \E k \in Keys : GetHit(c, k) \/ GetMiss(c, k) \/ ExistsMiss(c, k) \/ ExistsHit(c, k)
         \/ RecheckHit(c) \/ RecheckMiss(c)
  PROVE  PlaceInv'
  <1>t. /\ key \in [Calls -> Keys \cup {None}] /\ it \in [Calls -> Calls \cup {None}]
        /\ \A i \in Calls : file[i] # "none" => pc[i] \notin NoItemYet
    BY Zenon, CalmTypes
  <1>1. pc[c] \in {"start", "recheck"} /\ file[c] # "open" /\ ~InBuf(c)
    <2>1. pc[c] \in {"start", "recheck"}
      BY Zenon DEF GetHit, GetMiss, ExistsMiss, ExistsHit, RecheckHit, RecheckMiss
    <2> QED
      BY Zenon, <2>1, <1>t DEF NoItemYet, PlaceInv, BufWaits
  <1>2. UNCHANGED <<store, setBuf, dropping, file>>
    BY Zenon DEF GetHit, GetMiss, ExistsMiss, ExistsHit, RecheckHit, RecheckMiss, storeVars, itemVars
  <1>3. ASSUME NEW k \in Keys, GetHit(c, k) \/ ExistsHit(c, k)
        PROVE  PlaceInv'
    <2>1. PICK l \in {"rlock", "exists"} : pc' = [pc EXCEPT ![c] = l]
      BY Zenon, <1>3 DEF GetHit, ExistsHit, Goto
    <2>2. /\ key' = [key EXCEPT ![c] = k] /\ it' = [it EXCEPT ![c] = store[k]]
          /\ cacheLock' = cacheLock
      BY Zenon, <1>3 DEF GetHit, ExistsHit, lockVars
    <2>3. /\ key'[c] = k /\ it'[c] = store[k]
          /\ \A d \in Calls : d # c => key'[d] = key[d] /\ it'[d] = it[d]
      BY Zenon, <2>2, <1>t
    <2>4. l \notin Setting /\ l # "exit" /\ l \notin {"new", "set"} /\ pc[c] # "set"
      BY Zenon, <1>1 DEF Setting
    <2> QED
      BY Zenon, <2>1, <2>2, <2>3, <2>4, <1>1, <1>2, PlaceMoves
  <1>4. ASSUME NEW k \in Keys, GetMiss(c, k) \/ ExistsMiss(c, k)
        PROVE  PlaceInv'
    <2>1. PICK l \in {"recheck", "done"} : pc' = [pc EXCEPT ![c] = l]
      BY Zenon, <1>4 DEF GetMiss, ExistsMiss, Goto, Return
    <2>2. key' = [key EXCEPT ![c] = k] /\ it' = it /\ cacheLock' = cacheLock
      BY Zenon, <1>4 DEF GetMiss, ExistsMiss, lockVars
    <2>3. \A d \in Calls : d # c => key'[d] = key[d] /\ it'[d] = it[d]
      BY Zenon, <2>2, <1>t
    <2>4. /\ l \notin Setting /\ l # "exit" /\ l \notin {"new", "set"} /\ pc[c] # "set"
          /\ l \notin Holding
      BY Zenon, <1>1 DEF Setting, Holding
    <2> QED
      BY Zenon, <2>1, <2>2, <2>3, <2>4, <1>1, <1>2, PlaceMoves
  <1>5. ASSUME RecheckHit(c)
        PROVE  PlaceInv'
    <2>1. /\ pc' = [pc EXCEPT ![c] = "rlock"] /\ it' = [it EXCEPT ![c] = store[key[c]]]
          /\ key' = key /\ cacheLock' = cacheLock
      BY Zenon, <1>5 DEF RecheckHit, Goto, lockVars
    <2>2. it'[c] = store[key[c]] /\ \A d \in Calls : d # c => it'[d] = it[d]
      BY Zenon, <2>1, <1>t
    <2>3. pc[c] # "set" /\ "rlock" \notin Setting
      BY Zenon, <1>1 DEF Setting
    <2> QED
      BY Zenon, <2>1, <2>2, <2>3, <1>1, <1>2, PlaceMoves
  <1>6. ASSUME RecheckMiss(c)
        PROVE  PlaceInv'
    <2>1. /\ pc' = [pc EXCEPT ![c] = "new"] /\ store[key[c]] = None
          /\ cacheLock = None /\ cacheLock' = c /\ key' = key /\ it' = it
      BY Zenon, <1>6 DEF RecheckMiss, Goto
    <2>2. pc[c] # "set" /\ "new" \notin Holding
      BY Zenon, <1>1 DEF Holding
    <2> QED
      BY Zenon, <2>1, <2>2, <1>1, <1>2, PlaceMoves
  <1> QED
    BY Zenon, <1>3, <1>4, <1>5, <1>6

(* A call creates the item, sets it and waits until it is in the store. *)
LEMMA SetPlaceInv ==
  ASSUME Calm, TypeInv, PlaceInv, NEW c \in Calls,
         NewItem(c) \/ SetQueued(c) \/ WaitForSet(c)
  PROVE  PlaceInv'
  <1>t. /\ pc \in [Calls -> PCs] /\ file \in [Calls -> {"none", "open", "nil"}]
        /\ it \in [Calls -> Calls \cup {None}] /\ setBuf \in Seq(Calls)
        /\ \A i \in Calls : file[i] # "none" => pc[i] \notin NoItemYet
    BY Zenon, CalmTypes
  <1>1. ASSUME NewItem(c)
        PROVE  PlaceInv'
    <2>1. /\ pc[c] = "new" /\ pc' = [pc EXCEPT ![c] = "set"]
          /\ file' = [file EXCEPT ![c] = "open"] /\ it' = [it EXCEPT ![c] = c]
          /\ UNCHANGED <<store, setBuf, dropping, cacheLock, key>>
      BY Zenon, <1>1 DEF NewItem, Goto, storeVars, lockVars
    <2>2. /\ pc'[c] = "set" /\ file'[c] = "open"
          /\ \A d \in Calls : d # c => pc'[d] = pc[d] /\ file'[d] = file[d] /\ it'[d] = it[d]
      BY Zenon, <2>1, <1>t
    <2>3. \A i : InBuf(i)' <=> InBuf(i)
      BY Zenon, <2>1 DEF InBuf
    <2>4. \A i : ~InBuf(i)
      BY Zenon, <2>1, SetAlone
    <2>5. LockHeld'
      BY Zenon, <2>1, <2>2 DEF PlaceInv, LockHeld, Setting
    <2>6. BufWaits'
      BY Zenon, <2>1, <2>3, <2>4 DEF BufWaits, PlaceInv
    <2>7. NotStoredYet'
      BY Zenon, <2>1, <2>2, <2>3, <2>4 DEF PlaceInv, NotStoredYet
    <2>8. NothingDropped'
      BY Zenon, <2>1, <2>2 DEF PlaceInv, NothingDropped
    <2>9. OpenPlaced'
      BY Zenon, <2>1, <2>2, <2>3 DEF PlaceInv, OpenPlaced
    <2>10. HoldsStored'
      BY Zenon, <2>1, <2>2 DEF PlaceInv, HoldsStored, Holding
    <2> QED
      BY Zenon, <2>5, <2>6, <2>7, <2>8, <2>9, <2>10 DEF PlaceInv
  <1>2. ASSUME SetQueued(c)
        PROVE  PlaceInv'
    <2>1. /\ pc[c] = "set" /\ pc' = [pc EXCEPT ![c] = "wait"] /\ store[key[c]] = None
          /\ setBuf' = Append(setBuf, c)
          /\ UNCHANGED <<store, dropping, cacheLock, file, key, it>>
      BY Zenon, <1>2 DEF SetQueued, Goto, lockVars, itemVars
    <2>2. pc'[c] = "wait" /\ \A d \in Calls : d # c => pc'[d] = pc[d]
      BY Zenon, <2>1, <1>t
    <2>3. setBuf = << >> /\ \A i : ~InBuf(i)
      BY Zenon, <2>1, SetAlone
    <2>4. \A i : InBuf(i)' <=> i = c
      BY Zenon, <2>1, <2>3, <1>t, AppendElements DEF InBuf
    <2>l. Len(setBuf') = 1
      BY <2>1, <2>3
    <2>5. LockHeld'
      BY Zenon, <2>1, <2>2 DEF PlaceInv, LockHeld, Setting
    <2>6. BufWaits'
      BY <2>2, <2>4, <2>l DEF BufWaits
    <2>7. NotStoredYet'
      BY Zenon, <2>1, <2>2, <2>4 DEF PlaceInv, NotStoredYet
    <2>8. NothingDropped'
      BY Zenon, <2>1, <2>2 DEF PlaceInv, NothingDropped
    <2>9. OpenPlaced'
      BY Zenon, <2>1, <2>2, <2>3, <2>4 DEF PlaceInv, OpenPlaced
    <2>10. HoldsStored'
      BY Zenon, <2>1, <2>2 DEF PlaceInv, HoldsStored, Holding
    <2> QED
      BY Zenon, <2>5, <2>6, <2>7, <2>8, <2>9, <2>10 DEF PlaceInv
  <1>3. ASSUME WaitForSet(c)
        PROVE  PlaceInv'
    <2>1. /\ pc[c] = "wait" /\ pc' = [pc EXCEPT ![c] = "rlock"] /\ ~InBuf(c)
          /\ UNCHANGED <<store, setBuf, dropping, file, key, it>>
      BY Zenon, <1>3 DEF WaitForSet, Waited, Calm, Goto, storeVars, itemVars
    <2>2. it[c] = c /\ file[c] # "none"
      BY Zenon, <2>1 DEF TypeInv, WellFormed, CreatingSet, Creating
    <2>3. file[c] = "open"
      BY Zenon, <2>2, <1>t DEF PlaceInv, NothingDropped
    <2>4. store[key[c]] = it[c]
      BY Zenon, <2>1, <2>2, <2>3 DEF PlaceInv, OpenPlaced
    <2>5. pc[c] \in Setting /\ "rlock" \notin Setting
      BY Zenon, <2>1 DEF Setting
    <2> QED
      BY Zenon, <2>1, <2>4, <2>5, PlaceMoves
  <1> QED
    BY Zenon, <1>1, <1>2, <1>3

(* The policy goroutine puts the item of the waiting call in the store. *)
LEMMA AdmitPlaceInv ==
  ASSUME TypeInv, PlaceInv, Admit
  PROVE  PlaceInv'
  <1> DEFINE h == Head(setBuf)
  <1>t. /\ store \in [Keys -> Calls \cup {None}] /\ setBuf \in Seq(Calls)
        /\ \A c \in Calls : pc[c] # "start" => key[c] \in Keys
        /\ \A i \in Calls : file[i] # "none" => key[i] \in Keys
        /\ \A c \in Calls : pc[c] \in Holding => it[c] \in Calls
        /\ None \notin Calls
    BY Zenon, CalmTypes
  <1>1. /\ setBuf # << >> /\ store[key[h]] = None
        /\ store' = [store EXCEPT ![key[h]] = h] /\ setBuf' = Tail(setBuf)
        /\ UNCHANGED <<dropping, cacheLock, file, pc, key, it>>
    BY Zenon DEF Admit, PolicyIdle, AfterHead, lockVars, itemVars, callVars
  <1>2. /\ h \in Calls /\ InBuf(h) /\ key[h] \in Keys
        /\ \A i : InBuf(i)' => InBuf(i)
        /\ \A i : InBuf(i) => InBuf(i)' \/ i = h
    BY Zenon, <1>1, <1>t, HeadFacts, TailElements DEF InBuf
  <1> HIDE DEF h
  <1>3. pc[h] = "wait" /\ cacheLock = h
    BY Zenon, <1>2 DEF PlaceInv, BufWaits, LockHeld, Setting
  <1>4. store'[key[h]] = h /\ \A k \in Keys : k # key[h] => store'[k] = store[k]
    BY Zenon, <1>1, <1>2, <1>t
  <1>d. Len(setBuf') <= 1 /\ \A i : ~InBuf(i)'
    <2>1. Len(setBuf) <= 1 /\ Len(setBuf') = Len(setBuf) - 1 /\ Len(setBuf) \in Nat
      BY <1>1, <1>t DEF PlaceInv, BufWaits
    <2> QED
      BY <2>1 DEF InBuf, InSeq
  <1>5. LockHeld' /\ BufWaits' /\ NothingDropped'
    BY Zenon, <1>1, <1>2, <1>d DEF PlaceInv, LockHeld, BufWaits, NothingDropped
  <1>6. NotStoredYet'
    <2>1. \A c \in Calls : pc[c] \notin {"new", "set"}
      BY Zenon, <1>3 DEF PlaceInv, LockHeld, Setting
    <2> QED
      BY Zenon, <2>1, <1>1, <1>d DEF NotStoredYet
  <1>7. OpenPlaced'
    BY Zenon, <1>1, <1>2, <1>4, <1>t DEF PlaceInv, OpenPlaced
  <1>8. HoldsStored'
    BY <1>1, <1>4, <1>t DEF PlaceInv, HoldsStored, Holding
  <1> QED
    BY Zenon, <1>5, <1>6, <1>7, <1>8 DEF PlaceInv

(* Every step of calm weather keeps items where they belong. *)
LEMMA NextPlaceInv ==
  ASSUME Calm, TypeInv, PlaceInv, [CalmNext]_vars
  PROVE  PlaceInv'
  <1>1. ASSUME NEW c \in Calls, CalmStep(c)
        PROVE  PlaceInv'
    <2>1. CASE \/ \E k \in Keys : GetHit(c, k) \/ GetMiss(c, k) \/ ExistsMiss(c, k) \/ ExistsHit(c, k)
               \/ RecheckHit(c) \/ RecheckMiss(c)
      BY Zenon, <2>1, LookupPlaceInv
    <2>2. CASE NewItem(c) \/ SetQueued(c) \/ WaitForSet(c)
      BY Zenon, <2>2, SetPlaceInv
    <2>3. CASE \/ StatMatches(c) \/ StatDiffers(c) \/ RestatMatches(c) \/ RestatDiffers(c)
               \/ FetchSucceeds(c) \/ Truncate(c) \/ Relock(c) \/ BytesStat(c)
      <3>1. /\ pc[c] \in Holding /\ \E l \in Holding : pc' = [pc EXCEPT ![c] = l]
            /\ UNCHANGED <<store, setBuf, dropping, file, cacheLock, key, it>>
        BY Zenon, <2>3 DEF StatMatches, StatDiffers, RestatMatches, RestatDiffers, FetchSucceeds,
                    Truncate, Relock, BytesStat, Goto, storeVars, lockVars, itemVars, Holding
      <3> QED
        BY Zenon, <3>1, HoldingMoves
    <2>4. CASE Write(c) \/ FetchFails(c) \/ Pread(c) \/ ExistsStat(c)
      <3>1. /\ pc[c] \in Holding /\ \E l \in Holding \cup {"done"} : pc' = [pc EXCEPT ![c] = l]
            /\ UNCHANGED <<store, setBuf, dropping, file, cacheLock, key, it>>
        BY Zenon, <2>4 DEF Write, FetchFails, Pread, ExistsStat, Goto, Return, storeVars, lockVars,
                    itemVars, Holding
      <3> QED
        BY Zenon, <3>1, HoldingMoves
    <2> QED
      BY Zenon, <1>1, <2>1, <2>2, <2>3, <2>4 DEF CalmStep
  <1>2. CASE Admit
    BY Zenon, <1>2, AdmitPlaceInv
  <1>3. CASE UNCHANGED vars
    <2>1. UNCHANGED <<store, setBuf, dropping, file, cacheLock, key, it, pc>>
      BY Zenon, <1>3 DEF vars, storeVars, lockVars, itemVars, callVars
    <2>2. \A i : InBuf(i)' <=> InBuf(i)
      BY Zenon, <2>1 DEF InBuf
    <2> QED
      BY Zenon, <2>1, <2>2 DEF PlaceInv, LockHeld, BufWaits, NotStoredYet, NothingDropped, OpenPlaced,
                        HoldsStored
  <1> QED
    BY Zenon, <1>1, <1>2, <1>3 DEF CalmNext

-----------------------------------------------------------------------------
(***************************************************************************)
(* A key has one open item, and an open item has its file to itself.       *)
(***************************************************************************)
LEMMA DiskTypes ==
  ASSUME TypeInv
  PROVE  /\ inode \in [Calls -> Inodes \cup {None}] /\ pos \in [Calls -> Nat]
         /\ content \in [Inodes -> Seq(Bytes)] /\ dir \in [Keys -> Inodes \cup {None}]
         /\ size \in [Calls -> Nat] /\ res \in [Calls -> Results]
         /\ got \in [Calls -> Seq(Bytes)]
         /\ Calls \subseteq Inodes /\ Keys \subseteq Inodes
  BY Zenon DEF TypeInv, TypeOK, ItemTypeOK, DiskTypeOK, CallTypeOK, Inodes

LEMMA OneItem ==
  ASSUME TypeInv, PlaceInv, NEW i \in Calls, NEW j \in Calls,
         file[i] = "open", file[j] = "open", key[i] = key[j]
  PROVE  i = j
  <1>1. None \notin Calls
    BY Zenon, CalmTypes
  <1>2. ASSUME NEW d \in Calls, pc[d] = "set" \/ InBuf(d)
        PROVE  store[key[d]] = None /\ cacheLock = d
    BY Zenon, <1>2 DEF PlaceInv, NotStoredYet, BufWaits, LockHeld, Setting
  <1> QED
    BY Zenon, <1>1, <1>2 DEF PlaceInv, OpenPlaced

LEMMA OwnInode ==
  ASSUME TypeInv, PlaceInv, DiskInv, NEW i \in Calls, file[i] = "open"
  PROVE  /\ inode[i] \in {i, key[i]} /\ inode[i] \in Inodes /\ key[i] \in Keys
         /\ \A j \in Calls : j # i => inode[i] # j
         /\ \A j \in Calls : j # i /\ file[j] = "open" => inode[i] # inode[j]
         /\ \A k \in Keys : k # key[i] => inode[i] # k
  <1>1. /\ \A j \in Calls : file[j] = "open" => inode[j] \in {j, key[j]} /\ key[j] \in Keys
        /\ Calls \cap Keys = {}
    BY Zenon, CalmTypes DEF DiskInv, OwnFiles
  <1>2. \A j \in Calls : j # i /\ file[j] = "open" => key[i] # key[j]
    BY Zenon, OneItem
  <1> QED
    BY Zenon, <1>1, <1>2, DiskTypes

(* An item that a call works on is open. *)
LEMMA HeldOpen ==
  ASSUME TypeInv, PlaceInv, NEW c \in Calls, pc[c] \in Holding
  PROVE  it[c] \in Calls /\ file[it[c]] = "open" /\ key[it[c]] = key[c] /\ key[c] \in Keys
  <1>1. it[c] \in Calls /\ file[it[c]] # "none" /\ key[it[c]] = key[c] /\ key[c] \in Keys
    BY Zenon DEF TypeInv, WellFormed, HoldingSet, KeysSet, Holding
  <1> QED
    BY Zenon, <1>1, CalmTypes DEF PlaceInv, NothingDropped

(* A file has the length of a chunk when it holds the chunk. *)
LEMMA CompleteIsChunk ==
  ASSUME TypeInv, PlaceInv, DiskInv, NEW i \in Calls, file[i] = "open"
  PROVE  (Size(i) = ChunkLen) <=> Data(i) = Chunk(key[i])
  <1>1. inode[i] \in {i, key[i]} /\ key[i] \in Keys
    BY Zenon, OwnInode
  <1>2. Len(Chunk(key[i])) = ChunkLen
    BY <1>1, PrefixType, ConstantsAssumption DEF Chunk
  <1>3. CASE inode[i] = i
    <2>1. Data(i) \in {<< >>, Chunk(key[i])}
      BY Zenon, <1>3 DEF Data, DiskInv, OwnFiles
    <2>2. Len(<< >>) = 0 /\ ChunkLen # 0
      BY Zenon, ConstantsAssumption
    <2> QED
      BY Zenon, <1>2, <2>1, <2>2 DEF Size, Data
  <1>4. CASE inode[i] = key[i]
    <2>1. PICK n \in 0 .. ChunkLen : Data(i) = Prefix(key[i], n)
      BY Zenon, <1>1, <1>4 DEF Data, DiskInv, LeftFiles
    <2>2. Len(Data(i)) = n
      BY Zenon, <1>1, <2>1, PrefixType
    <2> QED
      BY Zenon, <1>2, <2>1, <2>2 DEF Size, Data, Chunk
  <1> QED
    BY Zenon, <1>1, <1>3, <1>4

(* An empty file does not hold a chunk. *)
LEMMA EmptyIsNotChunk ==
  ASSUME NEW k \in Keys
  PROVE  << >> # Chunk(k) /\ Prefix(k, 0) = << >>
  <1>1. Len(Chunk(k)) = ChunkLen /\ Prefix(k, 0) \in Seq(Bytes) /\ Len(Prefix(k, 0)) = 0
    BY PrefixType, ConstantsAssumption DEF Chunk
  <1>2. Len(<< >>) = 0 /\ ChunkLen # 0
    BY Zenon, ConstantsAssumption
  <1> QED
    BY <1>1, <1>2

-----------------------------------------------------------------------------
(***************************************************************************)
(* What is on disk stays as DiskInv says.                                  *)
(***************************************************************************)

(* The files left behind are prefixes of their chunks, the others empty. *)
LEMMA InitCalmInv == Init => CalmInv
  <1> SUFFICES ASSUME Init
               PROVE  CalmInv
    BY Zenon
  <1>1. /\ store = [k \in Keys |-> None] /\ setBuf = << >>
        /\ dropping = [g \in Goroutines |-> None]
        /\ file = [i \in Calls |-> "none"] /\ pc = [c \in Calls |-> "start"]
        /\ key = [c \in Calls |-> None] /\ res = [c \in Calls |-> "none"]
        /\ pos = [i \in Calls |-> 0]
    BY Zenon DEF Init
  <1>2. PICK left \in [Keys -> 0 .. ChunkLen] :
          /\ content = [i \in Inodes |-> IF i \in Keys THEN Prefix(i, left[i]) ELSE << >>]
          /\ dir = [k \in Keys |-> IF left[k] = 0 THEN None ELSE k]
    BY Zenon DEF Init
  <1>3. Len(setBuf) <= 1 /\ \A i : ~InBuf(i)
    BY <1>1 DEF InBuf, InSeq
  <1>4. PlaceInv
    BY Zenon, <1>1, <1>3 DEF PlaceInv, LockHeld, BufWaits, NotStoredYet, NothingDropped, OpenPlaced,
                      HoldsStored, Holding, Setting
  <1>5. \A k \in Keys : content[k] = Prefix(k, left[k]) /\ left[k] \in 0 .. ChunkLen
    BY Zenon, <1>2 DEF Inodes
  <1>6. \A i \in Calls : content[i] = << >>
    BY Zenon, <1>2, ConstantsAssumption DEF Inodes
  <1>7. \A k \in Keys : dir[k] \in {k, None}
    BY Zenon, <1>2
  <1>8. DiskInv
    BY Zenon, <1>1, <1>5, <1>6, <1>7 DEF DiskInv, PathsKept, LeftFiles, FreshItems, OwnFiles,
                                  FillsMissing, ReadsWhole
  <1>9. AnswerInv
    BY Zenon, <1>1 DEF AnswerInv, NotAnswered, Integrity, NoPanic
  <1> QED
    BY Zenon, <1>4, <1>8, <1>9 DEF CalmInv

(* Nothing is created, truncated or written, and the calls stay. *)
LEMMA DiskFrame ==
  ASSUME DiskInv, UNCHANGED <<pc, key, it, size, file, inode, pos, content, dir>>,
         \A i : InBuf(i)' => InBuf(i)
  PROVE  DiskInv'
  <1>1. (\A i : Data(i)' = Data(i)) /\ \A k : HasItem(k)' <=> HasItem(k)
    BY Zenon DEF Data, HasItem
  <1>2. PathsKept' /\ LeftFiles' /\ FreshItems'
    BY Zenon, <1>1 DEF DiskInv, PathsKept, LeftFiles, FreshItems
  <1>3. OwnFiles'
    BY Zenon, <1>1 DEF DiskInv, OwnFiles
  <1>4. FillsMissing' /\ ReadsWhole'
    BY Zenon, <1>1 DEF DiskInv, FillsMissing, ReadsWhole
  <1> QED
    BY Zenon, <1>2, <1>3, <1>4 DEF DiskInv

(* A step of the call c that creates, truncates and writes nothing. *)
LEMMA DiskMoves ==
  ASSUME TypeInv, PlaceInv, DiskInv, NEW c \in Calls, NEW l,
         pc' = [pc EXCEPT ![c] = l], UNCHANGED <<file, inode, pos, content>>,
         \A k \in Keys : dir'[k] = dir[k] \/ dir'[k] = None,
         \A d \in Calls : d # c => key'[d] = key[d] /\ it'[d] = it[d] /\ size'[d] = size[d],
         \A i \in Calls : file[i] = "open" => key'[i] = key[i],
         \A i \in Calls : InBuf(i)' => InBuf(i) \/ pc[i] = "set",
         l \notin {"set", "write"},
         l \in Filling => Data(it'[c]) # Chunk(key'[c]),
         l \in Reading \cup {"relock"} => Data(it'[c]) = Chunk(key'[c]),
         l = "pread" => size'[c] = ChunkLen
  PROVE  DiskInv'
  <1>1. pc'[c] = l /\ \A d \in Calls : d # c => pc'[d] = pc[d]
    BY Zenon, CalmTypes
  <1>2. \A i : Data(i)' = content[inode[i]]
    BY Zenon DEF Data
  <1>3. \A k : HasItem(k)' <=> HasItem(k)
    BY Zenon DEF HasItem
  <1>4. PathsKept' /\ LeftFiles' /\ FreshItems'
    BY Zenon, <1>3 DEF DiskInv, PathsKept, LeftFiles, FreshItems
  <1>5. OwnFiles'
    BY <1>1, <1>2 DEF DiskInv, OwnFiles, Data
  <1>6. FillsMissing'
    BY <1>1, <1>2 DEF DiskInv, FillsMissing, Data
  <1>7. ReadsWhole'
    BY <1>1, <1>2 DEF DiskInv, ReadsWhole, Data
  <1> QED
    BY Zenon, <1>4, <1>5, <1>6, <1>7 DEF DiskInv

(* newItem is called for a key that has no open item. *)
LEMMA NewItemIsFirst ==
  ASSUME TypeInv, PlaceInv, NEW c \in Calls, pc[c] = "new"
  PROVE  ~HasItem(key[c])
  <1> SUFFICES ASSUME NEW i \in Calls, file[i] = "open", key[i] = key[c]
               PROVE  FALSE
    BY Zenon DEF HasItem
  <1>1. cacheLock = c /\ store[key[i]] = None
    BY Zenon DEF PlaceInv, LockHeld, NotStoredYet, Setting
  <1>2. pc[i] = "set" \/ InBuf(i)
    BY Zenon, <1>1, CalmTypes DEF PlaceInv, OpenPlaced
  <1>3. cacheLock = i /\ pc[i] # "new"
    BY Zenon, <1>2 DEF PlaceInv, BufWaits, LockHeld, Setting
  <1> QED
    BY Zenon, <1>1, <1>3

(* newItem opens the file left at the path, or creates an empty one. *)
LEMMA NewItemDiskInv ==
  ASSUME TypeInv, PlaceInv, DiskInv, NEW c \in Calls, NewItem(c)
  PROVE  DiskInv'
  <1> DEFINE k == key[c]
             ino == IF dir[k] = None THEN c ELSE dir[k]
  <1>t. /\ pc \in [Calls -> PCs] /\ it \in [Calls -> Calls \cup {None}]
        /\ file \in [Calls -> {"none", "open", "nil"}]
        /\ inode \in [Calls -> Inodes \cup {None}] /\ dir \in [Keys -> Inodes \cup {None}]
    BY Zenon, CalmTypes, DiskTypes
  <1>1. /\ pc[c] = "new" /\ pc' = [pc EXCEPT ![c] = "set"]
        /\ file' = [file EXCEPT ![c] = "open"] /\ it' = [it EXCEPT ![c] = c]
        /\ dir' = [dir EXCEPT ![k] = ino] /\ inode' = [inode EXCEPT ![c] = ino]
        /\ UNCHANGED <<setBuf, pos, content, key, size>>
    BY Zenon DEF NewItem, Goto, storeVars
  <1>2. k \in Keys /\ file[c] = "none"
    BY Zenon, <1>1, CalmTypes DEF NoItemYet
  <1>3. ~HasItem(k)
    BY Zenon, <1>1, NewItemIsFirst
  <1>4. ino \in {c, k}
    BY Zenon, <1>2, <1>3 DEF DiskInv, PathsKept
  <1> HIDE DEF ino
  <1>5. /\ pc'[c] = "set" /\ file'[c] = "open" /\ inode'[c] = ino
        /\ \A d \in Calls : d # c => /\ pc'[d] = pc[d] /\ file'[d] = file[d]
                                     /\ it'[d] = it[d] /\ inode'[d] = inode[d]
        /\ \A q \in Keys : q # k => dir'[q] = dir[q]
    BY Zenon, <1>1, <1>2, <1>t
  <1>6. PathsKept'
    <2>1. \A q \in Keys : q = k => HasItem(q)'
      BY Zenon, <1>1, <1>5 DEF HasItem
    <2>2. \A q \in Keys : q # k => (HasItem(q)' <=> HasItem(q))
      <3>1. \A q \in Keys : \A i \in Calls :
              q # k => ((file'[i] = "open" /\ key'[i] = q) <=> (file[i] = "open" /\ key[i] = q))
        BY Zenon, <1>1, <1>5
      <3> QED
        BY Zenon, <3>1 DEF HasItem
    <2> QED
      BY Zenon, <1>5, <2>1, <2>2 DEF DiskInv, PathsKept
  <1>7. LeftFiles' /\ FreshItems'
    BY Zenon, <1>1, <1>5 DEF DiskInv, LeftFiles, FreshItems
  <1>8. \A d \in Calls : d # c => Data(d)' = Data(d)
    BY Zenon, <1>1, <1>5 DEF Data
  <1>9. OwnFiles'
    <2>1. \A i : InBuf(i)' <=> InBuf(i)
      BY Zenon, <1>1 DEF InBuf
    <2>2. content[c] = << >> /\ pos[c] = 0
      BY Zenon, <1>2 DEF DiskInv, FreshItems
    <2> QED
      BY <1>1, <1>4, <1>5, <1>8, <2>1, <2>2 DEF DiskInv, OwnFiles
  <1>10. \A d \in Calls : pc[d] \in Holding => it[d] \in Calls /\ it[d] # c
    BY Zenon, <1>2, HeldOpen
  <1>11. \A d \in Calls : pc'[d] \in Holding => d # c
    BY Zenon, <1>5 DEF Holding
  <1>12. FillsMissing' /\ ReadsWhole'
    BY <1>1, <1>5, <1>8, <1>10, <1>11 DEF DiskInv, FillsMissing, ReadsWhole, Holding
  <1> QED
    BY Zenon, <1>6, <1>7, <1>9, <1>12 DEF DiskInv

(* item.fill truncates the file of its item and writes the chunk to it:
   nobody else fills or reads that file. *)
LEMMA FillDiskInv ==
  ASSUME TypeInv, LockInv, PlaceInv, DiskInv, NEW c \in Calls, pc[c] \in Filling, NEW x, NEW l,
         (l = "write" /\ x = << >>) \/ (l = "relock" /\ x = Chunk(key[c])),
         pc' = [pc EXCEPT ![c] = l], content' = [content EXCEPT ![inode[it[c]]] = x],
         \A j \in Calls : j # it[c] => pos'[j] = pos[j],
         l = "write" => pos'[it[c]] = pos[it[c]],
         UNCHANGED <<file, inode, dir, setBuf, key, it, size>>
  PROVE  DiskInv'
  <1>i. PICK i \in Calls : i = it[c]
    BY Zenon, HeldOpen DEF Holding
  <1>1. file[i] = "open" /\ key[i] = key[c] /\ key[c] \in Keys
    BY Zenon, <1>i, HeldOpen DEF Holding
  <1>2. /\ inode[i] \in {i, key[i]} /\ inode[i] \in Inodes
        /\ \A j \in Calls : j # i => inode[i] # j
        /\ \A j \in Calls : j # i /\ file[j] = "open" => inode[i] # inode[j]
        /\ \A k \in Keys : k # key[i] => inode[i] # k
    BY Zenon, <1>1, OwnInode
  <1>3. /\ content'[inode[i]] = x
        /\ \A n \in Inodes : n # inode[i] => content'[n] = content[n]
    BY Zenon, <1>i, <1>2, DiskTypes
  <1>4. pc'[c] = l /\ \A d \in Calls : d # c => pc'[d] = pc[d]
    BY Zenon, CalmTypes
  <1>5. Data(i)' = x
    BY Zenon, <1>3 DEF Data
  <1>6. \A j \in Calls : j # i /\ file[j] = "open" => Data(j)' = Data(j)
    <2> SUFFICES ASSUME NEW j \in Calls, j # i, file[j] = "open"
                 PROVE  Data(j)' = Data(j)
      BY Zenon
    <2>1. inode[j] \in Inodes
      BY Zenon, OwnInode
    <2> QED
      BY Zenon, <1>2, <1>3, <2>1 DEF Data
  <1>7. \A j \in Calls : content'[j] = content[j] \/ (j = i /\ content'[j] = x)
    BY Zenon, <1>2, <1>3, DiskTypes
  <1>8. x \in {<< >>, Chunk(key[i])} /\ (x # Chunk(key[i]) => l = "write" /\ x = << >>)
    BY Zenon, <1>1
  <1>9. Data(i) # Chunk(key[i]) /\ pos[i] = 0
    <2>1. Data(i) # Chunk(key[i])
      BY Zenon, <1>i, <1>1 DEF DiskInv, FillsMissing
    <2> QED
      BY Zenon, <1>1, <2>1 DEF DiskInv, OwnFiles
  <1>10. PathsKept'
    <2>1. \A k : HasItem(k)' <=> HasItem(k)
      BY Zenon DEF HasItem
    <2> QED
      BY Zenon, <2>1 DEF DiskInv, PathsKept
  <1>11. LeftFiles'
    <2> SUFFICES ASSUME NEW k \in Keys
                 PROVE  \E n \in 0 .. ChunkLen : content'[k] = Prefix(k, n)
      BY Zenon DEF LeftFiles
    <2>1. CASE k # inode[i]
      BY <2>1, <1>3, DiskTypes DEF DiskInv, LeftFiles
    <2>2. CASE k = inode[i]
      <3>1. k = key[c] /\ content'[k] = x
        BY Zenon, <2>2, <1>1, <1>2, <1>3
      <3>2. x = Prefix(k, 0) \/ x = Prefix(k, ChunkLen)
        BY Zenon, <3>1, EmptyIsNotChunk DEF Chunk
      <3> QED
        BY <3>1, <3>2, ConstantsAssumption
    <2> QED
      BY Zenon, <2>1, <2>2
  <1>12. FreshItems'
    BY Zenon, <1>i, <1>1, <1>7 DEF DiskInv, FreshItems
  <1>13. OwnFiles'
    <2>1. \A j : InBuf(j)' <=> InBuf(j)
      BY Zenon DEF InBuf
    <2>2. pc[i] # "set" /\ ~InBuf(i) /\ pc'[i] # "set"
      <3>1. store[key[i]] = i /\ None \notin Calls
        BY Zenon, <1>i, <1>1, CalmTypes DEF PlaceInv, HoldsStored, Holding
      <3> QED
        BY Zenon, <3>1, <1>1, <1>4 DEF PlaceInv, NotStoredYet
    <2>3. \A j \in Calls : pc'[j] = "set" => pc[j] = "set"
      BY Zenon, <1>4
    <2>4. x # Chunk(key[i]) => pos'[i] = 0
      BY Zenon, <1>i, <1>8, <1>9
    <2>5. ASSUME NEW j \in Calls, file[j] = "open"
          PROVE  /\ inode[j] \in {j, key[j]}
                 /\ content'[j] \in {<< >>, Chunk(key[j])}
                 /\ pc'[j] = "set" \/ InBuf(j) => content'[j] = << >>
                 /\ Data(j)' # Chunk(key[j]) => pos'[j] = 0
      <3>1. CASE j = i
        <4>1. content[i] \in {<< >>, Chunk(key[i])}
          BY Zenon, <1>1 DEF DiskInv, OwnFiles
        <4> QED
          BY Zenon, <3>1, <4>1, <1>2, <1>5, <1>7, <1>8, <2>2, <2>4
      <3>2. CASE j # i
        <4>1. /\ inode[j] \in {j, key[j]} /\ content[j] \in {<< >>, Chunk(key[j])}
              /\ pc[j] = "set" \/ InBuf(j) => content[j] = << >>
              /\ Data(j) # Chunk(key[j]) => pos[j] = 0
          BY Zenon, <2>5 DEF DiskInv, OwnFiles
        <4>2. content'[j] = content[j] /\ Data(j)' = Data(j) /\ pos'[j] = pos[j]
          BY Zenon, <1>i, <2>5, <3>2, <1>6, <1>7
        <4> QED
          BY Zenon, <4>1, <4>2, <2>3
      <3> QED
        BY Zenon, <3>1, <3>2
    <2> QED
      BY Zenon, <2>1, <2>5 DEF OwnFiles
  <1>14. FillsMissing'
    <2>1. \A d \in Calls : d # c /\ pc[d] \in Filling => it[d] # i
      BY Zenon, <1>i, <1>1 DEF LockInv, FillersLock
    <2>2. \A d \in Calls : pc[d] \in Filling => it[d] \in Calls /\ file[it[d]] = "open"
      BY Zenon, HeldOpen DEF Holding
    <2>3. << >> # Chunk(key[c])
      BY Zenon, <1>1, EmptyIsNotChunk
    <2> QED
      BY <1>i, <1>4, <1>5, <1>6, <2>1, <2>2, <2>3 DEF DiskInv, FillsMissing
  <1>15. ReadsWhole'
    <2>1. \A d \in Calls : pc[d] \in Reading \cup {"relock"} =>
            it[d] \in Calls /\ file[it[d]] = "open" /\ key[it[d]] = key[d]
      BY Zenon, HeldOpen DEF Holding
    <2>2. \A d \in Calls : pc[d] \in Reading \cup {"relock"} => it[d] # i
      BY <2>1, <1>9 DEF DiskInv, ReadsWhole
    <2>3. \A d \in Calls : d # c /\ pc[d] \in Reading \cup {"relock"} =>
            Data(it[d])' = Data(it[d])
      BY Zenon, <1>6, <2>1, <2>2
    <2>4. l = "relock" => Data(i)' = Chunk(key[c])
      BY Zenon, <1>5
    <2> QED
      BY Zenon, <1>i, <1>4, <2>3, <2>4 DEF DiskInv, ReadsWhole
  <1> QED
    BY Zenon, <1>10, <1>11, <1>12, <1>13, <1>14, <1>15 DEF DiskInv

(* A call looks for the item, or sets it and waits. *)
LEMMA LookupDiskInv ==
  ASSUME TypeInv, PlaceInv, DiskInv, NEW c \in Calls,
         \/ \E k \in Keys : GetHit(c, k) \/ GetMiss(c, k) \/ ExistsMiss(c, k) \/ ExistsHit(c, k)
         \/ RecheckHit(c) \/ RecheckMiss(c) \/ SetQueued(c) \/ WaitForSet(c)
  PROVE  DiskInv'
  <1>t. /\ key \in [Calls -> Keys \cup {None}] /\ it \in [Calls -> Calls \cup {None}]
        /\ setBuf \in Seq(Calls)
    BY Zenon, CalmTypes
  <1>1. PICK l \in {"rlock", "exists", "recheck", "new", "wait", "done"} :
          pc' = [pc EXCEPT ![c] = l]
    BY Zenon DEF GetHit, GetMiss, ExistsMiss, ExistsHit, RecheckHit, RecheckMiss, SetQueued, WaitForSet,
           Goto, Return
  <1>2. UNCHANGED <<file, inode, pos, content, dir, size>>
    BY Zenon DEF GetHit, GetMiss, ExistsMiss, ExistsHit, RecheckHit, RecheckMiss, SetQueued, WaitForSet,
           itemVars, diskVars
  <1>3. /\ key' = key \/ (pc[c] = "start" /\ \E k \in Keys : key' = [key EXCEPT ![c] = k])
        /\ it' = it \/ \E i : it' = [it EXCEPT ![c] = i]
    BY Zenon DEF GetHit, GetMiss, ExistsMiss, ExistsHit, RecheckHit, RecheckMiss, SetQueued, WaitForSet
  <1>4. \A d \in Calls : d # c => key'[d] = key[d] /\ it'[d] = it[d]
    BY Zenon, <1>3, <1>t
  <1>5. \A i \in Calls : file[i] = "open" => key'[i] = key[i]
    BY Zenon, <1>3, <1>4, CalmTypes DEF NoItemYet
  <1>6. \A i \in Calls : InBuf(i)' => InBuf(i) \/ pc[i] = "set"
    <2>1. setBuf' = setBuf \/ (pc[c] = "set" /\ setBuf' = Append(setBuf, c))
      BY Zenon DEF GetHit, GetMiss, ExistsMiss, ExistsHit, RecheckHit, RecheckMiss, SetQueued,
             WaitForSet, storeVars
    <2>2. \A i : InSeq(Append(setBuf, c), i) <=> InSeq(setBuf, i) \/ i = c
      BY Zenon, <1>t, AppendElements
    <2> QED
      BY Zenon, <2>1, <2>2 DEF InBuf
  <1> QED
    BY Zenon, <1>1, <1>2, <1>4, <1>5, <1>6, DiskMoves

(* A call looks at the size of its item's file, fetches and reads. *)
LEMMA HoldingDiskInv ==
  ASSUME TypeInv, PlaceInv, DiskInv, NEW c \in Calls,
         \/ StatMatches(c) \/ StatDiffers(c) \/ RestatMatches(c) \/ RestatDiffers(c)
         \/ FetchSucceeds(c) \/ FetchFails(c) \/ Relock(c) \/ BytesStat(c)
         \/ Pread(c) \/ ExistsStat(c)
  PROVE  DiskInv'
  <1>t. size \in [Calls -> Nat] /\ dir \in [Keys -> Inodes \cup {None}]
    BY Zenon, DiskTypes
  <1>1. pc[c] \in Holding
    BY Zenon DEF StatMatches, StatDiffers, RestatMatches, RestatDiffers, FetchSucceeds, FetchFails,
           Relock, BytesStat, Pread, ExistsStat, Holding
  <1>2. it[c] \in Calls /\ file[it[c]] = "open" /\ key[it[c]] = key[c] /\ key[c] \in Keys
    BY Zenon, <1>1, HeldOpen
  <1>3. (Size(it[c]) = ChunkLen) <=> Data(it[c]) = Chunk(key[c])
    BY Zenon, <1>2, CompleteIsChunk
  <1>4. UNCHANGED <<file, inode, pos, content, key, it, setBuf>>
    BY Zenon DEF StatMatches, StatDiffers, RestatMatches, RestatDiffers, FetchSucceeds, FetchFails,
           Relock, BytesStat, Pread, ExistsStat, itemVars, diskVars, storeVars
  <1>5. \A i \in Calls : InBuf(i)' => InBuf(i)
    BY Zenon, <1>4 DEF InBuf
  <1>6. /\ \A k \in Keys : dir'[k] = dir[k] \/ dir'[k] = None
        /\ \A d \in Calls : d # c => size'[d] = size[d]
    <2>1. dir' = dir \/ dir' = [dir EXCEPT ![key[c]] = None]
      BY Zenon DEF StatMatches, StatDiffers, RestatMatches, RestatDiffers, FetchSucceeds, FetchFails,
             Relock, BytesStat, Pread, ExistsStat, diskVars
    <2>2. size' = size \/ size' = [size EXCEPT ![c] = Size(it[c])]
      BY Zenon DEF StatMatches, StatDiffers, RestatMatches, RestatDiffers, FetchSucceeds, FetchFails,
             Relock, BytesStat, Pread, ExistsStat
    <2> QED
      BY Zenon, <2>1, <2>2, <1>t, <1>2
  <1> DEFINE Fine(l) == /\ l \notin {"set", "write"}
                        /\ l \in Filling => Data(it[c]) # Chunk(key[c])
                        /\ l \in Reading \cup {"relock"} => Data(it[c]) = Chunk(key[c])
                        /\ l = "pread" => size'[c] = ChunkLen
  <1>7. ASSUME NEW l, pc' = [pc EXCEPT ![c] = l], Fine(l)
        PROVE  DiskInv'
    BY Zenon, <1>4, <1>5, <1>6, <1>7, DiskMoves
  <1>8. CASE StatMatches(c)
    <2>1. pc' = [pc EXCEPT ![c] = "bytes"] /\ Fine("bytes")
      BY Zenon, <1>8, <1>3 DEF StatMatches, Complete, Goto
    <2> QED
      BY Zenon, <2>1, <1>7
  <1>9. CASE StatDiffers(c)
    <2>1. pc' = [pc EXCEPT ![c] = "wlock"] /\ Fine("wlock")
      BY Zenon, <1>9 DEF StatDiffers, Goto
    <2> QED
      BY Zenon, <2>1, <1>7
  <1>10. CASE RestatMatches(c)
    <2>1. pc' = [pc EXCEPT ![c] = "relock"] /\ Fine("relock")
      BY Zenon, <1>10, <1>3 DEF RestatMatches, NeedsFill, Goto
    <2> QED
      BY Zenon, <2>1, <1>7
  <1>11. CASE RestatDiffers(c)
    <2>1. pc' = [pc EXCEPT ![c] = "fetch"] /\ Fine("fetch")
      BY Zenon, <1>11, <1>3 DEF RestatDiffers, NeedsFill, Goto
    <2> QED
      BY Zenon, <2>1, <1>7
  <1>12. CASE FetchSucceeds(c)
    <2>1. pc' = [pc EXCEPT ![c] = "trunc"] /\ Fine("trunc")
      BY Zenon, <1>12 DEF FetchSucceeds, Goto, DiskInv, FillsMissing
    <2> QED
      BY Zenon, <2>1, <1>7
  <1>13. CASE FetchFails(c) \/ Pread(c) \/ ExistsStat(c)
    <2>1. pc' = [pc EXCEPT ![c] = "done"] /\ Fine("done")
      BY Zenon, <1>13 DEF FetchFails, Pread, ExistsStat, Return
    <2> QED
      BY Zenon, <2>1, <1>7
  <1>14. CASE Relock(c)
    <2>1. pc' = [pc EXCEPT ![c] = "bytes"] /\ Fine("bytes")
      BY Zenon, <1>14 DEF Relock, Goto, DiskInv, ReadsWhole
    <2> QED
      BY Zenon, <2>1, <1>7
  <1>15. CASE BytesStat(c)
    <2>1. Data(it[c]) = Chunk(key[c])
      BY Zenon, <1>15 DEF BytesStat, DiskInv, ReadsWhole
    <2>2. size'[c] = ChunkLen
      BY Zenon, <1>15, <2>1, <1>3, <1>t DEF BytesStat
    <2>3. pc' = [pc EXCEPT ![c] = "pread"] /\ Fine("pread")
      BY Zenon, <1>15, <2>1, <2>2 DEF BytesStat, Goto
    <2> QED
      BY Zenon, <2>3, <1>7
  <1> QED
    BY Zenon, <1>8, <1>9, <1>10, <1>11, <1>12, <1>13, <1>14, <1>15

(* The write of item.fill leaves the chunk in the file. *)
LEMMA WritesTheChunk ==
  ASSUME TypeInv, PlaceInv, DiskInv, NEW c \in Calls, Write(c)
  PROVE  content' = [content EXCEPT ![inode[it[c]]] = Chunk(key[c])]
  <1>1. pc[c] = "write" /\ WriteLen(c, ChunkLen)
    BY Zenon DEF Write
  <1>2. it[c] \in Calls /\ file[it[c]] = "open" /\ key[it[c]] = key[c] /\ key[c] \in Keys
    BY Zenon, <1>1, HeldOpen DEF Holding
  <1>3. Data(it[c]) = << >> /\ Data(it[c]) # Chunk(key[c])
    BY Zenon, <1>1 DEF DiskInv, FillsMissing
  <1>4. pos[it[c]] = 0
    BY Zenon, <1>2, <1>3 DEF DiskInv, OwnFiles
  <1> QED
    BY Zenon, <1>1, <1>2, <1>3, <1>4, WriteWholeChunk DEF WriteLen, Data

(* Every step of calm weather leaves on disk what DiskInv says. *)
LEMMA NextDiskInv ==
  ASSUME TypeInv, LockInv, PlaceInv, DiskInv, [CalmNext]_vars
  PROVE  DiskInv'
  <1>1. ASSUME NEW c \in Calls, CalmStep(c)
        PROVE  DiskInv'
    <2>1. CASE \/ \E k \in Keys : GetHit(c, k) \/ GetMiss(c, k) \/ ExistsMiss(c, k) \/ ExistsHit(c, k)
               \/ RecheckHit(c) \/ RecheckMiss(c) \/ SetQueued(c) \/ WaitForSet(c)
      BY Zenon, <2>1, LookupDiskInv
    <2>2. CASE NewItem(c)
      BY Zenon, <2>2, NewItemDiskInv
    <2>3. CASE \/ StatMatches(c) \/ StatDiffers(c) \/ RestatMatches(c) \/ RestatDiffers(c)
               \/ FetchSucceeds(c) \/ FetchFails(c) \/ Relock(c) \/ BytesStat(c)
               \/ Pread(c) \/ ExistsStat(c)
      BY Zenon, <2>3, HoldingDiskInv
    <2>4. CASE Truncate(c)
      <3>1. /\ pc[c] \in Filling /\ pc' = [pc EXCEPT ![c] = "write"]
            /\ content' = [content EXCEPT ![inode[it[c]]] = << >>]
            /\ UNCHANGED <<pos, file, inode, dir, setBuf, key, it, size>>
        BY Zenon, <2>4 DEF Truncate, Goto, itemVars, storeVars
      <3> QED
        BY Zenon, <3>1, FillDiskInv
    <2>5. CASE Write(c)
      <3>1. /\ pc[c] = "write" /\ pc' = [pc EXCEPT ![c] = "relock"] /\ WriteLen(c, ChunkLen)
            /\ UNCHANGED <<file, inode, dir, setBuf, key, it, size>>
        BY Zenon, <2>5 DEF Write, Goto, storeVars
      <3>4. content' = [content EXCEPT ![inode[it[c]]] = Chunk(key[c])]
        BY Zenon, <2>5, WritesTheChunk
      <3>5. \A j \in Calls : j # it[c] => pos'[j] = pos[j]
        BY Zenon, <3>1, DiskTypes DEF WriteLen
      <3> QED
        BY Zenon, <3>1, <3>4, <3>5, FillDiskInv
    <2> QED
      BY Zenon, <1>1, <2>1, <2>2, <2>3, <2>4, <2>5 DEF CalmStep
  <1>2. CASE Admit
    <2>1. setBuf' = Tail(setBuf) /\ setBuf # << >>
      BY Zenon, <1>2 DEF Admit, AfterHead, PolicyIdle
    <2>2. \A i : InBuf(i)' => InBuf(i)
      BY Zenon, <2>1, HeadFacts DEF InBuf
    <2>3. UNCHANGED <<pc, key, it, size, file, inode, pos, content, dir>>
      BY Zenon, <1>2 DEF Admit, itemVars, diskVars, callVars
    <2> QED
      BY Zenon, <2>2, <2>3, DiskFrame
  <1>3. CASE UNCHANGED vars
    <2>1. UNCHANGED <<setBuf, pc, key, it, size, file, inode, pos, content, dir>>
      BY Zenon, <1>3 DEF vars, storeVars, itemVars, diskVars, callVars
    <2>2. \A i : InBuf(i)' => InBuf(i)
      BY Zenon, <2>1 DEF InBuf
    <2> QED
      BY Zenon, <2>1, <2>2, DiskFrame
  <1> QED
    BY Zenon, <1>1, <1>2, <1>3 DEF CalmNext
=============================================================================
