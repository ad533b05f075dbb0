-------------------------- MODULE FileCacheImplements ------------------------
(***************************************************************************)
(* Proofs about FileCache in calm weather: GetOrCreate returns the chunk,  *)
(* no call panics, and FileCache implements ChunkCache.                    *)
(***************************************************************************)
EXTENDS FileCacheCalm, FileCacheRefinement, FiniteSetTheorems

USE DEF Filling, Reading

-----------------------------------------------------------------------------
(***************************************************************************)
(* The steps of calm weather.                                              *)
(***************************************************************************)

(* A key that is not in the store finds room: all the keys would fit. *)
LEMMA RoomForOneMore ==
  ASSUME Roomy, NEW k \in Keys, store[k] = None
  PROVE  Fits
  <1>1. IsFiniteSet(Keys \ {k}) /\ Cardinality(Keys \ {k}) = Cardinality(Keys) - 1
    BY Zenon, KeysFinite, FS_RemoveElement
  <1>2. Cached \subseteq Keys \ {k}
    BY Zenon DEF Cached
  <1>3. Cardinality(Cached) <= Cardinality(Keys \ {k})
    BY Zenon, <1>1, <1>2, FS_Subset
  <1>4. IsFiniteSet(Cached)
    BY Zenon, <1>1, <1>2, FS_Subset
  <1>5. Cardinality(Keys) \in Nat /\ Cardinality(Cached) \in Nat
    BY Zenon, <1>4, KeysFinite, FS_CardinalityType
  <1> QED
    BY <1>1, <1>3, <1>5, ConstantsAssumption DEF Roomy, Fits

(* Nothing fails, is refused, is evicted or is dropped. *)
LEMMA CalmSteps ==
  ASSUME Calm, TypeInv, PlaceInv, [Next]_vars
  PROVE  [CalmNext]_vars
  <1>1. ASSUME NEW c \in Calls
        PROVE  /\ ~NewItemFails(c) /\ ~TruncateFails(c) /\ ~WriteFails(c)
               /\ ~SetRefused(c) /\ ~SetReplaces(c)
               /\ ~StatFails(c) /\ ~RestatFails(c) /\ ~BytesPanics(c)
    <2>1. ~NewItemFails(c) /\ ~TruncateFails(c) /\ ~WriteFails(c)
      BY Zenon DEF Calm, NewItemFails, TruncateFails, WriteFails
    <2>2. ~SetRefused(c)
      <3> SUFFICES ASSUME pc[c] = "set" PROVE Len(setBuf) < SetBufSize
        BY CalmTypes, ConstantsAssumption DEF SetRefused
      <3>1. setBuf = << >>
        BY Zenon, SetAlone
      <3> QED
        BY <3>1, ConstantsAssumption
    <2>3. ~SetReplaces(c)
      BY Zenon DEF SetReplaces, PlaceInv, NotStoredYet
    <2>4. pc[c] \in {"rlock", "wlock", "bytes"} => file[it[c]] # "nil"
      <3>1. pc[c] \in {"rlock", "wlock", "bytes"} => pc[c] \in Holding
        BY Zenon DEF Holding
      <3> QED
        BY Zenon, <3>1, HoldingFacts DEF PlaceInv, NothingDropped
    <2>5. ~StatFails(c) /\ ~RestatFails(c) /\ ~BytesPanics(c)
      BY Zenon, <2>4 DEF StatFails, RestatFails, BytesPanics
    <2> QED
      BY Zenon, <2>1, <2>2, <2>3, <2>5
  <1>2. ~(\E k \in Keys : AdmitEvicting(k)) /\ ~Reject
    <2> SUFFICES ASSUME setBuf # << >>
                 PROVE  store[key[Head(setBuf)]] = None /\ Fits
      BY Zenon DEF AdmitEvicting, Reject, PolicyIdle
    <2>1. Head(setBuf) \in Calls /\ InBuf(Head(setBuf)) /\ key[Head(setBuf)] \in Keys
      BY Zenon, HeadFacts
    <2>2. store[key[Head(setBuf)]] = None
      BY Zenon, <2>1 DEF PlaceInv, NotStoredYet
    <2> QED
      BY Zenon, <2>1, <2>2, RoomForOneMore DEF Calm
  <1>3. ~\E g \in Goroutines : Drop(g)
    BY Zenon DEF Drop, PlaceInv, NothingDropped
  <1>4. ASSUME NEW c \in Calls, CallStep(c)
        PROVE  CalmStep(c)
    BY Zenon, <1>1, <1>4 DEF CallStep, CalmStep
  <1> QED
    BY Zenon, <1>2, <1>3, <1>4 DEF Next, CalmNext, PolicyStep, Quiet

-----------------------------------------------------------------------------
(***************************************************************************)
(* What GetOrCreate answers.                                               *)
(***************************************************************************)
LEMMA AnswerMoves ==
  ASSUME TypeInv, AnswerInv, NEW c \in Calls, NEW l, pc' = [pc EXCEPT ![c] = l], l # "start",
         \A d \in Calls : d # c => key'[d] = key[d] /\ res'[d] = res[d] /\ got'[d] = got[d],
         l # "done" => res'[c] = "none",
         res'[c] = "ok" => got'[c] = Chunk(key'[c]), res'[c] # "panic"
  PROVE  AnswerInv'
  <1>1. pc'[c] = l /\ \A d \in Calls : d # c => pc'[d] = pc[d]
    BY Zenon, CalmTypes
  <1> QED
    BY <1>1 DEF AnswerInv, NotAnswered, Integrity, NoPanic

(* The call goes on. *)
LEMMA NoAnswerYet ==
  ASSUME TypeInv, AnswerInv, NEW c \in Calls,
         \/ \E k \in Keys : GetHit(c, k) \/ GetMiss(c, k) \/ ExistsHit(c, k)
         \/ RecheckHit(c) \/ RecheckMiss(c) \/ NewItem(c) \/ SetQueued(c) \/ WaitForSet(c)
         \/ StatMatches(c) \/ StatDiffers(c) \/ RestatMatches(c) \/ RestatDiffers(c)
         \/ FetchSucceeds(c) \/ Truncate(c) \/ Write(c) \/ Relock(c) \/ BytesStat(c)
  PROVE  AnswerInv'
  <1>1. /\ pc[c] # "done" /\ res' = res /\ got' = got
        /\ key' = key \/ \E k \in Keys : key' = [key EXCEPT ![c] = k]
    BY Zenon DEF GetHit, GetMiss, ExistsHit, RecheckHit, RecheckMiss, NewItem, SetQueued, WaitForSet,
           StatMatches, StatDiffers, RestatMatches, RestatDiffers, FetchSucceeds, Truncate, Write,
           Relock, BytesStat
  <1>2. PICK l : pc' = [pc EXCEPT ![c] = l] /\ l # "start"
    BY DEF GetHit, GetMiss, ExistsHit, RecheckHit, RecheckMiss, NewItem, SetQueued, WaitForSet,
           StatMatches, StatDiffers, RestatMatches, RestatDiffers, FetchSucceeds, Truncate, Write,
           Relock, BytesStat, Goto
  <1>3. \A d \in Calls : d # c => key'[d] = key[d]
    BY Zenon, <1>1, CalmTypes
  <1>4. res'[c] = "none"
    BY Zenon, <1>1 DEF AnswerInv, NotAnswered
  <1> QED
    BY Zenon, <1>1, <1>2, <1>3, <1>4, AnswerMoves

(* The call returns: what Pread has read is the chunk. *)
LEMMA CallAnswers ==
  ASSUME TypeInv, PlaceInv, DiskInv, AnswerInv, NEW c \in Calls,
         \/ \E k \in Keys : ExistsMiss(c, k)
         \/ FetchFails(c) \/ Pread(c) \/ ExistsStat(c)
  PROVE  AnswerInv'
  <1>t. /\ res \in [Calls -> Results] /\ got \in [Calls -> Seq(Bytes)]
        /\ key \in [Calls -> Keys \cup {None}]
    BY Zenon, CalmTypes, DiskTypes
  <1>1. ASSUME NEW r \in {"no", "yes", "err"}, Return(c, r), got' = got,
               key' = key \/ \E k \in Keys : key' = [key EXCEPT ![c] = k]
        PROVE  AnswerInv'
    <2>1. pc' = [pc EXCEPT ![c] = "done"] /\ res' = [res EXCEPT ![c] = r]
      BY Zenon, <1>1 DEF Return
    <2>2. res'[c] = r /\ \A d \in Calls : d # c => res'[d] = res[d] /\ key'[d] = key[d]
      BY Zenon, <1>1, <2>1, <1>t
    <2>3. "done" # "start" /\ r # "ok" /\ r # "panic"
      BY Zenon
    <2> QED
      BY Zenon, <1>1, <2>1, <2>2, <2>3, AnswerMoves
  <1>2. ASSUME NEW k \in Keys, ExistsMiss(c, k)
        PROVE  AnswerInv'
    <2>1. Return(c, "no") /\ got' = got /\ key' = [key EXCEPT ![c] = k]
      BY Zenon, <1>2 DEF ExistsMiss
    <2> QED
      BY Zenon, <1>1, <2>1
  <1>3. CASE FetchFails(c)
    <2>1. Return(c, "err") /\ got' = got /\ key' = key
      BY Zenon, <1>3 DEF FetchFails
    <2> QED
      BY Zenon, <1>1, <2>1
  <1>4. CASE ExistsStat(c)
    <2>1. PICK r \in {"no", "yes"} : Return(c, r) /\ got' = got /\ key' = key
      BY Zenon, <1>4 DEF ExistsStat
    <2> QED
      BY Zenon, <1>1, <2>1
  <1>5. CASE Pread(c)
    <2>1. pc[c] = "pread" /\ Data(it[c]) = Chunk(key[c]) /\ size[c] = ChunkLen /\ key[c] \in Keys
      BY Zenon, <1>5, HeldOpen DEF Pread, DiskInv, ReadsWhole, Holding
    <2>2. Len(Data(it[c])) = ChunkLen /\ SubSeq(Data(it[c]), 1, size[c]) = Chunk(key[c])
      <3>1. Chunk(key[c]) \in Seq(Bytes) /\ Len(Chunk(key[c])) = ChunkLen
        BY <2>1, PrefixType, ConstantsAssumption DEF Chunk
      <3> QED
        BY <2>1, <3>1
    <2>3. Len(content[inode[it[c]]]) >= size[c] /\ size[c] = ChunkLen
      BY <2>1, <2>2, ConstantsAssumption DEF Data
    <2>4. /\ Return(c, "ok") /\ got' = [got EXCEPT ![c] = SubSeq(Data(it[c]), 1, size[c])]
          /\ key' = key
      BY Zenon, <1>5, <2>3 DEF Pread, Data
    <2>5. pc' = [pc EXCEPT ![c] = "done"] /\ res' = [res EXCEPT ![c] = "ok"]
      BY Zenon, <2>4 DEF Return
    <2>6. /\ res'[c] = "ok" /\ got'[c] = Chunk(key[c])
          /\ \A d \in Calls : d # c => res'[d] = res[d] /\ got'[d] = got[d]
      BY Zenon, <2>2, <2>4, <2>5, <1>t
    <2>7. "done" # "start" /\ res'[c] # "panic"
      BY Zenon, <2>6
    <2> QED
      BY Zenon, <2>4, <2>5, <2>6, <2>7, AnswerMoves
  <1> QED
    BY Zenon, <1>2, <1>3, <1>4, <1>5

(* Every step of calm weather keeps the answers right. *)
LEMMA NextAnswerInv ==
  ASSUME TypeInv, PlaceInv, DiskInv, AnswerInv, [CalmNext]_vars
  PROVE  AnswerInv'
  <1>1. ASSUME NEW c \in Calls, CalmStep(c)
        PROVE  AnswerInv'
    BY Zenon, <1>1, NoAnswerYet, CallAnswers DEF CalmStep
  <1>2. CASE Admit \/ UNCHANGED vars
    <2>1. UNCHANGED <<pc, key, res, got>>
      BY Zenon, <1>2 DEF Admit, vars, callVars
    <2> QED
      BY Zenon, <2>1 DEF AnswerInv, NotAnswered, Integrity, NoPanic
  <1> QED
    BY Zenon, <1>1, <1>2 DEF CalmNext

(* CalmInv, with the types and the lock discipline, is inductive. *)
LEMMA CalmInvHolds ==
  ASSUME Calm
  PROVE  Spec => [](TypeInv /\ LockInv /\ CalmInv)
  <1>1. Init => TypeInv /\ LockInv /\ CalmInv
    <2>1. Init => LockInv
      BY Zenon, ConstantsAssumption DEF Init, LockInv, FillersLock, ReadersLock, WriterAlone, FillsOpenFile
    <2> QED
      BY Zenon, <2>1, InitTypeInv, InitCalmInv
  <1>2. TypeInv /\ LockInv /\ CalmInv /\ [Next]_vars => (TypeInv /\ LockInv /\ CalmInv)'
    BY Zenon, CalmSteps, NextTypeInv, NextLockInv, NextPlaceInv, NextDiskInv, NextAnswerInv DEF CalmInv
  <1> QED
    BY <1>1, <1>2, PTL DEF Spec

(* In calm weather the bytes that GetOrCreate returns are the chunk, for any
   number of calls, keys and bytes and whatever files were left behind. *)
THEOREM ReturnsTheChunk ==
  ASSUME Calm
  PROVE  Spec => []Integrity
  <1>1. TypeInv /\ LockInv /\ CalmInv => Integrity
    BY Zenon DEF CalmInv, AnswerInv
  <1> QED
    BY <1>1, CalmInvHolds, PTL

(* In calm weather no call panics: that takes an eviction. *)
THEOREM NoPanicWhenCalm ==
  ASSUME Calm
  PROVE  Spec => []NoPanic
  <1>1. TypeInv /\ LockInv /\ CalmInv => NoPanic
    BY Zenon DEF CalmInv, AnswerInv
  <1> QED
    BY <1>1, CalmInvHolds, PTL

-----------------------------------------------------------------------------
(***************************************************************************)
(* The refinement.  RefMap says what is whole and what was left behind in  *)
(* terms of the one open item of a key, or of its path when it has none.   *)
(***************************************************************************)
RefMap ==
  /\ WholeOnDisk \subseteq Keys /\ LeftBehind \subseteq Keys
  /\ \A i \in Calls : file[i] = "open" =>
       /\ key[i] \in WholeOnDisk <=> Data(i) = Chunk(key[i])
       /\ key[i] \in LeftBehind <=> inode[i] = key[i]
  /\ \A k \in Keys : ~HasItem(k) =>
       /\ k \in WholeOnDisk <=> dir[k] # None /\ content[k] = Chunk(k)
       /\ k \in LeftBehind <=> dir[k] = k

LEMMA RefMapHolds == TypeInv /\ PlaceInv /\ DiskInv => RefMap
  <1> SUFFICES ASSUME TypeInv, PlaceInv, DiskInv
               PROVE  RefMap
    BY Zenon
  <1>1. ASSUME NEW i \in Calls, file[i] = "open"
        PROVE  InodeOf(key[i]) = inode[i]
    <2> DEFINE items == {j \in Calls : key[j] = key[i] /\ file[j] = "open"}
    <2>1. items = {i}
      BY Zenon, <1>1, OneItem
    <2>2. (CHOOSE j \in items : TRUE) = i
      BY Zenon, <2>1
    <2> QED
      BY Zenon, <2>1, <2>2 DEF InodeOf
  <1>2. ASSUME NEW k \in Keys, ~HasItem(k)
        PROVE  InodeOf(k) = dir[k] /\ dir[k] \in {k, None}
    <2>1. {j \in Calls : key[j] = k /\ file[j] = "open"} = {}
      BY Zenon, <1>2 DEF HasItem
    <2> QED
      BY Zenon, <1>2, <2>1 DEF InodeOf, DiskInv, PathsKept
  <1>3. ASSUME NEW i \in Calls, file[i] = "open"
        PROVE  /\ key[i] \in WholeOnDisk <=> Data(i) = Chunk(key[i])
               /\ key[i] \in LeftBehind <=> inode[i] = key[i]
    <2>1. inode[i] # None /\ key[i] \in Keys
      BY Zenon, <1>3, OwnInode, ConstantsAssumption DEF Inodes
    <2> QED
      BY Zenon, <1>1, <1>3, <2>1 DEF WholeOnDisk, LeftBehind, Data
  <1>4. ASSUME NEW k \in Keys, ~HasItem(k)
        PROVE  /\ k \in WholeOnDisk <=> dir[k] # None /\ content[k] = Chunk(k)
               /\ k \in LeftBehind <=> dir[k] = k
    BY Zenon, <1>2, <1>4 DEF WholeOnDisk, LeftBehind
  <1>5. WholeOnDisk \subseteq Keys /\ LeftBehind \subseteq Keys
    BY Zenon DEF WholeOnDisk, LeftBehind
  <1> QED
    BY Zenon, <1>3, <1>4, <1>5 DEF RefMap

(* What is whole and what was left behind stay, when no file changes. *)
LEMMA SameOnDisk ==
  ASSUME RefMap, RefMap', UNCHANGED <<file, inode, content>>,
         \A i \in Calls : file[i] = "open" => key'[i] = key[i] /\ key[i] \in Keys,
         \A k \in Keys : ~HasItem(k) => dir'[k] = dir[k]
  PROVE  WholeOnDisk' = WholeOnDisk /\ LeftBehind' = LeftBehind
  <1> SUFFICES ASSUME NEW k \in Keys
               PROVE  /\ k \in WholeOnDisk' <=> k \in WholeOnDisk
                      /\ k \in LeftBehind' <=> k \in LeftBehind
    BY Zenon DEF RefMap
  <1>1. HasItem(k)' <=> HasItem(k)
    BY Zenon DEF HasItem
  <1>2. CASE HasItem(k)
    <2>1. PICK i \in Calls : file[i] = "open" /\ key[i] = k
      BY Zenon, <1>2 DEF HasItem
    <2>2. /\ k \in WholeOnDisk <=> Data(i) = Chunk(k)
          /\ k \in LeftBehind <=> inode[i] = k
      BY Zenon, <2>1 DEF RefMap
    <2>3. /\ k \in WholeOnDisk' <=> Data(i)' = Chunk(k)
          /\ k \in LeftBehind' <=> inode[i] = k
      BY Zenon, <2>1 DEF RefMap
    <2> QED
      BY Zenon, <2>2, <2>3 DEF Data
  <1>3. CASE ~HasItem(k)
    BY <1>1, <1>3 DEF RefMap
  <1> QED
    BY Zenon, <1>2, <1>3

(* The keys being fetched, when the call c moves on. *)
LEMMA FetchingMoves ==
  ASSUME TypeInv, NEW c \in Calls, NEW l, pc' = [pc EXCEPT ![c] = l],
         \A d \in Calls : d # c => key'[d] = key[d]
  PROVE  /\ Fetching' = [Fetching EXCEPT ![c] = IF l \in Filling THEN key'[c] ELSE None]
         /\ \A d \in Calls : Fetching[d] = IF pc[d] \in Filling THEN key[d] ELSE None
  <1>1. pc'[c] = l /\ \A d \in Calls : d # c => pc'[d] = pc[d]
    BY Zenon, CalmTypes
  <1> QED
    BY Zenon, <1>1 DEF Fetching

(* A step of the call c that ChunkCache does not see. *)
LEMMA Unseen ==
  ASSUME TypeInv, RefMap, RefMap', NEW c \in Calls, NEW l,
         pc' = [pc EXCEPT ![c] = l], pc[c] \in Filling <=> l \in Filling,
         UNCHANGED <<file, inode, content, dir, key, res>>
  PROVE  UNCHANGED Abstract!vars
  <1>1. WholeOnDisk' = WholeOnDisk /\ LeftBehind' = LeftBehind
    BY Zenon, SameOnDisk, CalmTypes
  <1>2. /\ Fetching' = [Fetching EXCEPT ![c] = IF l \in Filling THEN key[c] ELSE None]
        /\ Fetching[c] = IF pc[c] \in Filling THEN key[c] ELSE None
    BY Zenon, FetchingMoves
  <1>3. Fetching' = Fetching
    BY Zenon, <1>2 DEF Fetching
  <1> QED
    BY Zenon, <1>1, <1>3 DEF Abstract!vars

(* A call begins: Ask, or Exists that does not find the key. *)
LEMMA BeginRefines ==
  ASSUME TypeInv, PlaceInv, DiskInv, AnswerInv, RefMap, RefMap', NEW c \in Calls, NEW k \in Keys,
         GetHit(c, k) \/ GetMiss(c, k) \/ ExistsMiss(c, k) \/ ExistsHit(c, k)
  PROVE  Abstract!Ask(c, k) \/ Abstract!Exists(c, k)
  <1>1. /\ pc[c] = "start" /\ key' = [key EXCEPT ![c] = k]
        /\ UNCHANGED <<file, inode, content, dir>>
    BY Zenon DEF GetHit, GetMiss, ExistsMiss, ExistsHit, itemVars, diskVars
  <1>2. key[c] = None /\ res[c] = "none" /\ file[c] # "open"
    BY Zenon, <1>1, CalmTypes DEF AnswerInv, NotAnswered, NoItemYet
  <1>3. \A d \in Calls : d # c => key'[d] = key[d]
    BY Zenon, <1>1, CalmTypes
  <1>4. WholeOnDisk' = WholeOnDisk /\ LeftBehind' = LeftBehind
    BY Zenon, <1>1, <1>2, <1>3, SameOnDisk, CalmTypes
  <1>5. Fetching[c] = None /\ Fetching' = Fetching
    <2>1. PICK l \in {"rlock", "recheck", "done", "exists"} : pc' = [pc EXCEPT ![c] = l]
      BY Zenon DEF GetHit, GetMiss, ExistsMiss, ExistsHit, Goto, Return
    <2>2. Fetching[c] = None /\ Fetching' = [Fetching EXCEPT ![c] = None]
      BY Zenon, <1>1, <1>3, <2>1, FetchingMoves
    <2> QED
      BY Zenon, <2>2 DEF Fetching
  <1>6. CASE GetHit(c, k) \/ GetMiss(c, k) \/ ExistsHit(c, k)
    <2>1. res' = res
      BY Zenon, <1>6 DEF GetHit, GetMiss, ExistsHit
    <2> QED
      BY Zenon, <1>1, <1>2, <1>4, <1>5, <2>1 DEF Abstract!Ask
  <1>7. CASE ExistsMiss(c, k)
    <2>1. store[k] = None /\ res' = [res EXCEPT ![c] = "no"]
      BY Zenon, <1>7 DEF ExistsMiss, Return
    <2>2. k \notin WholeOnDisk \ LeftBehind
      <3>1. CASE HasItem(k)
        <4>1. PICK i \in Calls : file[i] = "open" /\ key[i] = k
          BY Zenon, <3>1 DEF HasItem
        <4>2. pc[i] = "set" \/ InBuf(i)
          BY Zenon, <2>1, <4>1, CalmTypes DEF PlaceInv, OpenPlaced
        <4>3. content[i] = << >> /\ inode[i] \in {i, k}
          BY Zenon, <4>1, <4>2 DEF DiskInv, OwnFiles
        <4>4. /\ k \in WholeOnDisk <=> Data(i) = Chunk(k)
              /\ k \in LeftBehind <=> inode[i] = k
          BY Zenon, <4>1 DEF RefMap
        <4> QED
          BY Zenon, <4>3, <4>4, EmptyIsNotChunk DEF Data
      <3>2. CASE ~HasItem(k)
        BY Zenon, <3>2 DEF RefMap, DiskInv, PathsKept
      <3> QED
        BY Zenon, <3>1, <3>2
    <2> QED
      BY Zenon, <1>1, <1>2, <1>4, <1>5, <2>1, <2>2 DEF Abstract!Exists, Abstract!Answers
  <1> QED
    BY Zenon, <1>6, <1>7

(* newItem takes over the file at the path, or an empty one. *)
LEMMA NewItemRefines ==
  ASSUME TypeInv, PlaceInv, DiskInv, RefMap, RefMap', NEW c \in Calls, NewItem(c)
  PROVE  UNCHANGED Abstract!vars
  <1>1. PICK k \in Keys : k = key[c]
    BY Zenon, CalmTypes DEF NewItem
  <1>2. PICK ino : ino = IF dir[k] = None THEN c ELSE dir[k]
    BY Zenon
  <1>3. /\ pc[c] = "new" /\ pc' = [pc EXCEPT ![c] = "set"]
        /\ file' = [file EXCEPT ![c] = "open"]
        /\ dir' = [dir EXCEPT ![k] = ino] /\ inode' = [inode EXCEPT ![c] = ino]
        /\ UNCHANGED <<content, key, res>>
    BY Zenon, <1>1, <1>2 DEF NewItem, Goto
  <1>4. file[c] = "none" /\ content[c] = << >>
    BY Zenon, <1>3, CalmTypes DEF NoItemYet, DiskInv, FreshItems
  <1>5. ~HasItem(k)
    BY Zenon, <1>1, <1>3, NewItemIsFirst
  <1>6. dir[k] \in {k, None}
    BY Zenon, <1>5 DEF DiskInv, PathsKept
  <1>7. /\ file'[c] = "open" /\ inode'[c] = ino
        /\ \A d \in Calls : d # c => file'[d] = file[d] /\ inode'[d] = inode[d]
        /\ \A q \in Keys : q # k => dir'[q] = dir[q]
    BY Zenon, <1>3, CalmTypes, DiskTypes
  <1>8. k \in WholeOnDisk' <=> k \in WholeOnDisk
    <2>1. k \in WholeOnDisk <=> dir[k] # None /\ content[k] = Chunk(k)
      BY Zenon, <1>5 DEF RefMap
    <2>2. k \in WholeOnDisk' <=> content[ino] = Chunk(k)
      BY Zenon, <1>1, <1>3, <1>7 DEF RefMap, Data
    <2> QED
      BY Zenon, <1>2, <1>4, <1>6, <2>1, <2>2, EmptyIsNotChunk
  <1>9. k \in LeftBehind' <=> k \in LeftBehind
    <2>1. k \in LeftBehind <=> dir[k] = k
      BY Zenon, <1>5 DEF RefMap
    <2>2. k \in LeftBehind' <=> ino = k
      BY <1>1, <1>3, <1>7 DEF RefMap
    <2>3. c # k
      BY Zenon, CalmTypes
    <2> QED
      BY Zenon, <1>2, <1>6, <2>1, <2>2, <2>3, ConstantsAssumption
  <1>10. ASSUME NEW q \in Keys, q # k
         PROVE  /\ q \in WholeOnDisk' <=> q \in WholeOnDisk
                /\ q \in LeftBehind' <=> q \in LeftBehind
    <2>1. CASE HasItem(q)
      <3>1. PICK i \in Calls : file[i] = "open" /\ key[i] = q
        BY Zenon, <2>1 DEF HasItem
      <3>2. file'[i] = "open" /\ key'[i] = q /\ inode'[i] = inode[i]
        BY Zenon, <3>1, <1>3, <1>4, <1>7
      <3>3. /\ q \in WholeOnDisk <=> Data(i) = Chunk(q)
            /\ q \in LeftBehind <=> inode[i] = q
        BY Zenon, <3>1 DEF RefMap
      <3>4. /\ q \in WholeOnDisk' <=> Data(i)' = Chunk(q)
            /\ q \in LeftBehind' <=> inode'[i] = q
        BY Zenon, <3>2 DEF RefMap
      <3> QED
        BY Zenon, <1>3, <3>2, <3>3, <3>4 DEF Data
    <2>2. CASE ~HasItem(q)
      <3>1. ~HasItem(q)'
        BY Zenon, <2>2, <1>1, <1>3, <1>7, <1>10 DEF HasItem
      <3>2. dir'[q] = dir[q]
        BY Zenon, <1>7, <1>10
      <3> QED
        BY Zenon, <2>2, <3>1, <3>2, <1>3 DEF RefMap
    <2> QED
      BY Zenon, <2>1, <2>2
  <1>11. WholeOnDisk' = WholeOnDisk /\ LeftBehind' = LeftBehind
    <2>1. \A q \in Keys : /\ q \in WholeOnDisk' <=> q \in WholeOnDisk
                          /\ q \in LeftBehind' <=> q \in LeftBehind
      BY Zenon, <1>8, <1>9, <1>10
    <2>2. /\ WholeOnDisk \subseteq Keys /\ WholeOnDisk' \subseteq Keys
          /\ LeftBehind \subseteq Keys /\ LeftBehind' \subseteq Keys
      BY Zenon DEF RefMap
    <2> QED
      BY Zenon, <2>1, <2>2
  <1>12. Fetching' = Fetching
    <2>1. Fetching[c] = None /\ Fetching' = [Fetching EXCEPT ![c] = None]
      BY Zenon, <1>3, FetchingMoves
    <2> QED
      BY Zenon, <2>1 DEF Fetching
  <1> QED
    BY Zenon, <1>3, <1>11, <1>12 DEF Abstract!vars

(* item.fill makes its key whole, or leaves it as it was, and no other. *)
LEMMA FillOnDisk ==
  ASSUME TypeInv, PlaceInv, DiskInv, RefMap, RefMap', NEW c \in Calls, pc[c] \in Filling,
         NEW x, content' = [content EXCEPT ![inode[it[c]]] = x],
         UNCHANGED <<file, inode, dir, key, it>>
  PROVE  /\ LeftBehind' = LeftBehind
         /\ x = << >> => WholeOnDisk' = WholeOnDisk
         /\ x = Chunk(key[c]) => WholeOnDisk' = WholeOnDisk \cup {key[c]}
  <1>i. PICK i \in Calls : i = it[c]
    BY Zenon, HeldOpen DEF Holding
  <1>1. file[i] = "open" /\ key[i] = key[c] /\ key[c] \in Keys
    BY Zenon, <1>i, HeldOpen DEF Holding
  <1>2. /\ inode[i] \in Inodes
        /\ \A j \in Calls : j # i /\ file[j] = "open" => inode[i] # inode[j]
        /\ \A k \in Keys : k # key[i] => inode[i] # k
    BY Zenon, <1>1, OwnInode
  <1>3. /\ content'[inode[i]] = x
        /\ \A n \in Inodes : n # inode[i] => content'[n] = content[n]
    BY Zenon, <1>i, <1>2, DiskTypes
  <1>4. key[c] \notin WholeOnDisk
    BY <1>i, <1>1 DEF RefMap, DiskInv, FillsMissing
  <1>5. key[c] \in WholeOnDisk' <=> x = Chunk(key[c])
    BY <1>1, <1>3 DEF RefMap, Data
  <1>6. key[c] \in LeftBehind' <=> key[c] \in LeftBehind
    BY Zenon, <1>1 DEF RefMap
  <1>7. ASSUME NEW k \in Keys, k # key[c]
        PROVE  /\ k \in WholeOnDisk' <=> k \in WholeOnDisk
               /\ k \in LeftBehind' <=> k \in LeftBehind
    <2>1. CASE HasItem(k)
      <3>1. PICK j \in Calls : file[j] = "open" /\ key[j] = k
        BY Zenon, <2>1 DEF HasItem
      <3>2. inode[j] \in Inodes /\ inode[j] # inode[i]
        BY Zenon, <3>1, <1>1, <1>2, <1>7, OwnInode
      <3>3. /\ k \in WholeOnDisk <=> content[inode[j]] = Chunk(k)
            /\ k \in LeftBehind <=> inode[j] = k
        BY Zenon, <3>1 DEF RefMap, Data
      <3>4. /\ k \in WholeOnDisk' <=> content'[inode[j]] = Chunk(k)
            /\ k \in LeftBehind' <=> inode[j] = k
        BY Zenon, <3>1 DEF RefMap, Data
      <3> QED
        BY Zenon, <1>3, <3>2, <3>3, <3>4
    <2>2. CASE ~HasItem(k)
      <3>1. ~HasItem(k)'
        BY Zenon, <2>2 DEF HasItem
      <3>2. content'[k] = content[k]
        BY Zenon, <1>1, <1>2, <1>3, <1>7, DiskTypes
      <3> QED
        BY Zenon, <2>2, <3>1, <3>2 DEF RefMap
    <2> QED
      BY Zenon, <2>1, <2>2
  <1>8. << >> # Chunk(key[c])
    BY Zenon, <1>1, EmptyIsNotChunk
  <1>s. /\ WholeOnDisk \subseteq Keys /\ WholeOnDisk' \subseteq Keys
        /\ LeftBehind \subseteq Keys /\ LeftBehind' \subseteq Keys
    BY Zenon DEF RefMap
  <1>9. LeftBehind' = LeftBehind
    <2>1. \A k \in Keys : k \in LeftBehind' <=> k \in LeftBehind
      BY Zenon, <1>6, <1>7
    <2> QED
      BY Zenon, <1>s, <2>1
  <1>10. ASSUME x = << >>
         PROVE  WholeOnDisk' = WholeOnDisk
    <2>1. \A k \in Keys : k \in WholeOnDisk' <=> k \in WholeOnDisk
      BY Zenon, <1>4, <1>5, <1>7, <1>8, <1>10
    <2> QED
      BY Zenon, <1>s, <2>1
  <1>11. ASSUME x = Chunk(key[c])
         PROVE  WholeOnDisk' = WholeOnDisk \cup {key[c]}
    <2>1. \A k \in Keys : k \in WholeOnDisk' <=> k \in WholeOnDisk \/ k = key[c]
      BY Zenon, <1>5, <1>7, <1>11
    <2> QED
      BY Zenon, <1>s, <2>1, <1>1
  <1> QED
    BY Zenon, <1>9, <1>10, <1>11

(* item.fill: the first call to find the chunk missing fetches it. *)
LEMMA FillRefines ==
  ASSUME TypeInv, LockInv, PlaceInv, DiskInv, AnswerInv, RefMap, RefMap', NEW c \in Calls
  PROVE  /\ RestatDiffers(c) => Abstract!Fetch(c)
         /\ FetchFails(c) => Abstract!FetchFails(c)
         /\ Truncate(c) => UNCHANGED Abstract!vars
         /\ Write(c) => Abstract!FetchSucceeds(c)
  <1>t. /\ \A i \in Calls : file[i] = "open" => key[i] \in Keys
        /\ None \notin Keys /\ None \notin Calls
    BY Zenon, CalmTypes
  <1>1. ASSUME RestatDiffers(c)
        PROVE  Abstract!Fetch(c)
    <2>1. /\ pc[c] = "wlock" /\ pc' = [pc EXCEPT ![c] = "fetch"] /\ CanLock(it[c])
          /\ Size(it[c]) # ChunkLen
          /\ UNCHANGED <<file, inode, content, dir, key, it, res>>
      BY Zenon, <1>1 DEF RestatDiffers, NeedsFill, Goto, itemVars, diskVars
    <2>2. it[c] \in Calls /\ file[it[c]] = "open" /\ key[it[c]] = key[c] /\ key[c] \in Keys
      BY Zenon, <2>1, HeldOpen DEF Holding
    <2>3. WholeOnDisk' = WholeOnDisk /\ LeftBehind' = LeftBehind
      BY Zenon, <2>1, <1>t, SameOnDisk
    <2>4. key[c] \in Keys \ WholeOnDisk
      BY Zenon, <2>1, <2>2, CompleteIsChunk DEF RefMap
    <2>5. res[c] = "none"
      BY Zenon, <2>1 DEF AnswerInv, NotAnswered
    <2>6. /\ Fetching' = [Fetching EXCEPT ![c] = key[c]]
          /\ \A d \in Calls : Fetching[d] = IF pc[d] \in Filling THEN key[d] ELSE None
      BY Zenon, <2>1, FetchingMoves
    <2>7. ASSUME NEW d \in Calls, pc[d] \in Filling, key[d] = key[c]
          PROVE  FALSE
      <3>1. it[d] \in Calls /\ file[it[d]] = "open" /\ key[it[d]] = key[d]
        BY Zenon, <2>7, HeldOpen DEF Holding
      <3>2. it[d] = it[c]
        BY Zenon, <2>2, <2>7, <3>1, OneItem
      <3>3. writer[it[d]] = d
        BY Zenon, <2>7 DEF LockInv, FillersLock
      <3> QED
        BY Zenon, <2>1, <3>2, <3>3, <1>t DEF CanLock
    <2>8. \A d \in Calls : Fetching[d] # key[c]
      BY Zenon, <2>2, <2>6, <2>7, <1>t
    <2> QED
      BY Zenon, <2>1, <2>3, <2>4, <2>5, <2>6, <2>8 DEF Abstract!Fetch
  <1>2. ASSUME FetchFails(c)
        PROVE  Abstract!FetchFails(c)
    <2>1. /\ pc[c] = "fetch" /\ pc' = [pc EXCEPT ![c] = "done"] /\ res' = [res EXCEPT ![c] = "err"]
          /\ dir' = [dir EXCEPT ![key[c]] = None]
          /\ UNCHANGED <<file, inode, content, key, it>>
      BY Zenon, <1>2 DEF FetchFails, Return, itemVars
    <2>2. it[c] \in Calls /\ file[it[c]] = "open" /\ key[it[c]] = key[c] /\ key[c] \in Keys
      BY Zenon, <2>1, HeldOpen DEF Holding
    <2>3. HasItem(key[c])
      BY Zenon, <2>2 DEF HasItem
    <2>4. \A k \in Keys : ~HasItem(k) => dir'[k] = dir[k]
      BY Zenon, <2>1, <2>3, DiskTypes
    <2>5. WholeOnDisk' = WholeOnDisk /\ LeftBehind' = LeftBehind
      BY Zenon, <2>1, <2>4, <1>t, SameOnDisk
    <2>6. Fetching' = [Fetching EXCEPT ![c] = None] /\ Fetching[c] = key[c]
      <3>1. \A d \in Calls : d # c => key'[d] = key[d]
        BY Zenon, <2>1
      <3>2. pc' = [pc EXCEPT ![c] = "done"] /\ pc[c] \in Filling /\ "done" \notin Filling
        BY Zenon, <2>1
      <3> QED
        BY Zenon, <3>1, <3>2, FetchingMoves
    <2> QED
      BY Zenon, <2>1, <2>2, <2>5, <2>6, <1>t DEF Abstract!FetchFails
  <1>3. ASSUME Truncate(c)
        PROVE  UNCHANGED Abstract!vars
    <2>1. /\ pc[c] = "trunc" /\ pc' = [pc EXCEPT ![c] = "write"]
          /\ content' = [content EXCEPT ![inode[it[c]]] = << >>]
          /\ UNCHANGED <<file, inode, dir, key, it, res>>
      BY Zenon, <1>3 DEF Truncate, Goto, itemVars
    <2>2. WholeOnDisk' = WholeOnDisk /\ LeftBehind' = LeftBehind
      BY Zenon, <2>1, FillOnDisk
    <2>3. Fetching' = [Fetching EXCEPT ![c] = key[c]] /\ Fetching[c] = key[c]
      BY Zenon, <2>1, FetchingMoves
    <2>4. Fetching' = Fetching
      BY Zenon, <2>3 DEF Fetching
    <2> QED
      BY Zenon, <2>1, <2>2, <2>4 DEF Abstract!vars
  <1>4. ASSUME Write(c)
        PROVE  Abstract!FetchSucceeds(c)
    <2>1. /\ pc[c] = "write" /\ pc' = [pc EXCEPT ![c] = "relock"]
          /\ UNCHANGED <<file, inode, dir, key, it, res>>
      BY Zenon, <1>4 DEF Write, Goto
    <2>2. key[c] \in Keys
      BY Zenon, <2>1, HeldOpen DEF Holding
    <2>3. content' = [content EXCEPT ![inode[it[c]]] = Chunk(key[c])]
      BY Zenon, <1>4, WritesTheChunk
    <2>4. WholeOnDisk' = WholeOnDisk \cup {key[c]} /\ LeftBehind' = LeftBehind
      BY Zenon, <2>1, <2>3, FillOnDisk
    <2>5. Fetching' = [Fetching EXCEPT ![c] = None] /\ Fetching[c] = key[c]
      <3>1. /\ Fetching' = [Fetching EXCEPT ![c] = IF "relock" \in Filling THEN key'[c] ELSE None]
            /\ Fetching[c] = IF pc[c] \in Filling THEN key[c] ELSE None
        BY Zenon, <2>1, FetchingMoves
      <3> QED
        BY Zenon, <2>1, <3>1
    <2> QED
      BY Zenon, <2>1, <2>2, <2>4, <2>5, <1>t DEF Abstract!FetchSucceeds
  <1> QED
    BY Zenon, <1>1, <1>2, <1>3, <1>4

(* GetOrCreate returns a chunk that is whole; Exists says yes of one that is
   whole or was left behind, and no of one that is not whole. *)
LEMMA AnswerRefines ==
  ASSUME TypeInv, PlaceInv, DiskInv, AnswerInv, RefMap, RefMap', NEW c \in Calls,
         Pread(c) \/ ExistsStat(c)
  PROVE  Abstract!Get(c) \/ \E k \in Keys : Abstract!Exists(c, k)
  <1>1. /\ pc[c] \in {"pread", "exists"} /\ pc' = [pc EXCEPT ![c] = "done"]
        /\ UNCHANGED <<file, inode, content, dir, key, it>>
    BY Zenon DEF Pread, ExistsStat, Return, itemVars, diskVars
  <1>2. it[c] \in Calls /\ file[it[c]] = "open" /\ key[it[c]] = key[c] /\ key[c] \in Keys
    BY Zenon, <1>1, HeldOpen DEF Holding
  <1>3. WholeOnDisk' = WholeOnDisk /\ LeftBehind' = LeftBehind
    <2>1. \A i \in Calls : file[i] = "open" => key[i] \in Keys
      BY Zenon, CalmTypes
    <2> QED
      BY Zenon, <1>1, <2>1, SameOnDisk
  <1>4. Fetching[c] = None /\ Fetching' = Fetching
    <2>1. \A d \in Calls : d # c => key'[d] = key[d]
      BY Zenon, <1>1
    <2>2. pc[c] \notin Filling /\ "done" \notin Filling
      BY Zenon, <1>1
    <2>3. Fetching[c] = None /\ Fetching' = [Fetching EXCEPT ![c] = None]
      BY Zenon, <1>1, <2>1, <2>2, FetchingMoves
    <2> QED
      BY Zenon, <2>3 DEF Fetching
  <1>5. res[c] = "none"
    BY Zenon, <1>1 DEF AnswerInv, NotAnswered
  <1>6. /\ key[c] \in WholeOnDisk <=> Data(it[c]) = Chunk(key[c])
        /\ key[c] \in LeftBehind <=> inode[it[c]] = key[c]
    BY <1>2 DEF RefMap
  <1>7. CASE Pread(c)
    <2>1. pc[c] = "pread" /\ Data(it[c]) = Chunk(key[c]) /\ size[c] = ChunkLen
      BY Zenon, <1>7 DEF Pread, DiskInv, ReadsWhole
    <2>2. Size(it[c]) = ChunkLen
      BY Zenon, <1>2, <2>1, CompleteIsChunk
    <2>3. Len(content[inode[it[c]]]) >= size[c] /\ size[c] = ChunkLen
      BY <2>1, <2>2, ConstantsAssumption DEF Size
    <2>4. res' = [res EXCEPT ![c] = "ok"]
      BY Zenon, <1>7, <2>3 DEF Pread, Return
    <2> QED
      BY Zenon, <1>1, <1>3, <1>4, <1>5, <1>6, <2>1, <2>4 DEF Abstract!Get, Abstract!Answers
  <1>8. CASE ExistsStat(c)
    <2> DEFINE yes == file[it[c]] = "open" /\ Size(it[c]) > 0
    <2>1. res' = [res EXCEPT ![c] = IF yes THEN "yes" ELSE "no"]
      BY Zenon, <1>8 DEF ExistsStat, Return
    <2>2. Data(it[c]) \in Seq(Bytes) /\ Size(it[c]) = Len(Data(it[c]))
      BY Zenon, <1>2, OwnInode, DiskTypes DEF Data, Size
    <2>3. yes => key[c] \in WholeOnDisk \cup LeftBehind
      <3> SUFFICES ASSUME yes, inode[it[c]] # key[c]
                   PROVE  Data(it[c]) = Chunk(key[c])
        BY Zenon, <1>6
      <3>1. Data(it[c]) \in {<< >>, Chunk(key[c])}
        BY Zenon, <1>2 DEF Data, DiskInv, OwnFiles
      <3>2. Data(it[c]) # << >>
        BY <2>2
      <3> QED
        BY Zenon, <3>1, <3>2
    <2>4. ~yes => key[c] \notin WholeOnDisk \ LeftBehind
      <3> SUFFICES ASSUME ~yes
                   PROVE  Data(it[c]) # Chunk(key[c])
        BY Zenon, <1>6
      <3>1. Data(it[c]) = << >>
        BY <1>2, <2>2
      <3> QED
        BY Zenon, <1>2, <3>1, EmptyIsNotChunk
    <2>5. key' = [key EXCEPT ![c] = key[c]]
      BY Zenon, <1>1, CalmTypes
    <2> HIDE DEF yes
    <2>6. Abstract!Exists(c, key[c])
      BY Zenon, <1>3, <1>4, <1>5, <2>1, <2>3, <2>4, <2>5 DEF Abstract!Exists, Abstract!Answers
    <2> QED
      BY Zenon, <1>2, <2>6
  <1> QED
    BY Zenon, <1>7, <1>8

(* Every step of calm weather is a step of ChunkCache, or none. *)
LEMMA NextRefines ==
  ASSUME TypeInv, LockInv, CalmInv, RefMap, RefMap', [CalmNext]_vars
  PROVE  [Abstract!Next]_(Abstract!vars)
  <1>p. PlaceInv /\ DiskInv /\ AnswerInv
    BY Zenon DEF CalmInv
  <1>1. ASSUME NEW c \in Calls, CalmStep(c)
        PROVE  Abstract!Next \/ UNCHANGED Abstract!vars
    <2>1. ASSUME NEW k \in Keys,
                 GetHit(c, k) \/ GetMiss(c, k) \/ ExistsMiss(c, k) \/ ExistsHit(c, k)
          PROVE  Abstract!Next
      <3>1. Abstract!Ask(c, k) \/ Abstract!Exists(c, k)
        BY Zenon, <1>p, <2>1, BeginRefines
      <3> QED
        BY Zenon, <3>1 DEF Abstract!Next
    <2>2. CASE \/ RecheckHit(c) \/ RecheckMiss(c) \/ SetQueued(c) \/ WaitForSet(c)
               \/ StatMatches(c) \/ StatDiffers(c) \/ RestatMatches(c)
               \/ FetchSucceeds(c) \/ Relock(c) \/ BytesStat(c)
      <3>1. UNCHANGED <<file, inode, content, dir, key, res>>
        BY Zenon, <2>2 DEF RecheckHit, RecheckMiss, SetQueued, WaitForSet, StatMatches, StatDiffers,
                    RestatMatches, FetchSucceeds, Relock, BytesStat, itemVars, diskVars
      <3>2. \E l \in PCs : pc' = [pc EXCEPT ![c] = l] /\ (pc[c] \in Filling <=> l \in Filling)
        BY Zenon, <2>2 DEF RecheckHit, RecheckMiss, SetQueued, WaitForSet, StatMatches, StatDiffers,
                    RestatMatches, FetchSucceeds, Relock, BytesStat, Goto, PCs
      <3>3. PICK l \in PCs : pc' = [pc EXCEPT ![c] = l] /\ (pc[c] \in Filling <=> l \in Filling)
        BY Zenon, <3>2
      <3> QED
        BY Zenon, <3>1, <3>3, Unseen
    <2>3. CASE NewItem(c)
      BY Zenon, <1>p, <2>3, NewItemRefines
    <2>4. CASE RestatDiffers(c) \/ FetchFails(c) \/ Write(c)
      <3>1. Abstract!Fetch(c) \/ Abstract!FetchFails(c) \/ Abstract!FetchSucceeds(c)
        BY Zenon, <1>p, <2>4, FillRefines
      <3> QED
        BY Zenon, <3>1 DEF Abstract!Next
    <2>5. CASE Truncate(c)
      BY Zenon, <1>p, <2>5, FillRefines
    <2>6. CASE Pread(c) \/ ExistsStat(c)
      <3>1. Abstract!Get(c) \/ \E k \in Keys : Abstract!Exists(c, k)
        BY Zenon, <1>p, <2>6, AnswerRefines
      <3> QED
        BY Zenon, <3>1 DEF Abstract!Next
    <2> QED
      BY Zenon, <1>1, <2>1, <2>2, <2>3, <2>4, <2>5, <2>6 DEF CalmStep
  <1>2. CASE Admit \/ UNCHANGED vars
    <2>1. UNCHANGED <<file, inode, content, dir, key, res, pc>>
      BY Zenon, <1>2 DEF Admit, vars, itemVars, diskVars, callVars
    <2>2. WholeOnDisk' = WholeOnDisk /\ LeftBehind' = LeftBehind
      BY Zenon, <2>1, CalmTypes, SameOnDisk
    <2>3. Fetching' = Fetching
      BY Zenon, <2>1 DEF Fetching
    <2> QED
      BY Zenon, <2>1, <2>2, <2>3 DEF Abstract!vars
  <1> QED
    BY Zenon, <1>1, <1>2 DEF CalmNext

(* At the start nothing has been asked for, and what is whole was left. *)
LEMMA InitRefines == Init => Abstract!Init
  <1> SUFFICES ASSUME Init
               PROVE  Abstract!Init
    BY Zenon
  <1>1. /\ file = [i \in Calls |-> "none"] /\ pc = [c \in Calls |-> "start"]
        /\ key = [c \in Calls |-> None] /\ res = [c \in Calls |-> "none"]
    BY Zenon DEF Init
  <1>2. TypeInv /\ PlaceInv /\ DiskInv
    BY Zenon, InitTypeInv, InitCalmInv DEF CalmInv
  <1>3. RefMap
    BY Zenon, <1>2, RefMapHolds
  <1>4. \A k \in Keys : ~HasItem(k) /\ dir[k] \in {k, None}
    <2>1. \A k \in Keys : ~HasItem(k)
      BY Zenon, <1>1 DEF HasItem
    <2> QED
      BY Zenon, <1>2, <2>1 DEF DiskInv, PathsKept
  <1>5. LeftBehind \subseteq Keys /\ WholeOnDisk \subseteq LeftBehind
    BY Zenon, <1>3, <1>4 DEF RefMap
  <1>6. Fetching = [c \in Calls |-> None]
    BY Zenon, <1>1 DEF Fetching
  <1> QED
    BY Zenon, <1>1, <1>5, <1>6 DEF Abstract!Init

(* In calm weather FileCache implements ChunkCache, for any number of calls,
   keys and bytes: calls for one chunk share one fetch, a whole chunk stays
   whole, a call gets the chunk or the error of its own fetch, and Exists
   says what ChunkCache allows it to say. *)
THEOREM CalmImplementsChunkCache ==
  ASSUME Calm
  PROVE  Spec => ImplementsChunkCache
  <1>1. TypeInv /\ LockInv /\ CalmInv => RefMap
    BY Zenon, RefMapHolds DEF CalmInv
  <1>2. TypeInv /\ LockInv /\ CalmInv /\ RefMap /\ RefMap' /\ [Next]_vars
          => [Abstract!Next]_(Abstract!vars)
    BY Zenon, CalmSteps, NextRefines DEF CalmInv
  <1> QED
    BY <1>1, <1>2, InitRefines, CalmInvHolds, PTL DEF Spec, ImplementsChunkCache, Abstract!Spec
=============================================================================
