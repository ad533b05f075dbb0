--------------------------- MODULE FileCacheProofs ---------------------------
(***************************************************************************)
(* Proofs about FileCache for any number of calls and keys: types, and who *)
(* holds item.lock.                                                        *)
(***************************************************************************)
EXTENDS FileCache, TLAPS

-----------------------------------------------------------------------------
(***************************************************************************)
(* Lemmas about sequences and files.                                       *)
(***************************************************************************)
Distinct(s) == \A m, n \in 1 .. Len(s) : s[m] = s[n] => m = n

(* Appending to the set buffer adds that element, and only that. *)
LEMMA AppendElements ==
  ASSUME NEW S, NEW s \in Seq(S), NEW e \in S
  PROVE  /\ Append(s, e) \in Seq(S)
         /\ \A i : InSeq(Append(s, e), i) <=> InSeq(s, i) \/ i = e
         /\ (Distinct(s) /\ ~InSeq(s, e)) => Distinct(Append(s, e))
  <1> DEFINE t == Append(s, e)
  <1>1. t \in Seq(S) /\ Len(t) = Len(s) + 1 /\ Len(s) \in Nat
    OBVIOUS
  <1>2. t[Len(s) + 1] = e /\ \A n \in 1 .. Len(s) : t[n] = s[n]
    OBVIOUS
  <1> HIDE DEF t
  <1>3. \A i : InSeq(t, i) <=> InSeq(s, i) \/ i = e
    BY <1>1, <1>2 DEF InSeq
  <1>4. ASSUME Distinct(s), ~InSeq(s, e)
        PROVE  Distinct(t)
    BY <1>1, <1>2, <1>4 DEF InSeq, Distinct
  <1> QED
    BY Zenon, <1>1, <1>3, <1>4 DEF t

(* Taking the head off a set buffer of distinct elements removes that one. *)
LEMMA TailElements ==
  ASSUME NEW S, NEW s \in Seq(S), s # << >>
  PROVE  /\ Tail(s) \in Seq(S)
         /\ Head(s) \in S
         /\ InSeq(s, Head(s))
         /\ \A i : InSeq(Tail(s), i) => InSeq(s, i)
         /\ Distinct(s) => Distinct(Tail(s)) /\ ~InSeq(Tail(s), Head(s))
         /\ \A i : InSeq(s, i) => InSeq(Tail(s), i) \/ i = Head(s)
  <1> DEFINE t == Tail(s)
  <1>1. t \in Seq(S) /\ Len(s) \in Nat /\ Len(t) = Len(s) - 1 /\ Len(s) >= 1
    OBVIOUS
  <1>2. Head(s) = s[1] /\ Head(s) \in S /\ \A n \in 1 .. Len(t) : t[n] = s[n + 1]
    OBVIOUS
  <1> HIDE DEF t
  <1>3. InSeq(s, Head(s))
    BY <1>1, <1>2 DEF InSeq
  <1>4. \A i : InSeq(t, i) => InSeq(s, i)
    BY <1>1, <1>2 DEF InSeq
  <1>5. ASSUME Distinct(s)
        PROVE  Distinct(t) /\ ~InSeq(t, Head(s))
    BY <1>1, <1>2, <1>5, SMTT(20) DEF InSeq, Distinct
  <1>6. ASSUME NEW i, InSeq(s, i)
        PROVE  InSeq(t, i) \/ i = Head(s)
    <2>1. PICK n \in 1 .. Len(s) : s[n] = i
      BY Zenon, <1>6 DEF InSeq
    <2>2. CASE n = 1
      BY Zenon, <2>1, <2>2, <1>2
    <2>3. CASE n # 1
      <3>1. n - 1 \in 1 .. Len(t) /\ t[n - 1] = i
        BY <2>1, <2>3, <1>1, <1>2
      <3> QED
        BY Zenon, <3>1 DEF InSeq
    <2> QED
      BY Zenon, <2>2, <2>3
  <1> QED
    BY Zenon, <1>1, <1>2, <1>3, <1>4, <1>5, <1>6 DEF t

(* A prefix of a chunk is a sequence of its bytes. *)
LEMMA PrefixType ==
  ASSUME NEW k \in Keys, NEW n \in 0 .. ChunkLen
  PROVE  Prefix(k, n) \in Seq(Bytes) /\ Len(Prefix(k, n)) = n
  BY ConstantsAssumption DEF Prefix, Bytes

(* Writing bytes at an offset of a file leaves a file of bytes. *)
LEMMA WriteAtType ==
  ASSUME NEW old \in Seq(Bytes), NEW p \in Nat, NEW data \in Seq(Bytes)
  PROVE  WriteAt(old, p, data) \in Seq(Bytes)
  <1> DEFINE max == IF Len(old) > p + Len(data) THEN Len(old) ELSE p + Len(data)
  <1>1. max \in Nat /\ Len(old) \in Nat /\ Len(data) \in Nat
    OBVIOUS
  <1>2. ASSUME NEW n \in 1 .. max
        PROVE  (IF n > p /\ n <= p + Len(data) THEN data[n - p]
                ELSE IF n <= Len(old) THEN old[n] ELSE Hole) \in Bytes
    <2>1. CASE n > p /\ n <= p + Len(data)
      <3>1. n - p \in 1 .. Len(data)
        BY <1>1, <2>1
      <3> QED
        BY <2>1, <3>1
    <2>2. CASE ~(n > p /\ n <= p + Len(data))
      BY <2>2, <1>1 DEF Hole, Bytes
    <2> QED
      BY Zenon, <2>1, <2>2
  <1> QED
    BY <1>1, <1>2 DEF WriteAt

(* A chunk written at the start of an empty file is the chunk. *)
LEMMA WriteWholeChunk ==
  ASSUME NEW k \in Keys
  PROVE  WriteAt(<< >>, 0, Prefix(k, ChunkLen)) = Chunk(k)
  <1>1. Len(Prefix(k, ChunkLen)) = ChunkLen
    BY PrefixType, ConstantsAssumption
  <1> QED
    BY <1>1, ConstantsAssumption DEF WriteAt, Chunk, Prefix

-----------------------------------------------------------------------------
(***************************************************************************)
(* Type correctness.  WellFormed says which locals and which fields of an  *)
(* item are set at each point of a call.                                   *)
(***************************************************************************)
Holding == {"rlock", "wlock", "relock", "exists"} \cup Filling \cup Reading
Creating == {"set", "exit", "wait"}
NoItemYet == {"start", "recheck", "new"}

KeysSet == \A c \in Calls : pc[c] # "start" => key[c] \in Keys
CreatedSet ==
  \A i \in Calls : file[i] # "none" => pc[i] \notin NoItemYet /\ inode[i] \in Inodes
CreatingSet == \A c \in Calls : pc[c] \in Creating => it[c] = c /\ file[c] # "none"
HoldingSet ==
  \A c \in Calls : pc[c] \in Holding =>
    it[c] \in Calls /\ file[it[c]] # "none" /\ key[it[c]] = key[c]
StoreSet ==
  \A k \in Keys : store[k] # None => file[store[k]] # "none" /\ key[store[k]] = k
BufSet == \A i \in Calls : InBuf(i) => file[i] # "none"
DropSet ==
  \A g \in Goroutines : dropping[g] # None =>
    file[dropping[g]] # "none" /\ (g \in Calls => pc[g] = "exit")

WellFormed ==
  KeysSet /\ CreatedSet /\ CreatingSet /\ HoldingSet /\ StoreSet /\ BufSet /\ DropSet

TypeInv == TypeOK /\ WellFormed

USE DEF Filling, Reading

(* What an action leaves alone keeps its type. *)
LEMMA TypeFrames ==
  /\ StoreTypeOK /\ UNCHANGED storeVars => StoreTypeOK'
  /\ LockTypeOK /\ UNCHANGED lockVars => LockTypeOK'
  /\ ItemTypeOK /\ UNCHANGED itemVars => ItemTypeOK'
  /\ DiskTypeOK /\ UNCHANGED diskVars => DiskTypeOK'
  /\ CallTypeOK /\ UNCHANGED callVars => CallTypeOK'
  <1>1. StoreTypeOK /\ UNCHANGED storeVars => StoreTypeOK'
    BY Zenon DEF StoreTypeOK, storeVars
  <1>2. LockTypeOK /\ UNCHANGED lockVars => LockTypeOK'
    BY Zenon DEF LockTypeOK, lockVars
  <1>3. ItemTypeOK /\ UNCHANGED itemVars => ItemTypeOK'
    BY Zenon DEF ItemTypeOK, itemVars
  <1>4. DiskTypeOK /\ UNCHANGED diskVars => DiskTypeOK'
    BY Zenon DEF DiskTypeOK, diskVars
  <1>5. CallTypeOK /\ UNCHANGED callVars => CallTypeOK'
    BY Zenon DEF CallTypeOK, callVars
  <1> QED
    BY Zenon, <1>1, <1>2, <1>3, <1>4, <1>5

(* A call that goes on, or returns, keeps the type of its locals. *)
LEMMA CallGoes ==
  ASSUME CallTypeOK, NEW c \in Calls, NEW l \in PCs, Goto(c, l), UNCHANGED <<key, it, size, got, res>>
  PROVE  CallTypeOK'
  BY Zenon DEF CallTypeOK, Goto

LEMMA CallReturns ==
  ASSUME CallTypeOK, NEW c \in Calls, NEW r \in Results, Return(c, r), UNCHANGED <<key, it, size, got>>
  PROVE  CallTypeOK'
  BY Zenon DEF CallTypeOK, Return, PCs

(* The initial state is typed and well formed. *)
LEMMA InitTypeInv == Init => TypeInv
  <1> SUFFICES ASSUME Init
               PROVE  TypeInv
    BY Zenon
  <1>1. \E left \in [Keys -> 0 .. ChunkLen] :
          /\ content = [i \in Inodes |-> IF i \in Keys THEN Prefix(i, left[i]) ELSE << >>]
          /\ dir = [k \in Keys |-> IF left[k] = 0 THEN None ELSE k]
    BY Zenon DEF Init
  <1>2. PICK left \in [Keys -> 0 .. ChunkLen] :
          /\ content = [i \in Inodes |-> IF i \in Keys THEN Prefix(i, left[i]) ELSE << >>]
          /\ dir = [k \in Keys |-> IF left[k] = 0 THEN None ELSE k]
    BY Zenon, <1>1
  <1>3. content \in [Inodes -> Seq(Bytes)]
    BY <1>2, PrefixType
  <1>4. dir \in [Keys -> Inodes \cup {None}]
    BY Zenon, <1>2 DEF Inodes
  <1>5. /\ store = [k \in Keys |-> None] /\ setBuf = << >>
        /\ dropping = [g \in Goroutines |-> None]
        /\ file = [i \in Calls |-> "none"] /\ pc = [c \in Calls |-> "start"]
    BY Zenon DEF Init
  <1>6. StoreTypeOK
    BY <1>5 DEF StoreTypeOK
  <1>7. LockTypeOK
    <2>1. cacheLock = None /\ writer = [i \in Calls |-> None] /\ readers = [i \in Calls |-> {}]
      BY Zenon DEF Init
    <2> QED
      BY Zenon, <2>1 DEF LockTypeOK
  <1>8. ItemTypeOK
    <2>1. inode = [i \in Calls |-> None] /\ pos = [i \in Calls |-> 0] /\ fdCnt = 0
      BY Zenon DEF Init
    <2> QED
      BY <1>5, <2>1 DEF ItemTypeOK
  <1>9. CallTypeOK
    <2>1. /\ key = [c \in Calls |-> None] /\ it = [c \in Calls |-> None]
          /\ size = [c \in Calls |-> 0] /\ got = [c \in Calls |-> << >>]
          /\ res = [c \in Calls |-> "none"]
      BY Zenon DEF Init
    <2> QED
      BY <1>5, <2>1 DEF CallTypeOK, PCs, Results
  <1>10. \A i : ~InBuf(i)
    BY <1>5 DEF InBuf, InSeq
  <1>11. WellFormed
    BY Zenon, <1>5, <1>10 DEF WellFormed, KeysSet, CreatedSet, CreatingSet, HoldingSet, StoreSet, BufSet,
       DropSet, Creating, Holding
  <1> QED
    BY Zenon, <1>3, <1>4, <1>6, <1>7, <1>8, <1>9, <1>11 DEF TypeInv, TypeOK, DiskTypeOK

(* What a call knows of the item it works on. *)
LEMMA HoldingFacts ==
  ASSUME TypeInv, NEW c \in Calls, pc[c] \in Holding
  PROVE  it[c] \in Calls /\ inode[it[c]] \in Inodes /\ key[c] \in Keys
  BY Zenon DEF TypeInv, WellFormed, HoldingSet, CreatedSet, KeysSet, Holding

(* What the policy goroutine knows of the entry it takes from the buffer. *)
LEMMA HeadFacts ==
  ASSUME TypeInv, setBuf # << >>
  PROVE  /\ Tail(setBuf) \in Seq(Calls)
         /\ Head(setBuf) \in Calls
         /\ InBuf(Head(setBuf))
         /\ file[Head(setBuf)] # "none"
         /\ key[Head(setBuf)] \in Keys
         /\ \A i : InSeq(Tail(setBuf), i) => InBuf(i)
  <1>1. /\ Tail(setBuf) \in Seq(Calls) /\ Head(setBuf) \in Calls
        /\ InBuf(Head(setBuf)) /\ \A i : InSeq(Tail(setBuf), i) => InBuf(i)
    BY Zenon, TailElements DEF TypeInv, TypeOK, StoreTypeOK, InBuf
  <1>2. file[Head(setBuf)] # "none"
    BY Zenon, <1>1 DEF TypeInv, WellFormed, BufSet
  <1>3. key[Head(setBuf)] \in Keys
    BY Zenon, <1>1, <1>2 DEF TypeInv, WellFormed, CreatedSet, KeysSet, NoItemYet
  <1> QED
    BY Zenon, <1>1, <1>2, <1>3

(* A step of the call c to l that leaves the cache and the identity of items
   alone keeps the state well formed, if c has what l asks for. *)
LEMMA CallMoves ==
  ASSUME TypeInv, NEW c \in Calls, NEW l \in PCs, pc' = [pc EXCEPT ![c] = l],
         UNCHANGED <<store, setBuf, dropping, file, inode>>,
         \A d \in Calls : d # c => key'[d] = key[d] /\ it'[d] = it[d],
         key'[c] \in Keys, pc[c] = "start" \/ key'[c] = key[c],
         l # "start", l \in NoItemYet => pc[c] \in NoItemYet,
         l \in Creating => it'[c] = c /\ file[c] # "none",
         l \in Holding =>
           it'[c] \in Calls /\ file[it'[c]] # "none" /\ key[it'[c]] = key'[c],
         pc[c] # "exit"
  PROVE  WellFormed'
  <1>1. \A i : InBuf(i)' <=> InBuf(i)
    BY Zenon DEF InBuf
  <1>2. pc'[c] = l /\ \A d \in Calls : d # c => pc'[d] = pc[d]
    BY Zenon DEF TypeInv, TypeOK, CallTypeOK
  <1>3. KeysSet' /\ CreatedSet'
    BY Zenon, <1>2 DEF TypeInv, WellFormed, KeysSet, CreatedSet
  <1>4. CreatingSet'
    BY <1>2 DEF TypeInv, WellFormed, CreatingSet
  <1>5. \A i \in Calls : file[i] # "none" => key'[i] = key[i]
    BY Zenon DEF TypeInv, WellFormed, CreatedSet, NoItemYet
  <1>6. HoldingSet'
    BY <1>2, <1>5 DEF TypeInv, WellFormed, HoldingSet
  <1>7. StoreSet'
    <2>1. \A k \in Keys : store[k] # None => store[k] \in Calls
      BY Zenon DEF TypeInv, TypeOK, StoreTypeOK
    <2> QED
      BY Zenon, <1>5, <2>1 DEF TypeInv, WellFormed, StoreSet
  <1>8. BufSet'
    BY Zenon, <1>1 DEF TypeInv, WellFormed, BufSet
  <1>9. DropSet'
    BY Zenon, <1>2 DEF TypeInv, WellFormed, DropSet
  <1> QED
    BY Zenon, <1>3, <1>4, <1>6, <1>7, <1>8, <1>9 DEF WellFormed

(* A step of a call that has its item moves the call on, or ends it. *)
LEMMA HoldingStep ==
  ASSUME TypeInv, NEW c \in Calls, pc[c] \in Holding,
         NEW l \in Holding \cup {"done"}, pc' = [pc EXCEPT ![c] = l],
         UNCHANGED <<store, setBuf, dropping, file, inode, key, it>>
  PROVE  WellFormed'
  <1>1. it[c] \in Calls /\ file[it[c]] # "none" /\ key[it[c]] = key[c] /\ key[c] \in Keys
    BY Zenon DEF TypeInv, WellFormed, HoldingSet, KeysSet, Holding
  <1>2. l \in PCs /\ l \notin NoItemYet \cup Creating /\ l # "start" /\ pc[c] # "exit"
    BY Zenon DEF Holding, NoItemYet, Creating, PCs
  <1> QED
    BY Zenon, <1>1, <1>2, CallMoves

(* The steps of a call before it has its item, those after it, and the steps
   of the goroutines that close evicted items. *)
LookupStep(c) ==
  \/ \E k \in Keys : GetHit(c, k) \/ GetMiss(c, k) \/ ExistsMiss(c, k) \/ ExistsHit(c, k)
  \/ RecheckHit(c) \/ RecheckMiss(c) \/ NewItem(c) \/ NewItemFails(c)
  \/ SetQueued(c) \/ SetRefused(c) \/ SetReplaces(c) \/ WaitForSet(c)

FillStep(c) ==
  \/ StatFails(c) \/ StatMatches(c) \/ StatDiffers(c)
  \/ RestatFails(c) \/ RestatMatches(c) \/ RestatDiffers(c)
  \/ FetchSucceeds(c) \/ FetchFails(c)
  \/ Truncate(c) \/ TruncateFails(c) \/ Write(c) \/ WriteFails(c)
  \/ Relock(c) \/ BytesStat(c) \/ BytesPanics(c) \/ Pread(c) \/ ExistsStat(c)

Looking == \E c \in Calls : LookupStep(c)
Serving == \E c \in Calls : FillStep(c)
Dropping == \E g \in Goroutines : Drop(g)

(* A call that begins for k, with the item that Get returned if it needs one. *)
LEMMA BeginTypeInv ==
  ASSUME TypeInv, NEW c \in Calls, NEW k \in Keys, pc[c] = "start",
         key' = [key EXCEPT ![c] = k],
         NEW l \in {"rlock", "recheck", "exists", "done"}, pc' = [pc EXCEPT ![c] = l],
         IF l \in {"rlock", "exists"} THEN store[k] # None /\ it' = [it EXCEPT ![c] = store[k]]
                                      ELSE it' = it,
         res' \in [Calls -> Results], UNCHANGED <<size, got>>,
         UNCHANGED storeVars, UNCHANGED lockVars, UNCHANGED itemVars, UNCHANGED diskVars
  PROVE  TypeInv'
  <1>1. store[k] # None => store[k] \in Calls /\ file[store[k]] # "none" /\ key[store[k]] = k
    BY Zenon DEF TypeInv, TypeOK, StoreTypeOK, WellFormed, StoreSet
  <1>2. l \in PCs /\ l # "start" /\ l \notin Creating /\ (l \in Holding => l \in {"rlock", "exists"})
    BY Zenon DEF PCs, Creating, Holding
  <1>3. CallTypeOK'
    BY Zenon, <1>1, <1>2 DEF TypeInv, TypeOK, CallTypeOK
  <1>4. UNCHANGED <<store, setBuf, dropping, file, inode>>
    BY Zenon DEF storeVars, itemVars
  <1>5. /\ \A d \in Calls : d # c => key'[d] = key[d] /\ it'[d] = it[d]
        /\ key'[c] = k /\ (l \in Holding => it'[c] = store[k] /\ store[k] # None)
    BY Zenon, <1>2 DEF TypeInv, TypeOK, CallTypeOK
  <1>6. WellFormed'
    BY Zenon, <1>1, <1>2, <1>4, <1>5, CallMoves DEF NoItemYet
  <1> QED
    BY Zenon, <1>3, <1>6, TypeFrames DEF TypeInv, TypeOK

(* Looking an item up, creating it and handing it to ristretto keep the state
   typed and well formed. *)
LEMMA LookupTypeInv ==
  ASSUME TypeInv, Looking
  PROVE  TypeInv'
  <1>t. StoreTypeOK /\ LockTypeOK /\ ItemTypeOK /\ DiskTypeOK /\ CallTypeOK /\ WellFormed
    BY Zenon DEF TypeInv, TypeOK
  <1>1. ASSUME NEW c \in Calls, NEW k \in Keys, GetHit(c, k)
        PROVE  TypeInv'
    <2>1. UNCHANGED storeVars /\ UNCHANGED lockVars /\ UNCHANGED itemVars /\ UNCHANGED diskVars
      BY Zenon, <1>1 DEF GetHit
    <2>2. /\ pc[c] = "start" /\ key' = [key EXCEPT ![c] = k] /\ pc' = [pc EXCEPT ![c] = "rlock"]
          /\ store[k] # None /\ it' = [it EXCEPT ![c] = store[k]] /\ UNCHANGED <<size, got>>
      BY Zenon, <1>1 DEF GetHit, Goto
    <2>3. res' \in [Calls -> Results]
      BY Zenon, <1>1, <1>t DEF GetHit, CallTypeOK, Results
    <2> QED
      BY Zenon, <2>1, <2>2, <2>3, BeginTypeInv
  <1>2. ASSUME NEW c \in Calls, NEW k \in Keys, GetMiss(c, k)
        PROVE  TypeInv'
    <2>1. UNCHANGED storeVars /\ UNCHANGED lockVars /\ UNCHANGED itemVars /\ UNCHANGED diskVars
      BY Zenon, <1>2 DEF GetMiss
    <2>2. /\ pc[c] = "start" /\ key' = [key EXCEPT ![c] = k] /\ pc' = [pc EXCEPT ![c] = "recheck"]
          /\ it' = it /\ UNCHANGED <<size, got>>
      BY Zenon, <1>2 DEF GetMiss, Goto
    <2>3. res' \in [Calls -> Results]
      BY Zenon, <1>2, <1>t DEF GetMiss, CallTypeOK, Results
    <2> QED
      BY Zenon, <2>1, <2>2, <2>3, BeginTypeInv
  <1>3. ASSUME NEW c \in Calls, NEW k \in Keys, ExistsMiss(c, k)
        PROVE  TypeInv'
    <2>1. UNCHANGED storeVars /\ UNCHANGED lockVars /\ UNCHANGED itemVars /\ UNCHANGED diskVars
      BY Zenon, <1>3 DEF ExistsMiss
    <2>2. /\ pc[c] = "start" /\ key' = [key EXCEPT ![c] = k] /\ pc' = [pc EXCEPT ![c] = "done"]
          /\ it' = it /\ UNCHANGED <<size, got>>
      BY Zenon, <1>3 DEF ExistsMiss, Return
    <2>3. res' \in [Calls -> Results]
      BY Zenon, <1>3, <1>t DEF ExistsMiss, CallTypeOK, Return, Results
    <2> QED
      BY Zenon, <2>1, <2>2, <2>3, BeginTypeInv
  <1>4. ASSUME NEW c \in Calls, NEW k \in Keys, ExistsHit(c, k)
        PROVE  TypeInv'
    <2>1. UNCHANGED storeVars /\ UNCHANGED lockVars /\ UNCHANGED itemVars /\ UNCHANGED diskVars
      BY Zenon, <1>4 DEF ExistsHit
    <2>2. /\ pc[c] = "start" /\ key' = [key EXCEPT ![c] = k] /\ pc' = [pc EXCEPT ![c] = "exists"]
          /\ store[k] # None /\ it' = [it EXCEPT ![c] = store[k]] /\ UNCHANGED <<size, got>>
      BY Zenon, <1>4 DEF ExistsHit, Goto
    <2>3. res' \in [Calls -> Results]
      BY Zenon, <1>4, <1>t DEF ExistsHit, CallTypeOK, Results
    <2> QED
      BY Zenon, <2>1, <2>2, <2>3, BeginTypeInv
  <1>5. ASSUME NEW c \in Calls, RecheckHit(c)
        PROVE  TypeInv'
    <2>1. /\ UNCHANGED storeVars /\ UNCHANGED lockVars /\ UNCHANGED itemVars /\ UNCHANGED diskVars
          /\ UNCHANGED <<key, size, got, res>>
      BY Zenon, <1>5 DEF RecheckHit
    <2>2. /\ pc[c] = "recheck" /\ pc' = [pc EXCEPT ![c] = "rlock"]
          /\ store[key[c]] # None /\ it' = [it EXCEPT ![c] = store[key[c]]]
      BY Zenon, <1>5 DEF RecheckHit, Goto
    <2>3. key[c] \in Keys
      BY Zenon, <1>t, <2>2 DEF WellFormed, KeysSet
    <2>4. store[key[c]] \in Calls /\ file[store[key[c]]] # "none" /\ key[store[key[c]]] = key[c]
      BY Zenon, <1>t, <2>2, <2>3 DEF StoreTypeOK, WellFormed, StoreSet
    <2>5. CallTypeOK'
      BY Zenon, <1>t, <2>1, <2>2, <2>4 DEF CallTypeOK, PCs
    <2>6. it'[c] = store[key[c]] /\ \A d \in Calls : d # c => it'[d] = it[d]
      BY Zenon, <1>t, <2>2 DEF CallTypeOK
    <2>7. UNCHANGED <<store, setBuf, dropping, file, inode, key>>
      BY Zenon, <2>1 DEF storeVars, itemVars
    <2>l. "rlock" \in PCs /\ "rlock" # "start" /\ "recheck" # "exit" /\ "rlock" \notin Creating \cup NoItemYet
      BY Zenon DEF PCs, NoItemYet, Creating
    <2>8. WellFormed'
      BY Zenon, <2>2, <2>3, <2>4, <2>6, <2>7, <2>l, CallMoves
    <2> QED
      BY Zenon, <1>t, <2>1, <2>5, <2>8, TypeFrames DEF TypeInv, TypeOK
  <1>6. ASSUME NEW c \in Calls, RecheckMiss(c)
        PROVE  TypeInv'
    <2>1. UNCHANGED storeVars /\ UNCHANGED itemVars /\ UNCHANGED diskVars
      BY Zenon, <1>6 DEF RecheckMiss
    <2>2. LockTypeOK'
      BY Zenon, <1>6, <1>t DEF RecheckMiss, LockTypeOK
    <2>3. CallTypeOK'
      BY Zenon, <1>6, <1>t, CallGoes DEF RecheckMiss, PCs
    <2>4. /\ pc[c] = "recheck" /\ pc' = [pc EXCEPT ![c] = "new"]
          /\ UNCHANGED <<store, setBuf, dropping, file, inode, key, it>>
      BY Zenon, <1>6, <2>1 DEF RecheckMiss, Goto, storeVars, itemVars
    <2>5. key[c] \in Keys
      BY Zenon, <1>t, <2>4 DEF WellFormed, KeysSet
    <2>l. "new" \in PCs /\ "new" # "start" /\ "recheck" # "exit" /\ "new" \notin Creating
          /\ "new" \notin Holding /\ "recheck" \in NoItemYet
      BY Zenon DEF PCs, NoItemYet, Creating, Holding
    <2>6. WellFormed'
      BY Zenon, <2>4, <2>5, <2>l, CallMoves
    <2> QED
      BY Zenon, <1>t, <2>1, <2>2, <2>3, <2>6, TypeFrames DEF TypeInv, TypeOK
  <1>10. ASSUME NEW c \in Calls, SetRefused(c)
        PROVE  TypeInv'
    <2>1. UNCHANGED storeVars /\ UNCHANGED itemVars /\ UNCHANGED diskVars
      BY Zenon, <1>10 DEF SetRefused
    <2>2. LockTypeOK'
      BY Zenon, <1>10, <1>t DEF SetRefused, LockTypeOK
    <2>3. CallTypeOK'
      BY Zenon, <1>10, <1>t, CallReturns DEF SetRefused, Results
    <2>4. /\ pc[c] = "set" /\ pc' = [pc EXCEPT ![c] = "done"]
          /\ UNCHANGED <<store, setBuf, dropping, file, inode, key, it>>
      BY Zenon, <1>10, <2>1 DEF SetRefused, Return, storeVars, itemVars
    <2>5. key[c] \in Keys
      BY Zenon, <1>t, <2>4 DEF WellFormed, KeysSet
    <2>l. "done" \in PCs /\ "done" # "start" /\ "set" # "exit" /\ "done" \notin Creating
          /\ "done" \notin Holding /\ "done" \notin NoItemYet
      BY Zenon DEF PCs, NoItemYet, Creating, Holding
    <2>6. WellFormed'
      BY Zenon, <2>4, <2>5, <2>l, CallMoves
    <2> QED
      BY Zenon, <1>t, <2>1, <2>2, <2>3, <2>6, TypeFrames DEF TypeInv, TypeOK
  <1>12. ASSUME NEW c \in Calls, WaitForSet(c)
        PROVE  TypeInv'
    <2>1. UNCHANGED storeVars /\ UNCHANGED itemVars /\ UNCHANGED diskVars
      BY Zenon, <1>12 DEF WaitForSet
    <2>2. LockTypeOK'
      BY Zenon, <1>12, <1>t DEF WaitForSet, LockTypeOK
    <2>3. CallTypeOK'
      BY Zenon, <1>12, <1>t, CallGoes DEF WaitForSet, PCs
    <2>4. /\ pc[c] = "wait" /\ pc' = [pc EXCEPT ![c] = "rlock"]
          /\ UNCHANGED <<store, setBuf, dropping, file, inode, key, it>>
      BY Zenon, <1>12, <2>1 DEF WaitForSet, Goto, storeVars, itemVars
    <2>5. key[c] \in Keys /\ it[c] = c /\ file[c] # "none"
      BY Zenon, <1>t, <2>4 DEF WellFormed, KeysSet, CreatingSet, Creating
    <2>l. "rlock" \in PCs /\ "rlock" # "start" /\ "wait" # "exit" /\ "rlock" \notin Creating
          /\ "rlock" \notin NoItemYet
      BY Zenon DEF PCs, NoItemYet, Creating, Holding
    <2>h. file[it[c]] # "none" /\ key[it[c]] = key[c] /\ it[c] \in Calls
      BY Zenon, <2>5
    <2>6. WellFormed'
      BY Zenon, <2>4, <2>5, <2>l, <2>h, CallMoves
    <2> QED
      BY Zenon, <1>t, <2>1, <2>2, <2>3, <2>6, TypeFrames DEF TypeInv, TypeOK
  <1>8. ASSUME NEW c \in Calls, NewItemFails(c)
        PROVE  TypeInv'
    <2>1. UNCHANGED storeVars /\ UNCHANGED diskVars /\ UNCHANGED <<file, inode, pos>>
      BY Zenon, <1>8 DEF NewItemFails
    <2>2. LockTypeOK' /\ ItemTypeOK'
      BY <1>8, <1>t DEF NewItemFails, LockTypeOK, ItemTypeOK
    <2>3. CallTypeOK'
      BY Zenon, <1>8, <1>t, CallReturns DEF NewItemFails, Results
    <2>4. /\ pc[c] = "new" /\ pc' = [pc EXCEPT ![c] = "done"]
          /\ UNCHANGED <<store, setBuf, dropping, file, inode, key, it>>
      BY Zenon, <1>8, <2>1 DEF NewItemFails, Return, storeVars
    <2>5. key[c] \in Keys
      BY Zenon, <1>t, <2>4 DEF WellFormed, KeysSet
    <2>l. "done" \in PCs /\ "done" # "start" /\ "new" # "exit" /\ "done" \notin Creating
          /\ "done" \notin Holding /\ "done" \notin NoItemYet
      BY Zenon DEF PCs, NoItemYet, Creating, Holding
    <2>6. WellFormed'
      BY Zenon, <2>4, <2>5, <2>l, CallMoves
    <2> QED
      BY Zenon, <1>t, <2>1, <2>2, <2>3, <2>6, TypeFrames DEF TypeInv, TypeOK
  <1>7. ASSUME NEW c \in Calls, NewItem(c)
        PROVE  TypeInv'
    <2> DEFINE ino == IF dir[key[c]] = None THEN c ELSE dir[key[c]]
    <2>1. UNCHANGED storeVars /\ UNCHANGED lockVars /\ UNCHANGED <<pos, content, key, size, got, res>>
      BY Zenon, <1>7 DEF NewItem
    <2>2. /\ pc[c] = "new" /\ pc' = [pc EXCEPT ![c] = "set"] /\ it' = [it EXCEPT ![c] = c]
          /\ file' = [file EXCEPT ![c] = "open"] /\ inode' = [inode EXCEPT ![c] = ino]
          /\ dir' = [dir EXCEPT ![key[c]] = ino] /\ fdCnt' = fdCnt + 1
      BY Zenon, <1>7 DEF NewItem, Goto, FdAfterOpen
    <2>3. key[c] \in Keys
      BY Zenon, <1>t, <2>2 DEF WellFormed, KeysSet
    <2>4. ino \in Inodes
      BY Zenon, <1>t, <2>3 DEF DiskTypeOK, Inodes
    <2> HIDE DEF ino
    <2>5. ItemTypeOK' /\ DiskTypeOK'
      <3>1. ItemTypeOK'
        BY <1>t, <2>1, <2>2, <2>4 DEF ItemTypeOK
      <3>2. DiskTypeOK'
        BY Zenon, <1>t, <2>1, <2>2, <2>4 DEF DiskTypeOK
      <3> QED
        BY Zenon, <3>1, <3>2
    <2>6. CallTypeOK'
      BY Zenon, <1>t, <2>1, <2>2 DEF CallTypeOK, PCs
    <2>7. /\ pc'[c] = "set" /\ it'[c] = c /\ file'[c] = "open" /\ inode'[c] \in Inodes
          /\ \A d \in Calls : d # c => /\ pc'[d] = pc[d] /\ it'[d] = it[d]
                                       /\ file'[d] = file[d] /\ inode'[d] = inode[d]
      BY Zenon, <1>t, <2>2, <2>4 DEF CallTypeOK, ItemTypeOK
    <2>8. KeysSet' /\ CreatedSet' /\ CreatingSet'
      BY Zenon, <1>t, <2>1, <2>3, <2>7 DEF WellFormed, KeysSet, CreatedSet, CreatingSet, NoItemYet
    <2>9. \A i \in Calls : file[i] # "none" => file'[i] # "none"
      BY Zenon, <2>7
    <2>10. HoldingSet'
      BY <1>t, <2>1, <2>7, <2>9 DEF WellFormed, HoldingSet, Holding
    <2>11. StoreSet' /\ BufSet' /\ DropSet'
      <3>1. UNCHANGED <<store, setBuf, dropping>> /\ \A i : InBuf(i)' <=> InBuf(i)
        BY Zenon, <2>1 DEF storeVars, InBuf
      <3>2. StoreSet'
        BY Zenon, <1>t, <2>1, <2>9, <3>1 DEF StoreTypeOK, WellFormed, StoreSet
      <3>3. BufSet'
        BY Zenon, <1>t, <2>9, <3>1 DEF WellFormed, BufSet
      <3>4. DropSet'
        BY Zenon, <1>t, <2>2, <2>7, <2>9, <3>1 DEF StoreTypeOK, WellFormed, DropSet
      <3> QED
        BY Zenon, <3>2, <3>3, <3>4
    <2> QED
      BY Zenon, <1>t, <2>1, <2>5, <2>6, <2>8, <2>10, <2>11, TypeFrames DEF TypeInv, TypeOK, WellFormed
  <1>9. ASSUME NEW c \in Calls, SetQueued(c)
        PROVE  TypeInv'
    <2>1. /\ UNCHANGED <<store, dropping>> /\ UNCHANGED lockVars /\ UNCHANGED itemVars
          /\ UNCHANGED diskVars /\ UNCHANGED <<key, it>>
      BY Zenon, <1>9 DEF SetQueued
    <2>2. pc[c] = "set" /\ pc' = [pc EXCEPT ![c] = "wait"] /\ setBuf' = Append(setBuf, c)
      BY Zenon, <1>9 DEF SetQueued, Goto
    <2>3. setBuf' \in Seq(Calls) /\ \A i : InBuf(i)' <=> InBuf(i) \/ i = c
      BY Zenon, <1>t, <2>2, AppendElements DEF InBuf, StoreTypeOK
    <2>4. StoreTypeOK'
      BY Zenon, <1>t, <2>1, <2>3 DEF StoreTypeOK
    <2>5. CallTypeOK'
      BY Zenon, <1>9, <1>t, CallGoes DEF SetQueued, PCs
    <2>6. pc'[c] = "wait" /\ \A d \in Calls : d # c => pc'[d] = pc[d]
      BY Zenon, <1>t, <2>2 DEF CallTypeOK
    <2>7. UNCHANGED <<file, inode>>
      BY Zenon, <2>1 DEF itemVars
    <2>8. KeysSet' /\ CreatedSet' /\ CreatingSet' /\ HoldingSet'
      BY Zenon, <1>t, <2>1, <2>2, <2>6, <2>7 DEF WellFormed, KeysSet, CreatedSet, CreatingSet, HoldingSet,
         NoItemYet, Creating, Holding
    <2>9. StoreSet' /\ DropSet'
      BY Zenon, <1>t, <2>1, <2>2, <2>6, <2>7 DEF WellFormed, StoreSet, DropSet
    <2>10. BufSet'
      BY Zenon, <1>t, <2>2, <2>3, <2>7 DEF WellFormed, BufSet, CreatingSet, Creating
    <2> QED
      BY Zenon, <1>t, <2>1, <2>4, <2>5, <2>8, <2>9, <2>10, TypeFrames DEF TypeInv, TypeOK, WellFormed
  <1>11. ASSUME NEW c \in Calls, SetReplaces(c)
        PROVE  TypeInv'
    <2>1. /\ UNCHANGED setBuf /\ UNCHANGED lockVars /\ UNCHANGED itemVars
          /\ UNCHANGED diskVars /\ UNCHANGED <<key, it>>
      BY Zenon, <1>11 DEF SetReplaces
    <2>2. /\ pc[c] = "set" /\ pc' = [pc EXCEPT ![c] = "exit"] /\ store[key[c]] # None
          /\ store' = [store EXCEPT ![key[c]] = c]
          /\ dropping' = [dropping EXCEPT ![c] = store[key[c]]]
      BY Zenon, <1>11 DEF SetReplaces, Goto
    <2>3. key[c] \in Keys /\ file[c] # "none"
      BY Zenon, <1>t, <2>2 DEF WellFormed, KeysSet, CreatingSet, Creating
    <2>4. store[key[c]] \in Calls /\ file[store[key[c]]] # "none" /\ c \in Goroutines
      BY Zenon, <1>t, <2>2, <2>3 DEF StoreTypeOK, WellFormed, StoreSet, Goroutines
    <2>5. StoreTypeOK'
      BY Zenon, <1>t, <2>1, <2>2, <2>4 DEF StoreTypeOK
    <2>6. CallTypeOK'
      BY Zenon, <1>11, <1>t, CallGoes DEF SetReplaces, PCs
    <2>7. pc'[c] = "exit" /\ \A d \in Calls : d # c => pc'[d] = pc[d]
      BY Zenon, <1>t, <2>2 DEF CallTypeOK
    <2>8. UNCHANGED <<file, inode>> /\ \A i : InBuf(i)' <=> InBuf(i)
      BY Zenon, <2>1 DEF itemVars, InBuf
    <2>9. KeysSet' /\ CreatedSet' /\ CreatingSet' /\ HoldingSet'
      BY Zenon, <1>t, <2>1, <2>2, <2>7, <2>8 DEF WellFormed, KeysSet, CreatedSet, CreatingSet, HoldingSet,
         NoItemYet, Creating, Holding
    <2>10. StoreSet' /\ BufSet'
      BY Zenon, <1>t, <2>1, <2>2, <2>3, <2>8 DEF WellFormed, StoreSet, BufSet, StoreTypeOK
    <2>11. DropSet'
      BY Zenon, <1>t, <2>2, <2>4, <2>7, <2>8 DEF WellFormed, DropSet, StoreTypeOK
    <2> QED
      BY Zenon, <1>t, <2>1, <2>5, <2>6, <2>9, <2>10, <2>11, TypeFrames DEF TypeInv, TypeOK, WellFormed
  <1> QED
    BY Zenon, <1>1, <1>2, <1>3, <1>4, <1>5, <1>6, <1>7, <1>8, <1>9, <1>10, <1>11, <1>12
       DEF Looking, LookupStep

(* A step of a call that has its item and only moves on or returns. *)
LEMMA QuietFillStep ==
  ASSUME TypeInv, NEW c \in Calls, pc[c] \in Holding, NEW l \in Holding \cup {"done"},
         pc' = [pc EXCEPT ![c] = l], CallTypeOK', LockTypeOK', DiskTypeOK', ItemTypeOK',
         UNCHANGED storeVars, UNCHANGED <<file, inode, key, it>>
  PROVE  TypeInv'
  <1>1. UNCHANGED <<store, setBuf, dropping, file, inode, key, it>>
    BY Zenon DEF storeVars
  <1>2. WellFormed'
    BY Zenon, <1>1, HoldingStep
  <1> QED
    BY Zenon, <1>2, TypeFrames DEF TypeInv, TypeOK

(* So do comparing sizes, filling the file and reading it. *)
LEMMA FillTypeInv ==
  ASSUME TypeInv, Serving
  PROVE  TypeInv'
  <1>t. StoreTypeOK /\ LockTypeOK /\ ItemTypeOK /\ DiskTypeOK /\ CallTypeOK /\ WellFormed
    BY Zenon DEF TypeInv, TypeOK
  <1>1. ASSUME NEW c \in Calls, StatFails(c)
        PROVE  TypeInv'
    <2>1. /\ pc[c] = "rlock" /\ pc' = [pc EXCEPT ![c] = "done"] /\ UNCHANGED storeVars
          /\ UNCHANGED <<file, inode, key, it>>
          /\ UNCHANGED lockVars /\ UNCHANGED itemVars /\ UNCHANGED diskVars
      BY Zenon, <1>1 DEF StatFails, Return, itemVars
    <2>2. pc[c] \in Holding /\ "done" \in Holding \cup {"done"}
      BY Zenon, <2>1 DEF Holding
    <2>3. it[c] \in Calls /\ inode[it[c]] \in Inodes /\ key[c] \in Keys
      BY Zenon, <2>2, HoldingFacts
    <2>7. CallTypeOK'
      BY Zenon, <1>1, <1>t, CallReturns DEF StatFails, Results
    <2> QED
      BY Zenon, <1>t, <2>1, <2>2, <2>7, TypeFrames, QuietFillStep
  <1>2. ASSUME NEW c \in Calls, StatMatches(c)
        PROVE  TypeInv'
    <2>1. /\ pc[c] = "rlock" /\ pc' = [pc EXCEPT ![c] = "bytes"] /\ UNCHANGED storeVars
          /\ UNCHANGED <<file, inode, key, it>>
          /\ UNCHANGED itemVars /\ UNCHANGED diskVars
      BY Zenon, <1>2 DEF StatMatches, Goto, itemVars
    <2>2. pc[c] \in Holding /\ "bytes" \in Holding \cup {"done"}
      BY Zenon, <2>1 DEF Holding
    <2>3. it[c] \in Calls /\ inode[it[c]] \in Inodes /\ key[c] \in Keys
      BY Zenon, <2>2, HoldingFacts
    <2>4. LockTypeOK'
      BY Zenon, <1>2, <1>t, <2>3 DEF StatMatches, LockTypeOK
    <2>7. CallTypeOK'
      BY Zenon, <1>2, <1>t, CallGoes DEF StatMatches, PCs
    <2> QED
      BY Zenon, <1>t, <2>1, <2>2, <2>7, <2>4, TypeFrames, QuietFillStep
  <1>3. ASSUME NEW c \in Calls, StatDiffers(c)
        PROVE  TypeInv'
    <2>1. /\ pc[c] = "rlock" /\ pc' = [pc EXCEPT ![c] = "wlock"] /\ UNCHANGED storeVars
          /\ UNCHANGED <<file, inode, key, it>>
          /\ UNCHANGED lockVars /\ UNCHANGED itemVars /\ UNCHANGED diskVars
      BY Zenon, <1>3 DEF StatDiffers, Goto, itemVars
    <2>2. pc[c] \in Holding /\ "wlock" \in Holding \cup {"done"}
      BY Zenon, <2>1 DEF Holding
    <2>3. it[c] \in Calls /\ inode[it[c]] \in Inodes /\ key[c] \in Keys
      BY Zenon, <2>2, HoldingFacts
    <2>7. CallTypeOK'
      BY Zenon, <1>3, <1>t, CallGoes DEF StatDiffers, PCs
    <2> QED
      BY Zenon, <1>t, <2>1, <2>2, <2>7, TypeFrames, QuietFillStep
  <1>4. ASSUME NEW c \in Calls, RestatFails(c)
        PROVE  TypeInv'
    <2>1. /\ pc[c] = "wlock" /\ pc' = [pc EXCEPT ![c] = "done"] /\ UNCHANGED storeVars
          /\ UNCHANGED <<file, inode, key, it>>
          /\ UNCHANGED lockVars /\ UNCHANGED itemVars /\ UNCHANGED diskVars
      BY Zenon, <1>4 DEF RestatFails, Return, itemVars
    <2>2. pc[c] \in Holding /\ "done" \in Holding \cup {"done"}
      BY Zenon, <2>1 DEF Holding
    <2>3. it[c] \in Calls /\ inode[it[c]] \in Inodes /\ key[c] \in Keys
      BY Zenon, <2>2, HoldingFacts
    <2>7. CallTypeOK'
      BY Zenon, <1>4, <1>t, CallReturns DEF RestatFails, Results
    <2> QED
      BY Zenon, <1>t, <2>1, <2>2, <2>7, TypeFrames, QuietFillStep
  <1>5. ASSUME NEW c \in Calls, RestatMatches(c)
        PROVE  TypeInv'
    <2>1. /\ pc[c] = "wlock" /\ pc' = [pc EXCEPT ![c] = "relock"] /\ UNCHANGED storeVars
          /\ UNCHANGED <<file, inode, key, it>>
          /\ UNCHANGED lockVars /\ UNCHANGED itemVars /\ UNCHANGED diskVars
      BY Zenon, <1>5 DEF RestatMatches, Goto, itemVars
    <2>2. pc[c] \in Holding /\ "relock" \in Holding \cup {"done"}
      BY Zenon, <2>1 DEF Holding
    <2>3. it[c] \in Calls /\ inode[it[c]] \in Inodes /\ key[c] \in Keys
      BY Zenon, <2>2, HoldingFacts
    <2>7. CallTypeOK'
      BY Zenon, <1>5, <1>t, CallGoes DEF RestatMatches, PCs
    <2> QED
      BY Zenon, <1>t, <2>1, <2>2, <2>7, TypeFrames, QuietFillStep
  <1>6. ASSUME NEW c \in Calls, RestatDiffers(c)
        PROVE  TypeInv'
    <2>1. /\ pc[c] = "wlock" /\ pc' = [pc EXCEPT ![c] = "fetch"] /\ UNCHANGED storeVars
          /\ UNCHANGED <<file, inode, key, it>>
          /\ UNCHANGED itemVars /\ UNCHANGED diskVars
      BY Zenon, <1>6 DEF RestatDiffers, Goto, itemVars
    <2>2. pc[c] \in Holding /\ "fetch" \in Holding \cup {"done"}
      BY Zenon, <2>1 DEF Holding
    <2>3. it[c] \in Calls /\ inode[it[c]] \in Inodes /\ key[c] \in Keys
      BY Zenon, <2>2, HoldingFacts
    <2>4. LockTypeOK'
      BY Zenon, <1>6, <1>t, <2>3 DEF RestatDiffers, LockTypeOK
    <2>7. CallTypeOK'
      BY Zenon, <1>6, <1>t, CallGoes DEF RestatDiffers, PCs
    <2> QED
      BY Zenon, <1>t, <2>1, <2>2, <2>7, <2>4, TypeFrames, QuietFillStep
  <1>7. ASSUME NEW c \in Calls, FetchSucceeds(c)
        PROVE  TypeInv'
    <2>1. /\ pc[c] = "fetch" /\ pc' = [pc EXCEPT ![c] = "trunc"] /\ UNCHANGED storeVars
          /\ UNCHANGED <<file, inode, key, it>>
          /\ UNCHANGED lockVars /\ UNCHANGED itemVars /\ UNCHANGED diskVars
      BY Zenon, <1>7 DEF FetchSucceeds, Goto, itemVars
    <2>2. pc[c] \in Holding /\ "trunc" \in Holding \cup {"done"}
      BY Zenon, <2>1 DEF Holding
    <2>3. it[c] \in Calls /\ inode[it[c]] \in Inodes /\ key[c] \in Keys
      BY Zenon, <2>2, HoldingFacts
    <2>7. CallTypeOK'
      BY Zenon, <1>7, <1>t, CallGoes DEF FetchSucceeds, PCs
    <2> QED
      BY Zenon, <1>t, <2>1, <2>2, <2>7, TypeFrames, QuietFillStep
  <1>8. ASSUME NEW c \in Calls, FetchFails(c)
        PROVE  TypeInv'
    <2>1. /\ pc[c] = "fetch" /\ pc' = [pc EXCEPT ![c] = "done"] /\ UNCHANGED storeVars
          /\ UNCHANGED <<file, inode, key, it>>
          /\ UNCHANGED itemVars
      BY Zenon, <1>8 DEF FetchFails, Return, itemVars
    <2>2. pc[c] \in Holding /\ "done" \in Holding \cup {"done"}
      BY Zenon, <2>1 DEF Holding
    <2>3. it[c] \in Calls /\ inode[it[c]] \in Inodes /\ key[c] \in Keys
      BY Zenon, <2>2, HoldingFacts
    <2>4. LockTypeOK'
      BY Zenon, <1>8, <1>t, <2>3 DEF FetchFails, LockTypeOK, Unlock
    <2>6. DiskTypeOK'
      BY Zenon, <1>8, <1>t, <2>3 DEF FetchFails, DiskTypeOK
    <2>7. CallTypeOK'
      BY Zenon, <1>8, <1>t, CallReturns DEF FetchFails, Results
    <2> QED
      BY Zenon, <1>t, <2>1, <2>2, <2>7, <2>4, <2>6, TypeFrames, QuietFillStep
  <1>9. ASSUME NEW c \in Calls, Truncate(c)
        PROVE  TypeInv'
    <2>1. /\ pc[c] = "trunc" /\ pc' = [pc EXCEPT ![c] = "write"] /\ UNCHANGED storeVars
          /\ UNCHANGED <<file, inode, key, it>>
          /\ UNCHANGED lockVars /\ UNCHANGED itemVars
      BY Zenon, <1>9 DEF Truncate, Goto, itemVars
    <2>2. pc[c] \in Holding /\ "write" \in Holding \cup {"done"}
      BY Zenon, <2>1 DEF Holding
    <2>3. it[c] \in Calls /\ inode[it[c]] \in Inodes /\ key[c] \in Keys
      BY Zenon, <2>2, HoldingFacts
    <2>6. DiskTypeOK'
      BY <1>9, <1>t, <2>3 DEF Truncate, DiskTypeOK
    <2>7. CallTypeOK'
      BY Zenon, <1>9, <1>t, CallGoes DEF Truncate, PCs
    <2> QED
      BY Zenon, <1>t, <2>1, <2>2, <2>7, <2>6, TypeFrames, QuietFillStep
  <1>10. ASSUME NEW c \in Calls, TruncateFails(c)
        PROVE  TypeInv'
    <2>1. /\ pc[c] = "trunc" /\ pc' = [pc EXCEPT ![c] = "done"] /\ UNCHANGED storeVars
          /\ UNCHANGED <<file, inode, key, it>>
          /\ UNCHANGED itemVars /\ UNCHANGED diskVars
      BY Zenon, <1>10 DEF TruncateFails, Return, itemVars
    <2>2. pc[c] \in Holding /\ "done" \in Holding \cup {"done"}
      BY Zenon, <2>1 DEF Holding
    <2>3. it[c] \in Calls /\ inode[it[c]] \in Inodes /\ key[c] \in Keys
      BY Zenon, <2>2, HoldingFacts
    <2>4. LockTypeOK'
      BY Zenon, <1>10, <1>t, <2>3 DEF TruncateFails, LockTypeOK, Unlock
    <2>7. CallTypeOK'
      BY Zenon, <1>10, <1>t, CallReturns DEF TruncateFails, Results
    <2> QED
      BY Zenon, <1>t, <2>1, <2>2, <2>7, <2>4, TypeFrames, QuietFillStep
  <1>11. ASSUME NEW c \in Calls, Write(c)
        PROVE  TypeInv'
    <2>1. /\ pc[c] = "write" /\ pc' = [pc EXCEPT ![c] = "relock"] /\ UNCHANGED storeVars
          /\ UNCHANGED <<file, inode, key, it>>
      BY Zenon, <1>11 DEF Write, Goto
    <2>2. pc[c] \in Holding /\ "relock" \in Holding \cup {"done"}
      BY Zenon, <2>1 DEF Holding
    <2>3. it[c] \in Calls /\ inode[it[c]] \in Inodes /\ key[c] \in Keys
      BY Zenon, <2>2, HoldingFacts
    <2>n. ChunkLen \in Nat
      BY Zenon, ConstantsAssumption
    <2>a. WriteAt(content[inode[it[c]]], pos[it[c]], Prefix(key[c], ChunkLen)) \in Seq(Bytes)
      <3>1. content[inode[it[c]]] \in Seq(Bytes) /\ pos[it[c]] \in Nat
        BY Zenon, <1>t, <2>3 DEF ItemTypeOK, DiskTypeOK
      <3>2. Prefix(key[c], ChunkLen) \in Seq(Bytes)
        BY <2>3, PrefixType, ConstantsAssumption
      <3> QED
        BY ONLY <3>1, <3>2, WriteAtType
    <2>b. content' = [content EXCEPT ![inode[it[c]]] =
                        WriteAt(@, pos[it[c]], Prefix(key[c], ChunkLen))]
      BY Zenon, <1>11 DEF Write, WriteLen, Unlock
    <2>e. pos' = [pos EXCEPT ![it[c]] = @ + ChunkLen] /\ writer' = [writer EXCEPT ![it[c]] = None]
      BY Zenon, <1>11 DEF Write, WriteLen, Unlock
    <2>c. UNCHANGED <<dir, fdCnt, cacheLock, readers>>
      BY Zenon, <1>11 DEF Write
    <2>4. LockTypeOK'
      BY Zenon, <1>t, <2>3, <2>c, <2>e DEF LockTypeOK
    <2>5. ItemTypeOK'
      BY <1>t, <2>1, <2>3, <2>c, <2>e, <2>n DEF ItemTypeOK
    <2>6. DiskTypeOK'
      BY Zenon, <1>t, <2>3, <2>a, <2>b, <2>c DEF DiskTypeOK
    <2>7. CallTypeOK'
      BY Zenon, <1>11, <1>t, CallGoes DEF Write, PCs
    <2> QED
      BY Zenon, <1>t, <2>1, <2>2, <2>7, <2>4, <2>5, <2>6, TypeFrames, QuietFillStep
  <1>12. ASSUME NEW c \in Calls, WriteFails(c)
        PROVE  TypeInv'
    <2>1. /\ pc[c] = "write" /\ pc' = [pc EXCEPT ![c] = "done"] /\ UNCHANGED storeVars
          /\ UNCHANGED <<file, inode, key, it>>
      BY Zenon, <1>12 DEF WriteFails, Return
    <2>2. pc[c] \in Holding /\ "done" \in Holding \cup {"done"}
      BY Zenon, <2>1 DEF Holding
    <2>3. it[c] \in Calls /\ inode[it[c]] \in Inodes /\ key[c] \in Keys
      BY Zenon, <2>2, HoldingFacts
    <2>p. PICK m \in 0 .. ChunkLen - 1 : WriteLen(c, m)
      BY Zenon, <1>12 DEF WriteFails
    <2>n. m \in Nat
      BY ConstantsAssumption
    <2>a. WriteAt(content[inode[it[c]]], pos[it[c]], Prefix(key[c], m)) \in Seq(Bytes)
      <3>1. content[inode[it[c]]] \in Seq(Bytes) /\ pos[it[c]] \in Nat
        BY Zenon, <1>t, <2>3 DEF ItemTypeOK, DiskTypeOK
      <3>2. Prefix(key[c], m) \in Seq(Bytes)
        BY <2>3, PrefixType, ConstantsAssumption
      <3> QED
        BY ONLY <3>1, <3>2, WriteAtType
    <2>b. content' = [content EXCEPT ![inode[it[c]]] =
                        WriteAt(@, pos[it[c]], Prefix(key[c], m))]
      BY Zenon, <2>p DEF WriteLen, Unlock
    <2>e. pos' = [pos EXCEPT ![it[c]] = @ + m] /\ writer' = [writer EXCEPT ![it[c]] = None]
      BY Zenon, <2>p DEF WriteLen, Unlock
    <2>c. UNCHANGED <<fdCnt, cacheLock, readers>>
      BY Zenon, <1>12 DEF WriteFails
    <2>d. dir' = [dir EXCEPT ![key[c]] = None]
      BY Zenon, <1>12 DEF WriteFails
    <2>4. LockTypeOK'
      BY Zenon, <1>t, <2>3, <2>c, <2>e DEF LockTypeOK
    <2>5. ItemTypeOK'
      BY <1>t, <2>1, <2>3, <2>c, <2>e, <2>n DEF ItemTypeOK
    <2>6. DiskTypeOK'
      BY Zenon, <1>t, <2>3, <2>a, <2>b, <2>c, <2>d DEF DiskTypeOK
    <2>7. CallTypeOK'
      BY Zenon, <1>12, <1>t, CallReturns DEF WriteFails, Results
    <2> QED
      BY Zenon, <1>t, <2>1, <2>2, <2>7, <2>4, <2>5, <2>6, TypeFrames, QuietFillStep
  <1>13. ASSUME NEW c \in Calls, Relock(c)
        PROVE  TypeInv'
    <2>1. /\ pc[c] = "relock" /\ pc' = [pc EXCEPT ![c] = "bytes"] /\ UNCHANGED storeVars
          /\ UNCHANGED <<file, inode, key, it>>
          /\ UNCHANGED itemVars /\ UNCHANGED diskVars
      BY Zenon, <1>13 DEF Relock, Goto, itemVars
    <2>2. pc[c] \in Holding /\ "bytes" \in Holding \cup {"done"}
      BY Zenon, <2>1 DEF Holding
    <2>3. it[c] \in Calls /\ inode[it[c]] \in Inodes /\ key[c] \in Keys
      BY Zenon, <2>2, HoldingFacts
    <2>4. LockTypeOK'
      BY Zenon, <1>13, <1>t, <2>3 DEF Relock, LockTypeOK
    <2>7. CallTypeOK'
      BY Zenon, <1>13, <1>t, CallGoes DEF Relock, PCs
    <2> QED
      BY Zenon, <1>t, <2>1, <2>2, <2>7, <2>4, TypeFrames, QuietFillStep
  <1>14. ASSUME NEW c \in Calls, BytesStat(c)
        PROVE  TypeInv'
    <2>1. /\ pc[c] = "bytes" /\ pc' = [pc EXCEPT ![c] = "pread"] /\ UNCHANGED storeVars
          /\ UNCHANGED <<file, inode, key, it>>
          /\ UNCHANGED lockVars /\ UNCHANGED itemVars /\ UNCHANGED diskVars
      BY Zenon, <1>14 DEF BytesStat, Goto, itemVars
    <2>2. pc[c] \in Holding /\ "pread" \in Holding \cup {"done"}
      BY Zenon, <2>1 DEF Holding
    <2>3. it[c] \in Calls /\ inode[it[c]] \in Inodes /\ key[c] \in Keys
      BY Zenon, <2>2, HoldingFacts
    <2>a. size' \in [Calls -> Nat] /\ UNCHANGED <<got, res>>
      BY <1>14, <1>t, <2>3 DEF BytesStat, Size, CallTypeOK, DiskTypeOK
    <2>7. CallTypeOK'
      BY Zenon, <1>t, <2>1, <2>a DEF CallTypeOK, PCs
    <2> QED
      BY Zenon, <1>t, <2>1, <2>2, <2>7, TypeFrames, QuietFillStep
  <1>15. ASSUME NEW c \in Calls, BytesPanics(c)
        PROVE  TypeInv'
    <2>1. /\ pc[c] = "bytes" /\ pc' = [pc EXCEPT ![c] = "done"] /\ UNCHANGED storeVars
          /\ UNCHANGED <<file, inode, key, it>>
          /\ UNCHANGED lockVars /\ UNCHANGED itemVars /\ UNCHANGED diskVars
      BY Zenon, <1>15 DEF BytesPanics, Return, itemVars
    <2>2. pc[c] \in Holding /\ "done" \in Holding \cup {"done"}
      BY Zenon, <2>1 DEF Holding
    <2>3. it[c] \in Calls /\ inode[it[c]] \in Inodes /\ key[c] \in Keys
      BY Zenon, <2>2, HoldingFacts
    <2>7. CallTypeOK'
      BY Zenon, <1>15, <1>t, CallReturns DEF BytesPanics, Results
    <2> QED
      BY Zenon, <1>t, <2>1, <2>2, <2>7, TypeFrames, QuietFillStep
  <1>16. ASSUME NEW c \in Calls, Pread(c)
        PROVE  TypeInv'
    <2>1. /\ pc[c] = "pread" /\ pc' = [pc EXCEPT ![c] = "done"] /\ UNCHANGED storeVars
          /\ UNCHANGED <<file, inode, key, it>>
          /\ UNCHANGED itemVars /\ UNCHANGED diskVars
      BY Zenon, <1>16 DEF Pread, Return, itemVars
    <2>2. pc[c] \in Holding /\ "done" \in Holding \cup {"done"}
      BY Zenon, <2>1 DEF Holding
    <2>3. it[c] \in Calls /\ inode[it[c]] \in Inodes /\ key[c] \in Keys
      BY Zenon, <2>2, HoldingFacts
    <2>a. Len(content[inode[it[c]]]) >= size[c] =>
            SubSeq(content[inode[it[c]]], 1, size[c]) \in Seq(Bytes)
      BY <1>t, <2>3 DEF DiskTypeOK, CallTypeOK
    <2>b. got' \in [Calls -> Seq(Bytes)] /\ UNCHANGED size
      BY <1>16, <1>t, <2>a DEF Pread, CallTypeOK
    <2>c. res' \in [Calls -> Results]
      BY Zenon, <1>16, <1>t DEF Pread, Return, CallTypeOK, Results
    <2>4. LockTypeOK'
      BY Zenon, <1>16, <1>t, <2>3 DEF Pread, LockTypeOK
    <2>7. CallTypeOK'
      BY Zenon, <1>t, <2>1, <2>b, <2>c DEF CallTypeOK, PCs
    <2> QED
      BY Zenon, <1>t, <2>1, <2>2, <2>7, <2>4, TypeFrames, QuietFillStep
  <1>17. ASSUME NEW c \in Calls, ExistsStat(c)
        PROVE  TypeInv'
    <2>1. /\ pc[c] = "exists" /\ pc' = [pc EXCEPT ![c] = "done"] /\ UNCHANGED storeVars
          /\ UNCHANGED <<file, inode, key, it>>
          /\ UNCHANGED lockVars /\ UNCHANGED itemVars /\ UNCHANGED diskVars
      BY Zenon, <1>17 DEF ExistsStat, Return, itemVars
    <2>2. pc[c] \in Holding /\ "done" \in Holding \cup {"done"}
      BY Zenon, <2>1 DEF Holding
    <2>3. it[c] \in Calls /\ inode[it[c]] \in Inodes /\ key[c] \in Keys
      BY Zenon, <2>2, HoldingFacts
    <2>7. CallTypeOK'
      BY Zenon, <1>17, <1>t, <2>1 DEF ExistsStat, Return, CallTypeOK, PCs, Results
    <2> QED
      BY Zenon, <1>t, <2>1, <2>2, <2>7, TypeFrames, QuietFillStep
  <1> QED
    BY Zenon, <1>1, <1>2, <1>3, <1>4, <1>5, <1>6, <1>7, <1>8, <1>9, <1>10, <1>11, <1>12, <1>13,
       <1>14, <1>15, <1>16, <1>17
       DEF Serving, FillStep

(* So do the policy goroutine and item.drop. *)
LEMMA PolicyTypeInv ==
  ASSUME TypeInv, PolicyStep \/ Dropping
  PROVE  TypeInv'
  <1>t. StoreTypeOK /\ LockTypeOK /\ ItemTypeOK /\ DiskTypeOK /\ CallTypeOK /\ WellFormed
    BY Zenon DEF TypeInv, TypeOK
  <1>p. Policy \notin Calls
    BY Zenon, ConstantsAssumption
  <1>1. ASSUME Admit
        PROVE  TypeInv'
    <2>1. /\ setBuf # << >> /\ setBuf' = Tail(setBuf)
          /\ UNCHANGED lockVars /\ UNCHANGED itemVars /\ UNCHANGED diskVars /\ UNCHANGED callVars
      BY Zenon, <1>1 DEF Admit, PolicyIdle, AfterHead
    <2>2. PICK h \in Calls :
            /\ h = Head(setBuf) /\ file[h] # "none" /\ key[h] \in Keys
            /\ setBuf' \in Seq(Calls) /\ \A i : InBuf(i)' => InBuf(i)
      BY Zenon, <2>1, HeadFacts DEF InBuf
    <2>3. UNCHANGED <<file, inode, pc, key, it>>
      BY Zenon, <2>1 DEF itemVars, callVars
    <2>4. store' = [store EXCEPT ![key[h]] = h] /\ dropping' = dropping
      BY Zenon, <1>1, <2>2 DEF Admit
    <2>5. StoreTypeOK'
      BY Zenon, <1>t, <2>2, <2>4 DEF StoreTypeOK, Goroutines
    <2>6. KeysSet' /\ CreatedSet' /\ CreatingSet' /\ HoldingSet'
      BY Zenon, <1>t, <2>3 DEF WellFormed, KeysSet, CreatedSet, CreatingSet, HoldingSet
    <2>7. StoreSet'
      BY Zenon, <1>t, <2>2, <2>3, <2>4 DEF WellFormed, StoreSet, StoreTypeOK
    <2>8. BufSet'
      BY Zenon, <1>t, <2>2, <2>3 DEF WellFormed, BufSet
    <2>9. DropSet'
      BY Zenon, <1>t, <2>2, <2>3, <2>4 DEF WellFormed, DropSet, StoreTypeOK
    <2> QED
      BY Zenon, <1>t, <2>1, <2>5, <2>6, <2>7, <2>8, <2>9, TypeFrames DEF TypeInv, TypeOK, WellFormed
  <1>2. ASSUME NEW k \in Keys, AdmitEvicting(k)
        PROVE  TypeInv'
    <2>1. /\ setBuf # << >> /\ setBuf' = Tail(setBuf)
          /\ UNCHANGED lockVars /\ UNCHANGED itemVars /\ UNCHANGED diskVars /\ UNCHANGED callVars
      BY Zenon, <1>2 DEF AdmitEvicting, PolicyIdle, AfterHead
    <2>2. PICK h \in Calls :
            /\ h = Head(setBuf) /\ file[h] # "none" /\ key[h] \in Keys
            /\ setBuf' \in Seq(Calls) /\ \A i : InBuf(i)' => InBuf(i)
      BY Zenon, <2>1, HeadFacts DEF InBuf
    <2>3. UNCHANGED <<file, inode, pc, key, it>>
      BY Zenon, <2>1 DEF itemVars, callVars
    <2>4. /\ store' = [store EXCEPT ![k] = None, ![key[h]] = h]
          /\ dropping' = [dropping EXCEPT ![Policy] = store[k]] /\ store[k] # None
      BY Zenon, <1>2, <2>2 DEF AdmitEvicting, VictimLeaves
    <2>v. store[k] \in Calls /\ file[store[k]] # "none"
      BY Zenon, <1>t, <2>4 DEF StoreTypeOK, WellFormed, StoreSet
    <2>5. StoreTypeOK'
      BY Zenon, <1>t, <2>2, <2>4, <2>v DEF StoreTypeOK, Goroutines
    <2>6. KeysSet' /\ CreatedSet' /\ CreatingSet' /\ HoldingSet'
      BY Zenon, <1>t, <2>3 DEF WellFormed, KeysSet, CreatedSet, CreatingSet, HoldingSet
    <2>7. StoreSet'
      BY Zenon, <1>t, <2>2, <2>3, <2>4, <2>v DEF WellFormed, StoreSet, StoreTypeOK
    <2>8. BufSet'
      BY Zenon, <1>t, <2>2, <2>3 DEF WellFormed, BufSet
    <2>9. DropSet'
      BY Zenon, <1>t, <2>2, <2>3, <2>4, <2>v, <1>p DEF WellFormed, DropSet, StoreTypeOK
    <2> QED
      BY Zenon, <1>t, <2>1, <2>5, <2>6, <2>7, <2>8, <2>9, TypeFrames DEF TypeInv, TypeOK, WellFormed
  <1>3. ASSUME Reject
        PROVE  TypeInv'
    <2>1. /\ setBuf # << >> /\ setBuf' = Tail(setBuf)
          /\ UNCHANGED lockVars /\ UNCHANGED itemVars /\ UNCHANGED diskVars /\ UNCHANGED callVars
      BY Zenon, <1>3 DEF Reject, PolicyIdle, AfterHead
    <2>2. PICK h \in Calls :
            /\ h = Head(setBuf) /\ file[h] # "none" /\ key[h] \in Keys
            /\ setBuf' \in Seq(Calls) /\ \A i : InBuf(i)' => InBuf(i)
      BY Zenon, <2>1, HeadFacts DEF InBuf
    <2>3. UNCHANGED <<file, inode, pc, key, it>>
      BY Zenon, <2>1 DEF itemVars, callVars
    <2>4. store' = store /\ dropping' = [dropping EXCEPT ![Policy] = h]
      BY Zenon, <1>3, <2>2 DEF Reject
    <2>5. StoreTypeOK'
      BY Zenon, <1>t, <2>2, <2>4 DEF StoreTypeOK, Goroutines
    <2>6. KeysSet' /\ CreatedSet' /\ CreatingSet' /\ HoldingSet'
      BY Zenon, <1>t, <2>3 DEF WellFormed, KeysSet, CreatedSet, CreatingSet, HoldingSet
    <2>7. StoreSet'
      BY Zenon, <1>t, <2>2, <2>3, <2>4 DEF WellFormed, StoreSet, StoreTypeOK
    <2>8. BufSet'
      BY Zenon, <1>t, <2>2, <2>3 DEF WellFormed, BufSet
    <2>9. DropSet'
      BY Zenon, <1>t, <2>2, <2>3, <2>4, <1>p DEF WellFormed, DropSet, StoreTypeOK
    <2> QED
      BY Zenon, <1>t, <2>1, <2>5, <2>6, <2>7, <2>8, <2>9, TypeFrames DEF TypeInv, TypeOK, WellFormed
  <1>4. ASSUME NEW g \in Goroutines, Drop(g)
        PROVE  TypeInv'
    <2>1. /\ UNCHANGED lockVars /\ UNCHANGED <<store, setBuf, inode, pos, content, key, it, size, got, res>>
          /\ dropping' = [dropping EXCEPT ![g] = None] /\ file' = [file EXCEPT ![dropping[g]] = "nil"]
          /\ dir' = [dir EXCEPT ![key[dropping[g]]] = None] /\ fdCnt' = fdCnt - 1
          /\ dropping[g] # None
      BY Zenon, <1>4 DEF Drop
    <2>2. pc' = IF g \in Calls THEN [pc EXCEPT ![g] = "wait"] ELSE pc
      BY Zenon, <1>4 DEF Drop
    <2>3. /\ dropping[g] \in Calls /\ file[dropping[g]] # "none"
          /\ key[dropping[g]] \in Keys /\ (g \in Calls => pc[g] = "exit")
      BY Zenon, <1>t, <2>1 DEF StoreTypeOK, WellFormed, DropSet, KeysSet, CreatedSet, NoItemYet
    <2>4. StoreTypeOK'
      BY Zenon, <1>t, <2>1 DEF StoreTypeOK
    <2>5. ItemTypeOK'
      BY <1>t, <2>1, <2>3 DEF ItemTypeOK
    <2>6. DiskTypeOK'
      BY Zenon, <1>t, <2>1, <2>3 DEF DiskTypeOK
    <2>7. CallTypeOK'
      BY Zenon, <1>t, <2>1, <2>2 DEF CallTypeOK, PCs
    <2>8. \A i \in Calls : file'[i] # "none" <=> file[i] # "none"
      BY Zenon, <1>t, <2>1, <2>3 DEF ItemTypeOK
    <2>9. \A c \in Calls : pc'[c] = pc[c] \/ (c = g /\ pc[c] = "exit" /\ pc'[c] = "wait")
      BY Zenon, <1>t, <2>2, <2>3 DEF CallTypeOK
    <2>10. \A h \in Goroutines : dropping'[h] # None => h # g /\ dropping'[h] = dropping[h]
      BY Zenon, <1>t, <2>1 DEF StoreTypeOK
    <2>11. KeysSet' /\ CreatedSet' /\ CreatingSet'
      BY Zenon, <1>t, <2>1, <2>8, <2>9, Zenon DEF WellFormed, KeysSet, CreatedSet, CreatingSet, Creating,
         NoItemYet
    <2>u. UNCHANGED <<store, setBuf, key, it>> /\ UNCHANGED lockVars
      BY Zenon, <2>1
    <2>h. \A c \in Calls : pc'[c] \in Holding => pc'[c] = pc[c]
      BY Zenon, <2>9 DEF Holding
    <2>12. HoldingSet'
      BY Zenon, <1>t, <2>8, <2>h, <2>u DEF WellFormed, HoldingSet
    <2>13. StoreSet'
      BY Zenon, <1>t, <2>8, <2>u DEF StoreTypeOK, WellFormed, StoreSet
    <2>14. BufSet'
      BY Zenon, <1>t, <2>8, <2>u DEF WellFormed, BufSet, InBuf
    <2>15. DropSet'
      BY <1>t, <2>8, <2>9, <2>10 DEF StoreTypeOK, WellFormed, DropSet
    <2> QED
      BY Zenon, <1>t, <2>u, <2>4, <2>5, <2>6, <2>7, <2>11, <2>12, <2>13, <2>14, <2>15, TypeFrames
         DEF TypeInv, TypeOK, WellFormed
  <1> QED
    BY Zenon, <1>1, <1>2, <1>3, <1>4 DEF PolicyStep, Dropping

(* Every step of a call, of the policy goroutine and of item.drop keeps the
   state typed and well formed. *)
LEMMA NextTypeInv == TypeInv /\ [Next]_vars => TypeInv'
  <1> SUFFICES ASSUME TypeInv, [Next]_vars
               PROVE  TypeInv'
    BY Zenon
  <1>1. ASSUME NEW c \in Calls, CallStep(c)
        PROVE  TypeInv'
    BY Zenon, <1>1, LookupTypeInv, FillTypeInv DEF CallStep, Looking, Serving, LookupStep, FillStep
  <1>2. CASE PolicyStep \/ Dropping
    BY Zenon, <1>2, PolicyTypeInv
  <1>3. CASE UNCHANGED vars
    <2>1. /\ UNCHANGED storeVars /\ UNCHANGED lockVars /\ UNCHANGED itemVars
          /\ UNCHANGED diskVars /\ UNCHANGED callVars
      BY Zenon, <1>3 DEF vars
    <2>2. UNCHANGED <<store, setBuf, dropping, file, inode, pc, key, it>>
      BY Zenon, <2>1 DEF storeVars, itemVars, callVars
    <2>3. WellFormed'
      BY Zenon, <2>2 DEF TypeInv, WellFormed, KeysSet, CreatedSet, CreatingSet, HoldingSet, StoreSet,
         BufSet, DropSet, InBuf
    <2> QED
      BY Zenon, <2>1, <2>3, TypeFrames DEF TypeInv, TypeOK
  <1> QED
    BY Zenon, <1>1, <1>2, <1>3 DEF Next, Quiet, Dropping

(* FileCache keeps its type: the state of the cache, of its items and of its
   calls. *)
THEOREM TypeCorrect == Spec => []TypeOK
<1>1. TypeInv => TypeOK
  BY Zenon DEF TypeInv
<1> QED
  BY <1>1, InitTypeInv, NextTypeInv, PTL DEF Spec

-----------------------------------------------------------------------------
(***************************************************************************)
(* item.lock.  A filling call holds it in write mode and a reading call in *)
(* read mode; item.drop, which needs it in write mode, waits for both.     *)
(***************************************************************************)
FillersLock == \A c \in Calls : pc[c] \in Filling => writer[it[c]] = c
ReadersLock == \A c \in Calls : pc[c] \in Reading => c \in readers[it[c]]
WriterAlone == \A i \in Calls : writer[i] # None => readers[i] = {}
LockInv == FillersLock /\ ReadersLock /\ WriterAlone /\ FillsOpenFile

(* The types of what the lock discipline is about. *)
LEMMA LockTypes ==
  ASSUME TypeInv
  PROVE  /\ pc \in [Calls -> PCs] /\ it \in [Calls -> Calls \cup {None}]
         /\ file \in [Calls -> {"none", "open", "nil"}]
         /\ writer \in [Calls -> Calls \cup {None}] /\ readers \in [Calls -> SUBSET Calls]
         /\ \A d \in Calls : pc[d] \in Filling \cup Reading => it[d] \in Calls
  BY Zenon DEF TypeInv, TypeOK, LockTypeOK, ItemTypeOK, CallTypeOK, WellFormed, HoldingSet, Holding

(* LockInv is about item.lock, item.file and the calls that hold the lock. *)
LEMMA LockFrame ==
  ASSUME LockInv, UNCHANGED <<writer, readers>>,
         \A c \in Calls : pc'[c] \in Filling \cup Reading => pc'[c] = pc[c] /\ it'[c] = it[c],
         \A c \in Calls : pc[c] \in Filling => file'[it[c]] = file[it[c]]
  PROVE  LockInv'
  <1>1. FillersLock' /\ ReadersLock' /\ WriterAlone'
    BY Zenon DEF LockInv, FillersLock, ReadersLock, WriterAlone
  <1>2. FillsOpenFile'
    BY Zenon DEF LockInv, FillsOpenFile
  <1> QED
    BY Zenon, <1>1, <1>2 DEF LockInv

(* A step of the call c to a place where it holds no lock. *)
LEMMA LockStep ==
  ASSUME TypeInv, LockInv, NEW c \in Calls, NEW l, l \notin Filling \cup Reading,
         pc' = [pc EXCEPT ![c] = l], UNCHANGED <<writer, readers>>,
         \A d \in Calls : d # c => it'[d] = it[d],
         \A i \in Calls : file[i] = "open" => file'[i] = "open"
  PROVE  LockInv'
  <1>1. \A d \in Calls : pc'[d] \in Filling \cup Reading => pc'[d] = pc[d] /\ it'[d] = it[d]
    BY Zenon, LockTypes
  <1>2. \A d \in Calls : pc[d] \in Filling => file'[it[d]] = file[it[d]]
    BY Zenon, LockTypes DEF LockInv, FillsOpenFile
  <1> QED
    BY Zenon, <1>1, <1>2, LockFrame

(* item.lock taken in write mode, when nobody holds it. *)
LEMMA LockExclusive ==
  ASSUME TypeInv, LockInv, NEW c \in Calls, it[c] \in Calls, CanLock(it[c]),
         file[it[c]] = "open", writer' = [writer EXCEPT ![it[c]] = c],
         pc' = [pc EXCEPT ![c] = "fetch"], UNCHANGED <<readers, it, file>>
  PROVE  LockInv'
  <1>1. /\ pc'[c] = "fetch" /\ writer'[it[c]] = c
        /\ \A d \in Calls : d # c => pc'[d] = pc[d]
        /\ \A i \in Calls : i # it[c] => writer'[i] = writer[i]
    BY Zenon, LockTypes
  <1>2. \A d \in Calls : pc[d] \in Filling \cup Reading => it[d] \in Calls /\ it[d] # it[c]
    BY Zenon, LockTypes, ConstantsAssumption DEF CanLock, LockInv, FillersLock, ReadersLock
  <1>3. FillersLock'
    BY Zenon, <1>1, <1>2 DEF LockInv, FillersLock
  <1>4. ReadersLock'
    BY Zenon, <1>1 DEF LockInv, ReadersLock, Reading
  <1>5. WriterAlone'
    BY Zenon, <1>1 DEF CanLock, LockInv, WriterAlone
  <1>6. FillsOpenFile'
    BY Zenon, <1>1 DEF LockInv, FillsOpenFile
  <1> QED
    BY Zenon, <1>3, <1>4, <1>5, <1>6 DEF LockInv

(* A call that keeps the lock it holds goes on. *)
LEMMA LockKept ==
  ASSUME LockInv, UNCHANGED <<writer, readers, it, file>>,
         \A d \in Calls : /\ pc'[d] \in Filling => pc[d] \in Filling
                          /\ pc'[d] \in Reading => pc[d] \in Reading
  PROVE  LockInv'
  BY Zenon DEF LockInv, FillersLock, ReadersLock, WriterAlone, FillsOpenFile

(* item.lock taken in read mode, when no writer holds it. *)
LEMMA LockShared ==
  ASSUME TypeInv, LockInv, NEW c \in Calls, it[c] \in Calls, CanRLock(it[c]),
         readers' = [readers EXCEPT ![it[c]] = @ \cup {c}],
         pc' = [pc EXCEPT ![c] = "bytes"], UNCHANGED <<writer, it, file>>
  PROVE  LockInv'
  <1>1. /\ pc'[c] = "bytes" /\ readers'[it[c]] = readers[it[c]] \cup {c}
        /\ \A d \in Calls : d # c => pc'[d] = pc[d]
        /\ \A i \in Calls : i # it[c] => readers'[i] = readers[i]
    BY Zenon, LockTypes
  <1>2. FillersLock' /\ FillsOpenFile'
    BY Zenon, <1>1 DEF LockInv, FillersLock, FillsOpenFile
  <1>3. ReadersLock'
    BY Zenon, <1>1, LockTypes DEF LockInv, ReadersLock
  <1>4. WriterAlone'
    BY Zenon, <1>1 DEF CanRLock, LockInv, WriterAlone
  <1> QED
    BY Zenon, <1>2, <1>3, <1>4 DEF LockInv

(* item.lock given back by the reader c. *)
LEMMA UnlockShared ==
  ASSUME TypeInv, LockInv, NEW c \in Calls, it[c] \in Calls,
         readers' = [readers EXCEPT ![it[c]] = @ \ {c}],
         pc' = [pc EXCEPT ![c] = "done"], UNCHANGED <<writer, it, file>>
  PROVE  LockInv'
  <1>1. /\ pc'[c] = "done" /\ readers'[it[c]] = readers[it[c]] \ {c}
        /\ \A d \in Calls : d # c => pc'[d] = pc[d]
        /\ \A i \in Calls : i # it[c] => readers'[i] = readers[i]
    BY Zenon, LockTypes
  <1>2. FillersLock' /\ FillsOpenFile'
    BY Zenon, <1>1 DEF LockInv, FillersLock, FillsOpenFile
  <1>3. ReadersLock'
    BY Zenon, <1>1, LockTypes DEF LockInv, ReadersLock
  <1>4. WriterAlone'
    BY Zenon, <1>1 DEF LockInv, WriterAlone
  <1> QED
    BY Zenon, <1>2, <1>3, <1>4 DEF LockInv

(* item.lock given back by the writer c: no other call was filling. *)
LEMMA UnlockExclusive ==
  ASSUME TypeInv, LockInv, NEW c \in Calls, pc[c] \in Filling, it[c] \in Calls,
         NEW l \in {"relock", "done"}, pc' = [pc EXCEPT ![c] = l],
         writer' = Unlock(it[c]), UNCHANGED <<readers, it, file>>
  PROVE  LockInv'
  <1>1. /\ pc'[c] = l /\ writer'[it[c]] = None
        /\ \A d \in Calls : d # c => pc'[d] = pc[d]
        /\ \A i \in Calls : i # it[c] => writer'[i] = writer[i]
    BY Zenon, LockTypes DEF Unlock
  <1>2. \A d \in Calls : d # c /\ pc[d] \in Filling => it[d] \in Calls /\ it[d] # it[c]
    BY Zenon, LockTypes DEF LockInv, FillersLock
  <1>3. FillersLock'
    BY Zenon, <1>1, <1>2 DEF LockInv, FillersLock
  <1>4. ReadersLock' /\ FillsOpenFile'
    BY Zenon, <1>1 DEF LockInv, ReadersLock, FillsOpenFile
  <1>5. WriterAlone'
    BY Zenon, <1>1 DEF LockInv, WriterAlone
  <1> QED
    BY Zenon, <1>3, <1>4, <1>5 DEF LockInv

(* Every step respects item.lock. *)
LEMMA NextLockInv == TypeInv /\ LockInv /\ [Next]_vars => LockInv'
  <1> SUFFICES ASSUME TypeInv, LockInv, [Next]_vars
               PROVE  LockInv'
    BY Zenon
  <1>t. /\ pc \in [Calls -> PCs] /\ it \in [Calls -> Calls \cup {None}]
        /\ file \in [Calls -> {"none", "open", "nil"}]
    BY Zenon, LockTypes
  <1>1. ASSUME NEW c \in Calls, NEW k \in Keys, GetHit(c, k)
        PROVE  LockInv'
    <2>1. /\ pc' = [pc EXCEPT ![c] = "rlock"] /\ UNCHANGED <<writer, readers>>
          /\ it' = [it EXCEPT ![c] = store[k]] /\ file' = file
      BY Zenon, <1>1 DEF GetHit, Goto, lockVars, itemVars
    <2> QED
      BY Zenon, <1>t, <2>1, LockStep
  <1>2. ASSUME NEW c \in Calls, NEW k \in Keys, GetMiss(c, k)
        PROVE  LockInv'
    <2>1. /\ pc' = [pc EXCEPT ![c] = "recheck"] /\ UNCHANGED <<writer, readers>>
          /\ it' = it /\ file' = file
      BY Zenon, <1>2 DEF GetMiss, Goto, lockVars, itemVars
    <2> QED
      BY Zenon, <1>t, <2>1, LockStep
  <1>3. ASSUME NEW c \in Calls, NEW k \in Keys, ExistsMiss(c, k)
        PROVE  LockInv'
    <2>1. /\ pc' = [pc EXCEPT ![c] = "done"] /\ UNCHANGED <<writer, readers>>
          /\ it' = it /\ file' = file
      BY Zenon, <1>3 DEF ExistsMiss, Return, lockVars, itemVars
    <2> QED
      BY Zenon, <1>t, <2>1, LockStep
  <1>4. ASSUME NEW c \in Calls, NEW k \in Keys, ExistsHit(c, k)
        PROVE  LockInv'
    <2>1. /\ pc' = [pc EXCEPT ![c] = "exists"] /\ UNCHANGED <<writer, readers>>
          /\ it' = [it EXCEPT ![c] = store[k]] /\ file' = file
      BY Zenon, <1>4 DEF ExistsHit, Goto, lockVars, itemVars
    <2> QED
      BY Zenon, <1>t, <2>1, LockStep
  <1>5. ASSUME NEW c \in Calls, RecheckHit(c)
        PROVE  LockInv'
    <2>1. /\ pc' = [pc EXCEPT ![c] = "rlock"] /\ UNCHANGED <<writer, readers>>
          /\ it' = [it EXCEPT ![c] = store[key[c]]] /\ file' = file
      BY Zenon, <1>5 DEF RecheckHit, Goto, lockVars, itemVars
    <2> QED
      BY Zenon, <1>t, <2>1, LockStep
  <1>6. ASSUME NEW c \in Calls, RecheckMiss(c)
        PROVE  LockInv'
    <2>1. /\ pc' = [pc EXCEPT ![c] = "new"] /\ UNCHANGED <<writer, readers>>
          /\ it' = it /\ file' = file
      BY Zenon, <1>6 DEF RecheckMiss, Goto, itemVars
    <2> QED
      BY Zenon, <1>t, <2>1, LockStep
  <1>7. ASSUME NEW c \in Calls, NewItem(c)
        PROVE  LockInv'
    <2>1. /\ pc' = [pc EXCEPT ![c] = "set"] /\ UNCHANGED <<writer, readers>>
          /\ it' = [it EXCEPT ![c] = c] /\ file' = [file EXCEPT ![c] = "open"]
      BY Zenon, <1>7 DEF NewItem, Goto, lockVars
    <2> QED
      BY Zenon, <1>t, <2>1, LockStep
  <1>8. ASSUME NEW c \in Calls, NewItemFails(c)
        PROVE  LockInv'
    <2>1. /\ pc' = [pc EXCEPT ![c] = "done"] /\ UNCHANGED <<writer, readers>>
          /\ it' = it /\ file' = file
      BY Zenon, <1>8 DEF NewItemFails, Return
    <2> QED
      BY Zenon, <1>t, <2>1, LockStep
  <1>9. ASSUME NEW c \in Calls, SetQueued(c)
        PROVE  LockInv'
    <2>1. /\ pc' = [pc EXCEPT ![c] = "wait"] /\ UNCHANGED <<writer, readers>>
          /\ it' = it /\ file' = file
      BY Zenon, <1>9 DEF SetQueued, Goto, lockVars, itemVars
    <2> QED
      BY Zenon, <1>t, <2>1, LockStep
  <1>10. ASSUME NEW c \in Calls, SetRefused(c)
        PROVE  LockInv'
    <2>1. /\ pc' = [pc EXCEPT ![c] = "done"] /\ UNCHANGED <<writer, readers>>
          /\ it' = it /\ file' = file
      BY Zenon, <1>10 DEF SetRefused, Return, itemVars
    <2> QED
      BY Zenon, <1>t, <2>1, LockStep
  <1>11. ASSUME NEW c \in Calls, SetReplaces(c)
        PROVE  LockInv'
    <2>1. /\ pc' = [pc EXCEPT ![c] = "exit"] /\ UNCHANGED <<writer, readers>>
          /\ it' = it /\ file' = file
      BY Zenon, <1>11 DEF SetReplaces, Goto, lockVars, itemVars
    <2> QED
      BY Zenon, <1>t, <2>1, LockStep
  <1>12. ASSUME NEW c \in Calls, WaitForSet(c)
        PROVE  LockInv'
    <2>1. /\ pc' = [pc EXCEPT ![c] = "rlock"] /\ UNCHANGED <<writer, readers>>
          /\ it' = it /\ file' = file
      BY Zenon, <1>12 DEF WaitForSet, Goto, itemVars
    <2> QED
      BY Zenon, <1>t, <2>1, LockStep
  <1>13. ASSUME NEW c \in Calls, StatFails(c)
        PROVE  LockInv'
    <2>1. /\ pc' = [pc EXCEPT ![c] = "done"] /\ UNCHANGED <<writer, readers>>
          /\ it' = it /\ file' = file
      BY Zenon, <1>13 DEF StatFails, Return, lockVars, itemVars
    <2> QED
      BY Zenon, <1>t, <2>1, LockStep
  <1>14. ASSUME NEW c \in Calls, StatDiffers(c)
        PROVE  LockInv'
    <2>1. /\ pc' = [pc EXCEPT ![c] = "wlock"] /\ UNCHANGED <<writer, readers>>
          /\ it' = it /\ file' = file
      BY Zenon, <1>14 DEF StatDiffers, Goto, lockVars, itemVars
    <2> QED
      BY Zenon, <1>t, <2>1, LockStep
  <1>15. ASSUME NEW c \in Calls, RestatFails(c)
        PROVE  LockInv'
    <2>1. /\ pc' = [pc EXCEPT ![c] = "done"] /\ UNCHANGED <<writer, readers>>
          /\ it' = it /\ file' = file
      BY Zenon, <1>15 DEF RestatFails, Return, lockVars, itemVars
    <2> QED
      BY Zenon, <1>t, <2>1, LockStep
  <1>16. ASSUME NEW c \in Calls, RestatMatches(c)
        PROVE  LockInv'
    <2>1. /\ pc' = [pc EXCEPT ![c] = "relock"] /\ UNCHANGED <<writer, readers>>
          /\ it' = it /\ file' = file
      BY Zenon, <1>16 DEF RestatMatches, Goto, lockVars, itemVars
    <2> QED
      BY Zenon, <1>t, <2>1, LockStep
  <1>17. ASSUME NEW c \in Calls, BytesPanics(c)
        PROVE  LockInv'
    <2>1. /\ pc' = [pc EXCEPT ![c] = "done"] /\ UNCHANGED <<writer, readers>>
          /\ it' = it /\ file' = file
      BY Zenon, <1>17 DEF BytesPanics, Return, lockVars, itemVars
    <2> QED
      BY Zenon, <1>t, <2>1, LockStep
  <1>18. ASSUME NEW c \in Calls, ExistsStat(c)
        PROVE  LockInv'
    <2>1. /\ pc' = [pc EXCEPT ![c] = "done"] /\ UNCHANGED <<writer, readers>>
          /\ it' = it /\ file' = file
      BY Zenon, <1>18 DEF ExistsStat, Return, lockVars, itemVars
    <2> QED
      BY Zenon, <1>t, <2>1, LockStep
  <1>19. ASSUME Admit
        PROVE  LockInv'
    <2>1. UNCHANGED <<writer, readers, it, file, pc>>
      BY Zenon, <1>19 DEF Admit, lockVars, itemVars, callVars
    <2> QED
      BY Zenon, <2>1, LockKept
  <1>20. ASSUME NEW k \in Keys, AdmitEvicting(k)
        PROVE  LockInv'
    <2>1. UNCHANGED <<writer, readers, it, file, pc>>
      BY Zenon, <1>20 DEF AdmitEvicting, lockVars, itemVars, callVars
    <2> QED
      BY Zenon, <2>1, LockKept
  <1>21. ASSUME Reject
        PROVE  LockInv'
    <2>1. UNCHANGED <<writer, readers, it, file, pc>>
      BY Zenon, <1>21 DEF Reject, lockVars, itemVars, callVars
    <2> QED
      BY Zenon, <2>1, LockKept
  <1>22. ASSUME NEW c \in Calls, StatMatches(c)
        PROVE  LockInv'
    <2>1. /\ pc[c] = "rlock" /\ pc' = [pc EXCEPT ![c] = "bytes"]
          /\ CanRLock(it[c]) /\ readers' = [readers EXCEPT ![it[c]] = @ \cup {c}] /\ UNCHANGED <<writer, it, file>>
      BY Zenon, <1>22 DEF StatMatches, Goto, itemVars
    <2>2. it[c] \in Calls
      BY Zenon, <2>1, HoldingFacts DEF Holding
    <2> QED
      BY Zenon, <2>1, <2>2, LockShared
  <1>23. ASSUME NEW c \in Calls, RestatDiffers(c)
        PROVE  LockInv'
    <2>1. /\ pc[c] = "wlock" /\ pc' = [pc EXCEPT ![c] = "fetch"]
          /\ CanLock(it[c]) /\ file[it[c]] = "open" /\ writer' = [writer EXCEPT ![it[c]] = c]
          /\ UNCHANGED <<readers, it, file>>
      BY Zenon, <1>23 DEF RestatDiffers, Goto, itemVars
    <2>2. it[c] \in Calls
      BY Zenon, <2>1, HoldingFacts DEF Holding
    <2> QED
      BY Zenon, <2>1, <2>2, LockExclusive
  <1>24. ASSUME NEW c \in Calls, FetchFails(c)
        PROVE  LockInv'
    <2>1. /\ pc[c] = "fetch" /\ pc' = [pc EXCEPT ![c] = "done"]
          /\ writer' = Unlock(it[c]) /\ UNCHANGED <<readers, it, file>>
      BY Zenon, <1>24 DEF FetchFails, Return, itemVars
    <2>2. it[c] \in Calls /\ pc[c] \in Filling
      BY Zenon, <2>1, HoldingFacts DEF Holding
    <2> QED
      BY Zenon, <2>1, <2>2, UnlockExclusive
  <1>25. ASSUME NEW c \in Calls, TruncateFails(c)
        PROVE  LockInv'
    <2>1. /\ pc[c] = "trunc" /\ pc' = [pc EXCEPT ![c] = "done"]
          /\ writer' = Unlock(it[c]) /\ UNCHANGED <<readers, it, file>>
      BY Zenon, <1>25 DEF TruncateFails, Return, itemVars
    <2>2. it[c] \in Calls /\ pc[c] \in Filling
      BY Zenon, <2>1, HoldingFacts DEF Holding
    <2> QED
      BY Zenon, <2>1, <2>2, UnlockExclusive
  <1>26. ASSUME NEW c \in Calls, Write(c)
        PROVE  LockInv'
    <2>1. /\ pc[c] = "write" /\ pc' = [pc EXCEPT ![c] = "relock"]
          /\ writer' = Unlock(it[c]) /\ UNCHANGED <<readers, it, file>>
      BY Zenon, <1>26 DEF Write, Goto, WriteLen
    <2>2. it[c] \in Calls /\ pc[c] \in Filling
      BY Zenon, <2>1, HoldingFacts DEF Holding
    <2> QED
      BY Zenon, <2>1, <2>2, UnlockExclusive
  <1>27. ASSUME NEW c \in Calls, WriteFails(c)
        PROVE  LockInv'
    <2>1. /\ pc[c] = "write" /\ pc' = [pc EXCEPT ![c] = "done"]
          /\ writer' = Unlock(it[c]) /\ UNCHANGED <<readers, it, file>>
      BY Zenon, <1>27 DEF WriteFails, Return, WriteLen
    <2>2. it[c] \in Calls /\ pc[c] \in Filling
      BY Zenon, <2>1, HoldingFacts DEF Holding
    <2> QED
      BY Zenon, <2>1, <2>2, UnlockExclusive
  <1>28. ASSUME NEW c \in Calls, Relock(c)
        PROVE  LockInv'
    <2>1. /\ pc[c] = "relock" /\ pc' = [pc EXCEPT ![c] = "bytes"]
          /\ CanRLock(it[c]) /\ readers' = [readers EXCEPT ![it[c]] = @ \cup {c}] /\ UNCHANGED <<writer, it, file>>
      BY Zenon, <1>28 DEF Relock, Goto, itemVars
    <2>2. it[c] \in Calls
      BY Zenon, <2>1, HoldingFacts DEF Holding
    <2> QED
      BY Zenon, <2>1, <2>2, LockShared
  <1>29. ASSUME NEW c \in Calls, Pread(c)
        PROVE  LockInv'
    <2>1. /\ pc[c] = "pread" /\ pc' = [pc EXCEPT ![c] = "done"]
          /\ readers' = [readers EXCEPT ![it[c]] = @ \ {c}] /\ UNCHANGED <<writer, it, file>>
      BY Zenon, <1>29 DEF Pread, Return, itemVars
    <2>2. it[c] \in Calls
      BY Zenon, <2>1, HoldingFacts DEF Holding
    <2> QED
      BY Zenon, <2>1, <2>2, UnlockShared
  <1>30. ASSUME NEW c \in Calls, FetchSucceeds(c)
        PROVE  LockInv'
    <2>1. /\ pc[c] = "fetch" /\ pc' = [pc EXCEPT ![c] = "trunc"]
          /\ UNCHANGED <<writer, readers, it, file>>
      BY Zenon, <1>30 DEF FetchSucceeds, Goto, lockVars, itemVars
    <2>2. \A d \in Calls : /\ pc'[d] \in Filling => pc[d] \in Filling
                           /\ pc'[d] \in Reading => pc[d] \in Reading
      BY Zenon, <1>t, <2>1
    <2> QED
      BY Zenon, <2>1, <2>2, LockKept
  <1>31. ASSUME NEW c \in Calls, Truncate(c)
        PROVE  LockInv'
    <2>1. /\ pc[c] = "trunc" /\ pc' = [pc EXCEPT ![c] = "write"]
          /\ UNCHANGED <<writer, readers, it, file>>
      BY Zenon, <1>31 DEF Truncate, Goto, lockVars, itemVars
    <2>2. \A d \in Calls : /\ pc'[d] \in Filling => pc[d] \in Filling
                           /\ pc'[d] \in Reading => pc[d] \in Reading
      BY Zenon, <1>t, <2>1
    <2> QED
      BY Zenon, <2>1, <2>2, LockKept
  <1>32. ASSUME NEW c \in Calls, BytesStat(c)
        PROVE  LockInv'
    <2>1. /\ pc[c] = "bytes" /\ pc' = [pc EXCEPT ![c] = "pread"]
          /\ UNCHANGED <<writer, readers, it, file>>
      BY Zenon, <1>32 DEF BytesStat, Goto, lockVars, itemVars
    <2>2. \A d \in Calls : /\ pc'[d] \in Filling => pc[d] \in Filling
                           /\ pc'[d] \in Reading => pc[d] \in Reading
      BY Zenon, <1>t, <2>1
    <2> QED
      BY Zenon, <2>1, <2>2, LockKept
  <1>33. ASSUME NEW g \in Goroutines, Drop(g)
        PROVE  LockInv'
    <2>1. /\ UNCHANGED <<writer, readers, it>> /\ CanLock(dropping[g])
          /\ file' = [file EXCEPT ![dropping[g]] = "nil"]
          /\ pc' = IF g \in Calls THEN [pc EXCEPT ![g] = "wait"] ELSE pc
      BY Zenon, <1>33 DEF Drop, CanDrop, lockVars
    <2>2. \A c \in Calls : pc'[c] \in Filling \cup Reading => pc'[c] = pc[c]
      BY Zenon, <1>t, <2>1
    <2>3. \A c \in Calls : pc[c] \in Filling => it[c] \in Calls /\ it[c] # dropping[g]
      BY Zenon, <2>1, LockTypes, ConstantsAssumption DEF CanLock, LockInv, FillersLock
    <2>4. \A c \in Calls : pc[c] \in Filling => file'[it[c]] = file[it[c]]
      BY Zenon, <1>t, <2>1, <2>3
    <2> QED
      BY Zenon, <2>1, <2>2, <2>4, LockFrame
  <1>34. CASE UNCHANGED vars
    <2>1. UNCHANGED <<writer, readers, it, file, pc>>
      BY Zenon, <1>34 DEF vars, lockVars, itemVars, callVars
    <2> QED
      BY Zenon, <2>1, LockKept
  <1> QED
    BY Zenon, <1>1, <1>2, <1>3, <1>4, <1>5, <1>6, <1>7, <1>8, <1>9, <1>10, <1>11, <1>12, <1>13, <1>14,
       <1>15, <1>16, <1>17, <1>18, <1>19, <1>20, <1>21, <1>22, <1>23, <1>24, <1>25, <1>26, <1>27,
       <1>28, <1>29, <1>30, <1>31, <1>32, <1>33, <1>34
       DEF Next, CallStep, PolicyStep, Quiet

(* The lock discipline of GetOrCreate, Exists and item.drop holds in every
   reachable state. *)
THEOREM LocksRespected == Spec => []LockInv
<1>1. Init => LockInv
  BY Zenon, ConstantsAssumption DEF Init, LockInv, FillersLock, ReadersLock, WriterAlone, FillsOpenFile
<1> QED
  BY <1>1, InitTypeInv, NextTypeInv, NextLockInv, PTL DEF Spec

(* While a call fills an item no other call fills it or reads it. *)
THEOREM FillIsExclusive == Spec => []FillExcludesOthers
<1>1. ASSUME TypeInv, LockInv
      PROVE  FillExcludesOthers
  <2> SUFFICES ASSUME NEW c \in Calls, NEW d \in Calls, c # d, pc[c] \in Filling,
                      pc[d] \in Filling \cup Reading, it[c] = it[d]
               PROVE  FALSE
    BY Zenon DEF FillExcludesOthers
  <2>1. it[c] \in Calls /\ writer[it[c]] = c
    BY Zenon, <1>1, HoldingFacts DEF LockInv, FillersLock, Holding
  <2>2. readers[it[c]] = {}
    BY Zenon, <1>1, <2>1, ConstantsAssumption DEF LockInv, WriterAlone
  <2> QED
    BY Zenon, <1>1, <2>1, <2>2 DEF LockInv, FillersLock, ReadersLock
<1> QED
  BY <1>1, InitTypeInv, NextTypeInv, LocksRespected, PTL DEF Spec

(* item.fill never works on a file that item.drop has closed. *)
THEOREM FillFindsFileOpen == Spec => []FillsOpenFile
<1>1. LockInv => FillsOpenFile
  BY Zenon DEF LockInv
<1> QED
  BY <1>1, LocksRespected, PTL
=============================================================================
