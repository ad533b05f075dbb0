----------------------------- MODULE FilesProofs -----------------------------
(***************************************************************************)
(* Proofs about pkg/files/store: File for files, blocks, ranges and        *)
(* buffers of any size, and FilesStore for any number of requests, workers *)
(* and chunks.                                                             *)
(***************************************************************************)
EXTENDS File, FilesStore, SequenceTheorems, TLAPS

USE DEF Min64

-----------------------------------------------------------------------------
(***************************************************************************)
(* Blocks of any size.                                                     *)
(***************************************************************************)

(* An offset lies in the block where AlignDown puts it. *)
LEMMA InBlock ==
  ASSUME NEW x \in Nat, NEW a \in Nat \ {0}
  PROVE  AlignDown(x, a) \in Nat /\ AlignDown(x, a) <= x /\ x < AlignDown(x, a) + a
  <1> DEFINE q == x \div a
             r == x % a
  <1>1. q \in Nat /\ r \in 0 .. a - 1 /\ x = a * q + r
    OBVIOUS
  <1> HIDE DEF q, r
  <1>2. q * a \in Nat /\ a * q = q * a
    BY <1>1
  <1>3. q * a \in Nat /\ q * a <= x /\ x < q * a + a
    BY <1>1, <1>2
  <1> QED
    BY Zenon, <1>3 DEF AlignDown, q

(* Offsets in order lie in blocks in order. *)
LEMMA BlocksInOrder ==
  ASSUME NEW x \in Nat, NEW y \in Nat, NEW a \in Nat \ {0}, x <= y
  PROVE  AlignDown(x, a) <= AlignDown(y, a)
  <1> DEFINE p == x \div a
             q == y \div a
  <1>1. p \in Nat /\ q \in Nat /\ AlignDown(x, a) = p * a /\ AlignDown(y, a) = q * a
    BY DEF AlignDown
  <1>2. p * a <= x /\ y < q * a + a
    BY Zenon, <1>1, InBlock
  <1> HIDE DEF p, q
  <1>3. CASE p <= q
    <2>1. PICK d \in Nat : q = p + d
      <3>1. q - p \in Nat /\ q = p + (q - p)
        BY <1>1, <1>3
      <3> QED
        BY Zenon, <3>1
    <2>2. q * a = p * a + d * a /\ d * a \in Nat /\ p * a \in Nat
      BY <1>1, <2>1
    <2> QED
      BY <1>1, <2>2
  <1>4. CASE q < p
    <2>1. PICK d \in Nat : p = q + 1 + d
      <3>1. p - q - 1 \in Nat /\ p = q + 1 + (p - q - 1)
        BY <1>1, <1>4
      <3> QED
        BY Zenon, <3>1
    <2>2. p * a = q * a + a + d * a /\ d * a \in Nat /\ q * a \in Nat
      BY <1>1, <2>1
    <2> QED
      BY <1>2, <2>2
  <1> QED
    BY <1>1, <1>3, <1>4

-----------------------------------------------------------------------------
(***************************************************************************)
(* The inductive invariant: while a range is copied, the offset of the     *)
(* file is where the bytes sent so far end, so no Read runs past the file. *)
(***************************************************************************)
InRange == start + len <= size /\ len >= 1
OffsetFollows ==
  /\ state = "seek" => out = << >>
  /\ state = "copy" => cur = start + Len(out)

CopyInv == FileTypeOK /\ InRange /\ OffsetFollows /\ SentIsPrefix /\ DoneIsWhole

(* A range inside the file starts the copy. *)
LEMMA InitCopyInv == FileInit => CopyInv
  <1> SUFFICES ASSUME FileInit
               PROVE  CopyInv
    BY Zenon
  <1>1. size \in Nat \ {0} /\ buffer \in Nat \ {0} /\ Block \in Nat \ {0}
    BY Zenon, FileAssumption DEF FileInit
  <1>2. start \in Nat /\ len \in Nat /\ start + len <= size /\ len >= 1
    BY <1>1 DEF FileInit
  <1>3. AlignDown(start, Block) \in Nat
    BY Zenon, <1>1, <1>2, InBlock
  <1>4. out = << >> /\ Len(out) = 0 /\ cur = 0 /\ state = "seek"
        /\ chunkOffset \in Nat
    BY <1>3 DEF FileInit
  <1>5. FileTypeOK
    BY <1>1, <1>2, <1>4 DEF FileTypeOK
  <1> QED
    BY <1>2, <1>4, <1>5 DEF CopyInv, InRange, OffsetFollows, SentIsPrefix, DoneIsWhole

(* A Read for ServeContent gets at least one byte, no more than are left of
   the range, and never io.EOF. *)
LEMMA ReadProgress ==
  ASSUME CopyInv, More
  PROVE  /\ Asked \in Nat
         /\ ReadCount(cur, Asked) \in 1 .. Left
         /\ ReadErr(cur, Asked) = "nil"
         /\ cur = start + Len(out)
  <1>1. /\ size \in Nat /\ start \in Nat /\ len \in Nat /\ cur \in Nat /\ buffer \in Nat \ {0}
        /\ out \in Seq(Nat) /\ Len(out) \in Nat
    BY DEF CopyInv, FileTypeOK
  <1>2. Block \in Nat \ {0}
    BY Zenon, FileAssumption
  <1>3. start + len <= size /\ cur = start + Len(out) /\ Left > 0 /\ Left = len - Len(out)
    BY Zenon DEF CopyInv, InRange, OffsetFollows, More, Left
  <1> DEFINE a == AlignDown(cur, Block)
  <1>4. a \in Nat /\ a <= cur /\ cur < a + Block
    BY Zenon, <1>1, <1>2, InBlock
  <1> HIDE DEF a
  <1>5. Asked \in Nat /\ Asked <= Left
    BY <1>1, <1>3 DEF Asked
  <1>6. Asked >= 1
    BY <1>1, <1>3 DEF Asked
  <1>7. cur + Asked <= size
    BY <1>1, <1>3, <1>5
  <1>8. ReadCount(cur, Asked) = Min64(Asked, Min64(Block, size - a) - (cur - a))
    BY Zenon DEF ReadCount, a
  <1>9. ReadCount(cur, Asked) \in 1 .. Left
    BY <1>1, <1>2, <1>3, <1>4, <1>5, <1>6, <1>7, <1>8
  <1> QED
    BY <1>1, <1>3, <1>5, <1>7, <1>9 DEF ReadErr

(* Every step of a copy by ServeContent preserves the invariant. *)
LEMMA NextCopyInv == CopyInv /\ [FileNext]_copyVars => CopyInv'
  <1> SUFFICES ASSUME CopyInv, [FileNext]_copyVars
               PROVE  CopyInv'
    BY Zenon
  <1>0. /\ size \in Nat /\ start \in Nat /\ len \in Nat /\ cur \in Nat
        /\ out \in Seq(Nat) /\ Len(out) \in Nat
    BY DEF CopyInv, FileTypeOK
  <1>1. CASE Seek
    <2>1. out = << >> /\ Len(out) = 0
      BY Zenon, <1>1 DEF Seek, CopyInv, OffsetFollows
    <2> QED
      BY <1>0, <1>1, <2>1
         DEF Seek, CopyInv, FileTypeOK, InRange, OffsetFollows, SentIsPrefix, DoneIsWhole
  <1>2. CASE Read
    <2> DEFINE n == ReadCount(cur, Asked)
               add == [b \in 1 .. n |-> cur + b - 1]
    <2>1. /\ Asked \in Nat /\ n \in 1 .. Left /\ ReadErr(cur, Asked) = "nil"
          /\ cur = start + Len(out)
      BY Zenon, <1>2, ReadProgress DEF Read
    <2>2. /\ out' = out \o add
          /\ cur' = cur + n
          /\ state' = "copy"
          /\ UNCHANGED <<size, chunkOffset, start, len, buffer>>
      BY Zenon, <1>2, <2>1 DEF Read, AdvanceBy
    <2>3. n \in Nat /\ n <= len - Len(out)
      BY <2>1, <1>0 DEF Left
    <2> HIDE DEF n
    <2>4. add \in Seq(Nat) /\ Len(add) = n
      BY <2>3, <1>0
    <2>5. \A b \in 1 .. n : add[b] = cur + b - 1
      BY Zenon
    <2> HIDE DEF add
    <2>6. out' \in Seq(Nat) /\ Len(out') = Len(out) + n
      BY Zenon, <2>2, <2>4, <1>0, ConcatProperties
    <2>c. \A b \in 1 .. Len(out) + n :
            out'[b] = IF b <= Len(out) THEN out[b] ELSE add[b - Len(out)]
      BY Zenon, <2>2, <2>4, <1>0, ConcatProperties
    <2>7. ASSUME NEW b \in 1 .. Len(out')
          PROVE  out'[b] = start + b - 1
      <3>1. CASE b <= Len(out)
        <4>1. b \in 1 .. Len(out)
          BY <3>1, <2>6, <1>0, <2>3
        <4>2. out'[b] = out[b]
          BY Zenon, <3>1, <2>6, <2>c
        <4> QED
          BY Zenon, <4>1, <4>2 DEF CopyInv, SentIsPrefix
      <3>2. CASE b > Len(out)
        <4>1. b - Len(out) \in 1 .. n
          BY <3>2, <2>6, <1>0, <2>3
        <4>2. out'[b] = add[b - Len(out)]
          BY <3>2, <2>6, <2>c, <1>0
        <4>3. add[b - Len(out)] = cur + (b - Len(out)) - 1
          BY Zenon, <4>1, <2>5
        <4> QED
          BY <4>1, <4>2, <4>3, <2>1, <1>0
      <3> QED
        BY <3>1, <3>2, <2>6, <1>0, <2>3
    <2>8. FileTypeOK'
      BY <2>1, <2>2, <2>3, <2>6, <1>0 DEF CopyInv, FileTypeOK
    <2>9. InRange' /\ OffsetFollows' /\ DoneIsWhole'
      BY <2>1, <2>2, <2>3, <2>6, <1>0 DEF CopyInv, InRange, OffsetFollows, DoneIsWhole
    <2>10. SentIsPrefix'
      BY <2>2, <2>3, <2>6, <2>7, <1>0 DEF SentIsPrefix
    <2> QED
      BY Zenon, <2>8, <2>9, <2>10 DEF CopyInv
  <1>3. CASE ReadRefused \/ ReadFails
    BY Zenon, <1>3 DEF ReadRefused, ReadFails, CopyInv, FileTypeOK, InRange, OffsetFollows, SentIsPrefix, DoneIsWhole
  <1>4. CASE CopyEnds
    <2>1. Len(out) = len
      BY <1>0, <1>4 DEF CopyEnds, Left
    <2> QED
      BY Zenon, <1>4, <2>1
         DEF CopyEnds, CopyInv, FileTypeOK, InRange, OffsetFollows, SentIsPrefix, DoneIsWhole
  <1>5. CASE UNCHANGED copyVars
    BY Zenon, <1>5 DEF copyVars, CopyInv, FileTypeOK, InRange, OffsetFollows, SentIsPrefix, DoneIsWhole
  <1> QED
    BY Zenon, <1>1, <1>2, <1>3, <1>4, <1>5 DEF FileNext, Ended

(* The invariant holds throughout every copy by ServeContent. *)
LEMMA CopyInvHolds == FileSpec => []CopyInv
  BY InitCopyInv, NextCopyInv, PTL DEF FileSpec

(* ServeContent sends a prefix of the range, whatever the sizes. *)
THEOREM ServesPrefix == FileSpec => []SentIsPrefix
  <1>1. CopyInv => SentIsPrefix
    BY Zenon DEF CopyInv
  <1> QED
    BY CopyInvHolds, <1>1, PTL

(* A copy that ends without an error has sent the whole range. *)
THEOREM ServesWholeRange == FileSpec => []DoneIsWhole
  <1>1. CopyInv => DoneIsWhole
    BY Zenon DEF CopyInv
  <1> QED
    BY CopyInvHolds, <1>1, PTL

(***************************************************************************)
(* A Read of a peer's copy is refused only in another chunk than the one   *)
(* that the file was opened for, which is that of the first byte.          *)
(***************************************************************************)
PeerInv == CopyInv /\ chunkOffset \in {0, AlignDown(start, Block)} /\ PeerChunkServed

LEMMA RefusedInOtherChunk ==
  ASSUME PeerInv, ReadRefused
  PROVE  AlignDown(start, Block) # AlignDown(start + len - 1, Block)
  <1> SUFFICES ASSUME AlignDown(start, Block) = AlignDown(start + len - 1, Block)
               PROVE  FALSE
    BY Zenon
  <1> DEFINE a == AlignDown(start, Block)
  <1>1. /\ start \in Nat /\ len \in Nat /\ len >= 1 /\ cur \in Nat
        /\ Len(out) \in Nat /\ cur = start + Len(out) /\ len - Len(out) > 0
    BY DEF ReadRefused, More, Left, PeerInv, CopyInv, FileTypeOK, InRange, OffsetFollows
  <1>2. a = chunkOffset /\ AlignDown(cur, Block) # a
    BY Zenon DEF ReadRefused, ChunkOnly, PeerInv
  <1>3. start <= cur /\ cur <= start + len - 1 /\ start + len - 1 \in Nat /\ Block \in Nat \ {0}
    BY <1>1, FileAssumption
  <1>4. a <= AlignDown(cur, Block) /\ AlignDown(cur, Block) <= a
    BY Zenon, <1>1, <1>3, BlocksInOrder
  <1>5. a \in Nat /\ AlignDown(cur, Block) \in Nat
    BY Zenon, <1>1, <1>3, InBlock
  <1> QED
    BY <1>2, <1>4, <1>5

(* A peer's range inside one chunk is never refused, for any block and range. *)
THEOREM ServesPeersChunk == FileSpec => []PeerChunkServed
  <1>1. FileInit => PeerInv
    BY Zenon, InitCopyInv DEF FileInit, PeerInv, PeerChunkServed
  <1>2. PeerInv /\ [FileNext]_copyVars => PeerInv'
    <2> SUFFICES ASSUME PeerInv, [FileNext]_copyVars
                 PROVE  PeerInv'
      BY Zenon
    <2>1. CopyInv' /\ UNCHANGED <<chunkOffset, start, len>>
      BY Zenon, NextCopyInv DEF PeerInv, FileNext, Seek, Read, ReadRefused, ReadFails, CopyEnds, Ended, copyVars
    <2>2. CASE ReadRefused
      BY Zenon, <2>1, <2>2, RefusedInOtherChunk DEF PeerInv, PeerChunkServed
    <2>3. CASE ~ReadRefused
      <3>1. state' = "refused" => state = "refused"
        BY Zenon, <2>3 DEF FileNext, Seek, Read, ReadFails, CopyEnds, Ended, copyVars
      <3> QED
        BY Zenon, <2>1, <3>1 DEF PeerInv, PeerChunkServed
    <2> QED
      BY Zenon, <2>2, <2>3
  <1>3. PeerInv => PeerChunkServed
    BY Zenon DEF PeerInv
  <1> QED
    BY <1>1, <1>2, <1>3, PTL DEF FileSpec

-----------------------------------------------------------------------------
(***************************************************************************)
(* The store: requests, their prefetches, the workers and the provider.    *)
(***************************************************************************)
Stating == {"stat", "got", "lock", "remote", "put", "return", "stated"}
OpenPCs == Stating \cup {"start", "seek", "done", "panic"}
PrePCs == Stating \cup {"none", "queue", "done"}
KnownSizes == {0, FileSize}
Stats == KnownSizes \cup {Failed, None}

(* Fstat returns a size or an error, and a lookup returns a size or misses. *)
Stated ==
  \A q \in Requests, t \in Threads :
    /\ pc[q][t] = "stated" => stat[q][t] # None
    /\ pc[q][t] = "got" => stat[q][t] # Failed

StoreTypeOK ==
  /\ meta \in KnownSizes \cup {None}
  /\ cached \subseteq Chunks /\ spoiled \subseteq Chunks
  /\ prefetchChan \in Seq(Chunks) /\ blobsChan \in Seq(Chunks)
  /\ fsize \in [Requests -> KnownSizes]
  /\ want \in [Requests -> Ranges \cup {None}]
  /\ pc \in [Requests -> [open : OpenPCs, pre : PrePCs]]
  /\ stat \in [Requests -> [open : Stats, pre : Stats]]
  /\ total \in [Requests -> KnownSizes]
  /\ count \in [Requests -> 0 .. FileSize]
  /\ next \in [Requests -> [open : Nat, pre : 0 .. FileSize]]
  /\ work \in [Workers -> [chunk : Chunks \cup {None}, got : BOOLEAN]]
  /\ \A w \in Workers : work[w].got => work[w].chunk # None
  /\ Stated

USE DEF Threads

(* What a step of the goroutine t of the request q to l does to pc. *)
LEMMA GotoEffect ==
  ASSUME StoreTypeOK, NEW q \in Requests, NEW t \in Threads, NEW l, Goto(q, t, l)
  PROVE  /\ pc'[q][t] = l
         /\ \A u \in Threads : u # t => pc'[q][u] = pc[q][u]
         /\ \A p \in Requests : p # q => pc'[p] = pc[p]
         /\ (l \in IF t = "open" THEN OpenPCs ELSE PrePCs) =>
              pc' \in [Requests -> [open : OpenPCs, pre : PrePCs]]
  BY Zenon DEF StoreTypeOK, Goto

LEMMA GotoPC ==
  ASSUME StoreTypeOK, NEW q \in Requests, NEW t \in Threads, NEW l, Goto(q, t, l)
  PROVE  /\ pc'[q][t] = l
         /\ \A u \in Threads : u # t => pc'[q][u] = pc[q][u]
         /\ \A p \in Requests : p # q => pc'[p] = pc[p]
  BY Zenon DEF StoreTypeOK, Goto

(* What Fstat's return value s does to stat. *)
LEMMA StatEffect ==
  ASSUME StoreTypeOK, NEW q \in Requests, NEW t \in Threads, NEW s,
         stat' = [stat EXCEPT ![q][t] = s]
  PROVE  /\ stat'[q][t] = s
         /\ \A u \in Threads : u # t => stat'[q][u] = stat[q][u]
         /\ \A p \in Requests : p # q => stat'[p] = stat[p]
         /\ s \in Stats => stat' \in [Requests -> [open : Stats, pre : Stats]]
  BY Zenon DEF StoreTypeOK

LEMMA NoneIsNoSize == None \notin KnownSizes /\ Failed \notin KnownSizes /\ None # Failed
  BY StoreAssumption DEF Failed, KnownSizes

LEMMA StatedKept ==
  ASSUME StoreTypeOK, NEW q \in Requests, NEW t \in Threads, NEW l, Goto(q, t, l),
         l = "stated" => stat'[q][t] # None, l = "got" => stat'[q][t] # Failed,
         \A u \in Threads : u # t => stat'[q][u] = stat[q][u],
         \A p \in Requests : p # q => stat'[p] = stat[p]
  PROVE  Stated'
  <1> SUFFICES ASSUME NEW p \in Requests, NEW u \in Threads
               PROVE  /\ pc'[p][u] = "stated" => stat'[p][u] # None
                      /\ pc'[p][u] = "got" => stat'[p][u] # Failed
    BY Zenon DEF Stated
  <1>1. /\ pc'[q][t] = l
        /\ \A v \in Threads : v # t => pc'[q][v] = pc[q][v]
        /\ \A v \in Requests : v # q => pc'[v] = pc[v]
    BY Zenon, GotoPC
  <1>2. /\ pc[p][u] = "stated" => stat[p][u] # None
        /\ pc[p][u] = "got" => stat[p][u] # Failed
    BY Zenon DEF StoreTypeOK, Stated
  <1>3. CASE p = q /\ u = t
    BY Zenon, <1>1, <1>3
  <1>4. CASE p # q \/ u # t
    <2>1. pc'[p][u] = pc[p][u] /\ stat'[p][u] = stat[p][u]
      BY Zenon, <1>1, <1>4
    <2> QED
      BY Zenon, <1>2, <2>1
  <1> QED
    BY Zenon, <1>3, <1>4

(* A step within Fstat, whichever goroutine takes it. *)
LEMMA FstatGoto ==
  ASSUME StoreTypeOK, NEW q \in Requests, NEW t \in Threads, NEW l \in Stating, Goto(q, t, l)
  PROVE  pc' \in [Requests -> [open : OpenPCs, pre : PrePCs]]
  <1>1. l \in OpenPCs /\ l \in PrePCs
    BY Zenon DEF OpenPCs, PrePCs
  <1>2. l \in IF t = "open" THEN OpenPCs ELSE PrePCs
    BY Zenon, <1>1
  <1> QED
    BY Zenon, <1>2, GotoEffect

LEMMA InitStoreTypeOK == Init => StoreTypeOK
  <1> SUFFICES ASSUME Init
               PROVE  StoreTypeOK
    BY Zenon
  <1>1. want \in [Requests -> Ranges \cup {None}]
    <2>1. PICK s \in Scenarios : want = s.want
      BY Zenon DEF Init
    <2> QED
      BY Zenon, <2>1, StoreAssumption
  <1>2. \A q \in Requests : want[q] # None => want[q][1] \in Nat
    BY <1>1 DEF Ranges, Chunks
  <1>3. next \in [Requests -> [open : Nat, pre : 0 .. FileSize]]
    BY <1>2, StoreAssumption DEF Init
  <1>4. /\ cached \subseteq Chunks /\ spoiled \subseteq Chunks
        /\ prefetchChan \in Seq(Chunks) /\ blobsChan \in Seq(Chunks)
        /\ work \in [Workers -> [chunk : Chunks \cup {None}, got : BOOLEAN]]
        /\ \A w \in Workers : ~work[w].got
    BY DEF Init
  <1>7. meta \in KnownSizes \cup {None}
    BY Zenon DEF Init
  <1>8. Stated
    <2>1. \A q \in Requests, t \in Threads : pc[q][t] \in {"start", "done", "none"}
      <3> SUFFICES ASSUME NEW q \in Requests
                   PROVE  pc[q].open \in {"start", "done"} /\ pc[q].pre = "none"
        BY Zenon
      <3> QED
        BY Zenon DEF Init
    <2> QED
      BY Zenon, <2>1 DEF Stated
  <1>5. /\ fsize \in [Requests -> KnownSizes] /\ total \in [Requests -> KnownSizes]
        /\ stat \in [Requests -> [open : Stats, pre : Stats]]
        /\ count \in [Requests -> 0 .. FileSize]
    BY StoreAssumption DEF Init, KnownSizes, Stats
  <1>6. pc \in [Requests -> [open : OpenPCs, pre : PrePCs]]
    BY Zenon DEF Init, OpenPCs, PrePCs
  <1> QED
    BY Zenon, <1>1, <1>3, <1>4, <1>5, <1>6, <1>7, <1>8 DEF StoreTypeOK

(* The goroutines of a request are typed whatever they do next. *)
LEMMA ServeTypeOK ==
  ASSUME StoreTypeOK, NEW q \in Requests,
         OpenRefused(q) \/ Open(q) \/ OpenReturns(q) \/ SeekEnd(q)
           \/ ReadAt(q) \/ ReadAtFails(q) \/ ReadAtPastEnd(q) \/ ReadAtEnd(q)
  PROVE  StoreTypeOK'
  <1> USE DEF chanVars, fileVars, inputs, callVars, disk
  <1>1. CASE OpenRefused(q)
    BY Zenon, <1>1, GotoEffect, StatedKept DEF OpenRefused, StoreTypeOK, OpenPCs
  <1>2. CASE Open(q)
    BY Zenon, <1>2, GotoEffect, StatedKept DEF Open, StoreTypeOK, OpenPCs, Stating
  <1>3. CASE OpenReturns(q)
    <2>1. stat[q].open \in KnownSizes \cup {Failed}
      BY Zenon, <1>3 DEF OpenReturns, StoreTypeOK, Stated, Stats
    <2>2. (IF stat[q].open = Failed THEN 0 ELSE stat[q].open) \in 0 .. FileSize
      BY <2>1, StoreAssumption DEF KnownSizes, Failed
    <2>3. count' \in [Requests -> 0 .. FileSize]
      BY Zenon, <1>3, <2>2 DEF OpenReturns, StoreTypeOK
    <2>4. pc' \in [Requests -> [open : OpenPCs, pre : PrePCs]]
      BY Zenon, <1>3 DEF OpenReturns, StoreTypeOK, OpenPCs, PrePCs, Stating
    <2>5. Stated'
      <3>1. /\ pc'[q].open \notin {"stated", "got"} /\ pc'[q].pre \notin {"stated", "got"}
            /\ UNCHANGED stat
            /\ \A p \in Requests : p # q => pc'[p] = pc[p]
        BY Zenon, <1>3 DEF OpenReturns, StoreTypeOK
      <3>2. Stated
        BY Zenon DEF StoreTypeOK
      <3>3. ASSUME NEW p \in Requests, NEW t \in Threads
            PROVE  /\ pc'[p][t] = "stated" => stat'[p][t] # None
                   /\ pc'[p][t] = "got" => stat'[p][t] # Failed
        <4>1. CASE p = q
          BY Zenon, <3>1, <4>1
        <4>2. CASE p # q
          BY Zenon, <3>1, <3>2, <4>2 DEF Stated
        <4> QED
          BY Zenon, <4>1, <4>2
      <3> QED
        BY Zenon, <3>3 DEF Stated
    <2> QED
      BY Zenon, <1>3, <2>3, <2>4, <2>5 DEF OpenReturns, StoreTypeOK
  <1>4. CASE SeekEnd(q)
    BY Zenon, <1>4, GotoEffect, StatedKept DEF SeekEnd, StoreTypeOK, OpenPCs, Stating
  <1>5. CASE ReadAt(q)
    <2>1. next[q].open \in Nat /\ stat[q].open \in KnownSizes /\ next[q].open < stat[q].open
      BY Zenon, <1>5 DEF ReadAt, Reading, StoreTypeOK, Stated, Stats
    <2>2. next[q].open \in Chunks
      BY <2>1, StoreAssumption DEF KnownSizes, Chunks
    <2>3. next' \in [Requests -> [open : Nat, pre : 0 .. FileSize]]
      <3>1. next[q].open + 1 \in Nat
        BY <2>1
      <3> QED
        BY Zenon, <1>5, <3>1 DEF ReadAt, StoreTypeOK
    <2>4. pc' \in [Requests -> [open : OpenPCs, pre : PrePCs]] /\ Stated'
      BY Zenon, <1>5, GotoEffect, StatedKept DEF ReadAt, OpenPCs, Stating
    <2> QED
      BY Zenon, <1>5, <2>2, <2>3, <2>4 DEF ReadAt, GetSucceeds, StoreTypeOK
  <1>6. CASE ReadAtFails(q)
    <2>1. pc' \in [Requests -> [open : OpenPCs, pre : PrePCs]] /\ Stated'
      BY Zenon, <1>6, GotoEffect, StatedKept DEF ReadAtFails, OpenPCs
    <2>2. cached' \subseteq Chunks /\ UNCHANGED spoiled
      BY Zenon, <1>6 DEF ReadAtFails, GetFails, StoreTypeOK
    <2> QED
      BY Zenon, <1>6, <2>1, <2>2 DEF ReadAtFails, StoreTypeOK
  <1>7. CASE ReadAtPastEnd(q) \/ ReadAtEnd(q)
    <2>1. pc' \in [Requests -> [open : OpenPCs, pre : PrePCs]] /\ Stated'
      BY Zenon, <1>7, GotoEffect, StatedKept DEF ReadAtPastEnd, ReadAtEnd, OpenPCs
    <2>2. cached' \subseteq Chunks /\ spoiled' \subseteq Chunks
      BY Zenon, <1>7 DEF ReadAtPastEnd, ReadAtEnd, StoreTypeOK
    <2> QED
      BY Zenon, <1>7, <2>1, <2>2 DEF ReadAtPastEnd, ReadAtEnd, StoreTypeOK
  <1> QED
    BY Zenon, <1>1, <1>2, <1>3, <1>4, <1>5, <1>6, <1>7

(* Fstat of either goroutine is typed. *)
LEMMA FstatTypeOK ==
  ASSUME StoreTypeOK, NEW q \in Requests, NEW t \in Threads, Fstat(q, t)
  PROVE  StoreTypeOK'
  <1> USE DEF chanVars, fileVars, inputs, callVars, disk
  <1>p. {"got", "lock", "remote", "put", "return", "stated"} \subseteq Stating
    BY Zenon DEF Stating
  <1>1. CASE FstatGet(q, t) \/ FstatLock(q, t)
    <2>1. stat' = [stat EXCEPT ![q][t] = meta] /\ Goto(q, t, "got")
      BY Zenon, <1>1 DEF FstatGet, FstatLock
    <2>4. meta \in Stats /\ meta # Failed
      BY Zenon, NoneIsNoSize DEF StoreTypeOK, Stats
    <2>5. /\ stat'[q][t] = meta /\ stat' \in [Requests -> [open : Stats, pre : Stats]]
          /\ \A u \in Threads : u # t => stat'[q][u] = stat[q][u]
          /\ \A p \in Requests : p # q => stat'[p] = stat[p]
      BY Zenon, <2>1, <2>4, StatEffect
    <2>2. stat' \in [Requests -> [open : Stats, pre : Stats]] /\ Stated'
      BY Zenon, <2>1, <2>4, <2>5, StatedKept
    <2>3. pc' \in [Requests -> [open : OpenPCs, pre : PrePCs]]
      BY Zenon, <2>1, FstatGoto, <1>p
    <2> QED
      BY Zenon, <1>1, <2>2, <2>3 DEF FstatGet, FstatLock, StoreTypeOK
  <1>2. CASE FstatSet(q, t)
    <2>1. PICK l \in {"return", "remote", "lock"} : Goto(q, t, l)
      BY Zenon, <1>2 DEF FstatSet
    <2>2. pc[q][t] = "got" /\ fsize' = [fsize EXCEPT ![q] = Size(stat[q][t])] /\ UNCHANGED stat
      BY Zenon, <1>2 DEF FstatSet
    <2>3. pc' \in [Requests -> [open : OpenPCs, pre : PrePCs]] /\ Stated'
      BY Zenon, <2>1, <2>2, FstatGoto, StatedKept, <1>p
    <2>4. Size(stat[q][t]) \in KnownSizes
      <3>1. stat[q][t] \in KnownSizes \cup {None}
        BY Zenon, <2>2 DEF StoreTypeOK, Stated, Stats
      <3> QED
        BY Zenon, <3>1 DEF Size, KnownSizes
    <2> QED
      BY Zenon, <1>2, <2>2, <2>3, <2>4 DEF FstatSet, StoreTypeOK
  <1>3. CASE FstatRemote(q, t)
    <2>1. FileSize \in KnownSizes
      BY Zenon DEF KnownSizes
    <2>2. pc' \in [Requests -> [open : OpenPCs, pre : PrePCs]] /\ Stated'
      BY Zenon, <1>3, FstatGoto, StatedKept, <1>p DEF FstatRemote
    <2> QED
      BY Zenon, <1>3, <2>1, <2>2 DEF FstatRemote, RemoteSize, StoreTypeOK
  <1>6. CASE FstatPut(q, t)
    <2>1. fsize[q] \in KnownSizes
      BY Zenon DEF StoreTypeOK
    <2>2. pc' \in [Requests -> [open : OpenPCs, pre : PrePCs]] /\ Stated'
      BY Zenon, <1>6, FstatGoto, StatedKept, <1>p DEF FstatPut
    <2> QED
      BY Zenon, <1>6, <2>1, <2>2 DEF FstatPut, PutSize, StoreTypeOK
  <1>4. CASE FstatRemoteFails(q, t)
    <2>1. stat' = [stat EXCEPT ![q][t] = Failed] /\ Goto(q, t, "stated") /\ Failed # None
      BY Zenon, <1>4, NoneIsNoSize DEF FstatRemoteFails
    <2>4. Failed \in Stats
      BY Zenon DEF Stats
    <2>5. /\ stat'[q][t] = Failed /\ stat' \in [Requests -> [open : Stats, pre : Stats]]
          /\ \A u \in Threads : u # t => stat'[q][u] = stat[q][u]
          /\ \A p \in Requests : p # q => stat'[p] = stat[p]
      BY Zenon, <2>1, <2>4, StatEffect
    <2>2. stat' \in [Requests -> [open : Stats, pre : Stats]] /\ Stated'
      BY Zenon, <2>1, <2>5, StatedKept
    <2>3. pc' \in [Requests -> [open : OpenPCs, pre : PrePCs]] /\ 0 \in KnownSizes
      BY Zenon, <2>1, FstatGoto, <1>p DEF KnownSizes
    <2> QED
      BY Zenon, <1>4, <2>2, <2>3 DEF FstatRemoteFails, StoreTypeOK
  <1>5. CASE FstatReturns(q, t)
    <2>1. fsize[q] \in KnownSizes
      BY Zenon DEF StoreTypeOK
    <2>2. stat' = [stat EXCEPT ![q][t] = fsize[q]] /\ Goto(q, t, "stated") /\ fsize[q] # None
      BY Zenon, <1>5, <2>1, NoneIsNoSize DEF FstatReturns
    <2>5. fsize[q] \in Stats
      BY Zenon, <2>1 DEF Stats
    <2>6. /\ stat'[q][t] = fsize[q] /\ stat' \in [Requests -> [open : Stats, pre : Stats]]
          /\ \A u \in Threads : u # t => stat'[q][u] = stat[q][u]
          /\ \A p \in Requests : p # q => stat'[p] = stat[p]
      BY Zenon, <2>2, <2>5, StatEffect
    <2>3. stat' \in [Requests -> [open : Stats, pre : Stats]] /\ Stated'
      BY Zenon, <2>2, <2>6, StatedKept
    <2>4. pc' \in [Requests -> [open : OpenPCs, pre : PrePCs]]
      BY Zenon, <2>2, FstatGoto, <1>p
    <2> QED
      BY Zenon, <1>5, <2>3, <2>4 DEF FstatReturns, StoreTypeOK
  <1> QED
    BY Zenon, <1>1, <1>2, <1>3, <1>4, <1>5, <1>6 DEF Fstat

(* So are the goroutine of prefetch, the workers and the provider. *)
LEMMA QueueTypeOK ==
  ASSUME StoreTypeOK, NEW q \in Requests,
         PrefetchStarts(q) \/ PrefetchQueues(q) \/ PrefetchEnds(q)
  PROVE  StoreTypeOK'
  <1> USE DEF chanVars, fileVars, inputs, callVars, disk
  <1>1. CASE PrefetchStarts(q)
    <2>1. count[q] \in 0 .. FileSize /\ stat[q].pre \in {0, FileSize, -1}
      BY Zenon, <1>1 DEF PrefetchStarts, StoreTypeOK, Stated, Stats, KnownSizes, Failed
    <2>2. \A n \in 0 .. FileSize, s \in {0, FileSize, -1} :
            (IF s = -1 THEN 0 ELSE IF n < s THEN n ELSE s) \in 0 .. FileSize
      BY StoreAssumption
    <2>3. count' \in [Requests -> 0 .. FileSize]
      BY Zenon, <1>1, <2>1, <2>2 DEF PrefetchStarts, StoreTypeOK, Failed
    <2> QED
      BY Zenon, <1>1, <2>3, GotoEffect, StatedKept DEF PrefetchStarts, StoreTypeOK, PrePCs
  <1>2. CASE PrefetchQueues(q)
    <2>1. next[q].pre \in 0 .. FileSize /\ count[q] \in 0 .. FileSize /\ next[q].pre < count[q]
      BY Zenon, <1>2 DEF PrefetchQueues, MoreToQueue, StoreTypeOK
    <2>2. next[q].pre \in Chunks /\ next[q].pre + 1 \in 0 .. FileSize
      BY <2>1, StoreAssumption DEF Chunks
    <2>3. next' \in [Requests -> [open : Nat, pre : 0 .. FileSize]]
      BY Zenon, <1>2, <2>2 DEF PrefetchQueues, StoreTypeOK
    <2>4. Stated'
      BY Zenon, <1>2 DEF PrefetchQueues, StoreTypeOK, Stated
    <2> QED
      BY <1>2, <2>2, <2>3, <2>4 DEF PrefetchQueues, StoreTypeOK
  <1>3. CASE PrefetchEnds(q)
    BY Zenon, <1>3, GotoEffect, StatedKept DEF PrefetchEnds, StoreTypeOK, PrePCs
  <1> QED
    BY Zenon, <1>1, <1>2, <1>3

LEMMA AnnounceTypeOK ==
  ASSUME StoreTypeOK,
         \/ \E w \in Workers : Working(w)
         \/ Provide \/ ProvideStops \/ Shutdown \/ MetaEvict
         \/ UNCHANGED vars
  PROVE  StoreTypeOK'
  <1> USE DEF chanVars, fileVars, inputs, callVars, disk
  <1>0. UNCHANGED <<pc, stat>> => Stated'
    BY Zenon DEF StoreTypeOK, Stated
  <1>1. ASSUME NEW w \in Workers, WorkerTakes(w)
        PROVE  StoreTypeOK'
    <2>1. Head(prefetchChan) \in Chunks /\ Tail(prefetchChan) \in Seq(Chunks)
      BY <1>1 DEF WorkerTakes, StoreTypeOK
    <2>2. /\ work' \in [Workers -> [chunk : Chunks \cup {None}, got : BOOLEAN]]
          /\ \A v \in Workers : work'[v].got => work'[v].chunk # None
      <3>1. /\ work' = [work EXCEPT ![w].chunk = Head(prefetchChan)] /\ work[w].chunk = None
            /\ work \in [Workers -> [chunk : Chunks \cup {None}, got : BOOLEAN]]
            /\ \A v \in Workers : work[v].got => work[v].chunk # None
        BY Zenon, <1>1 DEF WorkerTakes, StoreTypeOK
      <3> QED
        BY Zenon, <2>1, <3>1
    <2> QED
      BY Zenon, <1>0, <1>1, <2>1, <2>2 DEF WorkerTakes, StoreTypeOK
  <1>2. ASSUME NEW w \in Workers, WorkerFetches(w)
        PROVE  StoreTypeOK'
    <2>1. cached' \subseteq Chunks /\ UNCHANGED spoiled
      BY Zenon, <1>2 DEF WorkerFetches, GetSucceeds, StoreTypeOK
    <2> QED
      BY Zenon, <1>0, <1>2, <2>1 DEF WorkerFetches, StoreTypeOK
  <1>3. ASSUME NEW w \in Workers, WorkerFails(w)
        PROVE  StoreTypeOK'
    <2>1. cached' \subseteq Chunks /\ UNCHANGED spoiled
      BY Zenon, <1>3 DEF WorkerFails, GetFails, StoreTypeOK
    <2> QED
      BY Zenon, <1>0, <1>3, <2>1 DEF WorkerFails, AfterFailure, StoreTypeOK
  <1>4. ASSUME NEW w \in Workers, WorkerNotifies(w)
        PROVE  StoreTypeOK'
    <2>1. work[w].chunk \in Chunks
      BY Zenon, <1>4 DEF WorkerNotifies, StoreTypeOK
    <2> QED
      BY <1>0, <1>4, <2>1 DEF WorkerNotifies, StoreTypeOK
  <1>5. CASE Provide
    BY <1>0, <1>5 DEF Provide, StoreTypeOK
  <1>6. CASE ProvideStops \/ Shutdown \/ MetaEvict \/ UNCHANGED vars
    BY Zenon, <1>0, <1>6 DEF ProvideStops, Shutdown, MetaEvict, vars, StoreTypeOK
  <1> QED
    BY Zenon, <1>1, <1>2, <1>3, <1>4, <1>5, <1>6 DEF Working

LEMMA NextStoreTypeOK == StoreTypeOK /\ [Next]_vars => StoreTypeOK'
  <1> SUFFICES ASSUME StoreTypeOK, [Next]_vars
               PROVE  StoreTypeOK'
    BY Zenon
  <1>1. ASSUME NEW q \in Requests, OpenRefused(q) \/ Open(q) \/ Serving(q) \/ Prefetching(q)
        PROVE  StoreTypeOK'
    BY Zenon, <1>1, ServeTypeOK, FstatTypeOK, QueueTypeOK DEF Serving, Prefetching
  <1> QED
    BY Zenon, <1>1, AnnounceTypeOK DEF Next

(* The store and the goroutines of its requests are typed: in particular only
   chunks of the file are ever queued, cached or announced. *)
THEOREM StoreTypeCorrect == Spec => []StoreTypeOK
  BY InitStoreTypeOK, NextStoreTypeOK, PTL DEF Spec

-----------------------------------------------------------------------------
(***************************************************************************)
(* Announcing.  A chunk leaves the cache only by being spoiled, so that a  *)
(* worker that has its chunk still has it when it notifies the provider,   *)
(* or the chunk is spoiled.                                                *)
(***************************************************************************)
Held == cached \cup spoiled
WorkersCached == \A w \in Workers : work[w].got => work[w].chunk \in Held
AnnounceInv == WorkersCached /\ AnnouncedIsCached

(* A step that tells nobody of a chunk keeps what was announced. *)
LEMMA AnnounceFrame ==
  ASSUME AnnounceInv, Held \subseteq Held', UNCHANGED <<blobsChan, notified, advertised, work>>
  PROVE  AnnounceInv'
  BY Zenon DEF AnnounceInv, WorkersCached, AnnouncedIsCached, Held

(* A step of one worker w that announces nothing. *)
LEMMA AnnounceWorks ==
  ASSUME AnnounceInv, Held \subseteq Held', UNCHANGED <<blobsChan, notified, advertised>>,
         NEW w \in Workers, work'[w].got => work'[w].chunk \in Held',
         \A v \in Workers : v # w => work'[v] = work[v]
  PROVE  AnnounceInv'
  <1>1. WorkersCached'
    BY Zenon DEF AnnounceInv, WorkersCached
  <1>2. AnnouncedIsCached'
    BY Zenon DEF AnnounceInv, AnnouncedIsCached, Held
  <1> QED
    BY Zenon, <1>1, <1>2 DEF AnnounceInv

LEMMA NextAnnounceInv == StoreTypeOK /\ AnnounceInv /\ [Next]_vars => AnnounceInv'
  <1> SUFFICES ASSUME StoreTypeOK, AnnounceInv, [Next]_vars
               PROVE  AnnounceInv'
    BY Zenon
  <1> USE DEF chanVars, disk
  <1>1. ASSUME NEW q \in Requests, OpenRefused(q) \/ Open(q) \/ Serving(q) \/ Prefetching(q)
        PROVE  AnnounceInv'
    <2>1. UNCHANGED <<blobsChan, notified, advertised, work>>
      BY Zenon, <1>1 DEF OpenRefused, Open, Serving, OpenReturns, SeekEnd, ReadAt, ReadAtFails, ReadAtPastEnd,
         ReadAtEnd, Prefetching, PrefetchStarts, PrefetchQueues, PrefetchEnds, Fstat, FstatGet, FstatLock,
         FstatSet, FstatRemote, FstatPut, FstatRemoteFails, FstatReturns
    <2>2. Held \subseteq Held'
      <3>1. CASE ReadAt(q) \/ ReadAtFails(q) \/ ReadAtPastEnd(q)
        BY Zenon, <3>1 DEF ReadAt, ReadAtFails, ReadAtPastEnd, GetSucceeds, GetFails, Held
      <3>2. CASE ReadAtEnd(q)
        BY Zenon, <3>2 DEF ReadAtEnd, Held
      <3>3. CASE ~ReadAt(q) /\ ~ReadAtFails(q) /\ ~ReadAtPastEnd(q) /\ ~ReadAtEnd(q)
        BY Zenon, <1>1, <3>3 DEF OpenRefused, Open, Serving, OpenReturns, SeekEnd,
           Prefetching, PrefetchStarts, PrefetchQueues, PrefetchEnds, Fstat, FstatGet, FstatLock,
           FstatSet, FstatRemote, FstatPut, FstatRemoteFails, FstatReturns, Held
      <3> QED
        BY Zenon, <3>1, <3>2, <3>3
    <2> QED
      BY Zenon, <2>1, <2>2, AnnounceFrame
  <1>2. ASSUME NEW w \in Workers, WorkerTakes(w)
        PROVE  AnnounceInv'
    <2>1. work'[w].got = work[w].got /\ \A v \in Workers : v # w => work'[v] = work[v]
      BY <1>2 DEF WorkerTakes, StoreTypeOK
    <2>2. ~work[w].got
      BY Zenon, <1>2 DEF WorkerTakes, StoreTypeOK
    <2> QED
      BY Zenon, <1>2, <2>1, <2>2, AnnounceWorks DEF WorkerTakes, Held
  <1>3. ASSUME NEW w \in Workers, WorkerFetches(w)
        PROVE  AnnounceInv'
    <2>1. work'[w].chunk = work[w].chunk /\ \A v \in Workers : v # w => work'[v] = work[v]
      BY Zenon, <1>3 DEF WorkerFetches, StoreTypeOK
    <2>2. /\ Held \subseteq Held' /\ work[w].chunk \in Held'
          /\ UNCHANGED <<blobsChan, notified, advertised>>
      BY Zenon, <1>3 DEF WorkerFetches, GetSucceeds, Held
    <2> QED
      BY Zenon, <2>1, <2>2, AnnounceWorks
  <1>4. ASSUME NEW w \in Workers, WorkerFails(w)
        PROVE  AnnounceInv'
    <2>1. /\ work'[w].got = work[w].got /\ ~work[w].got
          /\ \A v \in Workers : v # w => work'[v] = work[v]
      BY Zenon, <1>4 DEF WorkerFails, AfterFailure, StoreTypeOK
    <2>2. Held \subseteq Held'
      BY Zenon, <1>4 DEF WorkerFails, GetFails, Held
    <2> QED
      BY Zenon, <1>4, <2>1, <2>2, AnnounceWorks DEF WorkerFails
  <1>5. ASSUME NEW w \in Workers, WorkerNotifies(w)
        PROVE  AnnounceInv'
    <2>1. work[w].chunk \in Held /\ work[w].chunk \in Chunks /\ blobsChan \in Seq(Chunks)
      BY Zenon, <1>5 DEF WorkerNotifies, AnnounceInv, WorkersCached, StoreTypeOK
    <2>2. /\ ~work'[w].got /\ \A v \in Workers : v # w => work'[v] = work[v]
          /\ UNCHANGED <<Held, advertised>> /\ notified' = notified \cup {work[w].chunk}
          /\ blobsChan' = Append(blobsChan, work[w].chunk)
      BY Zenon, <1>5 DEF WorkerNotifies, StoreTypeOK, Held
    <2>3. WorkersCached'
      BY Zenon, <2>2 DEF AnnounceInv, WorkersCached
    <2>4. \A n \in 1 .. Len(blobsChan') : blobsChan'[n] \in Held
      BY <2>1, <2>2 DEF AnnounceInv, AnnouncedIsCached, Held
    <2>5. AnnouncedIsCached'
      BY Zenon, <2>1, <2>2, <2>4 DEF AnnounceInv, AnnouncedIsCached, Held
    <2> QED
      BY Zenon, <2>3, <2>5 DEF AnnounceInv
  <1>6. CASE Provide
    <2>1. /\ blobsChan \in Seq(Chunks) /\ blobsChan # << >> /\ blobsChan' = Tail(blobsChan)
          /\ UNCHANGED <<Held, notified, work>>
          /\ advertised' \in {advertised, advertised \cup {Head(blobsChan)}}
      BY Zenon, <1>6 DEF Provide, StoreTypeOK, Held
    <2>2. \A n \in 1 .. Len(blobsChan) : blobsChan[n] \in Held
      BY Zenon DEF AnnounceInv, AnnouncedIsCached, Held
    <2>3. Head(blobsChan) \in Held /\ \A n \in 1 .. Len(blobsChan') : blobsChan'[n] \in Held
      BY <2>1, <2>2
    <2>4. AnnouncedIsCached'
      BY Zenon, <2>1, <2>3 DEF AnnounceInv, AnnouncedIsCached, Held
    <2> QED
      BY Zenon, <2>1, <2>4 DEF AnnounceInv, WorkersCached
  <1>7. CASE ProvideStops \/ Shutdown \/ MetaEvict \/ UNCHANGED vars
    BY Zenon, <1>7, AnnounceFrame DEF ProvideStops, Shutdown, MetaEvict, vars, Held
  <1> QED
    BY Zenon, <1>1, <1>2, <1>3, <1>4, <1>5, <1>6, <1>7 DEF Next, Working

(* A chunk that is sent to the provider, or advertised by it, is in the cache
   already, however the workers, their failures and the provider interleave; it
   is no longer there only where a request has spoiled it. *)
THEOREM AnnouncesCachedChunks == Spec => []AnnouncedIsCached
<1>1. Init => AnnounceInv
  BY DEF Init, AnnounceInv, WorkersCached, AnnouncedIsCached
<1>2. AnnounceInv => AnnouncedIsCached
  BY Zenon DEF AnnounceInv
<1> QED
  BY <1>1, <1>2, NextAnnounceInv, StoreTypeCorrect, PTL DEF Spec

-----------------------------------------------------------------------------
(***************************************************************************)
(* The size of a file, which both goroutines of a request assign without a *)
(* lock.                                                                   *)
(***************************************************************************)

(* Once Open's Fstat has succeeded the metadata cache holds the size, so that
   neither goroutine of the file goes to the origin or resets file.size. *)
Served(q) == pc[q].pre # "none" /\ pc[q].open \in Stating \cup {"seek"}
Opened(q) ==
  \/ pc[q].open = "stated" /\ pc[q].pre = "none" /\ stat[q].open # Failed
  \/ Served(q)
  \/ \E t \in Threads : pc[q][t] = "return"
SizeOf(q) ==
  /\ Opened(q) => meta = FileSize /\ fsize[q] = FileSize
  /\ Served(q) => \A t \in Threads :
       pc[q][t] \notin {"remote", "put"} /\ (pc[q][t] = "got" => stat[q][t] # None)
  /\ \A t \in Threads : pc[q][t] = "got" /\ stat[q][t] # None => meta = FileSize /\ stat[q][t] = FileSize
  /\ \A t \in Threads : pc[q][t] = "put" => fsize[q] = FileSize
  /\ \A t \in Threads : pc[q][t] = "stated" => stat[q][t] \in {FileSize, Failed}
  /\ pc[q].pre # "none" /\ pc[q].open \in Stating => total[q] = FileSize
  /\ pc[q].open = "start" => pc[q].pre = "none"
MetaRight == meta \in {None, FileSize}
SizeInv == "evict" \notin weather => MetaRight /\ \A q \in Requests : SizeOf(q)

(* SizeOf speaks of one request, and of the metadata cache keeping the size. *)
LEMMA SizeElsewhere ==
  ASSUME NEW q \in Requests, SizeOf(q), meta = FileSize => meta' = FileSize, pc'[q] = pc[q],
         stat'[q] = stat[q], total'[q] = total[q], fsize'[q] = fsize[q]
  PROVE  SizeOf(q)'
  BY Zenon DEF SizeOf, Served, Opened

(* When both goroutines of a file run, the request is being served. *)
LEMMA OtherMeansServed ==
  ASSUME StoreTypeOK, NEW q \in Requests, SizeOf(q), NEW t \in Threads, NEW u \in Threads, u # t,
         pc[q][t] \in Stating, pc[q][u] \in Stating
  PROVE  Served(q)
  BY Zenon DEF Served, Stating

(* Fstat of either goroutine: the other one has the size or is not running. *)
LEMMA FstatSize ==
  ASSUME StoreTypeOK, MetaRight, NEW q \in Requests, NEW t \in Threads, Fstat(q, t), SizeOf(q)
  PROVE  SizeOf(q)' /\ MetaRight' /\ (meta = FileSize => meta' = FileSize)
  <1> USE DEF fileVars
  <1>t. /\ pc[q] \in [open : OpenPCs, pre : PrePCs]
        /\ fsize \in [Requests -> KnownSizes] /\ stat \in [Requests -> [open : Stats, pre : Stats]]
    BY Zenon DEF StoreTypeOK
  <1>1. CASE FstatGet(q, t) \/ FstatLock(q, t)
    <2>1. /\ pc[q][t] \in {"stat", "lock"} /\ UNCHANGED <<meta, total, fsize>>
          /\ stat' = [stat EXCEPT ![q][t] = meta] /\ Goto(q, t, "got")
      BY Zenon, <1>1 DEF FstatGet, FstatLock
    <2>2. pc'[q][t] = "got" /\ \A u \in Threads : u # t => pc'[q][u] = pc[q][u]
      BY Zenon, <2>1, GotoPC
    <2>3. stat'[q][t] = meta /\ \A u \in Threads : u # t => stat'[q][u] = stat[q][u]
      BY Zenon, <1>t, <2>1
    <2>4. (Served(q)' => Served(q)) /\ (Opened(q)' => Opened(q))
      BY Zenon, <2>1, <2>2, <2>3 DEF Served, Opened, Stating
    <2>5. Served(q) => meta # None
      BY Zenon, NoneIsNoSize DEF SizeOf, Opened, KnownSizes
    <2> QED
      BY Zenon, <2>1, <2>2, <2>3, <2>4, <2>5 DEF SizeOf, MetaRight, Stating
  <1>2. CASE FstatSet(q, t)
    <2>1. /\ pc[q][t] = "got" /\ UNCHANGED <<meta, total, stat>>
          /\ fsize'[q] = IF stat[q][t] = None THEN 0 ELSE stat[q][t]
      BY Zenon, <1>2, <1>t DEF FstatSet, Size
    <2>2. CASE stat[q][t] # None
      <3>1. Goto(q, t, "return")
        BY Zenon, <1>2, <2>2 DEF FstatSet
      <3>2. pc'[q][t] = "return" /\ \A u \in Threads : u # t => pc'[q][u] = pc[q][u]
        BY <3>1, GotoPC
      <3>3. meta = FileSize /\ fsize'[q] = FileSize
        BY Zenon, <2>1, <2>2 DEF SizeOf
      <3>4. Served(q)' => Served(q)
        BY Zenon, <2>1, <3>2 DEF Served, Stating
      <3> QED
        BY ZenonT(40), <2>1, <3>2, <3>3, <3>4 DEF SizeOf, MetaRight, Stating
    <2>3. CASE stat[q][t] = None
      <3>1. PICK l \in {"lock", "remote"} : Goto(q, t, l)
        BY Zenon, <1>2, <2>3 DEF FstatSet
      <3>2. pc'[q][t] \in {"lock", "remote"} /\ \A u \in Threads : u # t => pc'[q][u] = pc[q][u]
        BY Zenon, <3>1, GotoPC
      <3>3. ~Served(q)
        BY Zenon, <2>1, <2>3 DEF SizeOf
      <3>4. \A u \in Threads : u # t => pc[q][u] \notin Stating
        BY Zenon, <2>1, <3>3, OtherMeansServed DEF Stating
      <3>5. ~Served(q)'
        BY Zenon, <2>1, <3>2, <3>3 DEF Served, Stating
      <3>6. ~Opened(q)'
        BY Zenon, <2>1, <3>2, <3>4, <3>5 DEF Opened, Stating
      <3> QED
        BY Zenon, <2>1, <3>2, <3>3, <3>4, <3>5, <3>6 DEF SizeOf, MetaRight, Stating, Served
    <2> QED
      BY Zenon, <2>2, <2>3
  <1>3. CASE FstatRemote(q, t)
    <2>1. /\ pc[q][t] = "remote" /\ UNCHANGED <<meta, stat, total>>
          /\ fsize'[q] = FileSize /\ Goto(q, t, "put")
      BY Zenon, <1>3, <1>t DEF FstatRemote, RemoteSize
    <2>2. pc'[q][t] = "put" /\ \A u \in Threads : u # t => pc'[q][u] = pc[q][u]
      BY Zenon, <2>1, GotoPC
    <2>3. ~Served(q) /\ ~Served(q)'
      BY Zenon, <2>1, <2>2 DEF SizeOf, Served, Stating
    <2>4. Opened(q)' => Opened(q)
      BY Zenon, <2>1, <2>2, <2>3 DEF Opened
    <2> QED
      BY Zenon, <2>1, <2>2, <2>3, <2>4 DEF SizeOf, MetaRight, Served, Stating
  <1>4. CASE FstatPut(q, t)
    <2>1. /\ pc[q][t] = "put" /\ UNCHANGED <<fsize, stat, total>>
          /\ meta' = fsize[q] /\ Goto(q, t, "return")
      BY Zenon, <1>4 DEF FstatPut, PutSize
    <2>2. pc'[q][t] = "return" /\ \A u \in Threads : u # t => pc'[q][u] = pc[q][u]
      BY Zenon, <2>1, GotoPC
    <2>3. ~Served(q) /\ ~Served(q)' /\ meta' = FileSize /\ fsize'[q] = FileSize
      BY Zenon, <2>1, <2>2 DEF SizeOf, Served, Stating
    <2> QED
      BY Zenon, <2>1, <2>2, <2>3 DEF SizeOf, MetaRight, Served, Stating
  <1>5. CASE FstatRemoteFails(q, t)
    <2>1. /\ pc[q][t] = "remote" /\ UNCHANGED <<meta, total>>
          /\ stat' = [stat EXCEPT ![q][t] = Failed] /\ Goto(q, t, "stated")
      BY Zenon, <1>5 DEF FstatRemoteFails
    <2>2. pc'[q][t] = "stated" /\ \A u \in Threads : u # t => pc'[q][u] = pc[q][u]
      BY Zenon, <2>1, GotoPC
    <2>3. stat'[q][t] = Failed /\ \A u \in Threads : u # t => stat'[q][u] = stat[q][u]
      BY Zenon, <1>t, <2>1
    <2>4. ~Served(q) /\ ~Served(q)'
      BY Zenon, <2>1, <2>2 DEF SizeOf, Served, Stating
    <2>5. \A u \in Threads : u # t => pc[q][u] \notin Stating
      BY Zenon, <2>1, <2>4, OtherMeansServed DEF Stating
    <2>6. ~Opened(q)'
      BY Zenon, <2>1, <2>2, <2>3, <2>4, <2>5 DEF Opened, Stating
    <2> QED
      BY Zenon, <2>1, <2>2, <2>3, <2>4, <2>5, <2>6 DEF SizeOf, MetaRight, Served, Stating
  <1>6. CASE FstatReturns(q, t)
    <2>1. /\ pc[q][t] = "return" /\ UNCHANGED <<meta, fsize, total>>
          /\ stat' = [stat EXCEPT ![q][t] = fsize[q]] /\ Goto(q, t, "stated")
      BY Zenon, <1>6 DEF FstatReturns
    <2>2. pc'[q][t] = "stated" /\ \A u \in Threads : u # t => pc'[q][u] = pc[q][u]
      BY Zenon, <2>1, GotoPC
    <2>3. stat'[q][t] = fsize[q] /\ \A u \in Threads : u # t => stat'[q][u] = stat[q][u]
      BY Zenon, <1>t, <2>1
    <2>4. meta = FileSize /\ fsize[q] = FileSize
      BY Zenon, <2>1 DEF SizeOf, Opened
    <2>5. Served(q)' => Served(q)
      BY Zenon, <2>1, <2>2 DEF Served, Stating
    <2> QED
      BY Zenon, <2>1, <2>2, <2>3, <2>4, <2>5 DEF SizeOf, MetaRight, Stating
  <1> QED
    BY Zenon, <1>1, <1>2, <1>3, <1>4, <1>5, <1>6 DEF Fstat

(* A step to Fstat or to the end by the goroutine that serves the request. *)
LEMMA ServeSize ==
  ASSUME StoreTypeOK, NEW q \in Requests, SizeOf(q),
         OpenRefused(q) \/ Open(q) \/ OpenReturns(q) \/ SeekEnd(q)
           \/ ReadAt(q) \/ ReadAtFails(q) \/ ReadAtPastEnd(q) \/ ReadAtEnd(q)
  PROVE  SizeOf(q)' /\ UNCHANGED meta
  <1> USE DEF fileVars
  <1>t. /\ pc \in [Requests -> [open : OpenPCs, pre : PrePCs]] /\ total \in [Requests -> KnownSizes]
    BY Zenon DEF StoreTypeOK
  <1>1. CASE OpenReturns(q)
    <2>1. /\ pc[q].open = "stated" /\ pc[q].pre = "none" /\ UNCHANGED <<meta, fsize, stat, total>>
          /\ pc'[q].open = IF stat[q].open = Failed THEN "done" ELSE "seek"
          /\ pc'[q].pre \in {"stat", "done"}
      BY Zenon, <1>1, <1>t DEF OpenReturns
    <2> QED
      BY Zenon, <2>1 DEF SizeOf, Served, Opened, Stating
  <1>2. CASE SeekEnd(q)
    <2>1. /\ pc[q].open = "seek" /\ UNCHANGED <<meta, fsize, stat>> /\ total'[q] = fsize[q]
          /\ pc'[q].open \in {"stat", "done"} /\ pc'[q].pre = pc[q].pre
      BY Zenon, <1>2, <1>t, GotoEffect DEF SeekEnd
    <2> QED
      BY Zenon, <2>1 DEF SizeOf, Served, Opened, Stating
  <1>3. CASE ReadAt(q) \/ ReadAtFails(q) \/ ReadAtPastEnd(q) \/ ReadAtEnd(q)
    <2>1. /\ pc[q].open = "stated" /\ pc[q].pre # "none" /\ UNCHANGED <<meta, fsize, stat, total>>
          /\ pc'[q].open \in {"stat", "done", "panic"} /\ pc'[q].pre = pc[q].pre
      <3>1. PICK l \in {"stat", "done", "panic"} : Goto(q, "open", l)
        BY Zenon, <1>3 DEF ReadAt, ReadAtFails, ReadAtPastEnd, ReadAtEnd
      <3>2. pc'[q].open \in {"stat", "done", "panic"} /\ pc'[q].pre = pc[q].pre
        BY Zenon, <3>1, GotoPC
      <3> QED
        BY Zenon, <1>3, <3>2 DEF ReadAt, ReadAtFails, ReadAtPastEnd, ReadAtEnd, Reading
    <2> QED
      BY Zenon, <2>1 DEF SizeOf, Served, Opened, Stating
  <1>4. CASE OpenRefused(q) \/ Open(q)
    <2>1. /\ pc[q].open = "start" /\ UNCHANGED <<meta, fsize, stat, total>>
          /\ pc'[q].open \in {"stat", "done"} /\ pc'[q].pre = pc[q].pre
      BY Zenon, <1>4, <1>t, GotoEffect DEF OpenRefused, Open
    <2> QED
      BY Zenon, <2>1 DEF SizeOf, Served, Opened, Stating
  <1> QED
    BY Zenon, <1>1, <1>2, <1>3, <1>4

(* Requests have files of their own: what one does is nothing to another. *)
LEMMA OthersUntouched ==
  ASSUME StoreTypeOK, NEW q \in Requests,
         OpenRefused(q) \/ Open(q) \/ Serving(q) \/ Prefetching(q)
  PROVE  /\ UNCHANGED inputs
         /\ \A p \in Requests : p # q =>
              /\ pc'[p] = pc[p] /\ stat'[p] = stat[p] /\ total'[p] = total[p]
              /\ fsize'[p] = fsize[p] /\ next'[p] = next[p]
  <1> USE DEF fileVars, StoreTypeOK
  <1>1. ASSUME NEW t \in Threads, Fstat(q, t)
        PROVE  /\ UNCHANGED inputs
               /\ \A p \in Requests : p # q =>
                    /\ pc'[p] = pc[p] /\ stat'[p] = stat[p] /\ total'[p] = total[p]
                    /\ fsize'[p] = fsize[p] /\ next'[p] = next[p]
    BY Zenon, <1>1 DEF Fstat, FstatGet, FstatLock, FstatSet, FstatRemote, FstatPut, FstatRemoteFails,
       FstatReturns, Goto
  <1>2. CASE OpenRefused(q) \/ Open(q) \/ OpenReturns(q) \/ SeekEnd(q)
    BY Zenon, <1>2 DEF OpenRefused, Open, OpenReturns, SeekEnd, Goto
  <1>3. CASE ReadAt(q) \/ ReadAtFails(q) \/ ReadAtPastEnd(q) \/ ReadAtEnd(q)
    BY Zenon, <1>3 DEF ReadAt, ReadAtFails, ReadAtPastEnd, ReadAtEnd, Goto
  <1>4. CASE PrefetchStarts(q) \/ PrefetchQueues(q) \/ PrefetchEnds(q)
    BY Zenon, <1>4 DEF PrefetchStarts, PrefetchQueues, PrefetchEnds, Goto
  <1> QED
    BY Zenon, <1>1, <1>2, <1>3, <1>4 DEF Serving, Prefetching

(* The prefetch goroutine, once it has the size, and what is not a request. *)
LEMMA PrefetchSize ==
  ASSUME StoreTypeOK, NEW q \in Requests, SizeOf(q),
         PrefetchStarts(q) \/ PrefetchQueues(q) \/ PrefetchEnds(q)
  PROVE  SizeOf(q)' /\ UNCHANGED meta
  <1>1. /\ pc[q].pre \in {"stated", "queue"} /\ pc'[q].pre \in {"queue", "done"}
        /\ pc'[q].open = pc[q].open /\ UNCHANGED <<meta, fsize, stat, total>>
    BY Zenon, GotoEffect DEF PrefetchStarts, PrefetchQueues, PrefetchEnds, StoreTypeOK, fileVars
  <1> QED
    BY Zenon, <1>1 DEF SizeOf, Served, Opened, Stating

LEMMA RestKeepsRequests ==
  ASSUME \/ \E w \in Workers : Working(w)
         \/ Provide \/ ProvideStops \/ Shutdown \/ UNCHANGED vars \/ MetaEvict
  PROVE  /\ UNCHANGED <<fsize, pc, stat, total, next, want, weather, spoiled, stuck>>
         /\ "evict" \notin weather => UNCHANGED meta
  BY Zenon DEF Working, WorkerTakes, WorkerFetches, WorkerFails, WorkerNotifies, Provide, ProvideStops,
     Shutdown, MetaEvict, GetSucceeds, GetFails, vars, fileVars, inputs, callVars, disk

LEMMA NextSizeInv == StoreTypeOK /\ SizeInv /\ [Next]_vars => SizeInv'
  <1> SUFFICES ASSUME StoreTypeOK, SizeInv, [Next]_vars
               PROVE  SizeInv'
    BY Zenon
  <1>1. ASSUME NEW q \in Requests, OpenRefused(q) \/ Open(q) \/ Serving(q) \/ Prefetching(q)
        PROVE  SizeInv'
    <2> SUFFICES ASSUME "evict" \notin weather'
                 PROVE  MetaRight' /\ \A p \in Requests : SizeOf(p)'
      BY Zenon DEF SizeInv
    <2>1. "evict" \notin weather
      BY Zenon, <1>1, OthersUntouched DEF inputs
    <2>2. MetaRight /\ \A p \in Requests : SizeOf(p)
      BY Zenon, <2>1 DEF SizeInv
    <2>3. SizeOf(q)' /\ MetaRight' /\ (meta = FileSize => meta' = FileSize)
      <3>1. SizeOf(q)
        BY Zenon, <2>2
      <3>2. CASE UNCHANGED meta /\ SizeOf(q)'
        BY Zenon, <2>2, <3>2 DEF MetaRight
      <3>3. CASE \E t \in Threads : Fstat(q, t)
        BY Zenon, <2>2, <3>1, <3>3, FstatSize
      <3> QED
        BY Zenon, <1>1, <3>1, <3>2, <3>3, ServeSize, PrefetchSize DEF Serving, Prefetching
    <2>4. ASSUME NEW p \in Requests, p # q
          PROVE  SizeOf(p)'
      BY Zenon, <1>1, <2>2, <2>3, <2>4, OthersUntouched, SizeElsewhere
    <2> QED
      BY Zenon, <2>3, <2>4
  <1>2. ASSUME \/ \E w \in Workers : Working(w)
               \/ Provide \/ ProvideStops \/ Shutdown \/ UNCHANGED vars \/ MetaEvict
        PROVE  SizeInv'
    <2>1. /\ UNCHANGED <<fsize, pc, stat, total, next, want, weather>>
          /\ "evict" \notin weather => UNCHANGED meta
      BY Zenon, <1>2, RestKeepsRequests
    <2>2. ASSUME "evict" \notin weather', NEW q \in Requests
          PROVE  MetaRight' /\ SizeOf(q)'
      BY Zenon, <2>1, <2>2, SizeElsewhere DEF SizeInv, MetaRight
    <2>3. "evict" \notin weather' => MetaRight'
      BY Zenon, <2>1 DEF SizeInv, MetaRight
    <2> QED
      BY Zenon, <2>2, <2>3 DEF SizeInv
  <1> QED
    BY Zenon, <1>1, <1>2 DEF Next

LEMMA SizeInvHolds == Spec => []SizeInv
<1>1. Init => SizeInv
  <2> SUFFICES ASSUME Init, NEW q \in Requests
               PROVE  SizeOf(q)
    BY Zenon DEF Init, SizeInv, MetaRight
  <2>1. pc[q].open \in {"start", "done"} /\ pc[q].pre = "none"
    BY Zenon DEF Init
  <2> QED
    BY Zenon, <2>1 DEF SizeOf, Served, Opened, Stating
<1> QED
  BY <1>1, NextSizeInv, StoreTypeCorrect, PTL DEF Spec

(* As long as the metadata cache keeps the size, Fstat of either goroutine
   returns the size of the file or fails, and ServeContent is told that size,
   although file.size is assigned by both goroutines without a lock. *)
THEOREM SizesAreRight == Spec => []SizeIsRight
<1>1. SizeInv => SizeIsRight
  BY Zenon DEF SizeInv, SizeOf, SizeIsRight, Stating
<1> QED
  BY <1>1, SizeInvHolds, PTL

-----------------------------------------------------------------------------
(***************************************************************************)
(* Reading.  The next chunk of a request is one of its range, so it lies   *)
(* in the file as long as the sizes are right.                             *)
(***************************************************************************)
InWanted ==
  \A q \in Requests : pc[q].open \notin {"done", "panic"} =>
    want[q] \in Ranges /\ next[q].open <= want[q][2]
PanicInv == InWanted /\ PanicsOnlyIfForgotten

(* Without an eviction there is nothing at or past the end of a file to read,
   and what succeeds or fails otherwise spoils nothing and leaves no lock. *)
LEMMA PastEndForgotten ==
  ASSUME StoreTypeOK, SizeInv, InWanted, NEW q \in Requests, ReadAtPastEnd(q) \/ ReadAtEnd(q)
  PROVE  "evict" \in weather
  <1>1. /\ pc[q].open = "stated" /\ pc[q].pre # "none" /\ stat[q].open # Failed
        /\ next[q].open > stat[q].open \/ next[q].open = stat[q].open
    BY Zenon DEF ReadAtPastEnd, ReadAtEnd, Reading
  <1>2. want[q] \in Ranges /\ next[q].open <= want[q][2] /\ next[q].open \in Nat
    BY Zenon, <1>1 DEF InWanted, StoreTypeOK
  <1>3. want[q][2] \in Chunks
    BY Zenon, <1>2 DEF Ranges
  <1>4. stat[q].open # FileSize
    BY <1>1, <1>2, <1>3, StoreAssumption DEF Chunks
  <1> QED
    BY Zenon, <1>1, <1>4 DEF SizeInv, SizeOf

LEMMA NothingLost ==
  ASSUME NEW q \in Requests, OpenRefused(q) \/ Open(q) \/ Serving(q) \/ Prefetching(q),
         ~ReadAtPastEnd(q), ~ReadAtEnd(q)
  PROVE  UNCHANGED <<spoiled, stuck>>
  BY Zenon DEF OpenRefused, Open, Serving, OpenReturns, SeekEnd, ReadAt, ReadAtFails, GetSucceeds, GetFails,
     Prefetching, PrefetchStarts, PrefetchQueues, PrefetchEnds, Fstat, FstatGet, FstatLock, FstatSet,
     FstatRemote, FstatPut, FstatRemoteFails, FstatReturns, disk

LEMMA NextPanicInv == StoreTypeOK /\ SizeInv /\ PanicInv /\ [Next]_vars => PanicInv'
  <1> SUFFICES ASSUME StoreTypeOK, SizeInv, PanicInv, [Next]_vars
               PROVE  PanicInv'
    BY Zenon
  <1>1. ASSUME NEW q \in Requests, OpenRefused(q) \/ Open(q) \/ Serving(q) \/ Prefetching(q)
        PROVE  PanicInv'
    <2>1. /\ UNCHANGED <<want, weather>>
          /\ \A p \in Requests : p # q => pc'[p] = pc[p] /\ next'[p] = next[p]
      BY Zenon, <1>1, OthersUntouched DEF inputs
    <2>f. "evict" \in weather \/ UNCHANGED <<spoiled, stuck>>
      BY Zenon, <1>1, PastEndForgotten, NothingLost DEF PanicInv
    <2>2. SUFFICES /\ pc'[q].open \notin {"done", "panic"} =>
                        want[q] \in Ranges /\ next'[q].open <= want[q][2]
                   /\ pc'[q].open = "panic" => "evict" \in weather
      BY Zenon, <2>1, <2>f DEF PanicInv, InWanted, PanicsOnlyIfForgotten
    <2>i. /\ pc[q].open \notin {"done", "panic"} =>
               want[q] \in Ranges /\ next[q].open <= want[q][2]
          /\ pc[q].open = "panic" => "evict" \in weather
      BY Zenon DEF PanicInv, InWanted, PanicsOnlyIfForgotten
    <2>3. CASE ReadAt(q)
      <3>1. /\ pc[q].open = "stated" /\ next'[q].open = next[q].open + 1 /\ next[q].open \in Nat
            /\ pc'[q].open = "done" \/ (pc'[q].open = "stat" /\ next[q].open < want[q][2])
        BY <2>3, GotoEffect DEF ReadAt, Reading, StoreTypeOK
      <3>2. want[q] \in Ranges => want[q][2] \in Nat
        BY DEF Ranges, Chunks
      <3> QED
        BY <2>i, <3>1, <3>2
    <2>4. CASE ReadAtPastEnd(q) \/ ReadAtEnd(q)
      <3>1. pc'[q].open \in {"done", "panic"}
        BY Zenon, <2>4, GotoEffect DEF ReadAtPastEnd, ReadAtEnd
      <3> QED
        BY Zenon, <2>4, <3>1, PastEndForgotten DEF PanicInv
    <2>5. CASE ~ReadAt(q) /\ ~ReadAtPastEnd(q) /\ ~ReadAtEnd(q)
      <3>1. /\ next'[q].open = next[q].open
            /\ \/ pc'[q].open = pc[q].open
               \/ pc[q].open \notin {"done", "panic"} /\ pc'[q].open # "panic"
        <4>1. ASSUME NEW t \in Threads, Fstat(q, t)
              PROVE  /\ UNCHANGED next
                     /\ \/ pc'[q].open = pc[q].open
                        \/ pc[q].open \notin {"done", "panic"} /\ pc'[q].open # "panic"
          <5>1. PICK l \in Stating : Goto(q, t, l)
            BY Zenon, <4>1 DEF Fstat, FstatGet, FstatLock, FstatSet, FstatRemote, FstatPut, FstatRemoteFails,
               FstatReturns, Stating
          <5>2. pc[q][t] \notin {"done", "panic"} /\ UNCHANGED next
            BY Zenon, <4>1 DEF Fstat, FstatGet, FstatLock, FstatSet, FstatRemote, FstatPut, FstatRemoteFails,
               FstatReturns
          <5>3. pc'[q][t] = l /\ \A u \in Threads : u # t => pc'[q][u] = pc[q][u]
            BY <5>1, GotoPC
          <5>4. l # "panic"
            BY Zenon DEF Stating
          <5> QED
            BY Zenon, <5>2, <5>3, <5>4
        <4>2. CASE OpenRefused(q) \/ Open(q)
          BY <4>2, GotoEffect DEF OpenRefused, Open
        <4>6. CASE SeekEnd(q)
          BY <4>6, GotoEffect DEF SeekEnd
        <4>7. CASE ReadAtFails(q)
          BY <4>7, GotoEffect DEF ReadAtFails, Reading
        <4>3. CASE OpenReturns(q)
          BY Zenon, <4>3 DEF OpenReturns, StoreTypeOK
        <4>4. CASE PrefetchStarts(q) \/ PrefetchEnds(q)
          BY Zenon, <4>4, GotoEffect DEF PrefetchStarts, PrefetchEnds
        <4>5. CASE PrefetchQueues(q)
          BY Zenon, <4>5 DEF PrefetchQueues, StoreTypeOK
        <4> QED
          BY Zenon, <1>1, <2>5, <4>1, <4>2, <4>3, <4>4, <4>5, <4>6, <4>7 DEF Serving, Prefetching
      <3> QED
        BY Zenon, <2>i, <3>1
    <2> QED
      BY Zenon, <2>3, <2>4, <2>5
  <1>2. ASSUME \/ \E w \in Workers : Working(w)
               \/ Provide \/ ProvideStops \/ Shutdown \/ UNCHANGED vars \/ MetaEvict
        PROVE  PanicInv'
    <2>1. UNCHANGED <<pc, next, want, weather, spoiled, stuck>>
      BY Zenon, <1>2, RestKeepsRequests
    <2> QED
      BY Zenon, <2>1 DEF PanicInv, InWanted, PanicsOnlyIfForgotten
  <1> QED
    BY Zenon, <1>1, <1>2 DEF Next

(* A request panics, leaves a chunk locked or spoils one only where the metadata
   cache may have forgotten the size of its file. *)
THEOREM NoPanicWithKnownSize == Spec => []PanicsOnlyIfForgotten
<1>1. Init => PanicInv
  <2> SUFFICES ASSUME Init, NEW q \in Requests
               PROVE  /\ pc[q].open \notin {"done", "panic"} =>
                           want[q] \in Ranges /\ next[q].open <= want[q][2]
                      /\ pc[q].open # "panic"
    BY Zenon DEF Init, PanicInv, InWanted, PanicsOnlyIfForgotten
  <2>1. want[q] \in Ranges \cup {None}
    BY Zenon, InitStoreTypeOK DEF StoreTypeOK
  <2>2. /\ pc[q].open = IF want[q] = None THEN "done" ELSE "start"
        /\ want[q] # None => next[q].open = want[q][1]
    BY Zenon DEF Init
  <2> QED
    BY Zenon, <2>1, <2>2 DEF Ranges
<1>2. PanicInv => PanicsOnlyIfForgotten
  BY Zenon DEF PanicInv
<1> QED
  BY <1>1, <1>2, NextPanicInv, SizeInvHolds, StoreTypeCorrect, PTL DEF Spec
=============================================================================
