-------------------------------- MODULE File ---------------------------------
(***************************************************************************)
(* The file of pkg/files/store as a reader sees it: Seek, Read and ReadAt, *)
(* each answered from one chunk of the cache.  The reader is the external  *)
(* http.ServeContent, which copies a range and never asks for a byte past  *)
(* it.  (A copy until io.EOF could lose bytes: ReadAt returns io.EOF along *)
(* with a short read of an earlier chunk.  Nothing in peerd does that.)    *)
(*                                                                         *)
(* A byte of the file is its offset.  Fstat is taken to return the size    *)
(* and GetOrCreate the chunk (see FilesStore and FileCache).               *)
(***************************************************************************)
EXTENDS Integers, Sequences, Blocks

CONSTANTS
  Block,        \* files.CacheBlockSize
  Sizes,        \* sizes of the file
  Buffers       \* lengths of the copier's buffer

ASSUME FileAssumption ==
  /\ Block \in Nat \ {0}
  /\ Sizes \subseteq Nat \ {0} /\ Buffers \subseteq Nat \ {0}

VARIABLES
  size,         \* file.size
  chunkOffset,  \* file.chunkOffset, set for the request of a peer
  cur,          \* file.cur
  start, len,   \* the range that is copied
  buffer,       \* length of the copier's buffer
  out,          \* the bytes copied so far
  state         \* "seek", "copy", "done", "refused" or "failed"

copyVars == <<size, chunkOffset, cur, start, len, buffer, out, state>>

(* A range of the file, as parseRange gives it; for a peer's request the file
   is opened for the chunk of the first byte. *)
FileInit ==
  /\ size \in Sizes
  /\ start \in 0 .. size - 1
  /\ len \in 1 .. size - start
  /\ chunkOffset \in {0, AlignDown(start, Block)}
  /\ buffer \in Buffers
  /\ cur = 0
  /\ out = << >>
  /\ state = "seek"

(* ServeContent seeks to the end to learn the size, then to the range. *)
Seek ==
  /\ state = "seek"
  /\ cur' = start
  /\ state' = "copy"
  /\ UNCHANGED <<size, chunkOffset, start, len, buffer, out>>

-----------------------------------------------------------------------------
Left == len - Len(out)
Asked == Min64(buffer, Left)

(* ReadAt returns bytes of the chunk of the offset only. *)
ChunkOnlyExact(offset) == chunkOffset # 0 /\ offset # chunkOffset
ChunkOnly(offset) == chunkOffset # 0 /\ AlignDown(offset, Block) # chunkOffset

ReadCountShort(offset, n) ==
  LET alignedOffset == AlignDown(offset, Block)
  IN Min64(n, Min64(Block, size - alignedOffset) - (offset - alignedOffset) - 1)
ReadCount(offset, n) ==
  LET alignedOffset == AlignDown(offset, Block)
      count == Min64(Block, size - alignedOffset)
  IN Min64(n, count - (offset - alignedOffset))

ReadErrAtEnd(offset, n) == IF offset + n >= size THEN "EOF" ELSE "nil"
ReadErr(offset, n) == IF offset + n > size THEN "EOF" ELSE "nil"

More == state = "copy" /\ Left > 0

(* Read: the offset moves only when there is no error.  The copier keeps what
   it got, also along with io.EOF. *)
AdvanceAsked(n, err) == cur + Asked
AdvanceBy(n, err) == IF err = "nil" THEN cur + n ELSE cur

Read ==
  /\ More
  /\ ~ChunkOnly(cur)
  /\ LET n == ReadCount(cur, Asked)
         err == ReadErr(cur, Asked)
     IN /\ out' = out \o [b \in 1 .. n |-> cur + b - 1]
        /\ cur' = AdvanceBy(n, err)
        /\ state' = IF err = "EOF" THEN "done" ELSE "copy"
  /\ UNCHANGED <<size, chunkOffset, start, len, buffer>>

(* Another chunk than the peer asked for. *)
ReadRefused ==
  /\ More
  /\ ChunkOnly(cur)
  /\ state' = "refused"
  /\ UNCHANGED <<size, chunkOffset, cur, start, len, buffer, out>>

(* Fstat or GetOrCreate fails. *)
ReadFails ==
  /\ More
  /\ state' = "failed"
  /\ UNCHANGED <<size, chunkOffset, cur, start, len, buffer, out>>

CopyEnds ==
  /\ state = "copy" /\ Left = 0
  /\ state' = "done"
  /\ UNCHANGED <<size, chunkOffset, cur, start, len, buffer, out>>

Ended == state \in {"done", "refused", "failed"} /\ UNCHANGED copyVars

FileNext == Seek \/ Read \/ ReadRefused \/ ReadFails \/ CopyEnds \/ Ended
FileSpec == FileInit /\ [][FileNext]_copyVars

(* The copier goes on; nothing obliges a read to fail. *)
FairFileSpec == FileSpec /\ WF_copyVars(Seek \/ Read \/ ReadRefused \/ CopyEnds)

-----------------------------------------------------------------------------
(* The offsets and the copied bytes are typed. *)
FileTypeOK ==
  /\ size \in Nat /\ start \in Nat /\ len \in Nat /\ cur \in Nat
  /\ chunkOffset \in Nat /\ buffer \in Nat \ {0}
  /\ out \in Seq(Nat)
  /\ state \in {"seek", "copy", "done", "refused", "failed"}

(* What ServeContent has sent is the beginning of the range, byte for byte:
   nothing is skipped or sent twice where one chunk ends and the next begins,
   also when the copy fails half way. *)
SentIsPrefix ==
  /\ Len(out) <= len
  /\ \A b \in 1 .. Len(out) : out[b] = start + b - 1

(* A copy that ends without an error has sent the whole range. *)
DoneIsWhole == state = "done" => Len(out) = len

(* A range that lies in the chunk that was opened for a peer is never
   refused, wherever in the chunk its Reads begin. *)
PeerChunkServed ==
  state = "refused" => AlignDown(start, Block) # AlignDown(start + len - 1, Block)

(* Every copy ends: no Read returns 0 bytes without an error for ever. *)
CopyTerminates == <>(state \in {"done", "refused", "failed"})
=============================================================================
