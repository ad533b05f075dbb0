------------------------- MODULE FileCacheRefinement -------------------------
(***************************************************************************)
(* FileCache implements ChunkCache when waitForSet does wait for the set,  *)
(* every chunk fits in the cache and the disk does not fail.  The bytes of *)
(* a chunk are in the file of its item, which a failed fetch unlinks but   *)
(* does not close, or at its path as long as it has no item.  An inode     *)
(* named after a key is a file that was there at the start.                *)
(***************************************************************************)
EXTENDS FileCache

InodeOf(k) ==
  LET items == {i \in Calls : key[i] = k /\ file[i] = "open"}
  IN IF items = {} THEN dir[k] ELSE inode[CHOOSE i \in items : TRUE]

WholeOnDisk == {k \in Keys : InodeOf(k) # None /\ content[InodeOf(k)] = Chunk(k)}
LeftBehind == {k \in Keys : InodeOf(k) = k}
Fetching == [c \in Calls |-> IF pc[c] \in Filling THEN key[c] ELSE None]

Abstract == INSTANCE ChunkCache WITH
  whole <- WholeOnDisk, left <- LeftBehind, want <- key, fetching <- Fetching, answer <- res

(* GetOrCreate and Exists, with their locks, items, files and ristretto's
   buffer, do what ChunkCache says: calls for one chunk share one fetch, a
   chunk that is whole is not fetched, truncated or removed any more, a call
   gets the chunk or the error of its own fetch and never panics, and Exists
   says no more than that there are bytes on disk. *)
ImplementsChunkCache == Abstract!Spec
=============================================================================
