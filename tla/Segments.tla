------------------------------ MODULE Segments ------------------------------
(***************************************************************************)
(* pkg/math: AlignDown, NewSegments and the goroutine of Segments.All,     *)
(* which cuts a range of a file at the boundaries of the cache blocks and  *)
(* sends the pieces.  file.prefetch asks the cache for every piece, and    *)
(* file.ReadAt asks it for the block of one offset.                        *)
(***************************************************************************)
EXTENDS Integers, Sequences, Blocks

CONSTANTS Offsets, Steps, Counts, Sizes   \* the arguments of NewSegments

ASSUME SegmentsAssumption ==
  /\ Offsets \subseteq Nat /\ Counts \subseteq Nat /\ Sizes \subseteq Nat
  /\ Steps \subseteq Nat \ {0}

VARIABLES
  offset, step, size,  \* the fields of Segments
  i,                   \* the loop variable of All
  sent,                \* the segments sent so far
  state                \* "loop", "closed", or "err" when NewSegments fails

segVars == <<offset, step, size, i, sent, state>>

(* step & (step - 1) is zero for the powers of 2 only. *)
PowerOf2(n) == \E e \in 0 .. n : n = 2^e

NewSegments(o, s, c, z) ==
  /\ offset = o
  /\ step = s
  /\ size = Min64(o + c, z)
  /\ i = AlignDown(o, s)
  /\ sent = << >>
  /\ state = IF PowerOf2(s) THEN "loop" ELSE "err"

SegInit == \E o \in Offsets, s \in Steps, c \in Counts, z \in Sizes : NewSegments(o, s, c, z)

absOffset == Max64(i, offset)
CountFromIndex == Min64(i + step, size) - i
CountToEnd == size - absOffset
Count == Min64(i + step, size) - absOffset
Segment == [Index |-> i, Offset |-> absOffset - i, Count |-> Count]

Send ==
  /\ state = "loop" /\ i < size
  /\ Count > 0
  /\ sent' = Append(sent, Segment)
  /\ i' = i + step
  /\ UNCHANGED <<offset, step, size, state>>

(* Only the block of an empty range has nothing to send. *)
Skip ==
  /\ state = "loop" /\ i < size
  /\ Count <= 0
  /\ i' = i + step
  /\ UNCHANGED <<offset, step, size, sent, state>>

Close ==
  /\ state = "loop" /\ i >= size
  /\ state' = "closed"
  /\ UNCHANGED <<offset, step, size, i, sent>>

Done == state # "loop" /\ UNCHANGED segVars

SegNext == Send \/ Skip \/ Close \/ Done
SegSpec == SegInit /\ [][SegNext]_segVars

-----------------------------------------------------------------------------
Start(seg) == seg.Index + seg.Offset
End(seg) == Start(seg) + seg.Count

(* How many bytes ReadAt asks the cache for at an aligned offset of a file. *)
ReadCountFixed(fileSize, alignedOffset) == step
ReadCount(fileSize, alignedOffset) == Min64(step, fileSize - alignedOffset)

(* The loop variable and the segments are numbers that fit the range. *)
SegTypeOK ==
  /\ offset \in Nat /\ step \in Nat \ {0} /\ size \in Nat /\ i \in Nat
  /\ sent \in Seq([Index : Nat, Offset : Nat, Count : Nat \ {0}])
  /\ state \in {"loop", "closed", "err"}

(* The segments of All tile the range: the first starts at the offset, each
   starts where the one before it ended, and once the channel is closed the
   last one ends with the range; an empty range has none. *)
Tiles ==
  /\ sent # << >> => Start(sent[1]) = offset
  /\ \A n \in 1 .. Len(sent) - 1 : End(sent[n]) = Start(sent[n + 1])
  /\ state = "closed" =>
       IF offset < size THEN sent # << >> /\ End(sent[Len(sent)]) = size
       ELSE sent = << >>

(* No segment crosses a block of the cache, and each is named by the block
   that holds it: what AlignDown gives for every offset inside it. *)
InsideBlocks ==
  \A n \in 1 .. Len(sent) :
    /\ sent[n].Offset + sent[n].Count <= step
    /\ sent[n].Index = AlignDown(Start(sent[n]), step)

(* file.prefetch, which cuts a file from offset 0, and file.ReadAt ask
   GetOrCreate for the same number of bytes of a block: a disagreement would
   make each of them fetch the block again after the other. *)
PrefetchMatchesRead ==
  offset = 0 => \A n \in 1 .. Len(sent) : sent[n].Count = ReadCount(size, sent[n].Index)
=============================================================================
