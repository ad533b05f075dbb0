SPECIFICATION SegSpec
CONSTANTS
  Offsets <- SmallNumbers
  Steps <- SmallSteps
  Counts <- SmallNumbers
  Sizes <- SmallNumbers
INVARIANT Tiles
INVARIANT InsideBlocks
INVARIANT PrefetchMatchesRead
