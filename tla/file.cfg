SPECIFICATION FairFileSpec
CONSTANTS
  Block = 3
  Sizes <- SmallSizes
  Buffers <- SmallBuffers
INVARIANT SentIsPrefix
INVARIANT DoneIsWhole
INVARIANT PeerChunkServed
PROPERTY CopyTerminates
