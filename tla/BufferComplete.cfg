SPECIFICATION Spec
CONSTANTS
  Ids = {1}
  Width = 3
  PartialFrameCapacity = 2
  MinFrameSampleCount = 1
  NoFrame = NoFrame
  Writers = {w1, w2}
  Readers = {}
  Chunks <- MCOverlappingChunks
  TxCapacity = 1
  NoWriter = NoWriter
INVARIANTS
  CompleteFramesArePushed
