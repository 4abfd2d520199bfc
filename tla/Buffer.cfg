SPECIFICATION FairSpec
CONSTANTS
  Ids = {1, 2, 3}
  Width = 2
  PartialFrameCapacity = 2
  MinFrameSampleCount = 1
  NoFrame = NoFrame
  Writers = {w1, w2}
  Readers = {r1}
  Chunks <- MCChunks
  TxCapacity = 1
  NoWriter = NoWriter
INVARIANTS
  TypeOK
  CountMatchesMask
  MapBounded
  EvictedStayClosed
  CallsAreShort
  SubscribersAgreeWithLastFrame
PROPERTIES
  OldestOnlyAdvances
  UnfinishedLeaveOldestFirst
  ImplementsDelivery
  ImplementsAtomic
  CallsCountDown
  CallsReturn
