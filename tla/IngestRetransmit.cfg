SPECIFICATION Spec
CONSTANTS
  Ids = {1, 2}
  Width = 2
  PartialFrameCapacity = 1
  MinFrameSampleCount = 1
  NoFrame = NoFrame
  Packets <- RetransmittedPackets
  SocketCapacity = 1
  FlushTimeout = 1
  Retransmits = TRUE
  MaxErrors = 1
  NoHeader = NoHeader
  NoPacket = NoPacket
INVARIANTS
  TypeOK
  ReceivedMeansStored
  MetadataOfReceived
PROPERTIES
  SilencePublishesAll
