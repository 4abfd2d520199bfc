SPECIFICATION Spec
CONSTANTS
  Ids = {1, 2}
  Width = 2
  PartialFrameCapacity = 1
  MinFrameSampleCount = 1
  NoFrame = NoFrame
  Packets <- ReconfiguredPackets
  SocketCapacity = 1
  FlushTimeout = 3
  Retransmits = TRUE
  MaxErrors = 0
  NoHeader = NoHeader
  NoPacket = NoPacket
PROPERTIES
  PendingArePublished
