SPECIFICATION Spec
CONSTANTS
  Ids = {1, 2, 3}
  Width = 2
  PartialFrameCapacity = 2
  MinFrameSampleCount = 1
  NoFrame = NoFrame
  Packets <- CleanPackets
  SocketCapacity = 1
  FlushTimeout = 1
  Retransmits = FALSE
  MaxErrors = 1
  NoHeader = NoHeader
  NoPacket = NoPacket
INVARIANTS
  Lockstep
  CompleteFramesLeave
