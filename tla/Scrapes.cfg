SPECIFICATION Spec
CONSTANTS
  Clients = {c1, c2}
  Gauges = 2
  MaxFrames = 2
  MaxPackets = 2
  Received <- TwoMasks
SYMMETRY AnyClient
INVARIANTS
  TypeOK
  RejectedWithinTotal
  ExportsWhatScrapesRead
  ScrapeFollowsData
