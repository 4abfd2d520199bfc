SPECIFICATION BrokerSpec
CONSTANTS
  TxCapacity = 2
  MaxFrames = 4
  Inputs <- FourInputs
  Unit = 64
  Lookback = 3
  NoAverage = NoAverage
  Content <- FourFrames
  Clients = {c1}
  SampleCounts = {0, 2}
INVARIANTS
  TypeOK
  AveragesWithoutGap
  AgreeingStayClear
  AverageIsWeighted
  RequestsTypeOK
  DumpsAreWhole
PROPERTIES
  CatchesUp
  RequestsEnd
