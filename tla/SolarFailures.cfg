SPECIFICATION Spec
CONSTANTS
  Day = 10
  Noon = 6
  Downtime = 3
  MaxPost = 3
  Outcomes = {"ok", "refused", "unanswered"}
  NoonMayFail = TRUE
  StartTimes <- AnyTime
  MaxRestarts = 1
  MaxOutage = 1
INVARIANTS
  GaugeShowsStage
PROPERTIES
  TransitsKeepComing
