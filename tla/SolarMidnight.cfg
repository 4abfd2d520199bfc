SPECIFICATION Spec
CONSTANTS
  Day = 14
  Noon = 7
  Downtime = 5
  MaxPost = 1
  Outcomes = {"ok"}
  NoonMayFail = FALSE
  StartTimes <- AnyTime
  MaxRestarts = 0
  MaxOutage = 0
PROPERTIES
  NextNoonIsNext
