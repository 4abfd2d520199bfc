SPECIFICATION Spec
CONSTANTS
  Day = 10
  Noon = 5
  Downtime = 3
  MaxPost = 4
  Outcomes = {"ok"}
  NoonMayFail = FALSE
  StartTimes = {0}
  MaxRestarts = 0
  MaxOutage = 0
PROPERTIES
  ElseOnlyFirstPass
