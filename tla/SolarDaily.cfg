SPECIFICATION Spec
CONSTANTS
  Day = 20
  Noon = 9
  Downtime = 7
  MaxPost = 2
  Outcomes = {"ok"}
  NoonMayFail = FALSE
  StartTimes <- DailyStarts
  MaxRestarts = 2
  MaxOutage = 3
INVARIANTS
  TypeOK
  OffDuringTransit
  OnOutsideTransit
  SecondNeverAlone
PROPERTIES
  OffIsTemporary
  NextNoonIsNext
