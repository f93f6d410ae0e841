SPECIFICATION DeviceSpec
CONSTANTS
  Tasks = {t1, t2}
  NoTask = NoTask
  MaxDisconnects = 0
  MaxBreaks = 2
INVARIANTS
  OverlapOnlyIfLate
  ResponseExpected
PROPERTIES
  Started
  TeardownEnds
  KeepsPromise
CHECK_DEADLOCK FALSE
