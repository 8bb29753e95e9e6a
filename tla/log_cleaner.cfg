SPECIFICATION FairSpec
CONSTANTS
  Files = {f1, f2, f3, f4}
  NoFile = NoFile
  MaxHours = 1
  SleepHours = 1
  DayHours = 1
  Cap = 4
INVARIANTS
  NothingLost
  OneScanAfterStop
  IInv
PROPERTIES
  YoungKept
  StopEnds
  OldRemoved
