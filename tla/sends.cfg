SPECIFICATION FairSpec
CONSTANTS
  Sends = {s1, s2}
  Parts = 3
  MaxIds = 6
  MaxFaults = 2
INVARIANTS
  SoundCallDelivers
  DoneIsReceived
  MisreadIsOverlap
PROPERTIES
  ImplementsJob
  StaysDone
