SPECIFICATION FairSpec
CONSTANTS
  Callers = {c1, c2}
  Tasks = {t1, t2}
  Files = {f1, f2}
  FilesOf <- MCFilesOf
  Pools = {p1, p2, p3}
  None = None
  PoolSize = 2
  Exclusive = {t1}
  MaxFaults = 1
INVARIANTS
  ExtractIsComplete
  JobsWithinCall
  TransferHasCaller
  UnheardIsFault
  IInv
PROPERTIES
  NothingTakenBack
  JobsAreSends
  WaitingIsUploaded
  CallReturns
