SPECIFICATION FairSpec
CONSTANTS
  FileSizes = {0, 1, 4, 5}
  ChunkSize = 2
  AcceptAnswer <- Accepted
  ErrorAnswer <- Refused
  NotFoundAnswer <- NotFound
  MaxHandles = 3
  MaxIds = 5
  MaxFaults = 4
INVARIANTS
  DoneIsReceived
  FinallyIsLast
  LeaksAreFaults
  IInv
PROPERTIES
  RowMovesOn
  ImplementsUpload
  WorkShrinks
  EventuallyDone
