SPECIFICATION Spec
CONSTANTS
  FileSizes = {5}
  ChunkSize = 2
  AcceptAnswer <- Accepted
  ErrorAnswer <- NoJson
  NotFoundAnswer <- NotFound
  MaxHandles = 3
  MaxIds = 2
  MaxFaults = 1
INVARIANTS
  DoneIsReceived
