SPECIFICATION Spec
CONSTANTS
  e1 = e1
  e2 = e2
  Entities = {e1, e2}
  MaxSeq = 2
  BackoffLimit = 6
  MaxFaults = 2
  Rounds = {0, 1, 2, 3}
  Forever = FALSE
  GenerateExpire = TRUE
  Tiles <- Mixed
  UploadTargets <- QueueThenS3
  MediatorEnabled = TRUE
  MdrEnabled = TRUE
INVARIANTS
  ActionInv
  SuccessIsComplete
PROPERTIES
  JobEnds
