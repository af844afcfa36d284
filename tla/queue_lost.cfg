SPECIFICATION Safe
CONSTANTS
  e1 = e1
  e2 = e2
  Entities = {e1}
  MaxSeq = 1
  BackoffLimit = 0
  MaxFaults = 1
  Rounds = {0, 1, 2, 3}
  Forever = TRUE
  GenerateExpire = TRUE
  Tiles <- AllInside
  UploadTargets <- QueueOnly
  MediatorEnabled = FALSE
  MdrEnabled = FALSE
PROPERTIES
  QueuedBeforeRecorded
