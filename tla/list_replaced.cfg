SPECIFICATION Safe
CONSTANTS
  e1 = e1
  e2 = e2
  Entities = {e1, e2}
  MaxSeq = 2
  BackoffLimit = 0
  MaxFaults = 1
  Rounds = {0, 1, 2, 3}
  Forever = TRUE
  GenerateExpire = TRUE
  Tiles <- AllInside
  UploadTargets <- S3Only
  MediatorEnabled = FALSE
  MdrEnabled = FALSE
PROPERTIES
  ListsOfTheState
