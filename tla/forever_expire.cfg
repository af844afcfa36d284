SPECIFICATION Safe
CONSTANTS
  e1 = e1
  e2 = e2
  Entities = {e1, e2}
  MaxSeq = 2
  BackoffLimit = 0
  MaxFaults = 2
  Rounds = {0, 1, 2, 3}
  Forever = TRUE
  GenerateExpire = TRUE
  Tiles <- Mixed
  UploadTargets <- S3ThenQueue
  MediatorEnabled = TRUE
  MdrEnabled = FALSE
INVARIANTS
  TypeOK
  AppliedWithinOneOfRecorded
  RecordingInv
  NeverFiledEarly
  AwaitedTasksFileRight
  UploadInv
PROPERTIES
  ImplementsProject
  DeliveredBeforeRecorded
  WorksUnderItsAction
