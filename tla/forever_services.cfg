SPECIFICATION Spec
CONSTANTS
  e1 = e1
  e2 = e2
  Entities = {e1, e2}
  MaxSeq = 2
  BackoffLimit = 0
  MaxFaults = 2
  Rounds = {0, 1, 2, 3}
  Forever = TRUE
  GenerateExpire = FALSE
  Tiles <- AllInside
  UploadTargets <- NoTargets
  MediatorEnabled = TRUE
  MdrEnabled = TRUE
INVARIANTS
  SuccessIsComplete
  EnrolledOnce
  EnrollmentInv
PROPERTIES
  RecordedStateIsEnrolled
  CatchesUp
