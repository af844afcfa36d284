SPECIFICATION Spec
CONSTANTS
  Kids = {k1, k2}
  Requests <- SharedScript
INVARIANTS
  TypeOK
  LifecycleInv
  ExitsCleanly
  OnlyLateChildrenSurvive
  SuccessIsDone
  WorksOnProcessedResources
PROPERTIES
  ProcessEnds
