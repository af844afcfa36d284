SPECIFICATION Spec
CONSTANTS
  Entities = {e1, e2}
  MaxSeq = 2
  MaxFaults = 1
INVARIANTS
  AppliedWithinOneOfRecorded
  OverlapInv
PROPERTIES
  StateSlipsByOneAtMost
  TablesInOrder
