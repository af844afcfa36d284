SPECIFICATION Spec
CONSTANTS
  Entities = {e1}
  MaxSeq = 2
  MaxFaults = 0
PROPERTIES
  StateIsIncremental
