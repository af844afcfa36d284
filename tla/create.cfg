SPECIFICATION Spec
CONSTANTS
  StateOverrides <- WithAndWithoutOverride
  Unnumbered = {2}
  MaxDumps = 3
  MaxFaults = 2
  MediatorEnabled = TRUE
  MdrEnabled = TRUE
INVARIANTS
  CompletedMeansImported
  StateIsOfTheDump
  WholeDumpOnly
  CreateInv
PROPERTIES
  TablesChangeUnderAction
  CreateEnds
