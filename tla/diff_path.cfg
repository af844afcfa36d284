SPECIFICATION Spec
CONSTANTS
  FirstNumbers <- Boundaries
  MaxAppends = 40
PROPERTIES
  WalksTheDirectories
