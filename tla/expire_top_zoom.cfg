SPECIFICATION Spec
CONSTANTS
  Lines <- NineAndTen
  Geometries <- NoGeometry
  FinestZoom = 10
INVARIANTS
  BoxesCoverTopZoom
