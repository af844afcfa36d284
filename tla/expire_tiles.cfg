SPECIFICATION Spec
CONSTANTS
  Lines <- AroundTen
  Geometries <- SomeGeometries
  FinestZoom = 11
INVARIANTS
  BoxesCoverOneZoom
