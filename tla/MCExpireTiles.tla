----------------------------- MODULE MCExpireTiles -----------------------------
(* ExpireTiles on a corner of the grid, around the numerals of ten.        *)
EXTENDS ExpireTiles

Tile(z, x, y) == [z |-> z, x |-> x, y |-> y]

AroundTen ==
  {Tile(11, 9, y) : y \in 8 .. 11} \cup {Tile(11, 10, y) : y \in {9, 10}}
    \cup {Tile(10, 4, 4), Tile(10, 5, 5), Tile(9, 2, 2)}

NineAndTen == {Tile(9, 2, 2), Tile(10, 4, 4)}

\* The geojson contains two of the finest tiles and one of the next zoom.
SomeGeometries ==
  {[kind |-> "none"],
   [kind |-> "bbox",
    bbox |-> [west |-> 9, east |-> 11, south |-> -11, north |-> -9]],
   [kind |-> "geojson",
    contained |-> {bbox(Tile(11, 9, 8)), bbox(Tile(11, 9, 10)), bbox(Tile(10, 5, 5))}]}

NoGeometry == {[kind |-> "none"]}
================================================================================
