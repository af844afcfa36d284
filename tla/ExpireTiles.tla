------------------------------ MODULE ExpireTiles ------------------------------
(***************************************************************************)
(* ExpireTilesParser: the bounding boxes that are queued for an expire     *)
(* list.  A line of the list is a tile; its text "z/x/y" matters only for  *)
(* the order in which sortArrAlphabetically puts the lines.                *)
(*                                                                         *)
(* Coordinates are those of the tile grid of FinestZoom, with y counted    *)
(* downwards as latitudes fall: a monotone image of the degrees that       *)
(* sphericalmercator computes.                                             *)
(***************************************************************************)
EXTENDS Integers, FiniteSets, SequencesExt

CONSTANTS Lines,        \* the tiles an expire list may hold
          Geometries,   \* the geometry filters an entity may have
          FinestZoom

ASSUME ZoomAssumption == FinestZoom \in Nat

ASSUME LinesAssumption ==
  Lines \subseteq [z : 0 .. FinestZoom, x : Nat, y : Nat] /\ IsFiniteSet(Lines)

VARIABLES expireList,   \* the unique lines of the list
          geometry,     \* the resource of the entity's geometryKey
          sort,         \* the option of the parser ("desc" in the manager)
          parsed,       \* the parser has returned
          boxes         \* what it returned

vars == <<expireList, geometry, sort, parsed, boxes>>

Sorts == {"asc", "desc"}

--------------------------------------------------------------------------------
(* The order of the lines.                                                 *)

\* localeCompare: a slash sorts before every digit, and digits one by one.
Slash == -1

Numeral(n) ==
  LET digits[k \in 0 .. n] ==
        IF k < 10 THEN <<k>> ELSE Append(digits[k \div 10], k % 10)
  IN digits[n]

Join(a, b) == a \o <<Slash>> \o b

Text(t) == Join(Numeral(t.z), Join(Numeral(t.x), Numeral(t.y)))

TextBefore(a, b) ==
  \E i \in 1 .. Len(b) :
    /\ \A j \in 1 .. i - 1 : j <= Len(a) /\ a[j] = b[j]
    /\ i <= Len(a) => a[i] < b[i]

sortsBefore(s, t, order) ==
  IF order = "desc" THEN TextBefore(Text(t), Text(s)) ELSE TextBefore(Text(s), Text(t))

\* The lines are unique, so that each is where the lines before it put it.
place(t, list, order) == Cardinality({s \in list : sortsBefore(s, t, order)}) + 1

sortArrAlphabetically(list, order) ==
  [i \in 1 .. Cardinality(list) |-> CHOOSE t \in list : place(t, list, order) = i]

\* The zoom of the line that sorts last.
getMaxZoom(sorted, order) ==
  IF sorted = <<>> THEN 0 ELSE IF order = "desc" THEN Head(sorted).z ELSE Last(sorted).z

--------------------------------------------------------------------------------
(* The boxes and the filters.                                              *)

Scale[z \in 0 .. FinestZoom] == IF z = FinestZoom THEN 1 ELSE 2 * Scale[z + 1]

bbox(t) ==
  [west |-> t.x * Scale[t.z], east |-> (t.x + 1) * Scale[t.z],
   north |-> -(t.y * Scale[t.z]), south |-> -((t.y + 1) * Scale[t.z])]

getFilterByBboxFunc(containing, box) ==
  /\ box.west >= containing.west /\ box.south >= containing.south
  /\ box.east <= containing.east /\ box.north <= containing.north

\* A geometry is absent, a bounding box, or a geojson, which is the set of the
\* boxes it contains.
passes(filter, box) ==
  CASE filter.kind = "none" -> TRUE
    [] filter.kind = "bbox" -> getFilterByBboxFunc(filter.bbox, box)
    [] filter.kind = "geojson" -> box \in filter.contained

getFilterByZoomFunc(zoom, t) == t.z = zoom

survives(t, zoom, filter) == getFilterByZoomFunc(zoom, t) /\ passes(filter, bbox(t))

\* The two filters, one tile of the sorted list after the other.
expireListToFilteredTiles(sorted, zoom, filter) ==
  LET tiles[n \in 0 .. Len(sorted)] ==
        IF n = 0 THEN <<>>
        ELSE IF survives(sorted[n], zoom, filter) THEN Append(tiles[n - 1], sorted[n])
        ELSE tiles[n - 1]
  IN tiles[Len(sorted)]

--------------------------------------------------------------------------------
(* parseExpireListToFilteredBbox.                                          *)

follows(t, before, order) ==
  /\ t.z = before.z
  /\ t.x = before.x
  /\ t.y = before.y + (IF order = "asc" THEN 1 ELSE -1)

\* A tile is pushed to the last range, or starts a range of its own.
pushTile(ranges, t, order) ==
  IF ranges # <<>> /\ follows(t, Last(Last(ranges)), order)
  THEN [ranges EXCEPT ![Len(ranges)] = Append(@, t)]
  ELSE Append(ranges, <<t>>)

buildTileRange(tiles, order) ==
  LET ranges[n \in 0 .. Len(tiles)] ==
        IF n = 0 THEN <<>> ELSE pushTile(ranges[n - 1], tiles[n], order)
  IN ranges[Len(tiles)]

\* A variant with a plausible slip: the corners are taken the other way round.
rangeToBboxTurned(range, order) ==
  LET bottom == bbox(IF order = "desc" THEN Last(range) ELSE Head(range))
      top == bbox(IF order = "desc" THEN Head(range) ELSE Last(range))
  IN [west |-> bottom.west, south |-> bottom.south, east |-> top.east, north |-> top.north]

\* West and south from the bottom of the range, east and north from its top.
rangeToBbox(range, order) ==
  LET bottom == bbox(IF order = "desc" THEN Head(range) ELSE Last(range))
      top == bbox(IF order = "desc" THEN Last(range) ELSE Head(range))
  IN [west |-> bottom.west, south |-> bottom.south, east |-> top.east, north |-> top.north]

buildBboxRange(ranges, order) ==
  [i \in DOMAIN ranges |-> rangeToBbox(ranges[i], order)]

parseExpireListToFilteredBbox(list, filter, order) ==
  LET sorted == sortArrAlphabetically(list, order)
      tiles == expireListToFilteredTiles(sorted, getMaxZoom(sorted, order), filter)
  IN buildBboxRange(buildTileRange(tiles, order), order)

Init ==
  /\ expireList \in SUBSET Lines
  /\ geometry \in Geometries
  /\ sort \in Sorts
  /\ parsed = FALSE
  /\ boxes = <<>>

Parse ==
  /\ parsed' = TRUE
  /\ boxes' = parseExpireListToFilteredBbox(expireList, geometry, sort)
  /\ UNCHANGED <<expireList, geometry, sort>>

Next == Parse

Spec == Init /\ [][Next]_vars

--------------------------------------------------------------------------------
(* What the boxes must cover.                                              *)

Cells(box) == (box.west .. box.east - 1) \X (box.south .. box.north - 1)

\* The boxes cover a set of tiles exactly, and no cell of the grid twice.
CoverExactly(list, tiles) ==
  LET area == [i \in DOMAIN list |-> Cells(list[i])]
  IN /\ UNION {area[i] : i \in DOMAIN list} = UNION {Cells(bbox(t)) : t \in tiles}
     /\ \A i, j \in DOMAIN list : i # j => area[i] \cap area[j] = {}

Surviving(z) == {t \in expireList : survives(t, z, geometry)}

Zooms == {t.z : t \in expireList}

\* The boxes cover what survives the filters of one zoom of the list, nothing else
\* and nothing twice, although the lines are merged in the order of their texts,
\* in which neighbouring tiles are often far apart; and it is the top zoom as long
\* as all zooms have the same number of digits (parseExpireListToFilteredBbox).
BoxesCoverOneZoom ==
  (parsed /\ expireList # {}) =>
    \E z \in Zooms :
      /\ CoverExactly(boxes, Surviving(z))
      /\ (\A a, b \in Zooms : Len(Numeral(a)) = Len(Numeral(b))) => z = Max(Zooms)

\* helm/README.md:69: "a payload consisting the bounding boxes of the expired tiles
\* on the top zoom level".
BoxesCoverTopZoom ==
  (parsed /\ expireList # {}) => CoverExactly(boxes, Surviving(Max(Zooms)))
================================================================================
