----------------------------- MODULE Geometries -----------------------------
(***************************************************************************)
(* Areas on their way between a client, the proxy and the two upstreams:   *)
(* the GeoJSON library (pkg/geojson), the WKT that ASF is sent             *)
(* (internal/translate/geometry.go), the polygon that CMR is sent and the  *)
(* geometry of a CMR granule (internal/cmr).                               *)
(*                                                                         *)
(* A position is a sequence of coordinates.  A geometry keeps its          *)
(* coordinates at the nesting of a MultiPolygon whatever its type: polys   *)
(* is a sequence of polygons, a polygon a sequence of rings, a ring a      *)
(* sequence of positions.  Failing conversions return NoGeometry, NoText   *)
(* or an empty box.                                                        *)
(***************************************************************************)
EXTENDS Integers, SequencesExt

Geometry(type, polys) == [type |-> type, polys |-> polys]
NoGeometry == Geometry("none", <<>>)

PointAt(p) == Geometry("Point", << << <<p>> >> >>)
Polygon(rings) == Geometry("Polygon", <<rings>>)

\* A MultiPolygon's rings, or whatever the type has of them.
Rings(g) == FlattenSeq(g.polys)
Positions(g) == ToSet(FlattenSeq(Rings(g)))
Usable(p) == Len(p) >= 2

-----------------------------------------------------------------------------
(* Boxes: <<west, south, east, north>>. *)

Lon(p) == p[1]
Lat(p) == p[2]
Lowest(S) == CHOOSE m \in S : \A s \in S : m <= s
Highest(S) == CHOOSE m \in S : \A s \in S : m >= s

BoxOf(P) == IF P = {} THEN <<>>
            ELSE <<Lowest({Lon(p) : p \in P}), Lowest({Lat(p) : p \in P}),
                   Highest({Lon(p) : p \in P}), Highest({Lat(p) : p \in P})>>

\* Mutant: of the last ring only.
ComputeBBoxLastRing(g) ==
  LET rings == Rings(g)
  IN  IF rings = <<>> THEN <<>> ELSE BoxOf({p \in ToSet(Last(rings)) : Usable(p)})

\* ComputeBBox: of every ring; positions with fewer than two coordinates are
\* passed over, and no usable position is an error.
ComputeBBox(g) ==
  IF g.type \in {"Point", "LineString", "Polygon", "MultiPolygon"}
  THEN BoxOf({p \in Positions(g) : Usable(p)})
  ELSE <<>>

\* calculateBbox, for the geometries of GetGeometry: of the first ring only.
CalculateBbox(g) ==
  IF g.type \in {"Point", "Polygon"} /\ Rings(g) # <<>> THEN BoxOf(ToSet(Rings(g)[1]))
                                                       ELSE <<>>

Ring(w, s, e, n) == << <<w, s>>, <<e, s>>, <<e, n>>, <<w, n>>, <<w, s>> >>

\* Mutant: the first four of six.
FlatBBoxPrefix(b) == IF Len(b) \in {4, 6} THEN SubSeq(b, 1, 4) ELSE <<>>

\* BBoxToWKT's reading of a STAC bbox: the elevations of six values are dropped.
FlatBBox(b) == CASE Len(b) = 4 -> b
                 [] Len(b) = 6 -> <<b[1], b[2], b[4], b[5]>>
                 [] OTHER -> <<>>

\* NewPolygonFromBBox
PolygonFromBBox(b) ==
  IF Len(b) = 4 THEN Polygon(<<Ring(b[1], b[2], b[3], b[4])>>) ELSE NoGeometry

-----------------------------------------------------------------------------
(* WKT: a keyword and tokens; white space is not one.  A position is a token. *)

Open == <<"(", 0, 0>>
Close == <<")", 0, 0>>
Comma == <<",", 0, 0>>
Pair(p) == <<"pair", Lon(p), Lat(p)>>
IsPair(token) == token[1] = "pair"

WKT(keyword, text) == [keyword |-> keyword, text |-> text]
NoText == WKT("", <<>>)

\* strings.Join(parts, ",") in parentheses
Listed(parts) ==
  <<Open>> \o FlattenSeq([i \in DOMAIN parts |->
                            IF i = 1 THEN parts[i] ELSE <<Comma>> \o parts[i]])
           \o <<Close>>

RingText(ring) == Listed([i \in DOMAIN ring |-> <<Pair(ring[i])>>])
PolygonText(rings) == Listed([i \in DOMAIN rings |-> RingText(rings[i])])

\* ToWKT: no line strings, no position with fewer than two coordinates.
ToWKT(g) ==
  IF ~ \A p \in Positions(g) : Usable(p) THEN NoText ELSE
  CASE g.type = "Point" -> WKT("POINT", RingText(g.polys[1][1]))
    [] g.type = "Polygon" -> WKT("POLYGON", PolygonText(g.polys[1]))
    [] g.type = "MultiPolygon" ->
         WKT("MULTIPOLYGON", Listed([i \in DOMAIN g.polys |-> PolygonText(g.polys[i])]))
    [] OTHER -> NoText

\* BBoxToWKT
BBoxToWKT(b) == ToWKT(PolygonFromBBox(FlatBBox(b)))

Enclosed(s) == Len(s) >= 2 /\ s[1] = Open /\ Last(s) = Close
Inside(s) == SubSeq(s, 2, Len(s) - 1)

\* splitByParentheses, and splitPolygons (keepRest): the groups of s at depth 0.
\* What stands between groups is dropped by the one, joined to the next group
\* or to the end by the other.
Reading(depth, current, groups, ok) ==
  [depth |-> depth, current |-> current, groups |-> groups, ok |-> ok]

Read(st, token, keepRest) ==
  LET longer == Append(IF st.depth = 0 /\ ~keepRest /\ token = Open THEN <<>> ELSE st.current,
                       token)
  IN  IF token = Open THEN Reading(st.depth + 1, longer, st.groups, st.ok)
      ELSE IF token = Close /\ st.depth = 1 THEN
        Reading(0, <<>>, Append(st.groups, longer), st.ok)
      ELSE IF token = Close THEN Reading(st.depth - 1, longer, st.groups, st.ok /\ st.depth > 0)
      ELSE IF st.depth > 0 \/ (keepRest /\ token # Comma) THEN
        Reading(st.depth, longer, st.groups, st.ok)
      ELSE st

SplitGroups(s, keepRest) ==
  LET scan[i \in 0 .. Len(s)] ==
        IF i = 0 THEN Reading(0, <<>>, <<>>, TRUE) ELSE Read(scan[i - 1], s[i], keepRest)
      end == scan[Len(s)]
  IN  [ok |-> end.ok /\ end.depth = 0,
       groups |-> IF keepRest /\ end.current # <<>> THEN Append(end.groups, end.current)
                                                    ELSE end.groups]

\* parseRing: pairs between commas, in parentheses.
WellFormedRing(s) ==
  /\ Enclosed(s)
  /\ Len(s) % 2 = 1
  /\ \A i \in 2 .. Len(s) - 1 : IF i % 2 = 0 THEN IsPair(s[i]) ELSE s[i] = Comma
ParseRing(s) == [i \in 1 .. Len(s) \div 2 |-> <<s[2 * i][2], s[2 * i][3]>>]

\* parseRings
WellFormedRings(s) == LET split == SplitGroups(s, FALSE)
                      IN  split.ok /\ \A r \in ToSet(split.groups) : WellFormedRing(r)
ParseRings(s) == LET groups == SplitGroups(s, FALSE).groups
                 IN  [i \in DOMAIN groups |-> ParseRing(groups[i])]

\* parsePolygons: the parentheses of each polygon are taken off if it has them.
Bare(s) == IF Enclosed(s) THEN Inside(s) ELSE s
PolygonTexts(s) == SplitGroups(s, TRUE).groups

\* FromWKT: what follows the last parenthesis and precedes the first is ignored;
\* the text here has nothing there.
FromWKT(wkt) ==
  LET content == Inside(wkt.text)
  IN  IF ~Enclosed(wkt.text) THEN NoGeometry ELSE
      CASE wkt.keyword = "POINT" /\ Len(content) = 1 /\ IsPair(content[1]) ->
             PointAt(<<content[1][2], content[1][3]>>)
        [] wkt.keyword = "POLYGON" /\ WellFormedRings(content) -> Polygon(ParseRings(content))
        [] /\ wkt.keyword = "MULTIPOLYGON"
           /\ SplitGroups(content, TRUE).ok
           /\ \A s \in ToSet(PolygonTexts(content)) : WellFormedRings(Bare(s)) ->
             Geometry("MultiPolygon", [i \in DOMAIN PolygonTexts(content) |->
                                         ParseRings(Bare(PolygonTexts(content)[i]))])
        [] OTHER -> NoGeometry

-----------------------------------------------------------------------------
(* CMR. *)

\* parsePolygonCoords: the positions it can use, two coordinates of each.
Kept(ring) ==
  LET kept[i \in 0 .. Len(ring)] ==
        IF i = 0 THEN <<>>
        ELSE IF Usable(ring[i]) THEN Append(kept[i - 1], <<Lon(ring[i]), Lat(ring[i])>>)
        ELSE kept[i - 1]
  IN  kept[Len(ring)]

\* geojsonToPolygon: the first ring of a polygon.  Anything else is "", a point
\* too: its coordinates arrive as []interface{}, never as []float64.
CMRPolygon(g) == IF g.type = "Polygon" /\ g.polys[1] # <<>> THEN Kept(g.polys[1][1])
                                                           ELSE <<>>

\* GetGeometry: the first polygon, closed; else the first rectangle; else the
\* first point.
GranuleGeometry(extent) ==
  LET closed(ring) == IF ring # <<>> /\ ring[1] # Last(ring) THEN Append(ring, ring[1])
                                                             ELSE ring
  IN  CASE extent.polygons # <<>> -> Polygon(<<closed(extent.polygons[1])>>)
        [] extent.polygons = <<>> /\ extent.rectangles # <<>> ->
             PolygonFromBBox(extent.rectangles[1])
        [] extent.polygons = <<>> /\ extent.rectangles = <<>> /\ extent.points # <<>> ->
             PointAt(extent.points[1])
        [] OTHER -> NoGeometry

-----------------------------------------------------------------------------
\* What a geometry's text keeps of it: two coordinates of each position.
Plain(g) ==
  Geometry(g.type, [i \in DOMAIN g.polys |-> [j \in DOMAIN g.polys[i] |->
                      [k \in DOMAIN g.polys[i][j] |->
                         <<Lon(g.polys[i][j][k]), Lat(g.polys[i][j][k])>>]]])

\* Every ring has a position, every position two coordinates.
Drawn(g) == \A polygon \in ToSet(g.polys) : \A ring \in ToSet(polygon) :
              ring # <<>> /\ \A p \in ToSet(ring) : Usable(p)
=============================================================================
