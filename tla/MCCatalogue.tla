---------------------------- MODULE MCCatalogue ----------------------------
(* Instances of Catalogue: four of the shipped collections; two scenes of    *)
(* two products, a level and a platform no collection has, and a granule of  *)
(* several polygons without a file id.                                       *)
EXTENDS Catalogue

Square(a, b) == Ring(a, a, b, b)
One(a, b) == Polygon(<<Square(a, b)>>)
Extent(polygons, rectangles, points) ==
  [polygons |-> polygons, rectangles |-> rectangles, points |-> points]

Product(scene, fileID, ur, platform, dataset, shortName, level) ==
  [scene |-> scene, fileID |-> fileID, ur |-> ur, platform |-> platform, dataset |-> dataset,
   shortName |-> shortName, level |-> level, attributeLevel |-> "",
   mode |-> "IW", modeType |-> "", polarization |-> "VV", pols |-> {"VV"},
   direction |-> "ASCENDING", attribute |-> "ASCENDING", orbit |-> "",
   relativeOrbit |-> "8", absoluteOrbit |-> "1",
   footprint |-> One(0, 4), extent |-> Extent(<<Front(Square(0, 4))>>, <<>>, <<>>)]

MCData ==
  ("slc" :> [Product("s1", "s1-SLC", "s1-SLC", "Sentinel-1A", "SENTINEL-1", "SENTINEL-1A_SLC", "SLC")
               EXCEPT !.polarization = "VV+VH", !.pols = {"VV", "VH"}, !.relativeOrbit = "7"]) @@
  ("grd" :> [Product("s1", "s1-GRD", "s1-GRD", "Sentinel-1A", "SENTINEL-1",
                     "SENTINEL-1A_DP_GRD_HIGH", "GRD_HD")
               EXCEPT !.attributeLevel = "1", !.extent = Extent(<<>>, << <<0, 0, 4, 4>> >>, <<>>)]) @@
  ("single" :> [Product("s2", "s2-GRD", "s2-GRD", "Sentinel-1B", "SENTINEL-1",
                        "SENTINEL-1B_SP_GRD_HIGH", "GRD_HS")
                  EXCEPT !.mode = "EW", !.polarization = "HH", !.pols = {"HH"},
                         !.direction = "DESCENDING", !.attribute = "DESCENDING",
                         !.orbit = "descending"]) @@
  ("new" :> [Product("s3", "s3-SLC", "s3-SLC", "Sentinel-1D", "SENTINEL-1", "SENTINEL-1D_SLC", "SLC")
               EXCEPT !.footprint = PointAt(<<2, 2>>), !.extent = Extent(<<>>, <<>>, << <<2, 2>> >>)]) @@
  ("alos" :> [Product("p1", "p1-L1.1", "p1-L1.1", "ALOS", "ALOS", "ALOS_PALSAR_LEVEL1.1", "L1.1")
                EXCEPT !.mode = "FBS", !.polarization = "HH", !.pols = {"HH"},
                       !.direction = "DESCENDING", !.attribute = "D"]) @@
  ("uav" :> [Product("u1", "", "u1", "G-III", "UAVSAR", "UAVSAR_INSAR_GRD", "INTERFEROMETRY")
               EXCEPT !.mode = "RPI", !.pols = {"hh"}, !.orbit = "descending",
                      !.footprint = Geometry("MultiPolygon", << <<Square(6, 9)>>, <<Square(0, 2)>> >>),
                      !.extent = Extent(<<Square(6, 9), Square(0, 2)>>, <<>>, <<>>)]) @@
  ("amp" :> [Product("u1", "u1-AMP", "u1-AMP", "G-III", "UAVSAR", "UAVSAR_INSAR_GRD", "AMPLITUDE")
               EXCEPT !.mode = "", !.modeType = "RPI", !.polarization = "", !.pols = {}])
MCGranule == DOMAIN MCData
\* Everything, or without one of the two products of a scene.  The directions on
\* CMR are words without "alos", and the orbits' without "uav".
MCArchives == {MCGranule, MCGranule \ {"slc", "alos"}, MCGranule \ {"uav"},
               MCGranule \ {"uav", "alos"}}

Collection(datasets, platforms, level, shortNames) ==
  [datasets |-> datasets, platforms |-> platforms, level |-> level, shortNames |-> shortNames]
Sentinels == {"Sentinel-1A", "Sentinel-1B", "Sentinel-1C"}

MCRegistry ==
  ("sentinel-1-slc" :> Collection({"SENTINEL-1"}, Sentinels, "SLC", {"SENTINEL-1A_SLC"})) @@
  ("sentinel-1-grd-hd" :> Collection({"SENTINEL-1"}, Sentinels, "GRD_HD",
                                     {"SENTINEL-1A_DP_GRD_HIGH"})) @@
  ("alos-palsar-l1-1" :> Collection({"ALOS"}, {"ALOS"}, "L1.1", {"ALOS_PALSAR_LEVEL1.1"})) @@
  ("uavsar" :> Collection({"UAVSAR"}, {"G-III"}, "", {"UAVSAR_INSAR_GRD"}))

\* For the platforms below: the names of the table in the two ways of writing them.
MCLower(p) == CASE p \in Range(ASFName) -> CHOOSE l \in DOMAIN ASFName : ASFName[l] = p
                [] p = "SENTINEL-1A" -> "sentinel-1a"
                [] p = "G-III" -> "g-iii"
                [] p = "ASCENDING" -> "ascending"
                [] p = "DESCENDING" -> "descending"
                [] p = "D" -> "d"
                [] OTHER -> p
MCUpper(p) == IF p = "hh" THEN "HH" ELSE p
MCParts(p) == CASE p = "VV+VH" -> {"VV", "VH"} [] p = "" -> {} [] OTHER -> {MCUpper(p)}

Is(prop, value) == Atom("=", prop, <<value>>, FALSE)
In(prop, values) == Atom("in", prop, values, FALSE)

Atoms == {Is("platform", "sentinel-1a"), In("platform", <<"sentinel-1b", "alos">>),
          Is("platform", "g-iii"), Is("platform", "SENTINEL-1A"), Is("sat:orbit_state", "ascending"),
          Is("sat:orbit_state", "descending"), Is("sat:orbit_state", "ASCENDING"),
          Is("sar:instrument_mode", "IW"), Is("sar:instrument_mode", "RPI"),
          In("sar:instrument_mode", <<"EW", "FBS">>), In("sar:instrument_mode", <<>>),
          In("sar:polarizations", <<"", "HH">>), Is("sat:orbit_state", ""),
          Is("sar:polarizations", "HH"), Is("sar:polarizations", "VV"),
          Is("sar:product_type", "SLC"), Is("sar:product_type", "GRD_HD"),
          Is("processing:level", "L1"), Is("sat:absolute_orbit", "x"),
          Atom("=", "sat:relative_orbit", <<"7">>, TRUE),
          Atom("<", "sat:relative_orbit", <<"7">>, TRUE)}
Pair1 == <<Is("platform", "sentinel-1a"), Is("sar:product_type", "GRD_HD")>>
Pair2 == <<Is("sat:orbit_state", "descending"), Is("sar:polarizations", "HH")>>
Pair3 == <<Is("sar:product_type", "SLC"), Is("sar:product_type", "GRD_HD")>>
Pair4 == <<Is("sat:orbit_state", "ascending"), Is("sat:orbit_state", "descending")>>
Pair5 == <<Is("processing:level", "L1"), Is("sar:product_type", "SLC")>>
Pair6 == <<Is("sat:orbit_state", "ascending"), Is("sat:orbit_state", "ASCENDING")>>
Compounds == {Compound(op, pair) : op \in {"and", "or"},
                                   pair \in {Pair1, Pair2, Pair3, Pair4, Pair5, Pair6}}
             \cup {Compound("not", <<a>>) : a \in {Is("sar:product_type", "SLC")}}
Nested == {Compound("and", <<Compound("or", Pair3), Is("sat:orbit_state", "ascending")>>)}

MCExpr == {NoFilter} \cup Atoms \cup Compounds \cup Nested
MCDepth == [e \in MCExpr |-> IF e \in Nested THEN 2 ELSE IF e \in Compounds THEN 1 ELSE 0]

Query(route, collections, e) == [route |-> route, collections |-> collections, filter |-> e]
MCQueries ==
  {Query("", {}, e) : e \in MCExpr}
  \cup {Query(c, {}, e) : c \in DOMAIN MCRegistry,
                          e \in {NoFilter, Is("sat:orbit_state", "ascending"),
                                 Is("sar:product_type", "GRD_HD")}}
  \cup {Query("", {"uavsar", "sentinel-1-slc"}, NoFilter)}

\* The hypothesis of FilingInvertsListing.
ASSUME OrderlyInstance == Orderly
=============================================================================
