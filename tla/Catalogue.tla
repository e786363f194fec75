----------------------------- MODULE Catalogue -----------------------------
(***************************************************************************)
(* Collections, granules and items: which granules a search with           *)
(* collections and a filter finds upstream, under which collection each is *)
(* filed, what its item shows, and what the item's self link leads to.     *)
(* Sources: both backends and both item translations, the clients' look-up *)
(* of one granule, the registry, Handlers.Item.  Paging is left to         *)
(* Pagination: an answer here is the whole listing.                        *)
(*                                                                         *)
(* The upstreams are external.  ASF takes any of the values of a           *)
(* parameter, CMR wants all of the attributes it is sent; both compare     *)
(* what they hold with what they are sent exactly, orbit directions in any *)
(* case.  A text or an attribute that a granule does not have is "".       *)
(***************************************************************************)
EXTENDS Filters, Geometries

CONSTANTS Granule,   \* the granules (products) there may be
          Data,      \* what the upstreams know of each
          Registry,  \* the loaded collections by id
          Queries,   \* the searches that are made
          Archives,  \* the archives they may meet
          Upper(_),  \* strings.ToUpper
          Parts(_),  \* parsePolarizations: a text between its signs, in upper case
          MaxChanges \* bound: granules that come or go after a search

\* A query: the collection whose items are asked for, or "" for a search of
\* the listed collections (of all, if none is), and a filter.
ASSUME CatalogueAssumption ==
  /\ DOMAIN Data = Granule
  /\ Archives \subseteq SUBSET Granule
  /\ MaxChanges \in Nat
  /\ {"", "none"} \cap DOMAIN Registry = {}
  /\ \A c \in DOMAIN Registry : Registry[c].datasets # {}  \* validateCollection
  /\ \A q \in Queries : /\ q.route \in DOMAIN Registry \cup {""}
                        /\ q.collections \subseteq DOMAIN Registry
                        /\ q.filter \in Expr

\* The upstreams name what they hold: every granule has a scene and a UR, and no
\* two have one file id or one UR.  External.
ASSUME NamesAssumption ==
  \A g \in Granule :
    /\ Data[g].scene # "" /\ Data[g].ur # ""
    /\ \A h \in Granule \ {g} : /\ Data[h].ur # Data[g].ur
                                /\ Data[g].fileID # "" => Data[h].fileID # Data[g].fileID

\* What a granule's extent draws: its first polygon, rectangle or point.  External.
Drawing(extent) ==
  LET r == extent.rectangles[1]
  IN  IF extent.polygons # <<>> THEN ToSet(extent.polygons[1])
      ELSE IF extent.rectangles # <<>> THEN ToSet(Ring(r[1], r[2], r[3], r[4]))
      ELSE IF extent.points # <<>> THEN {extent.points[1]} ELSE {}

\* The upstreams hold granules with a footprint, and one of a single polygon is
\* what its extent draws.  External.
ASSUME FootprintsAssumption ==
  \A g \in Granule :
    LET footprint == Data[g].footprint
        extent == Data[g].extent
    IN  /\ footprint.type \in {"Point", "LineString", "Polygon", "MultiPolygon"}
        /\ footprint.polys \in Seq(Seq(Seq(Seq(Int))))
        /\ Drawn(footprint) /\ Positions(footprint) # {}
        /\ extent.polygons \in Seq(Seq(Int \X Int))
        /\ extent.rectangles \in Seq(Int \X Int \X Int \X Int)
        /\ extent.points \in Seq(Int \X Int)
        /\ Len(footprint.polys) = 1 => Positions(footprint) = Drawing(extent)

\* ASF writes the platforms of the table of normalizePlatformForASF as the table
\* does.  External.
ASSUME PlatformsAssumption ==
  \A g \in Granule : LET lower == Lower(Data[g].platform)
                     IN  lower \in DOMAIN ASFName => ASFName[lower] = Data[g].platform

VARIABLES backend,  \* "asf" or "cmr"
          archive,  \* the granules there are
          query,    \* the latest search
          served,   \* its items
          got,      \* what the latest step, a look-up, answered
          changes   \* granules that came or went

vars == <<backend, archive, query, served, got, changes>>

Scope(q) == IF q.route # "" THEN {q.route} ELSE q.collections

-----------------------------------------------------------------------------
(* The query of the upstream: toASFParams, toCMRParams. *)

SomeOf(wanted, values) == wanted = {} \/ wanted \cap values # {}

\* Mutant: the platform is not sent.
ASFQueryAnyPlatform(q) ==
  LET f == ExtractFilterParams(q.filter)
      ofCollections == {Registry[c].level : c \in Scope(q)} \ {""}
  IN  [datasets |-> UNION {Registry[c].datasets : c \in Scope(q)},
       levels |-> IF f.level # {} THEN f.level ELSE ofCollections,
       filter |-> [f EXCEPT !.platform = {}]]

\* A filter's levels replace those of the collections; the levels of several
\* collections are pooled, whichever dataset they belong to.
ASFQuery(q) ==
  LET f == ExtractFilterParams(q.filter)
      ofCollections == {Registry[c].level : c \in Scope(q)} \ {""}
  IN  [datasets |-> UNION {Registry[c].datasets : c \in Scope(q)},
       levels |-> IF f.level # {} THEN f.level ELSE ofCollections,
       filter |-> f]

\* ASF: external.
ASFFinds(q, g) ==
  LET d == Data[g]
  IN  /\ SomeOf(q.datasets, {d.dataset})
      /\ SomeOf(q.levels, {d.level})
      /\ SomeOf(q.filter.platform, {d.platform})
      /\ SomeOf(q.filter.beamMode, {d.mode})
      /\ SomeOf(q.filter.polarization, {d.polarization})
      /\ q.filter.direction = "" \/ Lower(q.filter.direction) = Lower(d.direction)
      /\ SomeOf(q.filter.relativeOrbit, {d.relativeOrbit})
      /\ SomeOf(q.filter.absoluteOrbit, {d.absoluteOrbit})

\* Concept ids are not configured; a collection without short names is searched
\* by its datasets.  The platform and the collection's level are not sent.
CMRNames(c) == IF Registry[c].shortNames # {} THEN Registry[c].shortNames
                                              ELSE Registry[c].datasets
CMRQuery(q) ==
  LET f == ExtractFilterParams(q.filter)
  IN  [names |-> UNION {CMRNames(c) : c \in Scope(q)},
       attributes |-> ({"POLARIZATION"} \X f.polarization)
                      \cup ({"BEAM_MODE"} \X f.beamMode)
                      \cup ({"ASCENDING_DESCENDING"} \X ({f.direction} \ {""}))
                      \cup ({"PATH_NUMBER"} \X f.relativeOrbit)
                      \cup ({"PROCESSING_TYPE"} \X f.level)]

\* A granule's additional attributes, external: those of one value that it has,
\* and its polarizations.  The direction may be a letter.
Attributes(g) ==
  LET d == Data[g]
      one(value) == {value} \ {""}
  IN  ({"POLARIZATION"} \X d.pols)
      \cup ({"BEAM_MODE"} \X one(d.mode)) \cup ({"BEAM_MODE_TYPE"} \X one(d.modeType))
      \cup ({"ASCENDING_DESCENDING"} \X one(d.attribute))
      \cup ({"PATH_NUMBER"} \X one(d.relativeOrbit))
      \cup ({"PROCESSING_TYPE"} \X one(d.level))
      \cup ({"PROCESSING_LEVEL"} \X one(d.attributeLevel))

\* CMR: external.
Meets(sought, has) == \/ sought = has
                      \/ /\ sought[1] = "ASCENDING_DESCENDING" /\ has[1] = sought[1]
                         /\ Lower(sought[2]) = Lower(has[2])
CMRFinds(q, g) == /\ SomeOf(q.names, {Data[g].shortName})
                  /\ \A a \in q.attributes : \E b \in Attributes(g) : Meets(a, b)

Found(q, there) ==
  IF backend = "asf" THEN {g \in there : ASFFinds(ASFQuery(q), g)}
                     ELSE {g \in there : CMRFinds(CMRQuery(q), g)}

-----------------------------------------------------------------------------
(* determineCollection: the first match of a map's iteration is any match. *)

OrNone(collections) == IF collections = {} THEN {""} ELSE collections

LevelFits(c, level) == Registry[c].level \in {"", level}

\* Mutant: the level is not looked at.
ASFFilingAnyLevel(g) ==
  OrNone({c \in DOMAIN Registry : Data[g].platform \in Registry[c].platforms})

\* By platform and level.
ASFFiling(g) ==
  OrNone({c \in DOMAIN Registry : /\ Data[g].platform \in Registry[c].platforms
                                  /\ LevelFits(c, Data[g].level)})

\* PROCESSING_LEVEL, else PROCESSING_TYPE.
CMRLevel(g) == IF Data[g].attributeLevel # "" THEN Data[g].attributeLevel ELSE Data[g].level

\* By short name (a dataset may be one) and level, else by short name, else by
\* platform in any case.
CMRFiling(g) ==
  LET name == Data[g].shortName
      named == {c \in DOMAIN Registry : name \in Registry[c].shortNames}
      exact == {c \in DOMAIN Registry : /\ name \in Registry[c].shortNames \cup Registry[c].datasets
                                        /\ LevelFits(c, CMRLevel(g))}
      flown == {c \in DOMAIN Registry :
                  Lower(Data[g].platform) \in {Lower(p) : p \in Registry[c].platforms}}
  IN  IF exact # {} THEN exact ELSE IF named # {} THEN named ELSE OrNone(flown)

DetermineCollection(g) == IF backend = "asf" THEN ASFFiling(g) ELSE CMRFiling(g)

-----------------------------------------------------------------------------
(* Items: TranslateASFFeatureToItem, TranslateGranuleToItem. *)

\* Mutant: no fallback to the scene name.
ItemIDBare(g) == IF backend = "asf" THEN Data[g].fileID ELSE Data[g].ur

ItemID(g) == IF backend = "asf"
             THEN IF Data[g].fileID # "" THEN Data[g].fileID ELSE Data[g].scene
             ELSE Data[g].ur

Box(g) == IF backend = "asf" THEN ComputeBBox(Data[g].footprint)
                             ELSE CalculateBbox(GranuleGeometry(Data[g].extent))

Item(g, collection) ==
  [id |-> ItemID(g), collection |-> collection, granule |-> g, box |-> Box(g)]

\* mapProcessingLevel
STACLevel(level) == CASE level \in {"RAW", "L0"} -> "L0"
                      [] level \in {"SLC", "GRD", "L1", "GRD_HS", "GRD_HD", "GRD_MS", "GRD_MD"} -> "L1"
                      [] level \in {"L2", "RTC", "GUNW"} -> "L2"
                      [] OTHER -> level

\* On CMR the orbit's direction replaces that of the attribute, which is a word
\* or a letter; there may be neither.
ShownDirection(g) ==
  LET d == Data[g]
  IN  IF backend = "asf" THEN Lower(d.direction)
      ELSE IF d.orbit # "" THEN d.orbit
      ELSE IF Lower(d.attribute) \in {"a", "ascending"} THEN "ascending"
      ELSE IF Lower(d.attribute) \in {"d", "descending"} THEN "descending"
      ELSE ""

\* On CMR the type of the beam mode stands in for the mode.
ShownMode(g) == IF backend = "cmr" /\ Data[g].mode = "" THEN Data[g].modeType ELSE Data[g].mode

\* ASF writes the polarizations in one text, CMR in a list.
ShownPolarizations(g) == IF backend = "asf" THEN Parts(Data[g].polarization)
                                            ELSE {Upper(p) : p \in Data[g].pols}

\* The values an item shows for a property whose texts filters may name; what is
\* empty is not shown.
Shows(g, prop) ==
  (CASE prop = "platform" -> {Lower(Data[g].platform)}
     [] prop = "sar:instrument_mode" -> {ShownMode(g)}
     [] prop = "sar:polarizations" -> ShownPolarizations(g)
     [] prop = "sar:product_type" -> {Data[g].level}
     [] prop = "sat:orbit_state" -> {ShownDirection(g)}
     [] prop = "processing:level" -> {IF backend = "asf" THEN STACLevel(Data[g].level)
                                                         ELSE CMRLevel(g)}
     [] OTHER -> {}) \ {""}

\* The granules whose items a filter describes.  Numbers are described by no
\* text, so the filters that hold one are not conjunctive.
Described[e \in Expr] ==
  CASE e.op = "and" -> {g \in Granule : \A i \in DOMAIN e.args : g \in Described[e.args[i]]}
    [] e.op = "or"  -> {g \in Granule : \E i \in DOMAIN e.args : g \in Described[e.args[i]]}
    [] e.op = "not" -> Granule \ Described[e.args[1]]
    [] OTHER        -> {g \in Granule : Shows(g, e.prop) \cap ToSet(e.values) # {}}

-----------------------------------------------------------------------------
(* One granule: asf.Client.GetGranule, cmr.Client.GetGranule. *)

\* ASF's answers to a name, external: whatever bears it, and possibly other
\* products of the scene.  CMR's names are exact.
Bearing(name) == {g \in archive : name \in {Data[g].fileID, Data[g].scene}}
Kin(name) == {g \in archive : \E h \in Granule : /\ ItemID(h) = name
                                                 /\ Data[h].scene = Data[g].scene}
Answers(name) ==
  IF backend = "asf" THEN {R \in SUBSET Kin(name) : Bearing(name) \subseteq R}
                     ELSE {{g \in archive : Data[g].ur = name}}

\* Mutant: the first product is taken.
GetGranuleFirst(R, name) == R

\* The product of that file id, else the first, which may be any.
GetGranule(R, name) ==
  LET exact == {g \in R : ItemID(g) = name /\ (backend = "asf" => Data[g].fileID = name)}
  IN  IF exact # {} THEN exact ELSE R

NoItem == [id |-> "", collection |-> "", granule |-> "", box |-> <<>>]
Nothing == [link |-> NoItem, item |-> NoItem]

-----------------------------------------------------------------------------
All == [route |-> "", collections |-> {}, filter |-> NoFilter]
NoQuery == [All EXCEPT !.route = "none"]

Init == /\ backend \in {"asf", "cmr"}
        /\ archive \in Archives
        /\ query = NoQuery
        /\ served = {}
        /\ got = Nothing
        /\ changes = 0

\* The answers for the granules of S, one collection chosen for each.
Filings(S) ==
  LET filed == UNION {{Item(g, c) : c \in DetermineCollection(g)} : g \in S}
  IN  {items \in SUBSET filed :
         \A g \in S : \E i \in items : \A j \in items : j.granule = g <=> j = i}

\* A failing search is a 502 and leaves nothing here.  No search depends on an
\* earlier one, so one is enough.
Search == /\ query = NoQuery
          /\ \E q \in Queries : /\ query' = q
                               /\ served' \in Filings(Found(q, archive))
          /\ UNCHANGED <<backend, archive, got, changes>>

\* Handlers.Item, GetItem: the item is filed under the collection it was asked
\* for under.  An item that is filed nowhere has a link no route answers.
Fetch == \E link \in served :
           /\ \/ /\ link.collection \in DOMAIN Registry
                 /\ \E R \in Answers(link.id) :
                    \/ R = {} /\ got' = [link |-> link, item |-> NoItem]
                    \/ \E g \in GetGranule(R, link.id) :
                         got' = [link |-> link, item |-> Item(g, link.collection)]
              \/ /\ link.collection \notin DOMAIN Registry
                 /\ got' = [link |-> link, item |-> NoItem]
           /\ UNCHANGED <<backend, archive, query, served, changes>>

Change(new) == /\ query # NoQuery /\ changes < MaxChanges
               /\ changes' = changes + 1
               /\ archive' = new
               /\ got' = Nothing
               /\ UNCHANGED <<backend, query, served>>

Ingest == \E g \in Granule \ archive : Change(archive \cup {g})
Withdraw == \E g \in archive : Change(archive \ {g})

Next == Search \/ Fetch \/ Ingest \/ Withdraw
Spec == Init /\ [][Next]_vars

-----------------------------------------------------------------------------
\* Every variable has its type; an answer has one item of each granule, and
\* every item has an id.
TypeOK ==
  /\ backend \in {"asf", "cmr"}
  /\ archive \subseteq Granule
  /\ changes \in 0 .. MaxChanges
  /\ query \in Queries \cup {NoQuery}
  /\ \A i \in served : /\ i.granule \in Granule
                       /\ i.collection \in DOMAIN Registry \cup {""}
                       /\ i.id # ""
                       /\ \A j \in served : i.granule = j.granule => i = j
  /\ got = Nothing \/ got.link \in served

\* The inductive invariant behind the properties of this module: an item comes
\* of a granule that the search finds, filed where it may be.
FilingInv ==
  /\ query = NoQuery => served = {} /\ got = Nothing
  /\ \A i \in served : /\ i.granule \in Found(query, Granule)
                       /\ i.collection \in DetermineCollection(i.granule)
                       /\ i = Item(i.granule, i.collection)

\* What an unfiltered listing of a collection holds.
Listing(c) == Found([All EXCEPT !.route = c], Granule)

\* CMR can be asked for the direction that an item shows.
WordedDirection(g) == /\ Lower(Data[g].attribute) \in {"ascending", "descending"}
                      /\ Data[g].orbit \in {"", Lower(Data[g].attribute)}

\* What the upstream is asked for a granule's polarizations by.
HeldPolarizations(g) == IF backend = "asf" THEN {Data[g].polarization} ELSE Data[g].pols

\* An item shows some of the polarizations in words that it is not found by, or is
\* found by one it does not show: "VV+VH" is shown split, a small letter as a capital.
Reworded(g, pols) == /\ HeldPolarizations(g) # ShownPolarizations(g)
                     /\ pols \cap (HeldPolarizations(g) \cup ShownPolarizations(g)) # {}

\* CMR is asked for the beam mode only, not for the type that stands in for it.
ModeByType(g, modes) == Data[g].mode = "" /\ Data[g].modeType \in modes

\* The filters an upstream's parameters can express.  ASF is sent levels as the
\* archive writes them, not as processing:level shows them, and knows the
\* platforms of the table; CMR is sent no platform, wants every value of a
\* parameter at once, and has directions that are letters or not its orbit's and
\* modes that are not the beam mode.  Both take a direction in upper case too,
\* which no item shows, and polarizations not as items show them.
Expressible(e) ==
  LET named(prop) == ValuesIn(Extracted[e], prop)
  IN  /\ Conjunctive(e)
      /\ "processing:level" \notin Speaks[e]
      /\ named("sat:orbit_state") \subseteq {"ascending", "descending"}
      /\ \A g \in archive : ~Reworded(g, named("sar:polarizations"))
      /\ backend = "asf" => named("platform") \subseteq DOMAIN ASFName
      /\ backend = "cmr" => /\ "platform" \notin Speaks[e]
                            /\ \A prop \in Speaks[e] : \A v, w \in named(prop) : v = w
                            /\ "sat:orbit_state" \in Speaks[e] =>
                                 \A g \in archive : WordedDirection(g)
                            /\ \A g \in archive : ~ModeByType(g, named("sar:instrument_mode"))

\* On ASF a product type replaces the levels of the collections, and the levels of
\* several collections are pooled, so that granules of a collection without one
\* (uavsar: "accept any") are asked for those of another.
Separable(q) == backend = "asf" => /\ \A c, d \in Scope(q) : c = d
                                   /\ Scope(q) = {} \/ "sar:product_type" \notin Speaks[q.filter]

Exactly(q, items) ==
  {i.granule : i \in items} =
    {g \in archive \cap Described[q.filter] : Scope(q) = {} \/ \E c \in Scope(q) : g \in Listing(c)}

\* A search with an expressible filter finds the granules whose items the
\* filter describes, all of them and no others: what is shown can be searched
\* for (extractFilterParams, toASFParams, toCMRParams, both item translations).
FilterExact ==
  [][query' # query /\ Expressible(query'.filter) /\ Separable(query') => Exactly(query', served')]_vars

Configured(g) == backend = "asf" =>
  \E c \in DOMAIN Registry : /\ Data[g].dataset \in Registry[c].datasets
                             /\ Data[g].platform \in Registry[c].platforms
LevelAsked == backend = "asf" /\ ExtractFilterParams(query.filter).level # {}

\* The collections of a dataset are told apart by level, those of a short name
\* not at all: so it is with the shipped ones.  Some property of the registry is
\* needed, since either way of filing looks at one part of a collection only.
Orderly ==
  \A c, d \in DOMAIN Registry :
    /\ Registry[c].datasets \cap Registry[d].datasets # {} =>
         Registry[c].platforms = Registry[d].platforms
    /\ Registry[c].platforms \cap Registry[d].platforms # {} =>
         /\ Registry[c].datasets = Registry[d].datasets
         /\ c = d \/ {Registry[c].level, Registry[d].level} \cap {""} = {}
         /\ c = d \/ Registry[c].level # Registry[d].level
    /\ Registry[c].shortNames # {}
    /\ Registry[c].shortNames \cap Registry[d].shortNames # {} => c = d
    /\ Registry[c].shortNames \cap Registry[d].datasets = {}

\* The listing of a collection is made of items filed under it, and any search
\* files an item under a collection whose listing holds it, whatever the order
\* of the map: determineCollection inverts the mapping of collections to
\* queries.  On ASF this takes a platform the registry knows for the dataset,
\* and no level in the filter.
FiledWhereListed ==
  \A i \in served :
    /\ Configured(i.granule) /\ (\E c \in DOMAIN Registry : i.granule \in Listing(c))
         => i.collection # "" /\ i.granule \in Listing(i.collection)
    /\ Configured(i.granule) /\ ~LevelAsked /\ query.route # ""
         => i.collection = query.route

\* The self link of an item yields that very item for as long as its granule is
\* there, other products of its scene notwithstanding (Handlers.Item, GetItem,
\* GetGranule).  The item must be filed somewhere, and have a file id on ASF.
SelfLinkYieldsItem ==
  /\ got # Nothing
  /\ got.link.granule \in archive
  /\ got.link.collection # ""
  /\ backend = "asf" => Data[got.link.granule].fileID # ""
  => got.item = got.link

\* The box an item shows, sent back as the area of a search, covers the whole
\* footprint of the granule (ComputeBBox and BBoxToWKT; GetGeometry and
\* calculateBbox).  CMR granules of several polygons keep the first.
Covers(area, P) ==
  LET b == ComputeBBox(area)
  IN  \A p \in P : b[1] <= Lon(p) /\ Lon(p) <= b[3] /\ b[2] <= Lat(p) /\ Lat(p) <= b[4]

BoxFindsItem ==
  \A i \in served :
    LET footprint == Data[i.granule].footprint
    IN  backend = "asf" \/ Len(footprint.polys) = 1
          => Covers(FromWKT(BBoxToWKT(i.box)), Positions(footprint))

\* Equal parameters, up to the writing of platforms and the case of a direction.
SameText(sent, strict) ==
  /\ sent.beamMode = strict.beamMode
  /\ sent.polarization = strict.polarization
  /\ sent.level = strict.level
  /\ sent.direction = "" <=> strict.direction = ""
  /\ Lower(sent.direction) = Lower(strict.direction)
  /\ sent.platform = {NormalPlatform(p) : p \in strict.platform}
SameOrbits(sent, strict) == /\ sent.relativeOrbit = strict.relativeOrbit
                            /\ sent.absoluteOrbit = strict.absoluteOrbit

\* The two translations of a filter send the same parameters wherever the
\* stricter one translates, unless both kinds of level are named or a text is
\* empty (extractFilterParams, TranslateCQL2Filter).  Orbit numbers are the same
\* only if the filter names none: extractPropertiesFromExpression passes numbers
\* over.
TranslatorsAgree ==
  LET e == query.filter  \* NoFilter before the search
      sent == ExtractFilterParams(e)
      strict == TranslateCQL2Filter(e)
  IN  /\ Translates(e)
      /\ ~({"processing:level", "sar:product_type"} \subseteq Speaks[e])
      /\ \A pair \in ToSet(Processed[e].pairs) : pair[2] # ""
      => /\ SameText(sent, strict)
         /\ OrbitProps \cap Speaks[e] = {} => SameOrbits(sent, strict)
=============================================================================
