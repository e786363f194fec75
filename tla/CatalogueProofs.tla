-------------------------- MODULE CatalogueProofs --------------------------
(***************************************************************************)
(* Items, their collections and their self links, for any granules,        *)
(* collections, filters and archives.                                      *)
(***************************************************************************)
EXTENDS Catalogue, GeometriesProofs, TLAPS

-----------------------------------------------------------------------------
(* Items and what files them. *)

\* Every item has an id (TranslateASFFeatureToItem, TranslateGranuleToItem).
LEMMA ItemNamed == ASSUME NEW g \in Granule PROVE ItemID(g) # ""
  BY NamesAssumption DEF ItemID

\* An item shows its id, its collection and the granule it comes of.
LEMMA ItemFields ==
  ASSUME NEW g, NEW c
  PROVE  /\ Item(g, c).id = ItemID(g)
         /\ Item(g, c).collection = c
         /\ Item(g, c).granule = g
  BY DEF Item

\* determineCollection answers with a loaded collection or with none, never
\* with both.
LEMMA FiledInRegistry ==
  ASSUME NEW g
  PROVE  /\ DetermineCollection(g) \subseteq DOMAIN Registry \cup {""}
         /\ DetermineCollection(g) # {}
  BY DEF DetermineCollection, ASFFiling, CMRFiling, OrNone

\* An upstream finds what is there.
LEMMA FoundThere ==
  ASSUME NEW q, NEW here \in SUBSET Granule
  PROVE  /\ Found(q, here) \subseteq here
         /\ Found(q, here) \subseteq Found(q, Granule)
  BY DEF Found

\* The answers hold one item of each granule and none of another.
LEMMA FilingsMean ==
  ASSUME NEW S, NEW items \in Filings(S)
  PROVE  /\ \A i \in items : /\ i.granule \in S
                             /\ i.collection \in DetermineCollection(i.granule)
                             /\ i = Item(i.granule, i.collection)
         /\ \A i, j \in items : i.granule = j.granule => i = j
<1>. DEFINE Filed == UNION {{Item(g, c) : c \in DetermineCollection(g)} : g \in S}
<1>1. /\ items \subseteq Filed
      /\ \A g \in S : \E i \in items : \A j \in items : j.granule = g <=> j = i
  BY DEF Filings
<1>2. \A i \in items : /\ i.granule \in S
                       /\ i.collection \in DetermineCollection(i.granule)
                       /\ i = Item(i.granule, i.collection)
  <2>. SUFFICES ASSUME NEW i \in items
                PROVE  /\ i.granule \in S
                       /\ i.collection \in DetermineCollection(i.granule)
                       /\ i = Item(i.granule, i.collection)
    OBVIOUS
  <2>1. PICK g \in S : \E c \in DetermineCollection(g) : i = Item(g, c)
    BY <1>1
  <2>2. PICK c \in DetermineCollection(g) : i = Item(g, c)
    BY <2>1
  <2>. QED
    BY <2>2, ItemFields
<1>3. \A i, j \in items : i.granule = j.granule => i = j
  <2>. HIDE DEF Filed
  <2>. QED
    BY <1>1, <1>2
<1>. QED
  BY <1>2, <1>3

-----------------------------------------------------------------------------
(* The inductive invariant. *)

IInv == TypeOK /\ FilingInv

LEMMA Bounds == MaxChanges \in Nat /\ Archives \subseteq SUBSET Granule
  BY CatalogueAssumption, Zenon

\* No search was made yet.
LEMMA IInvInit == Init => IInv
<1>. SUFFICES ASSUME Init PROVE IInv
  OBVIOUS
<1>1. archive \subseteq Granule /\ 0 \in 0 .. MaxChanges
  BY Bounds DEF Init
<1>2. /\ backend \in {"asf", "cmr"} /\ changes = 0
      /\ query = NoQuery /\ served = {} /\ got = Nothing
  BY DEF Init
<1>. QED
  BY <1>1, <1>2 DEF IInv, TypeOK, FilingInv

\* What an item is does not change while the backend does not.
LEMMA ItemsStay ==
  ASSUME backend' = backend
  PROVE  /\ \A g, c : Item(g, c)' = Item(g, c)
         /\ \A g : DetermineCollection(g)' = DetermineCollection(g)
         /\ \A q, S : Found(q, S)' = Found(q, S)
<1>1. ASSUME NEW g, NEW c PROVE Item(g, c)' = Item(g, c)
  BY DEF Item, ItemID, Box
<1>2. ASSUME NEW g PROVE DetermineCollection(g)' = DetermineCollection(g)
  BY DEF DetermineCollection
<1>3. ASSUME NEW q, NEW S PROVE Found(q, S)' = Found(q, S)
  BY DEF Found
<1>. QED
  BY <1>1, <1>2, <1>3

\* No search is the lack of one.
LEMMA NoSearchOfNone == \A q \in Queries : q # NoQuery
<1>. SUFFICES ASSUME NEW q \in Queries PROVE q # NoQuery
  OBVIOUS
<1>1. q.route \in DOMAIN Registry \cup {""} /\ "none" \notin DOMAIN Registry \cup {""}
  BY CatalogueAssumption
<1>2. NoQuery.route = "none"
  BY DEF NoQuery, All
<1>. QED
  BY <1>1, <1>2

\* A search files what it finds.
LEMMA SearchStep == IInv /\ Search => IInv'
<1>. SUFFICES ASSUME IInv, Search PROVE IInv'
  OBVIOUS
<1>1. PICK q \in Queries : query' = q /\ served' \in Filings(Found(q, archive))
  BY DEF Search
<1>2. /\ backend' = backend /\ archive' = archive /\ got' = got /\ changes' = changes
      /\ query = NoQuery
  BY DEF Search
<1>3. got = Nothing /\ archive \subseteq Granule /\ q # NoQuery
  BY <1>2, NoSearchOfNone DEF IInv, TypeOK, FilingInv
<1>4. /\ \A i \in served' : /\ i.granule \in Found(q, archive)
                            /\ i.collection \in DetermineCollection(i.granule)
                            /\ i = Item(i.granule, i.collection)
      /\ \A i, j \in served' : i.granule = j.granule => i = j
  BY <1>1, FilingsMean
<1>5. \A i \in served' : /\ i.granule \in Found(q, Granule)
                        /\ i.granule \in Granule
                        /\ i.collection \in DOMAIN Registry \cup {""}
                        /\ i.id # ""
  <2>. SUFFICES ASSUME NEW i \in served'
                PROVE  /\ i.granule \in Found(q, Granule)
                       /\ i.granule \in Granule
                       /\ i.collection \in DOMAIN Registry \cup {""}
                       /\ i.id # ""
    OBVIOUS
  <2>1. i.granule \in Found(q, Granule) /\ i.granule \in Granule
    BY <1>3, <1>4, FoundThere
  <2>2. i.collection \in DOMAIN Registry \cup {""}
    BY <1>4, FiledInRegistry
  <2>3. i.id = ItemID(i.granule)
    BY <1>4, ItemFields
  <2>. QED
    BY <2>1, <2>2, <2>3, ItemNamed
<1>6. TypeOK'
  BY <1>1, <1>2, <1>3, <1>4, <1>5 DEF IInv, TypeOK
<1>7. FilingInv'
  BY <1>1, <1>2, <1>3, <1>4, <1>5, ItemsStay, ZenonT(40) DEF FilingInv
<1>. QED
  BY <1>6, <1>7 DEF IInv

\* A step that keeps the search and its items keeps the invariant, if what it
\* looks up, if anything, is one of the items.
LEMMA LookingStep ==
  ASSUME IInv, UNCHANGED <<backend, query, served>>,
         archive' \subseteq Granule, changes' \in 0 .. MaxChanges,
         got' = Nothing \/ got'.link \in served, query = NoQuery => got' = Nothing
  PROVE  IInv'
<1>1. TypeOK'
  BY DEF IInv, TypeOK
<1>2. FilingInv'
  BY ItemsStay DEF IInv, FilingInv
<1>. QED
  BY <1>1, <1>2 DEF IInv

\* Every step keeps the invariant.
LEMMA IInvStep == IInv /\ [Next]_vars => IInv'
<1>. SUFFICES ASSUME IInv, [Next]_vars PROVE IInv'
  OBVIOUS
<1>1. CASE Search
  BY <1>1, SearchStep
<1>2. CASE Fetch
  <2>1. PICK link \in served : got'.link = link
    BY <1>2 DEF Fetch
  <2>2. query # NoQuery
    BY <2>1 DEF IInv, FilingInv
  <2>3. UNCHANGED <<backend, archive, query, served, changes>>
    BY <1>2 DEF Fetch
  <2>. QED
    BY <2>1, <2>2, <2>3, LookingStep DEF IInv, TypeOK
<1>3. ASSUME NEW new \in SUBSET Granule, Change(new) PROVE IInv'
  <2>1. changes' \in 0 .. MaxChanges
    <3>1. changes \in 0 .. MaxChanges
      BY DEF IInv, TypeOK
    <3>2. changes < MaxChanges /\ changes' = changes + 1
      BY <1>3 DEF Change
    <3>. QED
      BY <3>1, <3>2, Bounds
  <2>. QED
    BY <1>3, <2>1, LookingStep DEF Change
<1>4. CASE Ingest
  <2>1. PICK g \in Granule \ archive : Change(archive \cup {g})
    BY <1>4 DEF Ingest
  <2>2. archive \cup {g} \in SUBSET Granule
    BY DEF IInv, TypeOK
  <2>. QED
    BY <1>3, <2>1, <2>2
<1>5. CASE Withdraw
  <2>1. PICK g \in archive : Change(archive \ {g})
    BY <1>5 DEF Withdraw
  <2>2. archive \ {g} \in SUBSET Granule
    BY DEF IInv, TypeOK
  <2>. QED
    BY <1>3, <2>1, <2>2
<1>6. CASE UNCHANGED vars
  BY <1>6, LookingStep DEF vars, IInv, TypeOK, FilingInv
<1>. QED
  BY <1>1, <1>2, <1>4, <1>5, <1>6 DEF Next

\* Every served item comes of a granule that the search finds, filed where
\* determineCollection may file it; the induction behind the theorems below.
THEOREM CatalogueInvariant == Spec => []IInv
  BY IInvInit, IInvStep, PTL DEF Spec

\* Every variable has its type; an answer has one item of each granule, however
\* many collections the granule fits, and every item has an id.
THEOREM CatalogueTypeCorrect == Spec => []TypeOK
<1>1. IInv => TypeOK
  BY DEF IInv
<1>. QED
  BY <1>1, CatalogueInvariant, PTL

-----------------------------------------------------------------------------
(* Self links. *)

\* The answer to an item's self link is that item, if its granule is there.
LEMMA FetchYields ==
  ASSUME IInv, Fetch PROVE SelfLinkYieldsItem'
<1>1. PICK link \in served :
        \/ /\ link.collection \in DOMAIN Registry
           /\ \E R \in Answers(link.id) :
                \/ R = {} /\ got' = [link |-> link, item |-> NoItem]
                \/ \E g \in GetGranule(R, link.id) :
                     got' = [link |-> link, item |-> Item(g, link.collection)]
        \/ /\ link.collection \notin DOMAIN Registry
           /\ got' = [link |-> link, item |-> NoItem]
  BY DEF Fetch
<1>2. UNCHANGED <<backend, archive, query, served, changes>>
  BY DEF Fetch
<1>3. got'.link = link
  BY <1>1
<1>. SUFFICES ASSUME link.granule \in archive, link.collection # "",
                     backend = "asf" => Data[link.granule].fileID # ""
              PROVE  got'.item = link
  BY <1>2, <1>3 DEF SelfLinkYieldsItem
<1>4. /\ link.collection \in DOMAIN Registry
      /\ archive \subseteq Granule
      /\ backend \in {"asf", "cmr"}
      /\ link = Item(link.granule, link.collection)
  BY DEF IInv, TypeOK, FilingInv
<1>5. PICK R \in Answers(link.id) :
        \/ R = {} /\ got' = [link |-> link, item |-> NoItem]
        \/ \E g \in GetGranule(R, link.id) :
             got' = [link |-> link, item |-> Item(g, link.collection)]
  BY <1>1, <1>4
<1>6. link.id = ItemID(link.granule)
  <2>1. Item(link.granule, link.collection).id = ItemID(link.granule)
    BY ItemFields
  <2>. QED
    BY <1>4, <2>1, Zenon
<1>7. link.granule \in R /\ GetGranule(R, link.id) = {link.granule}
  <2>1. CASE backend = "asf"
    <3>1. link.id = Data[link.granule].fileID
      BY <1>6, <2>1 DEF ItemID
    <3>2. link.granule \in R /\ R \subseteq archive
      BY <1>5, <2>1, <3>1 DEF Answers, Bearing, Kin
    <3>3. \A g \in R : Data[g].fileID = link.id => g = link.granule
      BY <1>4, <2>1, <3>1, <3>2, NamesAssumption
    <3>. QED
      BY <1>6, <2>1, <3>1, <3>2, <3>3 DEF GetGranule
  <2>2. CASE backend = "cmr"
    <3>1. link.id = Data[link.granule].ur /\ \A g : ItemID(g) = Data[g].ur
      BY <1>6, <2>2 DEF ItemID
    <3>2. R = {g \in archive : Data[g].ur = link.id}
      BY <1>5, <2>2 DEF Answers
    <3>3. R = {link.granule}
      BY <1>4, <3>1, <3>2, NamesAssumption
    <3>. QED
      BY <2>2, <3>1, <3>3 DEF GetGranule
  <2>. QED
    BY <1>4, <2>1, <2>2
<1>8. got' = [link |-> link, item |-> Item(link.granule, link.collection)]
  BY <1>5, <1>7
<1>. QED
  BY <1>4, <1>8

\* The self link of an item yields that very item for as long as its granule is
\* there, other products of its scene notwithstanding.
THEOREM SelfLinksWork == Spec => []SelfLinkYieldsItem
<1>1. Init => SelfLinkYieldsItem
  BY DEF Init, SelfLinkYieldsItem
<1>2. IInv /\ SelfLinkYieldsItem /\ [Next]_vars => SelfLinkYieldsItem'
  <2>. SUFFICES ASSUME IInv, SelfLinkYieldsItem, [Next]_vars PROVE SelfLinkYieldsItem'
    OBVIOUS
  <2>1. CASE Search
    BY <2>1 DEF Search, SelfLinkYieldsItem
  <2>2. CASE Fetch
    BY <2>2, FetchYields
  <2>3. CASE Ingest \/ Withdraw
    BY <2>3 DEF Ingest, Withdraw, Change, SelfLinkYieldsItem
  <2>4. CASE UNCHANGED vars
    BY <2>4 DEF vars, SelfLinkYieldsItem
  <2>. QED
    BY <2>1, <2>2, <2>3, <2>4 DEF Next
<1>. QED
  BY <1>1, <1>2, CatalogueInvariant, PTL DEF Spec

-----------------------------------------------------------------------------
(* Filing inverts listing. *)

\* A loaded collection has a name and a dataset (validateCollection).
LEMMA CollectionNamed ==
  ASSUME NEW c \in DOMAIN Registry
  PROVE  c # "" /\ c # "none" /\ Registry[c].datasets # {}
  BY CatalogueAssumption

\* What the collection asked for adds to the query of ASF, when the filter says
\* nothing of levels (toASFParams).
LEMMA ASFListed ==
  ASSUME NEW q, NEW c \in DOMAIN Registry, Scope(q) = {c},
         ExtractFilterParams(q.filter).level = {}, NEW g, ASFFinds(ASFQuery(q), g)
  PROVE  Data[g].dataset \in Registry[c].datasets /\ LevelFits(c, Data[g].level)
<1>1. ASFQuery(q).datasets = Registry[c].datasets
  BY DEF ASFQuery
<1>2. ASFQuery(q).levels = {Registry[c].level} \ {""}
  BY DEF ASFQuery
<1>3. /\ SomeOf(ASFQuery(q).datasets, {Data[g].dataset})
      /\ SomeOf(ASFQuery(q).levels, {Data[g].level})
  BY DEF ASFFinds
<1>. QED
  BY <1>1, <1>2, <1>3, CollectionNamed DEF SomeOf, LevelFits

\* The query behind the listing of a collection.
LEMMA ListingScope ==
  ASSUME NEW c \in DOMAIN Registry
  PROVE  \E q : /\ \A g \in Granule : g \in Listing(c) <=> g \in Found(q, Granule)
                /\ Scope(q) = {c}
                /\ q.filter = NoFilter
<1>1. PICK q : q = [All EXCEPT !.route = c]
  OBVIOUS
<1>2. q.route = c /\ q.filter = NoFilter
  BY <1>1 DEF All
<1>3. Scope(q) = {c}
  BY <1>2, CollectionNamed DEF Scope
<1>4. Listing(c) = Found(q, Granule)
  BY <1>1 DEF Listing
<1>. QED
  BY <1>2, <1>3, <1>4

\* Without a filter the upstreams are sent none of its parameters.
LEMMA NothingExtracted ==
  ASSUME NEW e, e = NoFilter
  PROVE  /\ ExtractFilterParams(e).beamMode = {}
         /\ ExtractFilterParams(e).polarization = {}
         /\ ExtractFilterParams(e).direction = ""
         /\ ExtractFilterParams(e).level = {}
         /\ ExtractFilterParams(e).platform = {}
         /\ ExtractFilterParams(e).relativeOrbit = {}
         /\ ExtractFilterParams(e).absoluteOrbit = {}
<1>1. ExtractFilterParams(e) = FilterParams({}, {}, "", {}, {}, {}, {})
  BY DEF ExtractFilterParams
<1>2. PICK f : f = FilterParams({}, {}, "", {}, {}, {}, {})
  OBVIOUS
<1>3. /\ f.beamMode = {} /\ f.polarization = {} /\ f.direction = ""
      /\ f.level = {} /\ f.platform = {}
      /\ f.relativeOrbit = {} /\ f.absoluteOrbit = {}
  BY <1>2, Zenon DEF FilterParams
<1>. QED
  BY <1>1, <1>2, <1>3, Zenon

\* The listing of a collection on ASF: its datasets, at its level.
LEMMA ASFListing ==
  ASSUME backend = "asf", NEW c \in DOMAIN Registry, NEW g \in Granule
  PROVE  g \in Listing(c) <=> /\ Data[g].dataset \in Registry[c].datasets
                             /\ LevelFits(c, Data[g].level)
<1>0. PICK q : /\ g \in Listing(c) <=> g \in Found(q, Granule)
               /\ Scope(q) = {c}
               /\ q.filter = NoFilter
  BY ListingScope
<1>1. ExtractFilterParams(q.filter).level = {}
  BY <1>0, NothingExtracted
<1>2. g \in Listing(c) <=> ASFFinds(ASFQuery(q), g)
  BY <1>0 DEF Found
<1>3. ASSUME Data[g].dataset \in Registry[c].datasets, LevelFits(c, Data[g].level)
      PROVE  ASFFinds(ASFQuery(q), g)
  <2>1. /\ ASFQuery(q).datasets = Registry[c].datasets
        /\ ASFQuery(q).levels = {Registry[c].level} \ {""}
        /\ ASFQuery(q).filter = ExtractFilterParams(q.filter)
    <3>1. UNION {Registry[d].datasets : d \in {c}} = Registry[c].datasets
      OBVIOUS
    <3>2. {Registry[d].level : d \in {c}} = {Registry[c].level}
      OBVIOUS
    <3>. QED
      BY <1>0, <1>1, <3>1, <3>2 DEF ASFQuery
  <2>2. PICK f : f = ASFQuery(q).filter
    OBVIOUS
  <2>3. /\ f.beamMode = {} /\ f.polarization = {} /\ f.direction = "" /\ f.platform = {}
        /\ f.relativeOrbit = {} /\ f.absoluteOrbit = {}
    BY <1>0, <2>1, <2>2, NothingExtracted
  <2>. QED
    BY <1>3, <2>1, <2>2, <2>3 DEF ASFFinds, SomeOf, LevelFits
<1>. QED
  BY <1>0, <1>1, <1>2, <1>3, ASFListed

\* On CMR a search within collections finds granules of their short names, where
\* every collection has one.
LEMMA CMRListed ==
  ASSUME Orderly, NEW q, NEW c \in DOMAIN Registry, Scope(q) = {c},
         NEW g, CMRFinds(CMRQuery(q), g)
  PROVE  Data[g].shortName \in Registry[c].shortNames
<1>1. Registry[c].shortNames # {}
  BY DEF Orderly
<1>2. CMRQuery(q).names = Registry[c].shortNames
  BY <1>1 DEF CMRQuery, CMRNames
<1>. QED
  BY <1>1, <1>2 DEF CMRFinds, SomeOf

\* The listing of a collection on CMR: its short names.
LEMMA CMRListing ==
  ASSUME Orderly, backend = "cmr", NEW c \in DOMAIN Registry, NEW g \in Granule
  PROVE  g \in Listing(c) <=> Data[g].shortName \in Registry[c].shortNames
<1>0. PICK q : /\ g \in Listing(c) <=> g \in Found(q, Granule)
               /\ Scope(q) = {c}
               /\ q.filter = NoFilter
  BY ListingScope
<1>1. Registry[c].shortNames # {}
  BY DEF Orderly
<1>2. CMRQuery(q).names = Registry[c].shortNames
  BY <1>0, <1>1 DEF CMRQuery, CMRNames
<1>3. CMRQuery(q).attributes = {}
  <2>1. PICK f : f = ExtractFilterParams(q.filter)
    OBVIOUS
  <2>2. /\ f.polarization = {} /\ f.beamMode = {} /\ f.direction = "" /\ f.level = {}
        /\ f.relativeOrbit = {}
    BY <1>0, <2>1, NothingExtracted
  <2>3. CMRQuery(q).attributes = ({"POLARIZATION"} \X f.polarization)
                                 \cup ({"BEAM_MODE"} \X f.beamMode)
                                 \cup ({"ASCENDING_DESCENDING"} \X ({f.direction} \ {""}))
                                 \cup ({"PATH_NUMBER"} \X f.relativeOrbit)
                                 \cup ({"PROCESSING_TYPE"} \X f.level)
    BY <2>1 DEF CMRQuery
  <2>. QED
    BY <2>2, <2>3
<1>4. g \in Listing(c) <=> CMRFinds(CMRQuery(q), g)
  BY <1>0 DEF Found
<1>. QED
  BY <1>1, <1>2, <1>3, <1>4 DEF CMRFinds, SomeOf

\* By short name a granule is filed under the one collection that has it.
LEMMA CMRFiled ==
  ASSUME Orderly, NEW c \in DOMAIN Registry, NEW g, Data[g].shortName \in Registry[c].shortNames
  PROVE  CMRFiling(g) = {c}
<1>. DEFINE name == Data[g].shortName
            named == {d \in DOMAIN Registry : name \in Registry[d].shortNames}
            exact == {d \in DOMAIN Registry :
                        /\ name \in Registry[d].shortNames \cup Registry[d].datasets
                        /\ LevelFits(d, CMRLevel(g))}
<1>1. \A d \in DOMAIN Registry : name \in Registry[d].shortNames \cup Registry[d].datasets => d = c
  BY DEF Orderly
<1>2. named = {c} /\ exact \subseteq {c}
  BY <1>1
<1>. HIDE DEF name, named, exact
<1>. QED
  BY <1>2 DEF CMRFiling, name, named, exact

\* On ASF a granule of a known platform is filed under a collection of its
\* platform and level, if there is one.
LEMMA ASFFiled ==
  ASSUME NEW g
  PROVE  /\ \A e \in ASFFiling(g) \ {""} : /\ e \in DOMAIN Registry
                                         /\ Data[g].platform \in Registry[e].platforms
                                         /\ LevelFits(e, Data[g].level)
         /\ "" \in ASFFiling(g) => ~\E c \in DOMAIN Registry :
                                     /\ Data[g].platform \in Registry[c].platforms
                                     /\ LevelFits(c, Data[g].level)
  BY CollectionNamed DEF ASFFiling, OrNone

\* A granule that ASF lists for a collection, and whose platform the registry
\* knows for its dataset, is of a platform of that collection.
LEMMA ASFPlatform ==
  ASSUME Orderly, backend = "asf", NEW g, Configured(g),
         NEW c \in DOMAIN Registry, Data[g].dataset \in Registry[c].datasets
  PROVE  Data[g].platform \in Registry[c].platforms
  BY DEF Orderly, Configured

\* Wherever a granule is filed, the listing of that collection holds it.
LEMMA FiledIsListed ==
  ASSUME Orderly, backend \in {"asf", "cmr"}, NEW g \in Granule, Configured(g),
         NEW c \in DOMAIN Registry, g \in Listing(c), NEW e \in DetermineCollection(g)
  PROVE  e # "" /\ g \in Listing(e)
<1>1. CASE backend = "asf"
  <2>1. Data[g].dataset \in Registry[c].datasets /\ LevelFits(c, Data[g].level)
    BY <1>1, ASFListing
  <2>2. Data[g].platform \in Registry[c].platforms
    BY <1>1, <2>1, ASFPlatform
  <2>3. e \in ASFFiling(g)
    BY <1>1 DEF DetermineCollection
  <2>4. e # "" /\ e \in DOMAIN Registry
    BY <2>1, <2>2, <2>3, ASFFiled
  <2>5. Data[g].platform \in Registry[e].platforms /\ LevelFits(e, Data[g].level)
    BY <2>3, <2>4, ASFFiled
  <2>6. Registry[e].datasets = Registry[c].datasets
    BY <2>2, <2>4, <2>5 DEF Orderly
  <2>. QED
    BY <1>1, <2>1, <2>4, <2>5, <2>6, ASFListing
<1>2. CASE backend = "cmr"
  <2>1. Data[g].shortName \in Registry[c].shortNames
    BY <1>2, CMRListing
  <2>2. e = c
    BY <1>2, <2>1, CMRFiled DEF DetermineCollection
  <2>. QED
    BY <2>2, CollectionNamed
<1>. QED
  BY <1>1, <1>2

\* An item found through a collection's route is filed under that collection.
LEMMA FiledWhereAsked ==
  ASSUME Orderly, backend \in {"asf", "cmr"}, NEW g \in Granule, Configured(g),
         NEW q \in Queries, q.route # "", g \in Found(q, Granule),
         backend = "asf" => ExtractFilterParams(q.filter).level = {},
         NEW e \in DetermineCollection(g)
  PROVE  e = q.route
<1>1. q.route \in DOMAIN Registry
  BY CatalogueAssumption
<1>2. Scope(q) = {q.route}
  BY DEF Scope
<1>3. PICK c \in DOMAIN Registry : c = q.route
  BY <1>1
<1>4. CASE backend = "asf"
  <2>1. Data[g].dataset \in Registry[c].datasets /\ LevelFits(c, Data[g].level)
    <3>1. ASFFinds(ASFQuery(q), g)
      BY <1>4 DEF Found
    <3>. QED
      BY <1>2, <1>3, <1>4, <3>1, ASFListed
  <2>2. Data[g].platform \in Registry[c].platforms
    BY <1>4, <2>1, ASFPlatform
  <2>3. e \in ASFFiling(g)
    BY <1>4 DEF DetermineCollection
  <2>4. e # "" /\ e \in DOMAIN Registry
    BY <2>1, <2>2, <2>3, ASFFiled
  <2>5. Data[g].platform \in Registry[e].platforms /\ LevelFits(e, Data[g].level)
    BY <2>3, <2>4, ASFFiled
  <2>. QED
    <3>1. e = c \/ /\ "" \notin {Registry[c].level, Registry[e].level}
                   /\ Registry[c].level # Registry[e].level
      BY <2>2, <2>4, <2>5, ZenonT(40) DEF Orderly
    <3>. QED
      BY <1>3, <2>1, <2>5, <3>1 DEF LevelFits
<1>5. CASE backend = "cmr"
  <2>1. CMRFinds(CMRQuery(q), g)
    BY <1>5 DEF Found
  <2>2. Data[g].shortName \in Registry[c].shortNames
    BY <1>2, <1>3, <2>1, CMRListed
  <2>3. CMRFiling(g) = {c}
    BY <2>2, CMRFiled
  <2>. QED
    BY <1>3, <1>5, <2>3 DEF DetermineCollection
<1>. QED
  BY <1>4, <1>5

\* With a registry like the shipped one, the listing of a collection is made of
\* items filed under it, and any search files an item under a collection whose
\* listing holds it.
THEOREM FilingInvertsListing ==
  ASSUME Orderly
  PROVE  Spec => []FiledWhereListed
<1>1. IInv => FiledWhereListed
  <2>. SUFFICES ASSUME IInv, NEW i \in served, Configured(i.granule)
                PROVE  /\ (\E c \in DOMAIN Registry : i.granule \in Listing(c))
                            => i.collection # "" /\ i.granule \in Listing(i.collection)
                       /\ ~LevelAsked /\ query.route # "" => i.collection = query.route
    BY DEF FiledWhereListed
  <2>1. /\ backend \in {"asf", "cmr"}
        /\ i.granule \in Granule
        /\ i.granule \in Found(query, Granule)
        /\ i.collection \in DetermineCollection(i.granule)
        /\ query \in Queries
    BY DEF IInv, TypeOK, FilingInv
  <2>2. ASSUME NEW c \in DOMAIN Registry, i.granule \in Listing(c)
        PROVE  i.collection # "" /\ i.granule \in Listing(i.collection)
    BY <2>1, <2>2, FiledIsListed
  <2>3. ASSUME ~LevelAsked, query.route # "" PROVE i.collection = query.route
    <3>1. backend = "asf" => ExtractFilterParams(query.filter).level = {}
      BY <2>3 DEF LevelAsked
    <3>. QED
      BY <2>1, <2>3, <3>1, FiledWhereAsked
  <2>. QED
    BY <2>2, <2>3
<1>. QED
  BY <1>1, CatalogueInvariant, PTL

-----------------------------------------------------------------------------
(* Boxes. *)

\* An element of a sequence over S is in S.
LEMMA ElementIn ==
  ASSUME NEW S, NEW u \in Seq(S), NEW i \in 1 .. Len(u)
  PROVE  u[i] \in S
  OBVIOUS

\* The numbers of a box.
LEMMA FourNumbers ==
  ASSUME NEW b \in Seq(Int), Len(b) = 4
  PROVE  b[1] \in Int /\ b[2] \in Int /\ b[3] \in Int /\ b[4] \in Int
<1>1. \A i \in 1 .. Len(b) : b[i] \in Int
  BY ElementIn
<1>2. 1 \in 1 .. 4 /\ 2 \in 1 .. 4 /\ 3 \in 1 .. 4 /\ 4 \in 1 .. 4
  OBVIOUS
<1>. QED
  BY <1>1, <1>2, Zenon

\* The box of positions covers them still after it was sent and read back
\* (BBoxToWKT, FromWKT).
LEMMA BoxSentCovers ==
  ASSUME NEW s \in Seq(Position), s # <<>>
  PROVE  Covers(FromWKT(BBoxToWKT(BoxOf(ToSet(s)))), ToSet(s))
<1>. DEFINE P == ToSet(s)
            b == BoxOf(P)
            Q == ToSet(BoxRing(b))
            c == BoxOf(Q)
<1>1. ASSUME NEW p \in Position PROVE Lon(p) \in Int /\ Lat(p) \in Int
  BY DEF Position, Usable, Lon, Lat
<1>2. /\ \A p \in P : p \in Position /\ \E i \in 1 .. Len(s) : p = s[i]
      /\ P # {}
  <2>1. DOMAIN s = 1 .. Len(s) /\ \A i \in 1 .. Len(s) : s[i] \in Position
    OBVIOUS
  <2>2. 1 \in 1 .. Len(s)
    OBVIOUS
  <2>. QED
    BY <2>1, <2>2, Zenon DEF ToSet
<1>3. \A p \in P : Lon(p) \in Int /\ Lat(p) \in Int
  BY <1>1, <1>2
<1>4. /\ b \in Seq(Int) /\ Len(b) = 4
      /\ \A p \in P : /\ b[1] <= Lon(p) /\ Lon(p) <= b[3]
                      /\ b[2] <= Lat(p) /\ Lat(p) <= b[4]
  <2>. HIDE DEF P
  <2>1. Len(s) \in Nat
    OBVIOUS
  <2>. QED
    BY <1>2, <1>3, <2>1, BoxCovers, ZenonT(40)
<1>. HIDE DEF b
<1>5. /\ FlatBBox(b) = b
      /\ FromWKT(BBoxToWKT(b)) = Polygon(<<BoxRing(b)>>)
  <2>1. Len(b) \in {4, 6} /\ Len(b) # 6
    BY <1>4
  <2>2. FlatBBox(b) = IF Len(b) = 6 THEN <<b[1], b[2], b[4], b[5]>> ELSE b
    BY <1>4, <2>1, BoxReads
  <2>3. FlatBBox(b) = b
    BY <2>1, <2>2
  <2>. QED
    BY <1>4, <2>1, <2>3, BoxReads
<1>6. /\ BoxRing(b) \in Seq(Position)
      /\ Q = {<<b[1], b[2]>>, <<b[3], b[2]>>, <<b[3], b[4]>>, <<b[1], b[4]>>}
  BY <1>4, RingPositions
<1>7. \A q \in Q : q \in Position /\ \E i \in 1 .. Len(BoxRing(b)) : q = BoxRing(b)[i]
  BY <1>6 DEF ToSet
<1>8. ComputeBBox(Polygon(<<BoxRing(b)>>)) = c
  <2>1. Positions(Polygon(<<BoxRing(b)>>)) = Q
    BY <1>6, OneRing
  <2>2. {p \in Q : Usable(p)} = Q
    BY <1>7 DEF Position
  <2>3. Polygon(<<BoxRing(b)>>).type = "Polygon"
    BY DEF Polygon, Geometry
  <2>. QED
    BY <2>1, <2>2, <2>3, Zenon DEF ComputeBBox
<1>9. /\ c \in Seq(Int) /\ Len(c) = 4
      /\ \A q \in Q : /\ c[1] <= Lon(q) /\ Lon(q) <= c[3]
                      /\ c[2] <= Lat(q) /\ Lat(q) <= c[4]
  <2>1. \A q \in Q : Lon(q) \in Int /\ Lat(q) \in Int
    BY <1>1, <1>7
  <2>2. Len(BoxRing(b)) \in Nat /\ Q # {}
    BY <1>6
  <2>. HIDE DEF Q
  <2>. QED
    BY <1>7, <2>1, <2>2, BoxCovers, ZenonT(40)
<1>. HIDE DEF c
<1>10. /\ <<b[1], b[2]>> \in Q /\ <<b[3], b[4]>> \in Q
       /\ Lon(<<b[1], b[2]>>) = b[1] /\ Lat(<<b[1], b[2]>>) = b[2]
       /\ Lon(<<b[3], b[4]>>) = b[3] /\ Lat(<<b[3], b[4]>>) = b[4]
  BY <1>6 DEF Lon, Lat
<1>. HIDE DEF Q
<1>11. c[1] <= b[1] /\ b[3] <= c[3] /\ c[2] <= b[2] /\ b[4] <= c[4]
  BY <1>9, <1>10
<1>12. /\ b[1] \in Int /\ b[2] \in Int /\ b[3] \in Int /\ b[4] \in Int
       /\ c[1] \in Int /\ c[2] \in Int /\ c[3] \in Int /\ c[4] \in Int
  BY <1>4, <1>9, FourNumbers, Zenon
<1>13. \A p \in P : c[1] <= Lon(p) /\ Lon(p) <= c[3] /\ c[2] <= Lat(p) /\ Lat(p) <= c[4]
  <2>. HIDE DEF P
  <2>. QED
    BY <1>3, <1>4, <1>11, <1>12, SMTT(30)
<1>. QED
  BY <1>5, <1>8, <1>13 DEF Covers, b

\* A footprint on ASF is a list of positions (ComputeBBox).
LEMMA FootprintBox ==
  ASSUME NEW g \in Granule
  PROVE  \E s \in Seq(Position) : /\ s # <<>>
                                  /\ ToSet(s) = Positions(Data[g].footprint)
                                  /\ ComputeBBox(Data[g].footprint) = BoxOf(ToSet(s))
<1>. DEFINE f == Data[g].footprint
            s == FlattenSeq(Rings(f))
<1>1. /\ f.type \in {"Point", "LineString", "Polygon", "MultiPolygon"}
      /\ f.polys \in Seq(Seq(Seq(Seq(Int))))
      /\ Drawn(f) /\ Positions(f) # {}
  BY FootprintsAssumption, Zenon
<1>. HIDE DEF f
<1>2. f.polys \in Seq(Seq(SomeRing))
  BY <1>1, DrawnRings, Zenon
<1>3. s \in Seq(Position)
  <2>1. Rings(f) \in Seq(SomeRing)
    BY <1>2, FlattenIsSeq DEF Rings
  <2>2. Rings(f) \in Seq(Seq(Position))
    <3>. DEFINE T == Seq(Position)
    <3>1. \A r \in SomeRing : r \in T
      BY DEF SomeRing
    <3>. HIDE DEF T
    <3>2. Rings(f) \in Seq(T)
      BY <2>1, <3>1
    <3>. QED
      BY <3>2 DEF T
  <2>. QED
    BY <2>2, FlattenIsSeq
<1>4. Positions(f) = ToSet(s)
  BY DEF Positions
<1>. HIDE DEF s
<1>5. {p \in Positions(f) : Usable(p)} = Positions(f)
  BY <1>3, <1>4 DEF ToSet, Position
<1>6. ComputeBBox(f) = BoxOf(ToSet(s))
  BY <1>1, <1>4, <1>5, Zenon DEF ComputeBBox
<1>7. s # <<>>
  BY <1>1, <1>4 DEF ToSet
<1>. QED
  BY <1>3, <1>4, <1>6, <1>7 DEF f

\* Closing a ring adds no position (GetGeometry).
LEMMA ClosedRing ==
  ASSUME NEW S, NEW ring \in Seq(S), ring # <<>>
  PROVE  Append(ring, ring[1]) \in Seq(S) /\ ToSet(Append(ring, ring[1])) = ToSet(ring)
<1>. DEFINE longer == Append(ring, ring[1])
<1>1. /\ longer \in Seq(S) /\ Len(longer) = Len(ring) + 1
      /\ \A i \in 1 .. Len(ring) : longer[i] = ring[i]
      /\ longer[Len(ring) + 1] = ring[1]
      /\ 1 \in 1 .. Len(ring)
  OBVIOUS
<1>. HIDE DEF longer
<1>2. ASSUME NEW x PROVE x \in ToSet(longer) <=> x \in ToSet(ring)
  <2>1. x \in ToSet(longer) <=> \E i \in 1 .. Len(ring) + 1 : x = longer[i]
    BY <1>1 DEF ToSet
  <2>2. x \in ToSet(ring) <=> \E i \in 1 .. Len(ring) : x = ring[i]
    BY DEF ToSet
  <2>. QED
    BY <1>1, <2>1, <2>2
<1>. QED
  BY <1>1, <1>2 DEF longer

\* A geometry of one ring: its box is that of the ring (calculateBbox).
LEMMA FirstRingBox ==
  ASSUME NEW ring \in Seq(Position), NEW type \in {"Point", "Polygon"}
  PROVE  CalculateBbox(Geometry(type, << <<ring>> >>)) = BoxOf(ToSet(ring))
<1>. DEFINE g == Geometry(type, << <<ring>> >>)
<1>1. g.type = type /\ g.polys = << <<ring>> >>
  BY DEF Geometry
<1>. HIDE DEF g
<1>2. Rings(g) = <<ring>>
  <2>. DEFINE T == Seq(Position)
              rings == <<ring>>
  <2>1. rings \in Seq(T)
    OBVIOUS
  <2>. HIDE DEF T, rings
  <2>2. FlattenSeq(<<rings>>) = rings
    BY <2>1, FlattenOne
  <2>. QED
    BY <1>1, <2>2 DEF Rings, rings
<1>3. Rings(g) # <<>> /\ Rings(g)[1] = ring
  BY <1>2
<1>. QED
  BY <1>1, <1>3, Zenon DEF CalculateBbox, g
\* A granule of one polygon on CMR is a list of positions (GetGeometry,
\* calculateBbox).
LEMMA ExtentBox ==
  ASSUME NEW g \in Granule, Len(Data[g].footprint.polys) = 1
  PROVE  \E s \in Seq(Position) : /\ s # <<>>
                                  /\ ToSet(s) = Positions(Data[g].footprint)
                                  /\ CalculateBbox(GranuleGeometry(Data[g].extent))
                                       = BoxOf(ToSet(s))
<1>. DEFINE f == Data[g].footprint
            x == Data[g].extent
            r == x.rectangles[1]
            Two == Int \X Int
<1>1. /\ Positions(f) # {} /\ Positions(f) = Drawing(x)
      /\ x.polygons \in Seq(Seq(Two))
      /\ x.rectangles \in Seq(Int \X Int \X Int \X Int)
      /\ x.points \in Seq(Two)
  BY FootprintsAssumption, Zenon
<1>2. \A p \in Two : p \in Position
  <2>. SUFFICES ASSUME NEW a \in Int, NEW b \in Int PROVE <<a, b>> \in Position
    OBVIOUS
  <2>. QED
    BY DEF Position, Usable
<1>3. ASSUME NEW s \in Seq(Two) PROVE s \in Seq(Position)
  <2>. HIDE DEF Two
  <2>. QED
    BY <1>2, <1>3
<1>. HIDE DEF f, x, Two
<1>4. CASE x.polygons # <<>>
  <2>. DEFINE ring == x.polygons[1]
              s == IF ring # <<>> /\ ring[1] # Last(ring) THEN Append(ring, ring[1]) ELSE ring
  <2>1. ring \in Seq(Two)
    <3>. DEFINE T == Seq(Two)
    <3>1. x.polygons \in Seq(T)
      BY <1>1
    <3>. HIDE DEF T
    <3>2. x.polygons[1] \in T
      BY <1>4, <3>1
    <3>. QED
      BY <3>2 DEF T
  <2>2. Positions(f) = ToSet(ring)
    BY <1>1, <1>4, Zenon DEF Drawing
  <2>3. GranuleGeometry(x) = Polygon(<<s>>)
    BY <1>4, Zenon DEF GranuleGeometry
  <2>. HIDE DEF ring
  <2>4. ring # <<>>
    BY <1>1, <2>2 DEF ToSet
  <2>5. s \in Seq(Two) /\ ToSet(s) = ToSet(ring)
    BY <2>1, <2>4, ClosedRing
  <2>6. s # <<>>
    <3>. HIDE DEF s
    <3>1. ToSet(<<>>) = {}
      BY DEF ToSet
    <3>. QED
      BY <1>1, <2>2, <2>5, <3>1
  <2>. HIDE DEF s
  <2>7. s \in Seq(Position)
    BY <1>3, <2>5
  <2>8. CalculateBbox(Polygon(<<s>>)) = BoxOf(ToSet(s))
    BY <2>7, FirstRingBox DEF Polygon
  <2>. QED
    BY <2>2, <2>3, <2>5, <2>6, <2>7, <2>8 DEF f, x
<1>5. CASE x.polygons = <<>> /\ x.rectangles # <<>>
  <2>1. r \in Int \X Int \X Int \X Int
    BY <1>1, <1>5
  <2>2. r \in Seq(Int) /\ Len(r) = 4
    <3>1. PICK a \in Int, b \in Int, c \in Int, d \in Int : r = <<a, b, c, d>>
      BY <2>1
    <3>2. <<a, b, c, d>> \in Seq(Int) /\ Len(<<a, b, c, d>>) = 4
      OBVIOUS
    <3>. QED
      BY <3>1, <3>2
  <2>3. Positions(f) = ToSet(BoxRing(r))
    BY <1>1, <1>5, Zenon DEF Drawing, BoxRing
  <2>4. GranuleGeometry(x) = PolygonFromBBox(r)
    BY <1>5, Zenon DEF GranuleGeometry
  <2>. HIDE DEF r
  <2>5. PolygonFromBBox(r) = Polygon(<<BoxRing(r)>>)
    BY <2>2, Zenon DEF PolygonFromBBox, BoxRing
  <2>6. BoxRing(r) \in Seq(Position) /\ BoxRing(r) # <<>>
    BY <2>2, RingPositions
  <2>7. CalculateBbox(Polygon(<<BoxRing(r)>>)) = BoxOf(ToSet(BoxRing(r)))
    BY <2>6, FirstRingBox DEF Polygon
  <2>. QED
    BY <2>3, <2>4, <2>5, <2>6, <2>7 DEF f, x
<1>6. CASE x.polygons = <<>> /\ x.rectangles = <<>> /\ x.points # <<>>
  <2>. DEFINE p == x.points[1]
  <2>1. p \in Two
    BY <1>1, <1>6
  <2>2. Positions(f) = {p}
    BY <1>1, <1>6, Zenon DEF Drawing
  <2>3. GranuleGeometry(x) = PointAt(p)
    BY <1>6, Zenon DEF GranuleGeometry
  <2>. HIDE DEF p
  <2>4. p \in Position
    BY <1>2, <2>1
  <2>5. <<p>> \in Seq(Position) /\ <<p>> # <<>> /\ ToSet(<<p>>) = {p}
    BY <2>4 DEF ToSet
  <2>6. CalculateBbox(PointAt(p)) = BoxOf(ToSet(<<p>>))
    BY <2>5, FirstRingBox DEF PointAt
  <2>. QED
    BY <2>2, <2>3, <2>5, <2>6 DEF f, x
<1>7. CASE x.polygons = <<>> /\ x.rectangles = <<>> /\ x.points = <<>>
  BY <1>1, <1>7, Zenon DEF Drawing
<1>. QED
  BY <1>4, <1>5, <1>6, <1>7

\* The box an item shows, sent back as the area of a search, covers the whole
\* footprint of its granule, if that is one polygon where the granule is CMR's.
THEOREM BoxesFindItems == Spec => []BoxFindsItem
<1>1. IInv => BoxFindsItem
  <2>. SUFFICES ASSUME IInv, NEW i \in served,
                       backend = "asf" \/ Len(Data[i.granule].footprint.polys) = 1
                PROVE  Covers(FromWKT(BBoxToWKT(i.box)), Positions(Data[i.granule].footprint))
    BY Zenon DEF BoxFindsItem
  <2>1. i.granule \in Granule /\ i = Item(i.granule, i.collection)
    BY DEF IInv, TypeOK, FilingInv
  <2>2. i.box = Box(i.granule)
    <3>1. Item(i.granule, i.collection).box = Box(i.granule)
      BY DEF Item
    <3>. QED
      BY <2>1, <3>1, Zenon
  <2>3. PICK s \in Seq(Position) : /\ s # <<>>
                                   /\ ToSet(s) = Positions(Data[i.granule].footprint)
                                   /\ Box(i.granule) = BoxOf(ToSet(s))
    <3>1. CASE backend = "asf"
      BY <2>1, <3>1, FootprintBox, Zenon DEF Box
    <3>2. CASE backend # "asf"
      BY <2>1, <3>2, ExtentBox, Zenon DEF Box
    <3>. QED
      BY <3>1, <3>2
  <2>. QED
    BY <2>2, <2>3, BoxSentCovers, Zenon
<1>. QED
  BY <1>1, CatalogueInvariant, PTL

-----------------------------------------------------------------------------
(* Filters are trees: what a recursive function over them satisfies. *)

\* A function of the numbers built step by step, without end.
Forever(f, St, init, step) ==
  f \in [Nat -> St] /\ f[0] = init /\ \A n \in Nat : f[n + 1] = step[f[n]]

LEMMA StepForever ==
  ASSUME NEW St, NEW init \in St, NEW step \in [St -> St]
  PROVE  \E f : Forever(f, St, init, step)
<1>. DEFINE step2 == [x \in Nat \X St |-> step[x[2]]]
            Upto(f, n) == f \in [0 .. n -> St] /\ Stepped(f, n, init, step2)
<1>1. ASSUME NEW n \in Nat PROVE \E f : Upto(f, n)
  <2>1. step2 \in [Nat \X St -> St]
    OBVIOUS
  <2>. HIDE DEF step2
  <2>. QED
    BY <2>1, StepByStep
<1>2. ASSUME NEW f, NEW n \in Nat, Upto(f, n)
      PROVE  /\ f[0] = init
             /\ \A i \in 1 .. n : f[i] = step[f[i - 1]] /\ f[i - 1] \in St
             /\ \A i \in 0 .. n : f[i] \in St
  <2>1. \A i \in 1 .. n : f[i - 1] \in St /\ i \in Nat
    BY <1>2
  <2>. QED
    BY <1>2, <2>1 DEF Stepped
<1>. HIDE DEF Upto
<1>. DEFINE S == {n \in Nat : \A f, g, m, l : m \in Nat /\ l \in Nat /\ n <= m /\ n <= l
                                 /\ Upto(f, m) /\ Upto(g, l) => f[n] = g[n]}
<1>3. Nat \subseteq S
  <2>1. 0 \in S
    BY <1>2
  <2>2. \A n \in Nat : n \in S => n + 1 \in S
    <3>. SUFFICES ASSUME NEW n \in Nat, n \in S, NEW f, NEW g, NEW m \in Nat, NEW l \in Nat,
                         n + 1 <= m, n + 1 <= l, Upto(f, m), Upto(g, l)
                  PROVE  f[n + 1] = g[n + 1]
      OBVIOUS
    <3>1. f[n] = g[n]
      OBVIOUS
    <3>2. (n + 1) - 1 = n /\ n + 1 \in 1 .. m /\ n + 1 \in 1 .. l
      OBVIOUS
    <3>. HIDE DEF S
    <3>3. f[n + 1] = step[f[n]] /\ g[n + 1] = step[g[n]]
      BY <1>2, <3>2
    <3>. QED
      BY <3>1, <3>3
  <2>. HIDE DEF S
  <2>. QED
    BY <2>1, <2>2, Induction
<1>. DEFINE Of(n) == CHOOSE f : Upto(f, n)
            f == [n \in Nat |-> Of(n)[n]]
<1>4. ASSUME NEW n \in Nat PROVE Upto(Of(n), n)
  BY <1>1
<1>. HIDE DEF Of
<1>5. f \in [Nat -> St]
  BY <1>2, <1>4
<1>6. f[0] = init
  BY <1>2, <1>4
<1>7. ASSUME NEW n \in Nat PROVE f[n + 1] = step[f[n]]
  <2>1. /\ (n + 1) - 1 = n /\ n + 1 \in Nat /\ n + 1 \in 1 .. n + 1
        /\ n <= n /\ n <= n + 1
    OBVIOUS
  <2>2. Of(n + 1)[n + 1] = step[Of(n + 1)[n]]
    BY <1>2, <1>4, <2>1
  <2>3. Of(n + 1)[n] = Of(n)[n]
    BY <1>3, <1>4, <2>1
  <2>. QED
    BY <2>1, <2>2, <2>3
<1>. HIDE DEF f
<1>8. Forever(f, St, init, step)
  BY <1>5, <1>6, <1>7 DEF Forever
<1>. QED
  BY <1>8

\* The values of a node's children, and a function defined by them.
Under(f, kids) == [i \in DOMAIN kids |-> f[kids[i]]]
ByChildren(f, Node, Kids, B) == \A e \in Node : f[e] = B[<<e, Under(f, Kids[e])>>]

LEMMA UnderIs ==
  ASSUME NEW Node, NEW V, NEW kids \in Seq(Node), NEW f \in [Node -> V]
  PROVE  Under(f, kids) \in Seq(V)
  BY DEF Under

\* Where children are shallower than their parent there is such a function.
LEMMA TreeRecursion ==
  ASSUME NEW Node, NEW Kids \in [Node -> Seq(Node)], NEW depth \in [Node -> Nat],
         \A e \in Node : \A i \in DOMAIN Kids[e] : depth[Kids[e][i]] < depth[e],
         NEW V, NEW v \in V, NEW B \in [Node \X Seq(V) -> V]
  PROVE  \E f \in [Node -> V] : ByChildren(f, Node, Kids, B)
<1>. DEFINE St == [Node -> V]
            step == [F \in St |-> [e \in Node |-> B[<<e, Under(F, Kids[e])>>]]]
            init == [e \in Node |-> v]
<1>1. step \in [St -> St]
  <2>. SUFFICES ASSUME NEW F \in St, NEW e \in Node PROVE B[<<e, Under(F, Kids[e])>>] \in V
    OBVIOUS
  <2>1. Kids[e] \in Seq(Node)
    OBVIOUS
  <2>2. Under(F, Kids[e]) \in Seq(V)
    BY <2>1, UnderIs
  <2>. QED
    BY <2>2
<1>2. init \in St
  OBVIOUS
<1>3. PICK F \in [Nat -> St] : \A n \in Nat : F[n + 1] = step[F[n]]
  <2>. HIDE DEF St, step, init
  <2>1. \E f : Forever(f, St, init, step)
    BY <1>1, <1>2, StepForever
  <2>. QED
    BY <2>1 DEF Forever
<1>. HIDE DEF init
<1>4. \A n \in Nat : \A e \in Node : F[n + 1][e] = B[<<e, Under(F[n], Kids[e])>>]
  <2>. SUFFICES ASSUME NEW n \in Nat, NEW e \in Node
                PROVE  F[n + 1][e] = B[<<e, Under(F[n], Kids[e])>>]
    OBVIOUS
  <2>1. F[n] \in St /\ F[n + 1] = step[F[n]]
    BY <1>3
  <2>. QED
    BY <2>1
<1>. DEFINE Stable(n) == \A e \in Node : depth[e] < n =>
                            \A m \in Nat : n <= m => F[m][e] = F[n][e]
            S == {n \in Nat : Stable(n)}
<1>5. Nat \subseteq S
  <2>1. 0 \in S
    OBVIOUS
  <2>2. \A n \in Nat : n \in S => n + 1 \in S
    <3>. SUFFICES ASSUME NEW n \in Nat, Stable(n), NEW e \in Node, depth[e] < n + 1,
                         NEW m \in Nat, n + 1 <= m
                  PROVE  F[m][e] = F[n + 1][e]
      <4>1. ASSUME NEW n \in Nat, Stable(n) => Stable(n + 1) PROVE n \in S => n + 1 \in S
        <5>. HIDE DEF Stable
        <5>. QED
          BY <4>1
      <4>. HIDE DEF S
      <4>. QED
        BY <4>1
    <3>1. PICK k \in Nat : m = k + 1 /\ n <= k
      <4>1. m - 1 \in Nat /\ m = (m - 1) + 1 /\ n <= m - 1
        OBVIOUS
      <4>. QED
        BY <4>1
    <3>2. ASSUME NEW i \in DOMAIN Kids[e] PROVE F[k][Kids[e][i]] = F[n][Kids[e][i]]
      <4>1. Kids[e][i] \in Node
        <5>1. Kids[e] \in Seq(Node)
          OBVIOUS
        <5>. QED
          BY <5>1
      <4>2. depth[Kids[e][i]] < n
        <5>1. depth[Kids[e][i]] < depth[e] /\ depth[Kids[e][i]] \in Nat /\ depth[e] \in Nat
          BY <4>1
        <5>. QED
          BY <5>1
      <4>. QED
        BY <3>1, <4>1, <4>2
    <3>3. Under(F[k], Kids[e]) = Under(F[n], Kids[e])
      BY <3>2 DEF Under
    <3>4. /\ F[k + 1][e] = B[<<e, Under(F[k], Kids[e])>>]
          /\ F[n + 1][e] = B[<<e, Under(F[n], Kids[e])>>]
      BY <1>4, <3>1
    <3>. HIDE DEF S
    <3>. QED
      BY <3>1, <3>3, <3>4
  <2>. HIDE DEF S
  <2>. QED
    BY <2>1, <2>2, Induction
<1>. DEFINE f == [e \in Node |-> F[depth[e] + 1][e]]
<1>6. f \in [Node -> V]
  <2>1. \A e \in Node : depth[e] + 1 \in Nat
    OBVIOUS
  <2>. QED
    BY <2>1
<1>7. ASSUME NEW e \in Node PROVE f[e] = B[<<e, Under(f, Kids[e])>>]
  <2>1. f[e] = B[<<e, Under(F[depth[e]], Kids[e])>>]
    BY <1>4
  <2>2. ASSUME NEW i \in DOMAIN Kids[e] PROVE F[depth[e]][Kids[e][i]] = f[Kids[e][i]]
    <3>. DEFINE k == Kids[e][i]
    <3>1. k \in Node
      <4>1. Kids[e] \in Seq(Node)
        OBVIOUS
      <4>. QED
        BY <4>1
    <3>2. depth[k] < depth[e]
      OBVIOUS
    <3>. HIDE DEF k
    <3>3. depth[k] + 1 \in Nat /\ depth[e] \in Nat /\ depth[k] + 1 <= depth[e]
          /\ depth[k] < depth[k] + 1
      BY <3>1, <3>2
    <3>4. F[depth[e]][k] = F[depth[k] + 1][k]
      BY <1>5, <3>1, <3>3
    <3>. QED
      BY <3>1, <3>4 DEF k
  <2>3. Under(F[depth[e]], Kids[e]) = Under(f, Kids[e])
    <3>. HIDE DEF f
    <3>. QED
      BY <2>2 DEF Under
  <2>. QED
    BY <2>1, <2>3
<1>. HIDE DEF f
<1>. QED
  BY <1>6, <1>7 DEF ByChildren

\* An expression's arguments are expressions, and shallower.
ArgsOf == [e \in Expr |-> e.args]

LEMMA FilterTree ==
  /\ ArgsOf \in [Expr -> Seq(Expr)]
  /\ Depth \in [Expr -> Nat]
  /\ \A e \in Expr : \A i \in DOMAIN ArgsOf[e] : Depth[ArgsOf[e][i]] < Depth[e]
  BY ExprAssumption DEF ArgsOf

\* What an expression holds.
LEMMA ExprFields ==
  ASSUME NEW e \in Expr
  PROVE  /\ e.prop \in STRING /\ e.values \in Seq(STRING) /\ e.numeric \in BOOLEAN
         /\ e.args \in Seq(Expr)
         /\ \A i \in DOMAIN e.args : e.args[i] \in Expr /\ Depth[e.args[i]] < Depth[e]
<1>1. /\ e.prop \in STRING /\ e.values \in Seq(STRING) /\ e.numeric \in BOOLEAN
      /\ e.args \in Seq(Expr)
      /\ \A i \in DOMAIN e.args : Depth[e.args[i]] < Depth[e]
  BY ExprAssumption
<1>. QED
  BY <1>1

\* A function over expressions that is defined by a value for each expression
\* and the values of its arguments.
ByTree(f, B) == \A e \in Expr : f[e] = B[<<e, Under(f, e.args)>>]

LEMMA FilterRecursion ==
  ASSUME NEW V, NEW v \in V, NEW B \in [Expr \X Seq(V) -> V]
  PROVE  \E f \in [Expr -> V] : ByTree(f, B)
<1>1. PICK f \in [Expr -> V] : ByChildren(f, Expr, ArgsOf, B)
  BY FilterTree, TreeRecursion
<1>2. ByTree(f, B)
  BY <1>1 DEF ByChildren, ArgsOf, ByTree
<1>. QED
  BY <1>2

PairList == Seq(STRING \X STRING)

LEMMA PairsAre == ASSUME NEW e \in Expr PROVE Pairs(e) \in PairList
<1>1. e.prop \in STRING /\ e.values \in Seq(STRING)
  BY ExprFields
<1>. DEFINE u == e.values
            p == e.prop
<1>. HIDE DEF u, p
<1>2. [i \in DOMAIN u |-> <<p, u[i]>>] \in PairList
  BY <1>1 DEF PairList, u, p
<1>. QED
  BY <1>2 DEF Pairs, u, p

LEMMA FlattenPairs == ASSUME NEW ss \in Seq(PairList) PROVE FlattenSeq(ss) \in PairList
  BY FlattenIsSeq DEF PairList

TextOf(e, i) == IF e.values[i] = "" THEN <<>> ELSE << <<e.prop, e.values[i]>> >>
TextLists(e) == [i \in DOMAIN e.values |-> TextOf(e, i)]

LEMMA OnePair ==
  ASSUME NEW p \in STRING, NEW v \in STRING
  PROVE  << <<p, v>> >> \in PairList
<1>. DEFINE x == <<p, v>>
            T == STRING \X STRING
<1>1. x \in T
  OBVIOUS
<1>. HIDE DEF x, T
<1>2. <<x>> \in Seq(T)
  BY <1>1
<1>. QED
  BY <1>2 DEF x, T, PairList

LEMMA TextsAre ==
  ASSUME NEW e \in Expr
  PROVE  /\ TextLists(e) \in Seq(PairList) /\ Texts(e) = FlattenSeq(TextLists(e))
         /\ Texts(e) \in PairList
<1>1. e.prop \in STRING /\ e.values \in Seq(STRING)
  BY ExprFields
<1>2. \A i \in DOMAIN e.values : TextOf(e, i) \in PairList
  <2>. SUFFICES ASSUME NEW i \in DOMAIN e.values PROVE TextOf(e, i) \in PairList
    OBVIOUS
  <2>1. e.values[i] \in STRING
    BY <1>1
  <2>2. e.prop \in STRING
    BY <1>1
  <2>3. << <<e.prop, e.values[i]>> >> \in PairList
    BY <2>1, <2>2, OnePair
  <2>4. <<>> \in PairList
    BY DEF PairList
  <2>. QED
    BY <2>3, <2>4, Zenon DEF TextOf
<1>3. TextLists(e) \in Seq(PairList)
  BY <1>1, <1>2 DEF TextLists
<1>4. Texts(e) = FlattenSeq(TextLists(e))
  BY DEF Texts, TextLists, TextOf
<1>. QED
  BY <1>3, <1>4, FlattenPairs

\* The equation of Extracted.
ExtractedOf(e, kids) ==
  CASE e.op \in {"and", "or", "not"} -> FlattenSeq(kids)
    [] e.op \in {"=", "in"} /\ ~e.numeric -> Texts(e)
    [] OTHER -> <<>>

LEMMA ExtractedEq ==
  \A e \in Expr : Extracted[e] = ExtractedOf(e, [i \in DOMAIN e.args |-> Extracted[e.args[i]]])
<1>. DEFINE V == PairList
            B == [x \in Expr \X Seq(V) |-> ExtractedOf(x[1], x[2])]
            Solves(f) == f = [e \in Expr |->
                                CASE e.op \in {"and", "or", "not"} ->
                                       FlattenSeq([i \in DOMAIN e.args |-> f[e.args[i]]])
                                  [] e.op \in {"=", "in"} /\ ~e.numeric -> Texts(e)
                                  [] OTHER -> <<>>]
<1>1. <<>> \in V
  BY DEF PairList
<1>2. B \in [Expr \X Seq(V) -> V]
  <2>. SUFFICES ASSUME NEW e \in Expr, NEW kids \in Seq(V) PROVE ExtractedOf(e, kids) \in V
    OBVIOUS
  <2>1. FlattenSeq(kids) \in V /\ Texts(e) \in V
    BY FlattenPairs, TextsAre
  <2>. QED
    BY <1>1, <2>1, Zenon DEF ExtractedOf
<1>. HIDE DEF V
<1>3. PICK f \in [Expr -> V] : ByTree(f, B)
  <2>. HIDE DEF B
  <2>. QED
    BY <1>1, <1>2, FilterRecursion
<1>4. ASSUME NEW e \in Expr
      PROVE  f[e] = ExtractedOf(e, [i \in DOMAIN e.args |-> f[e.args[i]]])
  <2>1. Under(f, e.args) \in Seq(V)
    BY ExprFields, UnderIs
  <2>. QED
    BY <1>3, <2>1 DEF Under, ByTree
<1>5. Solves(f)
  <2>1. f = [e \in Expr |-> f[e]]
    OBVIOUS
  <2>. QED
    BY <1>4, <2>1, Zenon DEF ExtractedOf
<1>6. Extracted = CHOOSE g : Solves(g)
  BY DEF Extracted
<1>7. Solves(Extracted)
  <2>. HIDE DEF Solves
  <2>. QED
    BY <1>5, <1>6
<1>. QED
  BY <1>7, Zenon DEF ExtractedOf

\* The equation of Processed.
Outcome == [ok : BOOLEAN, pairs : PairList]
ProcessedOf(e, kids) ==
  CASE e.op \in {"and", "or"} ->
         [ok |-> e.args # <<>> /\ \A i \in DOMAIN e.args : kids[i].ok,
          pairs |-> FlattenSeq([i \in DOMAIN e.args |-> kids[i].pairs])]
    [] e.op \in {"=", "in"} ->
         [ok |-> Applies(e) \/ (e.op = "in" /\ e.values = <<>>), pairs |-> Pairs(e)]
    [] OTHER -> [ok |-> FALSE, pairs |-> <<>>]

ProcessedBy(f, e) ==
  CASE e.op \in {"and", "or"} ->
         [ok |-> e.args # <<>> /\ \A i \in DOMAIN e.args : f[e.args[i]].ok,
          pairs |-> FlattenSeq([i \in DOMAIN e.args |-> f[e.args[i]].pairs])]
    [] e.op \in {"=", "in"} ->
         [ok |-> Applies(e) \/ (e.op = "in" /\ e.values = <<>>), pairs |-> Pairs(e)]
    [] OTHER -> [ok |-> FALSE, pairs |-> <<>>]

LEMMA ProcessedByIs ==
  ASSUME NEW f, NEW e
  PROVE  ProcessedBy(f, e) = ProcessedOf(e, [i \in DOMAIN e.args |-> f[e.args[i]]])
<1>. DEFINE kids == [i \in DOMAIN e.args |-> f[e.args[i]]]
<1>1. \A i \in DOMAIN e.args : kids[i] = f[e.args[i]]
  OBVIOUS
<1>2. [i \in DOMAIN e.args |-> kids[i].pairs] = [i \in DOMAIN e.args |-> f[e.args[i]].pairs]
  OBVIOUS
<1>3. (\A i \in DOMAIN e.args : kids[i].ok) = (\A i \in DOMAIN e.args : f[e.args[i]].ok)
  BY <1>1
<1>. HIDE DEF kids
<1>4. ProcessedOf(e, kids) = ProcessedBy(f, e)
  BY <1>2, <1>3, Zenon DEF ProcessedOf, ProcessedBy
<1>. QED
  BY <1>4 DEF kids

LEMMA OutcomeIs ==
  ASSUME NEW ok \in BOOLEAN, NEW pairs \in PairList
  PROVE  [ok |-> ok, pairs |-> pairs] \in Outcome
  BY DEF Outcome

LEMMA ProcessedEq ==
  \A e \in Expr : Processed[e] = ProcessedOf(e, [i \in DOMAIN e.args |-> Processed[e.args[i]]])
<1>. DEFINE V == Outcome
            B == [x \in Expr \X Seq(V) |->
                    IF Len(x[2]) = Len(x[1].args) THEN ProcessedOf(x[1], x[2])
                                                  ELSE [ok |-> FALSE, pairs |-> <<>>]]
            Solves(f) == f = [e \in Expr |-> ProcessedBy(f, e)]
<1>1. [ok |-> FALSE, pairs |-> <<>>] \in V
  <2>1. <<>> \in PairList
    BY DEF PairList
  <2>. QED
    BY <2>1, OutcomeIs
<1>2. B \in [Expr \X Seq(V) -> V]
  <2>1. ASSUME NEW e \in Expr, NEW kids \in Seq(V), Len(kids) = Len(e.args)
        PROVE  ProcessedOf(e, kids) \in V
    <3>1. DOMAIN e.args = 1 .. Len(kids) /\ Len(kids) \in Nat
      BY <2>1, ExprFields
    <3>2. [i \in DOMAIN e.args |-> kids[i].pairs] \in Seq(PairList)
      <4>1. ASSUME NEW i \in 1 .. Len(kids) PROVE kids[i].pairs \in PairList
        <5>1. kids[i] \in Outcome
          BY ElementIn
        <5>. QED
          BY <5>1, Zenon DEF Outcome
      <4>. QED
        BY <3>1, <4>1
    <3>3. FlattenSeq([i \in DOMAIN e.args |-> kids[i].pairs]) \in PairList
      BY <3>2, FlattenPairs
    <3>. DEFINE all == e.args # <<>> /\ \A i \in DOMAIN e.args : kids[i].ok
                one == Applies(e) \/ (e.op = "in" /\ e.values = <<>>)
    <3>4. all \in BOOLEAN /\ one \in BOOLEAN /\ Pairs(e) \in PairList
      BY PairsAre
    <3>5. CASE e.op \in {"and", "or"}
      <4>1. ProcessedOf(e, kids)
              = [ok |-> all, pairs |-> FlattenSeq([i \in DOMAIN e.args |-> kids[i].pairs])]
        BY <3>5, Zenon DEF ProcessedOf
      <4>. HIDE DEF all
      <4>. QED
        BY <3>3, <3>4, <4>1, OutcomeIs
    <3>6. CASE e.op \in {"=", "in"}
      <4>1. e.op \notin {"and", "or"}
        BY <3>6
      <4>2. ProcessedOf(e, kids) = [ok |-> one, pairs |-> Pairs(e)]
        BY <3>6, <4>1, Zenon DEF ProcessedOf
      <4>. HIDE DEF one
      <4>. QED
        BY <3>4, <4>2, OutcomeIs
    <3>7. CASE e.op \notin {"and", "or"} /\ e.op \notin {"=", "in"}
      BY <1>1, <3>7, Zenon DEF ProcessedOf
    <3>. QED
      BY <3>5, <3>6, <3>7
  <2>. QED
    BY <1>1, <2>1
<1>. HIDE DEF V
<1>3. PICK f \in [Expr -> V] : ByTree(f, B)
  <2>. HIDE DEF B
  <2>. QED
    BY <1>1, <1>2, FilterRecursion
<1>4. ASSUME NEW e \in Expr
      PROVE  f[e] = ProcessedOf(e, [i \in DOMAIN e.args |-> f[e.args[i]]])
  <2>1. Under(f, e.args) \in Seq(V) /\ e.args \in Seq(Expr)
    BY ExprFields, UnderIs
  <2>2. Len(Under(f, e.args)) = Len(e.args)
    BY <2>1 DEF Under
  <2>3. f[e] = ProcessedOf(e, Under(f, e.args))
    BY <1>3, <2>1, <2>2 DEF ByTree
  <2>. QED
    BY <2>3 DEF Under
<1>5. Solves(f)
  <2>1. f = [e \in Expr |-> f[e]]
    OBVIOUS
  <2>2. \A e \in Expr : f[e] = ProcessedBy(f, e)
    BY <1>4, ProcessedByIs
  <2>. QED
    BY <2>1, <2>2, Zenon
<1>6. Processed = CHOOSE g : Solves(g)
  BY DEF Processed, ProcessedBy
<1>7. Solves(Processed)
  <2>. HIDE DEF Solves
  <2>. QED
    BY <1>5, <1>6
<1>8. \A e \in Expr : Processed[e] = ProcessedBy(Processed, e)
  BY <1>7, Zenon
<1>. QED
  BY <1>8, ProcessedByIs

\* The equation of Speaks.
SpeaksOf(e, kids) ==
  IF e.op \in {"=", "in"} THEN {e.prop} ELSE UNION {kids[i] : i \in DOMAIN e.args}

LEMMA SpeaksEq ==
  \A e \in Expr : Speaks[e] = SpeaksOf(e, [i \in DOMAIN e.args |-> Speaks[e.args[i]]])
<1>. DEFINE V == SUBSET STRING
            B == [x \in Expr \X Seq(V) |->
                    IF Len(x[2]) = Len(x[1].args) THEN SpeaksOf(x[1], x[2]) ELSE {}]
            Solves(f) == f = [e \in Expr |->
                                IF e.op \in {"=", "in"} THEN {e.prop}
                                ELSE UNION {f[e.args[i]] : i \in DOMAIN e.args}]
<1>1. {} \in V
  OBVIOUS
<1>2. B \in [Expr \X Seq(V) -> V]
  <2>1. ASSUME NEW e \in Expr, NEW kids \in Seq(V), Len(kids) = Len(e.args)
        PROVE  SpeaksOf(e, kids) \in V
    <3>1. DOMAIN e.args = 1 .. Len(kids) /\ e.prop \in STRING
      BY <2>1, ExprFields
    <3>2. \A i \in 1 .. Len(kids) : kids[i] \subseteq STRING
      OBVIOUS
    <3>. QED
      BY <3>1, <3>2 DEF SpeaksOf
  <2>. QED
    BY <1>1, <2>1
<1>. HIDE DEF V
<1>3. PICK f \in [Expr -> V] : ByTree(f, B)
  <2>. HIDE DEF B
  <2>. QED
    BY <1>1, <1>2, FilterRecursion
<1>4. ASSUME NEW e \in Expr
      PROVE  f[e] = SpeaksOf(e, [i \in DOMAIN e.args |-> f[e.args[i]]])
  <2>1. Under(f, e.args) \in Seq(V) /\ e.args \in Seq(Expr)
    BY ExprFields, UnderIs
  <2>2. Len(Under(f, e.args)) = Len(e.args)
    BY <2>1 DEF Under
  <2>3. f[e] = SpeaksOf(e, Under(f, e.args))
    BY <1>3, <2>1, <2>2 DEF ByTree
  <2>. QED
    BY <2>3 DEF Under
<1>5. Solves(f)
  <2>1. f = [e \in Expr |-> f[e]]
    OBVIOUS
  <2>2. ASSUME NEW e \in Expr
        PROVE  f[e] = IF e.op \in {"=", "in"} THEN {e.prop}
                      ELSE UNION {f[e.args[i]] : i \in DOMAIN e.args}
    BY <1>4, ZenonT(40) DEF SpeaksOf
  <2>. QED
    BY <2>1, <2>2, Zenon
<1>6. Speaks = CHOOSE g : Solves(g)
  BY DEF Speaks
<1>7. Solves(Speaks)
  <2>. HIDE DEF Solves
  <2>. QED
    BY <1>5, <1>6
<1>. QED
  BY <1>7 DEF SpeaksOf

-----------------------------------------------------------------------------
(* The two translations of a filter. *)

LEMMA ValuesAre ==
  ASSUME NEW pairs, NEW p, NEW v
  PROVE  v \in ValuesIn(pairs, p) <=> \E x \in ToSet(pairs) : x[1] = p /\ v = x[2]
  BY DEF ValuesIn, ToSet

\* The values in several lists of pairs together.
LEMMA FlattenValues ==
  ASSUME NEW ss \in Seq(PairList), NEW p, NEW v
  PROVE  v \in ValuesIn(FlattenSeq(ss), p) <=> \E i \in DOMAIN ss : v \in ValuesIn(ss[i], p)
<1>1. ToSet(FlattenSeq(ss)) = Elements(ss)
  BY FlattenElements DEF PairList
<1>2. \A x : x \in Elements(ss) <=> \E i \in DOMAIN ss : x \in ToSet(ss[i])
  BY DEF Elements
<1>. QED
  BY <1>1, <1>2, ValuesAre

\* The texts of a comparison are those of its pairs that are not empty.
LEMMA TextValues ==
  ASSUME NEW e \in Expr, NEW p, NEW v
  PROVE  v \in ValuesIn(Texts(e), p) <=> v \in ValuesIn(Pairs(e), p) /\ v # ""
<1>. DEFINE u == e.values
            q == e.prop
<1>1. u \in Seq(STRING)
  BY ExprFields
<1>. HIDE DEF u, q
<1>2. v \in ValuesIn(Pairs(e), p) <=> \E i \in DOMAIN u : q = p /\ v = u[i]
  <2>1. v \in ValuesIn([i \in DOMAIN u |-> <<q, u[i]>>], p)
          <=> \E i \in DOMAIN u : q = p /\ v = u[i]
    BY DEF ValuesIn
  <2>. QED
    BY <2>1 DEF Pairs, u, q
<1>3. ASSUME NEW i \in DOMAIN u
      PROVE  v \in ValuesIn(TextLists(e)[i], p) <=> q = p /\ v = u[i] /\ u[i] # ""
  <2>1. TextLists(e)[i] = IF u[i] = "" THEN <<>> ELSE << <<q, u[i]>> >>
    BY DEF TextLists, TextOf, u, q
  <2>2. v \notin ValuesIn(<<>>, p)
    BY DEF ValuesIn
  <2>3. ASSUME NEW w PROVE v \in ValuesIn(<< <<q, w>> >>, p) <=> q = p /\ v = w
    BY DEF ValuesIn
  <2>. QED
    BY <2>1, <2>2, <2>3
<1>4. DOMAIN TextLists(e) = DOMAIN u
  BY DEF TextLists, u
<1>5. v \in ValuesIn(Texts(e), p) <=> \E i \in DOMAIN u : v \in ValuesIn(TextLists(e)[i], p)
  BY <1>4, TextsAre, FlattenValues
<1>. QED
  BY <1>2, <1>3, <1>5

Directed(v) == Lower(v) \in {"ascending", "descending"}

\* What the two translations gather of an expression: the same texts, if the
\* strict one succeeds, but for empty ones, and only for properties that the
\* expression speaks of.  So it is with the strict one's orbit numbers; its orbit
\* states are of two words.
Agreeing(e) ==
  /\ Extracted[e] \in PairList /\ Processed[e] \in Outcome
  /\ Processed[e].ok =>
       \A p \in TextProps : \A v : /\ v \in ValuesIn(Extracted[e], p)
                                        <=> v \in ValuesIn(Processed[e].pairs, p) /\ v # ""
                                   /\ v \in ValuesIn(Extracted[e], p) => p \in Speaks[e]
  /\ \A p \in OrbitProps : ValuesIn(Processed[e].pairs, p) # {} => p \in Speaks[e]
  /\ Processed[e].ok => \A v \in ValuesIn(Processed[e].pairs, "sat:orbit_state") : Directed(v)

LEMMA AgreeingCompound ==
  ASSUME NEW e \in Expr, e.op \in {"and", "or"}, \A i \in DOMAIN e.args : Agreeing(e.args[i])
  PROVE  Agreeing(e)
<1>. DEFINE E == [i \in DOMAIN e.args |-> Extracted[e.args[i]]]
            P == [i \in DOMAIN e.args |-> Processed[e.args[i]].pairs]
            ok == e.args # <<>> /\ \A i \in DOMAIN e.args : Processed[e.args[i]].ok
            K == [i \in DOMAIN e.args |-> Processed[e.args[i]]]
<1>0. e.args \in Seq(Expr)
  BY ExprFields
<1>1. Extracted[e] = FlattenSeq(E)
  BY ExtractedEq, Zenon DEF ExtractedOf
<1>2. Processed[e] = [ok |-> ok, pairs |-> FlattenSeq(P)]
  <2>1. Processed[e] = ProcessedBy(Processed, e)
    BY ProcessedEq, ProcessedByIs, Zenon
  <2>. QED
    BY <2>1, Zenon DEF ProcessedBy
<1>3. \A i \in DOMAIN e.args : Speaks[e.args[i]] \subseteq Speaks[e]
  <2>1. Speaks[e] = UNION {Speaks[e.args[i]] : i \in DOMAIN e.args}
    <3>1. e.op \notin {"=", "in"}
      OBVIOUS
    <3>2. Speaks[e] = SpeaksOf(e, [i \in DOMAIN e.args |-> Speaks[e.args[i]]])
      BY SpeaksEq
    <3>. QED
      BY <3>1, <3>2 DEF SpeaksOf
  <2>. QED
    BY <2>1
<1>4. \A i \in DOMAIN e.args : /\ Extracted[e.args[i]] \in PairList
                               /\ Processed[e.args[i]].pairs \in PairList
  <2>1. ASSUME NEW r \in Outcome PROVE r.pairs \in PairList
    BY Zenon DEF Outcome
  <2>. QED
    BY <2>1 DEF Agreeing
<1>5. E \in Seq(PairList) /\ P \in Seq(PairList)
  BY <1>0, <1>4
<1>6. FlattenSeq(E) \in PairList /\ FlattenSeq(P) \in PairList
  BY <1>5, FlattenPairs
<1>7. ok \in BOOLEAN
  OBVIOUS
<1>8. DOMAIN E = DOMAIN e.args /\ DOMAIN P = DOMAIN e.args
  OBVIOUS
<1>9. \A i \in DOMAIN e.args : E[i] = Extracted[e.args[i]] /\ P[i] = Processed[e.args[i]].pairs
  OBVIOUS
<1>10. ok => \A i \in DOMAIN e.args : Processed[e.args[i]].ok
  OBVIOUS
<1>. HIDE DEF E, P, ok
<1>11. Processed[e] \in Outcome
  BY <1>2, <1>6, <1>7, OutcomeIs
<1>12. Processed[e].ok = ok /\ Processed[e].pairs = FlattenSeq(P)
  BY <1>2
<1>13. ASSUME ok, NEW p \in TextProps, NEW v
       PROVE  /\ v \in ValuesIn(Extracted[e], p)
                   <=> v \in ValuesIn(Processed[e].pairs, p) /\ v # ""
              /\ v \in ValuesIn(Extracted[e], p) => p \in Speaks[e]
  <2>1. \A i \in DOMAIN e.args : /\ v \in ValuesIn(E[i], p)
                                        <=> v \in ValuesIn(P[i], p) /\ v # ""
                                 /\ v \in ValuesIn(E[i], p) => p \in Speaks[e]
    BY <1>3, <1>9, <1>10, <1>13 DEF Agreeing
  <2>2. v \in ValuesIn(Extracted[e], p) <=> \E i \in DOMAIN e.args : v \in ValuesIn(E[i], p)
    BY <1>1, <1>5, <1>8, FlattenValues
  <2>3. v \in ValuesIn(Processed[e].pairs, p)
          <=> \E i \in DOMAIN e.args : v \in ValuesIn(P[i], p)
    BY <1>12, <1>5, <1>8, FlattenValues
  <2>. QED
    BY <2>1, <2>2, <2>3
<1>14. ASSUME NEW p \in OrbitProps, ValuesIn(Processed[e].pairs, p) # {}
       PROVE  p \in Speaks[e]
  <2>1. PICK v : v \in ValuesIn(Processed[e].pairs, p)
    BY <1>14
  <2>2. PICK i \in DOMAIN e.args : v \in ValuesIn(P[i], p)
    BY <2>1, <1>12, <1>5, <1>8, FlattenValues
  <2>3. p \in Speaks[e.args[i]]
    BY <2>2, <1>9 DEF Agreeing
  <2>. QED
    BY <1>3, <2>3
<1>15. ASSUME ok, NEW v \in ValuesIn(Processed[e].pairs, "sat:orbit_state") PROVE Directed(v)
  <2>1. PICK i \in DOMAIN e.args : v \in ValuesIn(P[i], "sat:orbit_state")
    BY <1>12, <1>5, <1>8, FlattenValues
  <2>. QED
    BY <2>1, <1>9, <1>10, <1>15 DEF Agreeing
<1>. QED
  BY <1>1, <1>6, <1>11, <1>12, <1>13, <1>14, <1>15 DEF Agreeing

\* One comparison: its pairs are of its property.
LEMMA AgreeingComparison ==
  ASSUME NEW e \in Expr, e.op \in {"=", "in"}
  PROVE  Agreeing(e)
<1>. DEFINE ok == Applies(e) \/ (e.op = "in" /\ e.values = <<>>)
<1>1. e.op \notin {"and", "or", "not"} /\ e.op \notin {"and", "or"}
  OBVIOUS
<1>2. Extracted[e] = IF e.numeric THEN <<>> ELSE Texts(e)
  <2>1. CASE e.numeric
    BY <1>1, <2>1, ExtractedEq, Zenon DEF ExtractedOf
  <2>2. CASE ~e.numeric
    BY <1>1, <2>2, ExtractedEq, Zenon DEF ExtractedOf
  <2>. QED
    BY <2>1, <2>2
<1>3. Processed[e] = [ok |-> ok, pairs |-> Pairs(e)]
  <2>1. Processed[e] = ProcessedBy(Processed, e)
    BY ProcessedEq, ProcessedByIs, Zenon
  <2>. QED
    BY <1>1, <2>1, Zenon DEF ProcessedBy
<1>4. Speaks[e] = {e.prop}
  BY SpeaksEq, Zenon DEF SpeaksOf
<1>5. Pairs(e) \in PairList /\ Texts(e) \in PairList /\ <<>> \in PairList
  <2>1. <<>> \in PairList
    BY DEF PairList
  <2>. QED
    BY <2>1, PairsAre, TextsAre
<1>6. ok \in BOOLEAN
  OBVIOUS
<1>7. \A p, v : v \in ValuesIn(Pairs(e), p) => p = e.prop /\ e.values # <<>>
  <2>. DEFINE u == e.values
              q == e.prop
  <2>1. u \in Seq(STRING)
    BY ExprFields
  <2>. HIDE DEF u, q
  <2>2. \A x \in ToSet([i \in DOMAIN u |-> <<q, u[i]>>]) : x[1] = q /\ u # <<>>
    BY <2>1 DEF ToSet
  <2>. QED
    BY <2>2, ValuesAre DEF Pairs, u, q
<1>8. \A p, v : v \notin ValuesIn(<<>>, p)
  BY DEF ValuesIn
<1>9. ok /\ e.numeric /\ e.values # <<>> => e.prop \notin TextProps
  BY DEF Applies, TextProps, OrbitProps
<1>10. ASSUME ok, NEW v \in ValuesIn(Pairs(e), "sat:orbit_state") PROVE Directed(v)
  <2>1. e.prop = "sat:orbit_state" /\ e.values # <<>>
    BY <1>7
  <2>2. \A w \in ToSet(e.values) : Directed(w)
    <3>1. Applies(e)
      BY <1>10, <2>1
    <3>. QED
      BY <2>1, <3>1 DEF Applies, OrbitProps, Directed
  <2>3. v \in ToSet(e.values)
    <3>. DEFINE u == e.values
                q == e.prop
    <3>1. v \in ValuesIn([i \in DOMAIN u |-> <<q, u[i]>>], "sat:orbit_state")
      BY DEF Pairs
    <3>. HIDE DEF u, q
    <3>2. v \in ToSet(u)
      BY <3>1 DEF ValuesIn, ToSet
    <3>. QED
      BY <3>2 DEF u
  <2>. QED
    BY <2>2, <2>3
<1>. HIDE DEF ok
<1>11. Processed[e] \in Outcome /\ Processed[e].ok = ok /\ Processed[e].pairs = Pairs(e)
  BY <1>3, <1>5, <1>6, OutcomeIs
<1>12. \A p : ValuesIn(Processed[e].pairs, p) # {} => p \in Speaks[e]
  BY <1>4, <1>7, <1>11
<1>13. ASSUME ok, NEW p \in TextProps, NEW v
       PROVE  /\ v \in ValuesIn(Extracted[e], p)
                   <=> v \in ValuesIn(Processed[e].pairs, p) /\ v # ""
              /\ v \in ValuesIn(Extracted[e], p) => p \in Speaks[e]
  <2>1. v \in ValuesIn(Pairs(e), p) => p = e.prop /\ p \in Speaks[e] /\ ~e.numeric
    BY <1>4, <1>7, <1>9, <1>13
  <2>2. CASE e.numeric
    <3>1. v \notin ValuesIn(Extracted[e], p) /\ v \notin ValuesIn(Pairs(e), p)
      BY <1>2, <1>8, <2>1, <2>2
    <3>. QED
      BY <1>11, <3>1
  <2>3. CASE ~e.numeric
    <3>1. v \in ValuesIn(Extracted[e], p) <=> v \in ValuesIn(Pairs(e), p) /\ v # ""
      BY <1>2, <2>3, TextValues
    <3>. QED
      BY <1>11, <2>1, <3>1
  <2>. QED
    BY <2>2, <2>3
<1>14. Extracted[e] \in PairList
  BY <1>2, <1>5
<1>. QED
  BY <1>10, <1>11, <1>12, <1>13, <1>14 DEF Agreeing

\* What the strict translation does not know.
LEMMA AgreeingOther ==
  ASSUME NEW e \in Expr, e.op \notin {"and", "or"}, e.op \notin {"=", "in"},
         \A i \in DOMAIN e.args : Agreeing(e.args[i])
  PROVE  Agreeing(e)
<1>1. <<>> \in PairList
  BY DEF PairList
<1>2. Extracted[e] \in PairList
  <2>1. CASE e.op \in {"and", "or", "not"}
    <3>1. Extracted[e] = FlattenSeq([i \in DOMAIN e.args |-> Extracted[e.args[i]]])
      BY <2>1, ExtractedEq, Zenon DEF ExtractedOf
    <3>2. [i \in DOMAIN e.args |-> Extracted[e.args[i]]] \in Seq(PairList)
      <4>1. e.args \in Seq(Expr)
        BY ExprFields
      <4>2. \A i \in DOMAIN e.args : Extracted[e.args[i]] \in PairList
        BY DEF Agreeing
      <4>. QED
        BY <4>1, <4>2
    <3>. QED
      BY <3>1, <3>2, FlattenPairs
  <2>2. CASE e.op \notin {"and", "or", "not"}
    BY <1>1, <2>2, ExtractedEq, Zenon DEF ExtractedOf
  <2>. QED
    BY <2>1, <2>2
<1>3. Processed[e] = [ok |-> FALSE, pairs |-> <<>>]
  <2>1. Processed[e] = ProcessedBy(Processed, e)
    BY ProcessedEq, ProcessedByIs, Zenon
  <2>. QED
    BY <2>1, Zenon DEF ProcessedBy
<1>4. Processed[e] \in Outcome /\ ~Processed[e].ok
  <2>. DEFINE no == FALSE
  <2>1. Processed[e] = [ok |-> no, pairs |-> <<>>] /\ no \in BOOLEAN /\ ~no
    BY <1>3
  <2>. HIDE DEF no
  <2>2. Processed[e].ok = no
    BY <2>1
  <2>. QED
    BY <1>1, <2>1, <2>2, OutcomeIs
<1>5. \A p : ValuesIn(Processed[e].pairs, p) = {}
  <2>1. Processed[e].pairs = <<>>
    BY <1>3
  <2>. QED
    BY <2>1 DEF ValuesIn
<1>. QED
  BY <1>2, <1>4, <1>5 DEF Agreeing

\* By induction over the depth of an expression.
LEMMA AllAgree == \A e \in Expr : Agreeing(e)
<1>. DEFINE Upto(n) == \A e \in Expr : Depth[e] < n => Agreeing(e)
            S == {n \in Nat : Upto(n)}
<1>1. \A e \in Expr : Depth[e] \in Nat
  BY FilterTree
<1>2. 0 \in S
  BY <1>1
<1>3. ASSUME NEW n \in Nat, Upto(n) PROVE Upto(n + 1)
  <2>. SUFFICES ASSUME NEW e \in Expr, Depth[e] < n + 1 PROVE Agreeing(e)
    OBVIOUS
  <2>1. \A i \in DOMAIN e.args : Agreeing(e.args[i])
    <3>. SUFFICES ASSUME NEW i \in DOMAIN e.args PROVE Agreeing(e.args[i])
      OBVIOUS
    <3>1. e.args[i] \in Expr /\ Depth[e.args[i]] < Depth[e]
      BY ExprFields
    <3>2. Depth[e.args[i]] < n
      BY <1>1, <3>1
    <3>. QED
      BY <1>3, <3>1, <3>2
  <2>. QED
    BY <2>1, AgreeingCompound, AgreeingComparison, AgreeingOther
<1>4. Nat \subseteq S
  <2>1. \A n \in Nat : n \in S => n + 1 \in S
    <3>. HIDE DEF Upto
    <3>. QED
      BY <1>3
  <2>. HIDE DEF S
  <2>. QED
    BY <1>2, <2>1, Induction
<1>. SUFFICES ASSUME NEW e \in Expr PROVE Agreeing(e)
  OBVIOUS
<1>5. Depth[e] + 1 \in Nat /\ Depth[e] < Depth[e] + 1
  BY <1>1
<1>6. Upto(Depth[e] + 1)
  <2>. HIDE DEF Upto
  <2>. QED
    BY <1>4, <1>5
<1>. QED
  BY <1>5, <1>6

\* The first orbit state is a value of the property.
LEMMA FirstIsValue ==
  ASSUME NEW pairs \in PairList
  PROVE  /\ ValuesIn(pairs, "sat:orbit_state") = {} => FirstState(pairs) = ""
         /\ ValuesIn(pairs, "sat:orbit_state") # {} =>
              FirstState(pairs) \in ValuesIn(pairs, "sat:orbit_state")
<1>. DEFINE D == StatesAt(pairs)
            X == ValuesIn(pairs, "sat:orbit_state")
<1>1. X = {pairs[i][2] : i \in D}
  BY DEF ValuesIn, StatesAt
<1>2. D \subseteq 1 .. Len(pairs) /\ Len(pairs) \in Nat
  BY DEF StatesAt, PairList
<1>3. D # {} => Min(D) \in D
  <2>. HIDE DEF D
  <2>1. D \in SUBSET Int
    BY <1>2
  <2>2. Among(D, Len(pairs))
    <3>1. \A d \in D : \E i \in 1 .. Len(pairs) : d = [j \in 1 .. Len(pairs) |-> j][i]
      BY <1>2
    <3>. QED
      BY <3>1 DEF Among
  <2>3. D # {} => \E m \in D : \A d \in D : m <= d
    BY <1>2, <2>1, <2>2, HasLowest
  <2>. QED
    BY <2>3 DEF Min
<1>4. FirstState(pairs) = IF D = {} THEN "" ELSE pairs[Min(D)][2]
  BY DEF FirstState
<1>. HIDE DEF D
<1>. QED
  BY <1>1, <1>3, <1>4

LEMMA NoEmptyValue ==
  ASSUME NEW pairs, \A pair \in ToSet(pairs) : pair[2] # ""
  PROVE  \A p, v : v \in ValuesIn(pairs, p) => v # ""
  BY DEF ValuesIn, ToSet

\* The fields of the parameters.
LEMMA ParamFields ==
  ASSUME NEW mode, NEW pols, NEW direction, NEW levels, NEW names, NEW relative, NEW absolute,
         NEW f, f = FilterParams(mode, pols, direction, levels, names, relative, absolute)
  PROVE  /\ f.beamMode = mode
         /\ f.polarization = pols
         /\ f.direction = direction
         /\ f.level = levels
         /\ f.platform = names
         /\ f.relativeOrbit = relative
         /\ f.absoluteOrbit = absolute
  BY DEF FilterParams

\* What the service sends of a filter.
LEMMA SentFields ==
  ASSUME NEW e, e # NoFilter
  PROVE  LET E == Extracted[e]
             f == ExtractFilterParams(e)
             types == ValuesIn(E, "sar:product_type")
         IN  /\ f.beamMode = ValuesIn(E, "sar:instrument_mode")
             /\ f.polarization = ValuesIn(E, "sar:polarizations")
             /\ f.direction = FirstState(E)
             /\ f.level = IF types # {} THEN types ELSE ValuesIn(E, "processing:level")
             /\ f.platform = {NormalPlatform(p) : p \in ValuesIn(E, "platform")}
             /\ f.relativeOrbit = {} /\ f.absoluteOrbit = {}
<1>. DEFINE E == Extracted[e]
            mode == ValuesIn(E, "sar:instrument_mode")
            pols == ValuesIn(E, "sar:polarizations")
            types == ValuesIn(E, "sar:product_type")
            direction == FirstState(E)
            levels == IF types # {} THEN types ELSE ValuesIn(E, "processing:level")
            names == {NormalPlatform(p) : p \in ValuesIn(E, "platform")}
            none == {}
<1>1. ExtractFilterParams(e) = FilterParams(mode, pols, direction, levels, names, none, none)
  BY Zenon DEF ExtractFilterParams
<1>. HIDE DEF E, mode, pols, types, direction, levels, names, none
<1>2. LET f == ExtractFilterParams(e)
      IN  /\ f.beamMode = mode /\ f.polarization = pols /\ f.direction = direction
          /\ f.level = levels /\ f.platform = names
          /\ f.relativeOrbit = none /\ f.absoluteOrbit = none
  BY <1>1, ParamFields
<1>. QED
  BY <1>2, Zenon DEF E, mode, pols, types, direction, levels, names, none

\* What the strict translation makes of a filter.
LEMMA StrictFields ==
  ASSUME NEW e
  PROVE  LET P == Processed[e].pairs
             f == TranslateCQL2Filter(e)
         IN  /\ f.beamMode = ValuesIn(P, "sar:instrument_mode")
             /\ f.polarization = ValuesIn(P, "sar:polarizations")
             /\ f.direction = FlightDirection(ValuesIn(P, "sat:orbit_state"))
             /\ f.level = ValuesIn(P, "sar:product_type") \cup ValuesIn(P, "processing:level")
             /\ f.platform = ValuesIn(P, "platform")
             /\ f.relativeOrbit = ValuesIn(P, "sat:relative_orbit")
             /\ f.absoluteOrbit = ValuesIn(P, "sat:absolute_orbit")
<1>. DEFINE P == Processed[e].pairs
            mode == ValuesIn(P, "sar:instrument_mode")
            pols == ValuesIn(P, "sar:polarizations")
            direction == FlightDirection(ValuesIn(P, "sat:orbit_state"))
            levels == ValuesIn(P, "sar:product_type") \cup ValuesIn(P, "processing:level")
            names == ValuesIn(P, "platform")
            relative == ValuesIn(P, "sat:relative_orbit")
            absolute == ValuesIn(P, "sat:absolute_orbit")
<1>1. TranslateCQL2Filter(e)
        = FilterParams(mode, pols, direction, levels, names, relative, absolute)
  BY Zenon DEF TranslateCQL2Filter
<1>. HIDE DEF P, mode, pols, direction, levels, names, relative, absolute
<1>2. LET f == TranslateCQL2Filter(e)
      IN  /\ f.beamMode = mode /\ f.polarization = pols /\ f.direction = direction
          /\ f.level = levels /\ f.platform = names
          /\ f.relativeOrbit = relative /\ f.absoluteOrbit = absolute
  BY <1>1, ParamFields
<1>. QED
  BY <1>2, Zenon DEF P, mode, pols, direction, levels, names, relative, absolute

\* The direction of the states of a filter that the strict translation accepts.
LEMMA StrictDirection ==
  ASSUME NEW X, NEW d, (X = {} /\ d = "") \/ (d \in X /\ d # ""),
         \A s \in X : Lower(s) \in {"ascending", "descending"},
         \A s, t \in X : Lower(s) = Lower(t)
  PROVE  /\ d = "" <=> FlightDirection(X) = ""
         /\ Lower(d) = Lower(FlightDirection(X))
<1>1. CASE X = {}
  BY <1>1, Zenon DEF FlightDirection
<1>2. CASE X # {}
  <2>1. d \in X /\ d # ""
    BY <1>2
  <2>2. CASE Lower(d) = "ascending"
    <3>1. FlightDirection(X) = "ASCENDING"
      BY <1>2, <2>1, <2>2, Zenon DEF FlightDirection
    <3>. QED
      BY <2>1, <2>2, <3>1, LowerAssumption
  <2>3. CASE Lower(d) = "descending"
    <3>1. ~\E s \in X : Lower(s) = "ascending"
      BY <2>1, <2>3
    <3>2. FlightDirection(X) = "DESCENDING"
      BY <1>2, <3>1, Zenon DEF FlightDirection
    <3>. QED
      BY <2>1, <2>3, <3>2, LowerAssumption
  <2>. QED
    BY <2>1, <2>2, <2>3
<1>. QED
  BY <1>1, <1>2

LEMMA OutcomeOk ==
  ASSUME NEW ok, NEW pairs
  PROVE  [ok |-> ok, pairs |-> pairs].ok = ok
  OBVIOUS

\* The parameters of a filter that the strict translation accepts, that names one
\* kind of level at most and holds no empty text.
LEMMA ParametersAgree ==
  ASSUME NEW e \in Expr, Translates(e),
         ~({"processing:level", "sar:product_type"} \subseteq Speaks[e]),
         \A pair \in ToSet(Processed[e].pairs) : pair[2] # "",
         NEW sent, sent = ExtractFilterParams(e), NEW strict, strict = TranslateCQL2Filter(e)
  PROVE  /\ SameText(sent, strict)
         /\ OrbitProps \cap Speaks[e] = {} => SameOrbits(sent, strict)
<1>. DEFINE E == Extracted[e]
            P == Processed[e].pairs
            X == ValuesIn(P, "sat:orbit_state")
            t == ValuesIn(P, "sar:product_type")
            l == ValuesIn(P, "processing:level")
            levels == t \cup l
            direction == FlightDirection(X)
            mode == ValuesIn(P, "sar:instrument_mode")
            pols == ValuesIn(P, "sar:polarizations")
            flown == ValuesIn(P, "platform")
            relative == ValuesIn(P, "sat:relative_orbit")
            absolute == ValuesIn(P, "sat:absolute_orbit")
<1>1. Agreeing(e) /\ Processed[e].ok
  BY AllAgree DEF Translates
<1>2. \A p \in TextProps : ValuesIn(E, p) = ValuesIn(P, p)
  <2>1. \A p, v : v \in ValuesIn(P, p) => v # ""
    BY NoEmptyValue
  <2>. QED
    BY <1>1, <2>1 DEF Agreeing
<1>3. \A p \in TextProps : ValuesIn(E, p) # {} => p \in Speaks[e]
  BY <1>1 DEF Agreeing
<1>4. /\ FirstState(E) = "" <=> direction = ""
      /\ Lower(FirstState(E)) = Lower(direction)
  <2>1. E \in PairList
    BY <1>1 DEF Agreeing
  <2>2. ValuesIn(E, "sat:orbit_state") = X
    BY <1>2 DEF TextProps
  <2>3. \A s, d \in X : Lower(s) = Lower(d)
    BY DEF Translates
  <2>4. \A v \in X : Lower(v) \in {"ascending", "descending"} /\ v # ""
    BY <1>1, NoEmptyValue DEF Agreeing, Directed
  <2>. HIDE DEF E, X
  <2>5. /\ X = {} => FirstState(E) = ""
        /\ X # {} => FirstState(E) \in X
    BY <2>1, <2>2, FirstIsValue
  <2>6. (X = {} /\ FirstState(E) = "") \/ (FirstState(E) \in X /\ FirstState(E) # "")
    BY <2>4, <2>5
  <2>. QED
    BY <2>3, <2>4, <2>6, StrictDirection
<1>5. t = {} \/ l = {}
  BY <1>2, <1>3 DEF TextProps
<1>6. e # NoFilter
  <2>. SUFFICES ASSUME e = NoFilter PROVE FALSE
    OBVIOUS
  <2>1. e.op = "and" /\ e.args = <<>>
    BY Zenon DEF NoFilter, Compound
  <2>2. Processed[e] = ProcessedBy(Processed, e)
    BY ProcessedEq, ProcessedByIs, Zenon
  <2>. DEFINE ok == e.args # <<>> /\ \A i \in DOMAIN e.args : Processed[e.args[i]].ok
              pairs == FlattenSeq([i \in DOMAIN e.args |-> Processed[e.args[i]].pairs])
  <2>3. Processed[e] = [ok |-> ok, pairs |-> pairs]
    BY <2>1, <2>2, Zenon DEF ProcessedBy
  <2>4. ~ok
    BY <2>1
  <2>5. ok \in BOOLEAN
    OBVIOUS
  <2>. HIDE DEF ok, pairs
  <2>6. Processed[e].ok = ok
    BY <2>3, OutcomeOk, Zenon
  <2>. QED
    BY <1>1, <2>4, <2>6
<1>7. /\ sent.beamMode = mode
      /\ sent.polarization = pols
      /\ sent.direction = FirstState(E)
      /\ sent.level = IF t # {} THEN t ELSE l
      /\ sent.platform = {NormalPlatform(p) : p \in flown}
      /\ sent.relativeOrbit = {} /\ sent.absoluteOrbit = {}
  <2>1. /\ ValuesIn(E, "sar:instrument_mode") = mode /\ ValuesIn(E, "sar:polarizations") = pols
        /\ ValuesIn(E, "platform") = flown /\ ValuesIn(E, "sar:product_type") = t
        /\ ValuesIn(E, "processing:level") = l
    BY <1>2 DEF TextProps
  <2>. HIDE DEF mode, pols, flown, t, l
  <2>2. LET f == ExtractFilterParams(e)
            types == ValuesIn(E, "sar:product_type")
        IN  /\ f.beamMode = ValuesIn(E, "sar:instrument_mode")
            /\ f.polarization = ValuesIn(E, "sar:polarizations")
            /\ f.direction = FirstState(E)
            /\ f.level = IF types # {} THEN types ELSE ValuesIn(E, "processing:level")
            /\ f.platform = {NormalPlatform(p) : p \in ValuesIn(E, "platform")}
            /\ f.relativeOrbit = {} /\ f.absoluteOrbit = {}
    BY <1>6, SentFields, Zenon
  <2>. QED
    BY <2>1, <2>2, Zenon
<1>8. /\ strict.beamMode = mode /\ strict.polarization = pols /\ strict.direction = direction
      /\ strict.level = levels /\ strict.platform = flown
      /\ strict.relativeOrbit = relative /\ strict.absoluteOrbit = absolute
  BY StrictFields, Zenon
<1>9. OrbitProps \cap Speaks[e] = {} => relative = {} /\ absolute = {}
  BY <1>1 DEF Agreeing, OrbitProps
<1>. HIDE DEF E, P, mode, pols, flown, direction, levels, X, relative, absolute, t, l
<1>10. sent.level = strict.level
  <2>1. levels = IF t # {} THEN t ELSE l
    BY <1>5 DEF levels
  <2>. QED
    BY <1>7, <1>8, <2>1, Zenon
<1>11. SameText(sent, strict)
  BY <1>4, <1>7, <1>8, <1>10, Zenon DEF SameText
<1>12. OrbitProps \cap Speaks[e] = {} => SameOrbits(sent, strict)
  BY <1>7, <1>8, <1>9, Zenon DEF SameOrbits
<1>. QED
  BY <1>11, <1>12

\* The two translations of the searched filter send the same parameters, but for
\* the orbit numbers that the service drops.
THEOREM TranslationsAgree == Spec => []TranslatorsAgree
<1>1. IInv => TranslatorsAgree
  <2>. SUFFICES ASSUME IInv PROVE TranslatorsAgree
    OBVIOUS
  <2>1. query.filter \in Expr
    <3>1. CASE query \in Queries
      BY <3>1, CatalogueAssumption
    <3>2. CASE query = NoQuery
      <4>1. NoQuery.filter = NoFilter
        BY DEF NoQuery, All
      <4>. QED
        BY <3>2, <4>1, ExprAssumption, Zenon
    <3>. QED
      BY <3>1, <3>2 DEF IInv, TypeOK
  <2>. QED
    BY <2>1, ParametersAgree, Zenon DEF TranslatorsAgree
<1>. QED
  BY <1>1, CatalogueInvariant, PTL

-----------------------------------------------------------------------------
(* What a filter describes, and what its parameters ask for. *)

\* The equation of Described.
DescribedOf(e, kids) ==
  CASE e.op = "and" -> {g \in Granule : \A i \in DOMAIN e.args : g \in kids[i]}
    [] e.op = "or"  -> {g \in Granule : \E i \in DOMAIN e.args : g \in kids[i]}
    [] e.op = "not" -> Granule \ kids[1]
    [] OTHER        -> {g \in Granule : Shows(g, e.prop) \cap ToSet(e.values) # {}}
DescribedBy(f, e) ==
  CASE e.op = "and" -> {g \in Granule : \A i \in DOMAIN e.args : g \in f[e.args[i]]}
    [] e.op = "or"  -> {g \in Granule : \E i \in DOMAIN e.args : g \in f[e.args[i]]}
    [] e.op = "not" -> Granule \ f[e.args[1]]
    [] OTHER        -> {g \in Granule : Shows(g, e.prop) \cap ToSet(e.values) # {}}

LEMMA DescribedByIs ==
  ASSUME NEW f, NEW e \in Expr
  PROVE  DescribedBy(f, e) = DescribedOf(e, Under(f, e.args))
<1>. DEFINE kids == Under(f, e.args)
<1>1. \A i \in DOMAIN e.args : kids[i] = f[e.args[i]]
  BY DEF Under
<1>2. e.op = "not" => kids[1] = f[e.args[1]]
  <2>1. e.args \in Seq(Expr) /\ (e.op = "not" => Len(e.args) = 1)
    BY ExprAssumption
  <2>2. e.op = "not" => 1 \in DOMAIN e.args
    BY <2>1
  <2>. QED
    BY <1>1, <2>2
<1>3. /\ {g \in Granule : \A i \in DOMAIN e.args : g \in kids[i]}
           = {g \in Granule : \A i \in DOMAIN e.args : g \in f[e.args[i]]}
      /\ {g \in Granule : \E i \in DOMAIN e.args : g \in kids[i]}
           = {g \in Granule : \E i \in DOMAIN e.args : g \in f[e.args[i]]}
  <2>. HIDE DEF kids
  <2>. QED
    BY <1>1
<1>. HIDE DEF kids
<1>4. CASE e.op = "not"
  <2>1. e.op # "and" /\ e.op # "or"
    BY <1>4
  <2>. QED
    BY <1>2, <1>4, <2>1, Zenon DEF DescribedBy, DescribedOf, kids
<1>5. CASE e.op # "not"
  BY <1>3, <1>5, Zenon DEF DescribedBy, DescribedOf, kids
<1>. QED
  BY <1>4, <1>5

LEMMA DescribedEq ==
  \A e \in Expr : Described[e] = DescribedBy(Described, e) /\ Described[e] \subseteq Granule
<1>. DEFINE V == SUBSET Granule
            B == [x \in Expr \X Seq(V) |-> DescribedOf(x[1], x[2])]
            Solves(f) == f = [e \in Expr |-> DescribedBy(f, e)]
<1>1. {} \in V
  OBVIOUS
<1>2. \A e, kids : DescribedOf(e, kids) \in V
  <2>. SUFFICES ASSUME NEW e, NEW kids PROVE DescribedOf(e, kids) \subseteq Granule
    OBVIOUS
  <2>1. CASE e.op = "and" \/ e.op = "or" \/ e.op = "not"
    BY <2>1, Zenon DEF DescribedOf
  <2>2. CASE ~(e.op = "and" \/ e.op = "or" \/ e.op = "not")
    BY <2>2, Zenon DEF DescribedOf
  <2>. QED
    BY <2>1, <2>2
<1>. HIDE DEF V
<1>3. B \in [Expr \X Seq(V) -> V]
  BY <1>2
<1>4. PICK f \in [Expr -> V] : ByTree(f, B)
  <2>. HIDE DEF B
  <2>. QED
    BY <1>1, <1>3, FilterRecursion
<1>5. ASSUME NEW e \in Expr PROVE f[e] = DescribedBy(f, e)
  <2>1. Under(f, e.args) \in Seq(V)
    BY ExprFields, UnderIs
  <2>2. f[e] = DescribedOf(e, Under(f, e.args))
    BY <1>4, <2>1 DEF ByTree
  <2>. QED
    BY <2>2, DescribedByIs
<1>6. Solves(f)
  <2>1. f = [e \in Expr |-> f[e]]
    OBVIOUS
  <2>. QED
    BY <1>5, <2>1, Zenon
<1>7. Described = CHOOSE h : Solves(h)
  BY DEF Described, DescribedBy
<1>8. Solves(Described)
  <2>. HIDE DEF Solves
  <2>. QED
    BY <1>6, <1>7
<1>9. \A e \in Expr : Described[e] = DescribedBy(Described, e)
  BY <1>8, Zenon
<1>. QED
  BY <1>2, <1>9, DescribedByIs DEF V

\* An item shows one of the values that a list of pairs has for a property.
Shown(g, pairs, p) == \E v \in ValuesIn(pairs, p) : v \in Shows(g, p)

\* A comparison with texts.
Textual(c) == c.op \in {"=", "in"} /\ ~c.numeric /\ c.values # <<>> /\ "" \notin ToSet(c.values)

LEMMA ComparisonMeans ==
  ASSUME NEW c \in Expr, Textual(c)
  PROVE  /\ Speaks[c] = {c.prop}
         /\ \A p : \A v : v \in ValuesIn(Extracted[c], p) <=> p = c.prop /\ v \in ToSet(c.values)
         /\ \A g \in Granule : g \in Described[c] <=> Shown(g, Extracted[c], c.prop)
<1>. DEFINE u == c.values
            q == c.prop
<1>1. c.op \notin {"and", "or", "not"} /\ c.op # "and" /\ c.op # "or" /\ c.op # "not"
  BY DEF Textual
<1>2. Speaks[c] = {q}
  BY SpeaksEq, Zenon DEF SpeaksOf, Textual
<1>3. Extracted[c] = Texts(c)
  BY <1>1, ExtractedEq, Zenon DEF ExtractedOf, Textual
<1>4. Described[c] = {g \in Granule : Shows(g, q) \cap ToSet(u) # {}}
  <2>1. Described[c] = DescribedBy(Described, c)
    BY DescribedEq
  <2>. QED
    BY <1>1, <2>1, Zenon DEF DescribedBy
<1>5. u \in Seq(STRING) /\ "" \notin ToSet(u)
  BY ExprFields DEF Textual
<1>6. \A p, v : v \in ValuesIn(Pairs(c), p) <=> p = q /\ v \in ToSet(u)
  <2>. HIDE DEF u, q
  <2>1. \A p, v : v \in ValuesIn([i \in DOMAIN u |-> <<q, u[i]>>], p) <=> p = q /\ v \in ToSet(u)
    BY DEF ValuesIn, ToSet
  <2>. QED
    BY <2>1 DEF Pairs, u, q
<1>7. \A p, v : v \in ValuesIn(Extracted[c], p) <=> p = q /\ v \in ToSet(u)
  BY <1>3, <1>5, <1>6, TextValues
<1>. HIDE DEF u, q
<1>8. \A g \in Granule : g \in Described[c] <=> \E v \in ToSet(u) : v \in Shows(g, q)
  BY <1>4
<1>. QED
  BY <1>2, <1>7, <1>8 DEF Shown, u, q

\* A clause is about one property: it describes the items that show one of its
\* texts for it.
ClauseOf(c, p) ==
  /\ p \in TextProps /\ Speaks[c] = {p}
  /\ \A g \in Granule : g \in Described[c] <=> Shown(g, Extracted[c], p)
  /\ \E v : v \in ValuesIn(Extracted[c], p)
  /\ \A o, v : v \in ValuesIn(Extracted[c], o) => o = p /\ v # ""

LEMMA FirstElement ==
  ASSUME NEW S, NEW u \in Seq(S), u # <<>>
  PROVE  u[1] \in ToSet(u)
  BY DEF ToSet

LEMMA TextualClause ==
  ASSUME NEW a \in Expr, Textual(a), a.prop \in TextProps
  PROVE  ClauseOf(a, a.prop)
<1>. DEFINE u == a.values
            q == a.prop
<1>1. u \in Seq(STRING) /\ u # <<>> /\ "" \notin ToSet(u)
  BY ExprFields DEF Textual
<1>2. /\ Speaks[a] = {q}
      /\ \A p : \A v : v \in ValuesIn(Extracted[a], p) <=> p = q /\ v \in ToSet(u)
      /\ \A g \in Granule : g \in Described[a] <=> Shown(g, Extracted[a], q)
  BY ComparisonMeans, Zenon
<1>. HIDE DEF u
<1>3. u[1] \in ToSet(u)
  BY <1>1, FirstElement
<1>. HIDE DEF q
<1>4. q \in TextProps
  BY DEF q
<1>5. ClauseOf(a, q)
  <2>1. \E v : v \in ValuesIn(Extracted[a], q)
    BY <1>2, <1>3
  <2>2. \A o, v : v \in ValuesIn(Extracted[a], o) => o = q /\ v # ""
    BY <1>1, <1>2
  <2>. QED
    BY <1>2, <1>4, <2>1, <2>2, Zenon DEF ClauseOf
<1>. QED
  BY <1>5 DEF q

LEMMA ClauseMeans == ASSUME NEW c \in Expr, Clause(c) PROVE \E p : ClauseOf(c, p)
<1>1. PICK p \in TextProps : Speaks[c] = {p}
  BY DEF Clause
<1>2. CASE c.op # "or"
  <2>1. Textual(c)
    BY <1>2 DEF Clause, Comparisons, Textual
  <2>2. c.prop = p
    BY <1>1, <2>1, ComparisonMeans
  <2>3. ClauseOf(c, c.prop)
    BY <1>1, <2>1, <2>2, TextualClause
  <2>. QED
    BY <2>3
<1>3. CASE c.op = "or"
  <2>0. c.args \in Seq(Expr) /\ \A i \in DOMAIN c.args : c.args[i] \in Expr
    BY ExprFields
  <2>1. \A i \in DOMAIN c.args : Textual(c.args[i])
    <3>1. \A i \in DOMAIN c.args : c.args[i] \in Comparisons(c)
      BY <1>3 DEF Comparisons, ToSet
    <3>. QED
      BY <3>1 DEF Clause, Textual
  <2>2. Speaks[c] = UNION {Speaks[c.args[i]] : i \in DOMAIN c.args}
    <3>1. c.op \notin {"=", "in"}
      BY <1>3
    <3>2. Speaks[c] = SpeaksOf(c, [i \in DOMAIN c.args |-> Speaks[c.args[i]]])
      BY SpeaksEq
    <3>. QED
      BY <3>1, <3>2 DEF SpeaksOf
  <2>3. \A i \in DOMAIN c.args : c.args[i].prop = p
    <3>. SUFFICES ASSUME NEW i \in DOMAIN c.args PROVE c.args[i].prop = p
      OBVIOUS
    <3>1. Speaks[c.args[i]] = {c.args[i].prop}
      BY <2>0, <2>1, ComparisonMeans, Zenon
    <3>2. Speaks[c.args[i]] \subseteq {p}
      BY <1>1, <2>2
    <3>. QED
      BY <3>1, <3>2
  <2>4. \E i : i \in DOMAIN c.args
    BY <1>1, <2>2
  <2>. DEFINE E == [i \in DOMAIN c.args |-> Extracted[c.args[i]]]
  <2>5. Extracted[c] = FlattenSeq(E)
    BY <1>3, ExtractedEq, Zenon DEF ExtractedOf
  <2>6. E \in Seq(PairList) /\ DOMAIN E = DOMAIN c.args
        /\ \A i \in DOMAIN c.args : E[i] = Extracted[c.args[i]]
    <3>1. \A i \in DOMAIN c.args : Extracted[c.args[i]] \in PairList
      BY <2>0, AllAgree DEF Agreeing
    <3>. QED
      BY <2>0, <3>1
  <2>. HIDE DEF E
  <2>7. \A o, v : v \in ValuesIn(Extracted[c], o)
                    <=> \E i \in DOMAIN c.args : v \in ValuesIn(Extracted[c.args[i]], o)
    BY <2>5, <2>6, FlattenValues
  <2>8. \A g \in Granule : g \in Described[c] <=> \E i \in DOMAIN c.args : g \in Described[c.args[i]]
    <3>1. Described[c] = DescribedBy(Described, c)
      BY DescribedEq
    <3>2. c.op # "and" /\ c.op # "not"
      BY <1>3
    <3>3. Described[c] = {g \in Granule : \E i \in DOMAIN c.args : g \in Described[c.args[i]]}
      BY <1>3, <3>1, <3>2, Zenon DEF DescribedBy
    <3>. QED
      BY <3>3
  <2>9. \A i \in DOMAIN c.args : ClauseOf(c.args[i], p)
    <3>. SUFFICES ASSUME NEW i \in DOMAIN c.args PROVE ClauseOf(c.args[i], p)
      OBVIOUS
    <3>1. c.args[i] \in Expr /\ Textual(c.args[i]) /\ c.args[i].prop = p
      BY <2>0, <2>1, <2>3
    <3>. QED
      BY <1>1, <3>1, TextualClause, Zenon
  <2>10. \A g \in Granule : g \in Described[c] <=> Shown(g, Extracted[c], p)
    BY <2>7, <2>8, <2>9 DEF ClauseOf, Shown
  <2>11. /\ \E v : v \in ValuesIn(Extracted[c], p)
         /\ \A o, v : v \in ValuesIn(Extracted[c], o) => o = p /\ v # ""
    BY <2>4, <2>7, <2>9 DEF ClauseOf
  <2>12. ClauseOf(c, p)
    BY <1>1, <2>10, <2>11 DEF ClauseOf
  <2>. QED
    BY <2>12
<1>. QED
  BY <1>2, <1>3

\* A conjunction of clauses describes the items that show one of the texts of
\* each property that has any.
Shaping(e) ==
  /\ \A g \in Granule : g \in Described[e] <=>
       \A p \in TextProps : ValuesIn(Extracted[e], p) = {} \/ Shown(g, Extracted[e], p)
  /\ \A p, v : v \in ValuesIn(Extracted[e], p) => v # "" /\ p \in Speaks[e]

LEMMA ConjunctionMeans == ASSUME NEW e \in Expr, Conjunctive(e) PROVE Shaping(e)
<1>1. CASE e.op # "and"
  <2>1. Clause(e)
    BY <1>1 DEF Conjunctive, Conjuncts
  <2>2. PICK p : ClauseOf(e, p)
    BY <2>1, ClauseMeans
  <2>. QED
    BY <2>2 DEF ClauseOf, Shaping, Shown
<1>2. CASE e.op = "and"
  <2>1. e.args \in Seq(Expr) /\ \A i \in DOMAIN e.args : e.args[i] \in Expr
    BY ExprFields
  <2>2. \A i \in DOMAIN e.args : e.args[i] \in Conjuncts(e)
    BY <1>2 DEF Conjuncts, ToSet
  <2>. DEFINE E == [i \in DOMAIN e.args |-> Extracted[e.args[i]]]
              about == [i \in DOMAIN e.args |-> CHOOSE p : ClauseOf(e.args[i], p)]
  <2>3. \A i \in DOMAIN e.args : ClauseOf(e.args[i], about[i])
    <3>. SUFFICES ASSUME NEW i \in DOMAIN e.args PROVE ClauseOf(e.args[i], about[i])
      OBVIOUS
    <3>1. \E p : ClauseOf(e.args[i], p)
      BY <2>1, <2>2, ClauseMeans DEF Conjunctive
    <3>. QED
      BY <3>1
  <2>4. \A i, j \in DOMAIN e.args : about[i] = about[j] => e.args[i] = e.args[j]
    <3>. SUFFICES ASSUME NEW i \in DOMAIN e.args, NEW j \in DOMAIN e.args, about[i] = about[j],
                         e.args[i] # e.args[j]
                  PROVE  FALSE
      OBVIOUS
    <3>. HIDE DEF about
    <3>1. Speaks[e.args[i]] \cap Speaks[e.args[j]] = {}
      BY <2>2 DEF Conjunctive
    <3>. QED
      BY <2>3, <3>1 DEF ClauseOf
  <2>5. Extracted[e] = FlattenSeq(E)
    BY <1>2, ExtractedEq, Zenon DEF ExtractedOf
  <2>6. E \in Seq(PairList) /\ DOMAIN E = DOMAIN e.args
        /\ \A i \in DOMAIN e.args : E[i] = Extracted[e.args[i]]
    <3>1. \A i \in DOMAIN e.args : Extracted[e.args[i]] \in PairList
      BY <2>1, AllAgree DEF Agreeing
    <3>. QED
      BY <2>1, <3>1
  <2>. HIDE DEF E, about
  <2>7. \A o, v : v \in ValuesIn(Extracted[e], o)
                    <=> \E i \in DOMAIN e.args : v \in ValuesIn(Extracted[e.args[i]], o)
    BY <2>5, <2>6, FlattenValues
  <2>8. \A g \in Granule : g \in Described[e] <=> \A i \in DOMAIN e.args : g \in Described[e.args[i]]
    <3>1. Described[e] = DescribedBy(Described, e)
      BY DescribedEq
    <3>2. e.op # "or" /\ e.op # "not"
      BY <1>2
    <3>3. Described[e] = {g \in Granule : \A i \in DOMAIN e.args : g \in Described[e.args[i]]}
      BY <1>2, <3>1, <3>2, Zenon DEF DescribedBy
    <3>. QED
      BY <3>3
  <2>9. \A i \in DOMAIN e.args : \A v :
          v \in ValuesIn(Extracted[e], about[i]) <=> v \in ValuesIn(Extracted[e.args[i]], about[i])
    <3>. SUFFICES ASSUME NEW i \in DOMAIN e.args, NEW v, v \in ValuesIn(Extracted[e], about[i])
                  PROVE  v \in ValuesIn(Extracted[e.args[i]], about[i])
      BY <2>7
    <3>1. PICK j \in DOMAIN e.args : v \in ValuesIn(Extracted[e.args[j]], about[i])
      BY <2>7
    <3>2. about[i] = about[j]
      BY <2>3, <3>1 DEF ClauseOf
    <3>. QED
      BY <2>4, <3>1, <3>2
  <2>10. \A p, v : v \in ValuesIn(Extracted[e], p) =>
           v # "" /\ \E i \in DOMAIN e.args : p = about[i]
    <3>. SUFFICES ASSUME NEW p, NEW v, v \in ValuesIn(Extracted[e], p)
                  PROVE  v # "" /\ \E i \in DOMAIN e.args : p = about[i]
      OBVIOUS
    <3>1. PICK i \in DOMAIN e.args : v \in ValuesIn(Extracted[e.args[i]], p)
      BY <2>7
    <3>2. ClauseOf(e.args[i], about[i])
      BY <2>3
    <3>3. p = about[i] /\ v # ""
      BY <3>1, <3>2, Zenon DEF ClauseOf
    <3>. QED
      BY <3>3
  <2>11. \A i \in DOMAIN e.args : about[i] \in Speaks[e]
    <3>1. Speaks[e] = UNION {Speaks[e.args[i]] : i \in DOMAIN e.args}
      <4>1. e.op \notin {"=", "in"}
        BY <1>2
      <4>2. Speaks[e] = SpeaksOf(e, [i \in DOMAIN e.args |-> Speaks[e.args[i]]])
        BY SpeaksEq
      <4>. QED
        BY <4>1, <4>2 DEF SpeaksOf
    <3>2. \A i \in DOMAIN e.args : about[i] \in Speaks[e.args[i]]
      BY <2>3 DEF ClauseOf
    <3>. QED
      BY <3>1, <3>2
  <2>12. ASSUME NEW g \in Granule, NEW i \in DOMAIN e.args
         PROVE  g \in Described[e.args[i]] <=> Shown(g, Extracted[e], about[i])
    <3>1. g \in Described[e.args[i]] <=> Shown(g, Extracted[e.args[i]], about[i])
      BY <2>3 DEF ClauseOf
    <3>. QED
      BY <2>9, <3>1 DEF Shown
  <2>13. \A i \in DOMAIN e.args : /\ about[i] \in TextProps
                                  /\ ValuesIn(Extracted[e], about[i]) # {}
    <3>. SUFFICES ASSUME NEW i \in DOMAIN e.args
                  PROVE  about[i] \in TextProps /\ ValuesIn(Extracted[e], about[i]) # {}
      OBVIOUS
    <3>1. about[i] \in TextProps /\ \E v : v \in ValuesIn(Extracted[e.args[i]], about[i])
      BY <2>3 DEF ClauseOf
    <3>. QED
      BY <2>9, <3>1
  <2>14. \A p : ValuesIn(Extracted[e], p) # {} => \E i \in DOMAIN e.args : p = about[i]
    BY <2>10
  <2>15. ASSUME NEW g \in Granule
         PROVE  g \in Described[e] <=>
                  \A p \in TextProps : ValuesIn(Extracted[e], p) = {} \/ Shown(g, Extracted[e], p)
    BY <2>8, <2>12, <2>13, <2>14
  <2>. QED
    BY <2>10, <2>11, <2>15, ZenonT(40) DEF Shaping
<1>. QED
  BY <1>1, <1>2

\* The parameters of a filter that names no processing level.
LEMMA ParametersAre ==
  ASSUME NEW e \in Expr, ValuesIn(Extracted[e], "processing:level") = {}
  PROVE  LET f == ExtractFilterParams(e)
             E == Extracted[e]
         IN  /\ f.beamMode = ValuesIn(E, "sar:instrument_mode")
             /\ f.polarization = ValuesIn(E, "sar:polarizations")
             /\ f.direction = FirstState(E)
             /\ f.level = ValuesIn(E, "sar:product_type")
             /\ f.platform = {NormalPlatform(p) : p \in ValuesIn(E, "platform")}
             /\ f.relativeOrbit = {} /\ f.absoluteOrbit = {}
<1>. DEFINE E == Extracted[e]
            mode == ValuesIn(E, "sar:instrument_mode")
            pols == ValuesIn(E, "sar:polarizations")
            types == ValuesIn(E, "sar:product_type")
            names == {NormalPlatform(p) : p \in ValuesIn(E, "platform")}
            levels == IF types # {} THEN types ELSE ValuesIn(E, "processing:level")
<1>1. levels = types
  <2>. HIDE DEF types, E
  <2>. QED
    BY DEF E
<1>2. CASE e # NoFilter
  <2>. HIDE DEF levels, types
  <2>1. ExtractFilterParams(e).level = levels
    BY <1>2, SentFields, Zenon DEF levels, types
  <2>. QED
    BY <1>1, <1>2, <2>1, SentFields, Zenon DEF types
<1>3. CASE e = NoFilter
  <2>1. e.op = "and" /\ e.args = <<>>
    BY <1>3, Zenon DEF NoFilter, Compound
  <2>2. E = FlattenSeq([i \in DOMAIN e.args |-> Extracted[e.args[i]]])
    BY <2>1, ExtractedEq, Zenon DEF ExtractedOf
  <2>3. \A p, v : v \notin ValuesIn(E, p)
    <3>1. [i \in DOMAIN e.args |-> Extracted[e.args[i]]] = <<>>
      BY <2>1
    <3>2. <<>> \in Seq(PairList) /\ DOMAIN (<<>>) = {}
      OBVIOUS
    <3>. HIDE DEF E
    <3>. QED
      BY <2>2, <3>1, <3>2, FlattenValues
  <2>4. E \in PairList
    BY AllAgree DEF Agreeing
  <2>. HIDE DEF E
  <2>5. mode = {} /\ pols = {} /\ types = {} /\ names = {}
    BY <2>3
  <2>6. FirstState(E) = ""
    <3>1. ValuesIn(E, "sat:orbit_state") = {}
      BY <2>3
    <3>. QED
      BY <2>4, <3>1, FirstIsValue
  <2>. HIDE DEF mode, pols, types, names, levels
  <2>. QED
    BY <1>3, <2>5, <2>6, NothingExtracted DEF E, mode, pols, types, names
<1>. QED
  BY <1>2, <1>3

-----------------------------------------------------------------------------
(* What is shown can be searched for. *)

\* What an item shows for each property.
LEMMA ShowsWhat ==
  ASSUME NEW g
  PROVE  /\ \A v : v \in Shows(g, "platform") <=> v = Lower(Data[g].platform) /\ v # ""
         /\ \A v : v \in Shows(g, "sar:instrument_mode") <=> v = ShownMode(g) /\ v # ""
         /\ \A v : v \in Shows(g, "sar:polarizations") <=> v \in ShownPolarizations(g) /\ v # ""
         /\ \A v : v \in Shows(g, "sar:product_type") <=> v = Data[g].level /\ v # ""
         /\ \A v : v \in Shows(g, "sat:orbit_state") <=> v = ShownDirection(g) /\ v # ""
<1>1. /\ Shows(g, "platform") = {Lower(Data[g].platform)} \ {""}
      /\ Shows(g, "sar:instrument_mode") = {ShownMode(g)} \ {""}
      /\ Shows(g, "sar:polarizations") = ShownPolarizations(g) \ {""}
      /\ Shows(g, "sar:product_type") = {Data[g].level} \ {""}
      /\ Shows(g, "sat:orbit_state") = {ShownDirection(g)} \ {""}
  BY Zenon DEF Shows
<1>. QED
  BY <1>1, Zenon

\* The parameters do not hold a value unless the item shows it: the meaning of a
\* filter that names no processing level, by properties.
LEMMA DescribedByParts ==
  ASSUME NEW e \in Expr, Conjunctive(e), "processing:level" \notin Speaks[e], NEW g \in Granule
  PROVE  LET E == Extracted[e]
             W(p) == ValuesIn(E, p)
         IN  g \in Described[e] <=>
               /\ W("platform") = {} \/ Lower(Data[g].platform) \in W("platform")
               /\ W("sar:instrument_mode") = {} \/ ShownMode(g) \in W("sar:instrument_mode")
               /\ W("sar:polarizations") = {}
                    \/ \E v \in W("sar:polarizations") : v \in ShownPolarizations(g)
               /\ W("sar:product_type") = {} \/ Data[g].level \in W("sar:product_type")
               /\ W("sat:orbit_state") = {} \/ ShownDirection(g) \in W("sat:orbit_state")
<1>. DEFINE E == Extracted[e]
            part(p) == ValuesIn(E, p) = {} \/ Shown(g, E, p)
<1>1. /\ g \in Described[e] <=> \A p \in TextProps : part(p)
      /\ ValuesIn(E, "processing:level") = {}
  BY ConjunctionMeans DEF Shaping
<1>2. part("processing:level")
  BY <1>1
<1>3. (\A p \in TextProps : part(p)) <=>
        /\ part("platform") /\ part("sar:instrument_mode") /\ part("sar:polarizations")
        /\ part("sar:product_type") /\ part("sat:orbit_state")
  <2>. HIDE DEF part
  <2>. QED
    BY <1>2 DEF TextProps
<1>4. /\ Shown(g, E, "platform") <=> Lower(Data[g].platform) \in ValuesIn(E, "platform")
      /\ Shown(g, E, "sar:instrument_mode") <=> ShownMode(g) \in ValuesIn(E, "sar:instrument_mode")
      /\ Shown(g, E, "sar:polarizations") <=>
           \E v \in ValuesIn(E, "sar:polarizations") : v \in ShownPolarizations(g)
      /\ Shown(g, E, "sar:product_type") <=> Data[g].level \in ValuesIn(E, "sar:product_type")
      /\ Shown(g, E, "sat:orbit_state") <=> ShownDirection(g) \in ValuesIn(E, "sat:orbit_state")
  <2>1. \A p : \A v \in ValuesIn(E, p) : v # ""
    BY ConjunctionMeans DEF Shaping
  <2>. HIDE DEF E
  <2>. QED
    BY <2>1, ShowsWhat, Zenon DEF Shown
<1>. HIDE DEF E
<1>5. g \in Described[e] <=>
        /\ part("platform") /\ part("sar:instrument_mode") /\ part("sar:polarizations")
        /\ part("sar:product_type") /\ part("sat:orbit_state")
  BY <1>1, <1>3, Zenon
<1>. QED
  BY <1>4, <1>5, Zenon DEF E

\* One orbit state at most is the direction that is sent.
LEMMA OneDirection ==
  ASSUME NEW e \in Expr, Conjunctive(e)
  PROVE  LET X == ValuesIn(Extracted[e], "sat:orbit_state")
             d == FirstState(Extracted[e])
         IN  (X = {} /\ d = "") \/ (X = {d} /\ d # "")
<1>. DEFINE E == Extracted[e]
            X == ValuesIn(E, "sat:orbit_state")
            d == FirstState(E)
<1>1. E \in PairList
  BY AllAgree DEF Agreeing
<1>2. \A v \in X : v # ""
  BY ConjunctionMeans DEF Shaping
<1>3. \A v, w \in X : v = w
  <2>1. \A i, j \in StatesAt(E) : i = j
    BY DEF Conjunctive
  <2>. HIDE DEF E
  <2>. QED
    BY <2>1 DEF ValuesIn, StatesAt
<1>4. /\ X = {} => d = ""
      /\ X # {} => d \in X
  BY <1>1, FirstIsValue
<1>. HIDE DEF E, X, d
<1>5. (X = {} /\ d = "") \/ (X = {d} /\ d # "")
  <2>1. CASE X = {}
    BY <1>4, <2>1, Zenon
  <2>2. CASE X # {}
    <3>1. d \in X /\ d # ""
      BY <1>2, <1>4, <2>2
    <3>2. X = {d}
      BY <1>3, <3>1
    <3>. QED
      BY <3>1, <3>2
  <2>. QED
    BY <2>1, <2>2
<1>. QED
  BY <1>5 DEF E, X, d

\* The platform names of a filter lead to the platforms whose items show them
\* (normalizePlatformForASF).
LEMMA PlatformsNamed ==
  ASSUME NEW names \in SUBSET DOMAIN ASFName, NEW g \in Granule
  PROVE  SomeOf({NormalPlatform(p) : p \in names}, {Data[g].platform})
           <=> names = {} \/ Lower(Data[g].platform) \in names
<1>1. \A p \in names : NormalPlatform(p) = ASFName[p] /\ Lower(ASFName[p]) = p
  BY LowerAssumption DEF NormalPlatform
<1>2. Lower(Data[g].platform) \in names => ASFName[Lower(Data[g].platform)] = Data[g].platform
  BY PlatformsAssumption
<1>. DEFINE sent == {NormalPlatform(p) : p \in names}
<1>3. sent = {} <=> names = {}
  OBVIOUS
<1>4. Data[g].platform \in sent <=> Lower(Data[g].platform) \in names
  <2>1. ASSUME NEW p \in names, Data[g].platform = NormalPlatform(p)
        PROVE  Lower(Data[g].platform) \in names
    BY <1>1, <2>1
  <2>2. ASSUME Lower(Data[g].platform) \in names PROVE Data[g].platform \in sent
    BY <1>1, <1>2, <2>2
  <2>. QED
    BY <2>1, <2>2
<1>. HIDE DEF sent
<1>5. SomeOf(sent, {Data[g].platform}) <=> names = {} \/ Lower(Data[g].platform) \in names
  BY <1>3, <1>4 DEF SomeOf
<1>. QED
  BY <1>5 DEF sent

\* The collections of a search.
LEMMA ScopeOf ==
  ASSUME NEW q \in Queries
  PROVE  Scope(q) \subseteq DOMAIN Registry /\ q.filter \in Expr
  BY CatalogueAssumption DEF Scope

\* A granule is in the listings of the collections asked for, if any is.
WithinScope(q, g) == Scope(q) = {} \/ \E c \in Scope(q) : g \in Listing(c)

\* The parameters of an expressible filter: for each, the values it names.
LEMMA ParametersSay ==
  ASSUME NEW e \in Expr, Expressible(e)
  PROVE  LET f == ExtractFilterParams(e)
             E == Extracted[e]
             X == ValuesIn(E, "sat:orbit_state")
         IN  /\ f.beamMode = ValuesIn(E, "sar:instrument_mode")
             /\ f.polarization = ValuesIn(E, "sar:polarizations")
             /\ f.level = ValuesIn(E, "sar:product_type")
             /\ f.platform = {NormalPlatform(p) : p \in ValuesIn(E, "platform")}
             /\ (X = {} /\ f.direction = "") \/ (X = {f.direction} /\ f.direction # "")
             /\ f.direction \in {"", "ascending", "descending"}
             /\ f.relativeOrbit = {} /\ f.absoluteOrbit = {}
             /\ \A p : \A v : v \in ValuesIn(E, p) => p \in Speaks[e] /\ v # ""
<1>1. Conjunctive(e) /\ "processing:level" \notin Speaks[e]
  BY Zenon DEF Expressible
<1>2. \A p, v : v \in ValuesIn(Extracted[e], p) => p \in Speaks[e] /\ v # ""
  BY <1>1, ConjunctionMeans DEF Shaping
<1>3. ValuesIn(Extracted[e], "processing:level") = {}
  BY <1>1, <1>2
<1>4. ExtractFilterParams(e).direction = FirstState(Extracted[e])
  BY <1>3, ParametersAre, Zenon
<1>5. LET X == ValuesIn(Extracted[e], "sat:orbit_state")
          d == ExtractFilterParams(e).direction
      IN  (X = {} /\ d = "") \/ (X = {d} /\ d # "")
  BY <1>1, <1>4, OneDirection, Zenon
<1>6. ExtractFilterParams(e).direction \in {"", "ascending", "descending"}
  <2>1. \A v \in ValuesIn(Extracted[e], "sat:orbit_state") : v \in {"ascending", "descending"}
    BY Zenon DEF Expressible
  <2>. QED
    BY <1>5, <2>1
<1>. QED
  BY <1>2, <1>3, <1>5, <1>6, ParametersAre, Zenon

\* What the query of ASF asks of a dataset and a level: what the listing of the
\* collection does, if there is one, and what the filter names, if there is none.
LEMMA ASFScope ==
  ASSUME NEW q \in Queries, backend = "asf", Separable(q), NEW g \in Granule,
         NEW levels, levels = ExtractFilterParams(q.filter).level,
         Scope(q) # {} => levels = {}
  PROVE  SomeOf(ASFQuery(q).datasets, {Data[g].dataset}) /\ SomeOf(ASFQuery(q).levels, {Data[g].level})
           <=> WithinScope(q, g) /\ (levels = {} \/ Data[g].level \in levels)
<1>1. CASE Scope(q) = {}
  <2>1. ASFQuery(q).datasets = {} /\ ASFQuery(q).levels = levels
    BY <1>1 DEF ASFQuery
  <2>. QED
    BY <1>1, <2>1 DEF SomeOf, WithinScope
<1>2. CASE Scope(q) # {}
  <2>1. PICK c \in DOMAIN Registry : Scope(q) = {c}
    BY <1>2, ScopeOf DEF Separable
  <2>2. ASFQuery(q).datasets = Registry[c].datasets
    BY <2>1 DEF ASFQuery
  <2>3. ASFQuery(q).levels = {Registry[c].level} \ {""}
    BY <1>2, <2>1 DEF ASFQuery
  <2>4. WithinScope(q, g) <=> Data[g].dataset \in Registry[c].datasets /\ LevelFits(c, Data[g].level)
    BY <2>1, ASFListing DEF WithinScope
  <2>. QED
    BY <1>2, <2>2, <2>3, <2>4, CollectionNamed DEF SomeOf, LevelFits
<1>. QED
  BY <1>1, <1>2

\* A polarization that an expressible filter names is one of those that a granule
\* shows if it is one of those it is asked for by.
LEMMA SamePolarizations ==
  ASSUME NEW g \in archive, NEW e, Expressible(e),
         NEW v \in ValuesIn(Extracted[e], "sar:polarizations")
  PROVE  v \in HeldPolarizations(g) <=> v \in ShownPolarizations(g)
<1>1. ~Reworded(g, ValuesIn(Extracted[e], "sar:polarizations"))
  BY Zenon DEF Expressible
<1>. QED
  BY <1>1 DEF Reworded

\* What the query of ASF asks beside dataset and level.
LEMMA ASFAsks ==
  ASSUME NEW q, NEW g, NEW f, f = ExtractFilterParams(q.filter),
         f.relativeOrbit = {}, f.absoluteOrbit = {}
  PROVE  ASFFinds(ASFQuery(q), g) <=>
           /\ SomeOf(ASFQuery(q).datasets, {Data[g].dataset})
           /\ SomeOf(ASFQuery(q).levels, {Data[g].level})
           /\ SomeOf(f.platform, {Data[g].platform})
           /\ SomeOf(f.beamMode, {Data[g].mode})
           /\ SomeOf(f.polarization, {Data[g].polarization})
           /\ f.direction = "" \/ Lower(f.direction) = Lower(Data[g].direction)
<1>1. ASFQuery(q).filter = f
  BY DEF ASFQuery
<1>2. /\ SomeOf(f.relativeOrbit, {Data[g].relativeOrbit})
      /\ SomeOf(f.absoluteOrbit, {Data[g].absoluteOrbit})
  BY DEF SomeOf
<1>. QED
  BY <1>1, <1>2, Zenon DEF ASFFinds

\* On ASF the query of an expressible filter finds what the filter describes.
LEMMA ASFExact ==
  ASSUME NEW q \in Queries, backend = "asf", Expressible(q.filter), Separable(q),
         NEW g \in archive, g \in Granule
  PROVE  ASFFinds(ASFQuery(q), g) <=> g \in Described[q.filter] /\ WithinScope(q, g)
<1>. DEFINE e == q.filter
            f == ExtractFilterParams(e)
            W(p) == ValuesIn(Extracted[e], p)
            d == Data[g]
<1>0. e \in Expr
  BY ScopeOf
<1>1. Conjunctive(e) /\ "processing:level" \notin Speaks[e] /\ W("platform") \subseteq DOMAIN ASFName
  BY Zenon DEF Expressible
<1>2. /\ f.beamMode = W("sar:instrument_mode")
      /\ f.polarization = W("sar:polarizations")
      /\ f.level = W("sar:product_type")
      /\ f.platform = {NormalPlatform(p) : p \in W("platform")}
      /\ (W("sat:orbit_state") = {} /\ f.direction = "")
           \/ (W("sat:orbit_state") = {f.direction} /\ f.direction # "")
      /\ f.direction \in {"", "ascending", "descending"}
      /\ f.relativeOrbit = {} /\ f.absoluteOrbit = {}
      /\ \A p : \A v : v \in W(p) => p \in Speaks[e] /\ v # ""
  BY <1>0, ParametersSay, Zenon
<1>3. Scope(q) # {} => f.level = {}
  <2>1. Scope(q) # {} => "sar:product_type" \notin Speaks[e]
    BY Zenon DEF Separable
  <2>. HIDE DEF f, e
  <2>. QED
    BY <1>2, <2>1
<1>4. SomeOf(ASFQuery(q).datasets, {d.dataset}) /\ SomeOf(ASFQuery(q).levels, {d.level})
        <=> WithinScope(q, g) /\ (f.level = {} \/ d.level \in f.level)
  BY <1>3, ASFScope
<1>5. SomeOf(f.platform, {d.platform})
        <=> W("platform") = {} \/ Lower(d.platform) \in W("platform")
  <2>1. PICK names \in SUBSET DOMAIN ASFName : names = W("platform")
    BY <1>1
  <2>2. SomeOf({NormalPlatform(p) : p \in names}, {d.platform})
          <=> names = {} \/ Lower(d.platform) \in names
    BY PlatformsNamed
  <2>. QED
    BY <1>2, <2>1, <2>2, Zenon
<1>6. ShownDirection(g) = Lower(d.direction)
  BY Zenon DEF ShownDirection
<1>7. ShownMode(g) = d.mode
  <2>1. backend # "cmr"
    OBVIOUS
  <2>. QED
    BY <2>1, Zenon DEF ShownMode
<1>8. ASFFinds(ASFQuery(q), g) <=>
        /\ SomeOf(ASFQuery(q).datasets, {d.dataset}) /\ SomeOf(ASFQuery(q).levels, {d.level})
        /\ SomeOf(f.platform, {d.platform})
        /\ SomeOf(f.beamMode, {d.mode})
        /\ SomeOf(f.polarization, {d.polarization})
        /\ f.direction = "" \/ Lower(f.direction) = Lower(d.direction)
  BY <1>2, ASFAsks, Zenon
<1>9. g \in Described[e] <=>
        /\ W("platform") = {} \/ Lower(d.platform) \in W("platform")
        /\ W("sar:instrument_mode") = {} \/ ShownMode(g) \in W("sar:instrument_mode")
        /\ W("sar:polarizations") = {} \/ \E v \in W("sar:polarizations") : v \in ShownPolarizations(g)
        /\ W("sar:product_type") = {} \/ d.level \in W("sar:product_type")
        /\ W("sat:orbit_state") = {} \/ ShownDirection(g) \in W("sat:orbit_state")
  BY <1>0, <1>1, DescribedByParts, Zenon
<1>10. \A v \in W("sar:polarizations") : v = d.polarization <=> v \in ShownPolarizations(g)
  <2>1. \A v \in W("sar:polarizations") : v \in HeldPolarizations(g) <=> v \in ShownPolarizations(g)
    BY SamePolarizations
  <2>2. HeldPolarizations(g) = {d.polarization}
    BY Zenon DEF HeldPolarizations
  <2>. HIDE DEF W, d
  <2>. QED
    BY <2>1, <2>2
<1>11. f.direction # "" => Lower(f.direction) = f.direction
  BY <1>2, LowerAssumption
<1>12. SomeOf(f.beamMode, {d.mode})
         <=> W("sar:instrument_mode") = {} \/ ShownMode(g) \in W("sar:instrument_mode")
  <2>. HIDE DEF f, W, d
  <2>. QED
    BY <1>2, <1>7 DEF SomeOf
<1>13. SomeOf(f.polarization, {d.polarization})
         <=> W("sar:polarizations") = {}
               \/ \E v \in W("sar:polarizations") : v \in ShownPolarizations(g)
  <2>. HIDE DEF f, W, d
  <2>. QED
    BY <1>2, <1>10 DEF SomeOf
<1>14. f.direction = "" \/ Lower(f.direction) = Lower(d.direction)
         <=> W("sat:orbit_state") = {} \/ ShownDirection(g) \in W("sat:orbit_state")
  <2>. HIDE DEF f, W, d
  <2>. QED
    BY <1>2, <1>6, <1>11
<1>. HIDE DEF f, W, d
<1>. QED
  BY <1>2, <1>4, <1>5, <1>8, <1>9, <1>12, <1>13, <1>14, Zenon DEF e

\* The names of a collection are not empty.
LEMMA NamesOf == ASSUME NEW c \in DOMAIN Registry PROVE CMRNames(c) # {}
  BY CollectionNamed DEF CMRNames

\* The listing of a collection on CMR: its short names, else its datasets.
LEMMA CMRNamed ==
  ASSUME backend = "cmr", NEW c \in DOMAIN Registry, NEW g \in Granule
  PROVE  g \in Listing(c) <=> Data[g].shortName \in CMRNames(c)
<1>1. PICK q : /\ g \in Listing(c) <=> g \in Found(q, Granule)
               /\ Scope(q) = {c}
               /\ q.filter = NoFilter
  BY ListingScope
<1>2. g \in Listing(c) <=> CMRFinds(CMRQuery(q), g)
  BY <1>1 DEF Found
<1>3. CMRQuery(q).names = CMRNames(c)
  BY <1>1 DEF CMRQuery
<1>4. CMRQuery(q).attributes = {}
  BY <1>1, NothingExtracted DEF CMRQuery
<1>5. CMRFinds(CMRQuery(q), g) <=> SomeOf(CMRNames(c), {Data[g].shortName})
  BY <1>3, <1>4 DEF CMRFinds
<1>. QED
  BY <1>2, <1>5, NamesOf DEF SomeOf

\* The names that CMR is sent are those of the listings asked for.
LEMMA CMRScope ==
  ASSUME NEW q \in Queries, backend = "cmr", NEW g \in Granule
  PROVE  SomeOf(CMRQuery(q).names, {Data[g].shortName}) <=> WithinScope(q, g)
<1>1. CMRQuery(q).names = UNION {CMRNames(c) : c \in Scope(q)}
  BY DEF CMRQuery
<1>2. \A c \in Scope(q) : CMRNames(c) # {} /\ (g \in Listing(c) <=> Data[g].shortName \in CMRNames(c))
  BY ScopeOf, NamesOf, CMRNamed
<1>3. CMRQuery(q).names = {} <=> Scope(q) = {}
  BY <1>1, <1>2
<1>4. Data[g].shortName \in CMRQuery(q).names <=> \E c \in Scope(q) : g \in Listing(c)
  BY <1>1, <1>2
<1>. QED
  BY <1>3, <1>4 DEF SomeOf, WithinScope

\* The attributes of a granule that meet one that is sought.
Met(g, name, v) == \E b \in Attributes(g) : Meets(<<name, v>>, b)

LEMMA MetExactly ==
  ASSUME NEW g, NEW name, name # "ASCENDING_DESCENDING", NEW v
  PROVE  Met(g, name, v) <=> <<name, v>> \in Attributes(g)
  BY DEF Met, Meets

\* Which attributes a granule has.
LEMMA AttributesAre ==
  ASSUME NEW g
  PROVE  /\ \A v : <<"POLARIZATION", v>> \in Attributes(g) <=> v \in Data[g].pols
         /\ \A v : <<"BEAM_MODE", v>> \in Attributes(g) <=> v = Data[g].mode /\ v # ""
         /\ \A v : <<"PROCESSING_TYPE", v>> \in Attributes(g) <=> v = Data[g].level /\ v # ""
         /\ \A b \in Attributes(g) : b[1] = "ASCENDING_DESCENDING" => b[2] = Data[g].attribute /\ b[2] # ""
         /\ Data[g].attribute # "" => <<"ASCENDING_DESCENDING", Data[g].attribute>> \in Attributes(g)
<1>. DEFINE pols == Data[g].pols
            m == {Data[g].mode} \ {""}
            t == {Data[g].modeType} \ {""}
            d == {Data[g].attribute} \ {""}
            r == {Data[g].relativeOrbit} \ {""}
            p == {Data[g].level} \ {""}
            l == {Data[g].attributeLevel} \ {""}
<1>1. Attributes(g)
        = ({"POLARIZATION"} \X pols) \cup ({"BEAM_MODE"} \X m) \cup ({"BEAM_MODE_TYPE"} \X t)
          \cup ({"ASCENDING_DESCENDING"} \X d) \cup ({"PATH_NUMBER"} \X r)
          \cup ({"PROCESSING_TYPE"} \X p) \cup ({"PROCESSING_LEVEL"} \X l)
  BY Zenon DEF Attributes
<1>. HIDE DEF pols, m, t, d, r, p, l
<1>2. /\ \A v : <<"POLARIZATION", v>> \in Attributes(g) <=> v \in pols
      /\ \A v : <<"BEAM_MODE", v>> \in Attributes(g) <=> v \in m
      /\ \A v : <<"PROCESSING_TYPE", v>> \in Attributes(g) <=> v \in p
      /\ \A v : <<"ASCENDING_DESCENDING", v>> \in Attributes(g) <=> v \in d
  BY <1>1
<1>3. \A b \in Attributes(g) : b[1] = "ASCENDING_DESCENDING" => b[2] \in d
  BY <1>1
<1>. QED
  BY <1>2, <1>3, Zenon DEF pols, m, d, p

\* A direction is met in any case.
LEMMA DirectionMet ==
  ASSUME NEW g, NEW v
  PROVE  Met(g, "ASCENDING_DESCENDING", v) <=>
           Data[g].attribute # "" /\ Lower(v) = Lower(Data[g].attribute)
<1>. DEFINE name == "ASCENDING_DESCENDING"
            a == Data[g].attribute
<1>1. \A b \in Attributes(g) : b[1] = name => b[2] = a /\ a # ""
  BY AttributesAre
<1>2. a # "" => <<name, a>> \in Attributes(g)
  BY AttributesAre
<1>3. ASSUME NEW b \in Attributes(g), Meets(<<name, v>>, b)
      PROVE  a # "" /\ Lower(v) = Lower(a)
  <2>. DEFINE s == <<name, v>>
  <2>1. s[1] = name /\ s[2] = v
    OBVIOUS
  <2>. HIDE DEF s
  <2>2. b[1] = name /\ (b[2] = v \/ Lower(v) = Lower(b[2]))
    BY <1>3, <2>1 DEF Meets, s
  <2>3. b[2] = a /\ a # ""
    BY <1>1, <2>2
  <2>. QED
    BY <2>2, <2>3
<1>4. ASSUME a # "", Lower(v) = Lower(a) PROVE Meets(<<name, v>>, <<name, a>>)
  BY <1>4 DEF Meets
<1>. QED
  BY <1>2, <1>3, <1>4, Zenon DEF Met

\* A granule meets all the attributes of a query; it has what parameters without
\* orbits ask for.
MeetsAll(q, g) == \A a \in CMRQuery(q).attributes : \E b \in Attributes(g) : Meets(a, b)
HasWanted(f, g) ==
  LET d == Data[g]
  IN  /\ f.polarization \subseteq d.pols
      /\ \A v \in f.beamMode : v = d.mode /\ v # ""
      /\ f.direction = "" \/ (d.attribute # "" /\ Lower(f.direction) = Lower(d.attribute))
      /\ \A v \in f.level : v = d.level /\ v # ""

\* CMR is sent attributes, all of which a granule must meet.
LEMMA CMRAttributes ==
  ASSUME NEW q, NEW f, f = ExtractFilterParams(q.filter), f.relativeOrbit = {}, NEW g
  PROVE  MeetsAll(q, g) <=> HasWanted(f, g)
<1>. DEFINE sent == CMRQuery(q).attributes
            Has(a) == \E b \in Attributes(g) : Meets(a, b)
            directions == {f.direction} \ {""}
<1>1. sent = ({"POLARIZATION"} \X f.polarization) \cup ({"BEAM_MODE"} \X f.beamMode)
             \cup ({"ASCENDING_DESCENDING"} \X directions)
             \cup ({"PATH_NUMBER"} \X {})
             \cup ({"PROCESSING_TYPE"} \X f.level)
  BY Zenon DEF CMRQuery
<1>2. /\ \A v : Has(<<"POLARIZATION", v>>) <=> v \in Data[g].pols
      /\ \A v : Has(<<"BEAM_MODE", v>>) <=> v = Data[g].mode /\ v # ""
      /\ \A v : Has(<<"PROCESSING_TYPE", v>>) <=> v = Data[g].level /\ v # ""
      /\ \A v : Has(<<"ASCENDING_DESCENDING", v>>) <=>
                  Data[g].attribute # "" /\ Lower(v) = Lower(Data[g].attribute)
  <2>1. \A name, v : Has(<<name, v>>) <=> Met(g, name, v)
    BY Zenon DEF Met
  <2>. HIDE DEF Has
  <2>2. \A name : name # "ASCENDING_DESCENDING" =>
          \A v : Has(<<name, v>>) <=> <<name, v>> \in Attributes(g)
    BY <2>1, MetExactly, Zenon
  <2>3. \A v : Has(<<"POLARIZATION", v>>) <=> v \in Data[g].pols
    BY <2>2, AttributesAre
  <2>4. \A v : Has(<<"BEAM_MODE", v>>) <=> v = Data[g].mode /\ v # ""
    BY <2>2, AttributesAre
  <2>5. \A v : Has(<<"PROCESSING_TYPE", v>>) <=> v = Data[g].level /\ v # ""
    BY <2>2, AttributesAre
  <2>6. \A v : Has(<<"ASCENDING_DESCENDING", v>>) <=>
                 Data[g].attribute # "" /\ Lower(v) = Lower(Data[g].attribute)
    BY <2>1, DirectionMet, Zenon
  <2>. QED
    BY <2>3, <2>4, <2>5, <2>6, Zenon
<1>. HIDE DEF sent, Has
<1>3. (\A a \in sent : Has(a)) <=>
        /\ \A v \in f.polarization : Has(<<"POLARIZATION", v>>)
        /\ \A v \in f.beamMode : Has(<<"BEAM_MODE", v>>)
        /\ \A v \in directions : Has(<<"ASCENDING_DESCENDING", v>>)
        /\ \A v \in f.level : Has(<<"PROCESSING_TYPE", v>>)
  <2>. HIDE DEF directions
  <2>. QED
    BY <1>1
<1>4. (\A a \in sent : Has(a)) <=>
        /\ f.polarization \subseteq Data[g].pols
        /\ \A v \in f.beamMode : v = Data[g].mode /\ v # ""
        /\ f.direction = "" \/ (Data[g].attribute # "" /\ Lower(f.direction) = Lower(Data[g].attribute))
        /\ \A v \in f.level : v = Data[g].level /\ v # ""
  <2>1. (\A v \in directions : Has(<<"ASCENDING_DESCENDING", v>>)) <=>
          f.direction = "" \/ (Data[g].attribute # "" /\ Lower(f.direction) = Lower(Data[g].attribute))
    <3>. DEFINE all == \A v \in directions : Has(<<"ASCENDING_DESCENDING", v>>)
    <3>1. all <=> (f.direction # "" => Has(<<"ASCENDING_DESCENDING", f.direction>>))
      OBVIOUS
    <3>2. Has(<<"ASCENDING_DESCENDING", f.direction>>) <=>
            Data[g].attribute # "" /\ Lower(f.direction) = Lower(Data[g].attribute)
      BY <1>2
    <3>. HIDE DEF all
    <3>3. all <=> f.direction = "" \/ (Data[g].attribute # "" /\ Lower(f.direction) = Lower(Data[g].attribute))
      BY <3>1, <3>2
    <3>. QED
      BY <3>3 DEF all
  <2>. HIDE DEF directions
  <2>2. (\A v \in f.polarization : Has(<<"POLARIZATION", v>>)) <=> f.polarization \subseteq Data[g].pols
    BY <1>2, Zenon
  <2>3. (\A v \in f.beamMode : Has(<<"BEAM_MODE", v>>)) <=>
          \A v \in f.beamMode : v = Data[g].mode /\ v # ""
    BY <1>2, Zenon
  <2>4. (\A v \in f.level : Has(<<"PROCESSING_TYPE", v>>)) <=>
          \A v \in f.level : v = Data[g].level /\ v # ""
    BY <1>2, Zenon
  <2>. QED
    BY <1>3, <2>1, <2>2, <2>3, <2>4, Zenon
<1>. QED
  BY <1>4 DEF sent, Has, MeetsAll, HasWanted

\* One value of which all are wanted is one of which any is.
LEMMA OneOfAll ==
  ASSUME NEW W, \A v, w \in W : v = w, NEW S
  PROVE  W \subseteq S <=> W = {} \/ \E v \in W : v \in S
  OBVIOUS

LEMMA OnlyOne ==
  ASSUME NEW W, \A v, w \in W : v = w, NEW x
  PROVE  W \subseteq {x} <=> W = {} \/ x \in W
  OBVIOUS

\* On CMR the query of an expressible filter finds what the filter describes.
LEMMA CMRExact ==
  ASSUME NEW q \in Queries, backend = "cmr", Expressible(q.filter),
         NEW g \in archive, g \in Granule
  PROVE  CMRFinds(CMRQuery(q), g) <=> g \in Described[q.filter] /\ WithinScope(q, g)
<1>. DEFINE e == q.filter
            f == ExtractFilterParams(e)
            W(p) == ValuesIn(Extracted[e], p)
            d == Data[g]
<1>0. e \in Expr
  BY ScopeOf
<1>1. /\ Conjunctive(e) /\ "processing:level" \notin Speaks[e]
      /\ "platform" \notin Speaks[e]
      /\ \A p \in Speaks[e] : \A v, w \in W(p) : v = w
      /\ "sat:orbit_state" \in Speaks[e] => WordedDirection(g)
      /\ ~ModeByType(g, W("sar:instrument_mode"))
  BY Zenon DEF Expressible
<1>2. /\ f.beamMode = W("sar:instrument_mode")
      /\ f.polarization = W("sar:polarizations")
      /\ f.level = W("sar:product_type")
      /\ (W("sat:orbit_state") = {} /\ f.direction = "")
           \/ (W("sat:orbit_state") = {f.direction} /\ f.direction # "")
      /\ f.direction \in {"", "ascending", "descending"}
      /\ f.relativeOrbit = {}
      /\ \A p : \A v : v \in W(p) => p \in Speaks[e] /\ v # ""
  BY <1>0, ParametersSay, Zenon
<1>3. \A p : \A v, w \in W(p) : v = w
  BY <1>1, <1>2, Zenon
<1>4. W("platform") = {}
  <2>. HIDE DEF W, e
  <2>. QED
    BY <1>1, <1>2
<1>5. W("sat:orbit_state") # {} => ShownDirection(g) = Lower(d.attribute) /\ d.attribute # ""
  <2>1. W("sat:orbit_state") # {} => "sat:orbit_state" \in Speaks[e]
    <3>. HIDE DEF W, e
    <3>. QED
      BY <1>2
  <2>2. WordedDirection(g) => ShownDirection(g) = Lower(d.attribute)
    <3>1. ShownDirection(g) = IF d.orbit # "" THEN d.orbit
                              ELSE IF Lower(d.attribute) \in {"a", "ascending"} THEN "ascending"
                              ELSE IF Lower(d.attribute) \in {"d", "descending"} THEN "descending"
                              ELSE ""
      <4>1. backend # "asf"
        OBVIOUS
      <4>. QED
        BY <4>1, Zenon DEF ShownDirection
    <3>. DEFINE lower == Lower(Data[g].attribute)
    <3>. HIDE DEF lower
    <3>2. WordedDirection(g) => lower \in {"ascending", "descending"} /\ d.orbit \in {"", lower}
      BY Zenon DEF WordedDirection, lower
    <3>3. ShownDirection(g) = IF d.orbit # "" THEN d.orbit
                              ELSE IF lower \in {"a", "ascending"} THEN "ascending"
                              ELSE IF lower \in {"d", "descending"} THEN "descending"
                              ELSE ""
      BY <3>1, Zenon DEF lower
    <3>4. ASSUME WordedDirection(g), d.orbit # "" PROVE ShownDirection(g) = lower
      <4>1. d.orbit = lower
        BY <3>2, <3>4, Zenon
      <4>2. ShownDirection(g) = d.orbit
        BY <3>3, <3>4, Zenon
      <4>. QED
        BY <4>1, <4>2, Zenon
    <3>5. ASSUME WordedDirection(g), d.orbit = "", lower = "ascending" PROVE ShownDirection(g) = lower
      <4>1. lower \in {"a", "ascending"}
        BY <3>5
      <4>. QED
        BY <3>3, <3>5, <4>1, Zenon
    <3>6. ASSUME WordedDirection(g), d.orbit = "", lower = "descending" PROVE ShownDirection(g) = lower
      <4>1. lower \notin {"a", "ascending"} /\ lower \in {"d", "descending"}
        BY <3>6
      <4>. QED
        BY <3>3, <3>6, <4>1, Zenon
    <3>7. WordedDirection(g) => lower = "ascending" \/ lower = "descending"
      BY <3>2, Zenon
    <3>. QED
      BY <3>4, <3>5, <3>6, <3>7, Zenon DEF lower
  <2>3. WordedDirection(g) => d.attribute # ""
    BY LowerAssumption DEF WordedDirection
  <2>. QED
    BY <1>1, <2>1, <2>2, <2>3, Zenon
<1>6. CMRFinds(CMRQuery(q), g) <=>
        /\ WithinScope(q, g)
        /\ f.polarization \subseteq d.pols
        /\ \A v \in f.beamMode : v = d.mode /\ v # ""
        /\ f.direction = "" \/ (d.attribute # "" /\ Lower(f.direction) = Lower(d.attribute))
        /\ \A v \in f.level : v = d.level /\ v # ""
  <2>1. SomeOf(CMRQuery(q).names, {d.shortName}) <=> WithinScope(q, g)
    BY CMRScope
  <2>2. MeetsAll(q, g) <=> HasWanted(f, g)
    BY <1>2, CMRAttributes, Zenon
  <2>3. CMRFinds(CMRQuery(q), g) <=> SomeOf(CMRQuery(q).names, {d.shortName}) /\ MeetsAll(q, g)
    BY Zenon DEF CMRFinds, MeetsAll
  <2>4. CMRFinds(CMRQuery(q), g) <=> WithinScope(q, g) /\ HasWanted(f, g)
    BY <2>1, <2>2, <2>3, Zenon
  <2>. QED
    BY <2>4 DEF HasWanted
<1>7. g \in Described[e] <=>
        /\ W("platform") = {} \/ Lower(d.platform) \in W("platform")
        /\ W("sar:instrument_mode") = {} \/ ShownMode(g) \in W("sar:instrument_mode")
        /\ W("sar:polarizations") = {} \/ \E v \in W("sar:polarizations") : v \in ShownPolarizations(g)
        /\ W("sar:product_type") = {} \/ d.level \in W("sar:product_type")
        /\ W("sat:orbit_state") = {} \/ ShownDirection(g) \in W("sat:orbit_state")
  BY <1>0, <1>1, DescribedByParts, Zenon
<1>8. \A v \in W("sar:polarizations") : v \in d.pols <=> v \in ShownPolarizations(g)
  <2>1. \A v \in W("sar:polarizations") : v \in HeldPolarizations(g) <=> v \in ShownPolarizations(g)
    BY SamePolarizations
  <2>2. HeldPolarizations(g) = d.pols
    <3>1. backend # "asf"
      OBVIOUS
    <3>. QED
      BY <3>1, Zenon DEF HeldPolarizations
  <2>. QED
    BY <2>1, <2>2, Zenon
<1>9. \A v \in W("sar:instrument_mode") : v = d.mode <=> v = ShownMode(g)
  <2>1. \A v \in W("sar:instrument_mode") : v # ""
    BY <1>2, Zenon
  <2>2. d.mode = "" => d.modeType \notin W("sar:instrument_mode")
    BY <1>1, Zenon DEF ModeByType
  <2>3. ShownMode(g) = IF d.mode = "" THEN d.modeType ELSE d.mode
    BY Zenon DEF ShownMode
  <2>. HIDE DEF W, d
  <2>. QED
    BY <2>1, <2>2, <2>3
<1>10. f.direction # "" => Lower(f.direction) = f.direction
  BY <1>2, LowerAssumption
<1>. HIDE DEF W, d, f
<1>11. f.polarization \subseteq d.pols
         <=> W("sar:polarizations") = {}
               \/ \E v \in W("sar:polarizations") : v \in ShownPolarizations(g)
  <2>1. PICK P : P = W("sar:polarizations")
    OBVIOUS
  <2>2. \A v, w \in P : v = w
    BY <1>3, <2>1
  <2>3. P \subseteq d.pols <=> P = {} \/ \E v \in P : v \in d.pols
    BY <2>2, OneOfAll, Zenon
  <2>. QED
    BY <1>2, <1>8, <2>1, <2>3
<1>12. (\A v \in f.beamMode : v = d.mode /\ v # "")
         <=> W("sar:instrument_mode") = {} \/ ShownMode(g) \in W("sar:instrument_mode")
  <2>1. PICK P : P = W("sar:instrument_mode")
    OBVIOUS
  <2>2. \A v, w \in P : v = w
    BY <1>3, <2>1
  <2>3. P \subseteq {ShownMode(g)} <=> P = {} \/ ShownMode(g) \in P
    BY <2>2, OnlyOne
  <2>4. \A v \in P : v # "" /\ (v = d.mode <=> v = ShownMode(g))
    BY <1>2, <1>9, <2>1
  <2>. QED
    BY <1>2, <2>1, <2>3, <2>4
<1>13. (\A v \in f.level : v = d.level /\ v # "")
         <=> W("sar:product_type") = {} \/ d.level \in W("sar:product_type")
  <2>1. PICK P : P = W("sar:product_type")
    OBVIOUS
  <2>2. \A v, w \in P : v = w
    BY <1>3, <2>1
  <2>3. P \subseteq {d.level} <=> P = {} \/ d.level \in P
    BY <2>2, OnlyOne
  <2>4. \A v \in P : v # ""
    BY <1>2, <2>1
  <2>. QED
    BY <1>2, <2>1, <2>3, <2>4
<1>14. f.direction = "" \/ (d.attribute # "" /\ Lower(f.direction) = Lower(d.attribute))
         <=> W("sat:orbit_state") = {} \/ ShownDirection(g) \in W("sat:orbit_state")
  BY <1>2, <1>5, <1>10
<1>. QED
  BY <1>4, <1>6, <1>7, <1>11, <1>12, <1>13, <1>14, Zenon DEF e

\* The items served are of the granules found, all of them and no others.
LEMMA FilingsAll ==
  ASSUME NEW S, NEW items \in Filings(S)
  PROVE  {i.granule : i \in items} = S
<1>1. \A i \in items : i.granule \in S
  BY FilingsMean
<1>2. \A g \in S : \E i \in items : i.granule = g
  <2>1. \A g \in S : \E i \in items : \A j \in items : j.granule = g <=> j = i
    BY DEF Filings
  <2>. QED
    BY <2>1
<1>. QED
  BY <1>1, <1>2

\* A search with an expressible filter answers with what the filter describes.
LEMMA SearchExact ==
  ASSUME IInv, Search, Expressible(query'.filter), Separable(query')
  PROVE  Exactly(query', served')
<1>1. PICK q \in Queries : query' = q /\ served' \in Filings(Found(q, archive))
  BY DEF Search
<1>2. {i.granule : i \in served'} = Found(q, archive)
  BY <1>1, FilingsAll
<1>3. archive \subseteq Granule /\ backend \in {"asf", "cmr"}
  BY DEF IInv, TypeOK
<1>4. Expressible(q.filter) /\ Separable(q)
  BY <1>1
<1>5. ASSUME NEW g \in archive
      PROVE  g \in Found(q, archive) <=> g \in Described[q.filter] /\ WithinScope(q, g)
  <2>1. CASE backend = "asf"
    <3>1. g \in Found(q, archive) <=> ASFFinds(ASFQuery(q), g)
      BY <2>1 DEF Found
    <3>. QED
      BY <1>3, <1>4, <2>1, <3>1, ASFExact
  <2>2. CASE backend = "cmr"
    <3>1. g \in Found(q, archive) <=> CMRFinds(CMRQuery(q), g)
      BY <2>2 DEF Found
    <3>. QED
      BY <1>3, <1>4, <2>2, <3>1, CMRExact
  <2>. QED
    BY <1>3, <2>1, <2>2
<1>6. Found(q, archive) \subseteq archive
  BY <1>3, FoundThere
<1>7. Found(q, archive) =
        {g \in archive \cap Described[q.filter] : Scope(q) = {} \/ \E c \in Scope(q) : g \in Listing(c)}
  BY <1>5, <1>6 DEF WithinScope
<1>8. Exactly(q, served')
  BY <1>2, <1>7 DEF Exactly
<1>. QED
  BY <1>1, <1>8

\* A search with an expressible filter finds the granules whose items the filter
\* describes, all of them and no others, for any registry and whatever the
\* archive holds: what is shown can be searched for (extractFilterParams,
\* toASFParams, toCMRParams, both item translations).
THEOREM WhatIsShownIsFound == Spec => FilterExact
<1>1. IInv /\ [Next]_vars =>
        [query' # query /\ Expressible(query'.filter) /\ Separable(query')
           => Exactly(query', served')]_vars
  <2>. SUFFICES ASSUME IInv, [Next]_vars, query' # query,
                       Expressible(query'.filter), Separable(query')
                PROVE  Exactly(query', served')
    OBVIOUS
  <2>1. Search
    BY DEF Next, Fetch, Ingest, Withdraw, Change, vars
  <2>. QED
    BY <2>1, SearchExact
<1>. QED
  BY <1>1, CatalogueInvariant, PTL DEF Spec, FilterExact
=============================================================================
