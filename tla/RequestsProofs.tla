--------------------------- MODULE RequestsProofs ---------------------------
(* Searches and their next links, for any requests, collections and limits. *)
EXTENDS Requests, GeometriesProofs, TLAPS

-----------------------------------------------------------------------------
(* Requests. *)

\* The lack of a link is written as a request.
LEMMA NoLinkType == NoLink \in Request
<1>1. NoCursor \in Bound /\ 0 \in Int
  BY DEF NoCursor, Bound
<1>2. NoGeometry \in Area
  <2>1. <<>> \in Seq(Seq(Seq(Seq(Int))))
    OBVIOUS
  <2>. QED
    BY <2>1, InputsAssumption, Zenon DEF NoGeometry, Geometry, Area
<1>3. /\ <<>> \in Seq(Int) /\ <<>> \in Seq(DatetimePart)
      /\ <<>> \in Seq(Text) /\ <<>> \in Seq(SortField)
  OBVIOUS
<1>4. "GET" \in {"GET", "POST"} /\ "none" \in {"none", "object", "string"}
  OBVIOUS
<1>5. "" \in Text /\ "nowhere" \in Text
  BY InputsAssumption
<1>6. Plainest \in Request
  BY <1>1, <1>2, <1>3, <1>4, <1>5, Zenon DEF Plainest, Request
<1>. QED
  BY <1>5, <1>6, Zenon DEF NoLink, Request

\* A sort written into a query and read again keeps its field and direction.
LEMMA DirectedType ==
  ASSUME NEW d \in SortField
  PROVE  /\ Directed(d) \in SortField
         /\ Directed(d).field = d.field
         /\ Directed(d).direction = "desc" <=> d.direction = "desc"
<1>1. CASE d.direction = "desc"
  BY <1>1 DEF Directed
<1>2. CASE d.direction # "desc"
  <2>1. "asc" \in Text
    BY InputsAssumption
  <2>2. Directed(d) = [d EXCEPT !.direction = "asc"]
    BY <1>2 DEF Directed
  <2>3. Directed(d) \in SortField /\ Directed(d).field = d.field /\ Directed(d).direction = "asc"
    BY <2>1, <2>2, Zenon DEF SortField
  <2>. QED
    BY <1>2, <2>3
<1>. QED
  BY <1>1, <1>2

\* The sort fields of a body, written as a query's.
Written(s) == [i \in DOMAIN s |-> Directed(s[i])]

\* ToQueryParams writes the sort field by field, each with its direction.
LEMMA WrittenType ==
  ASSUME NEW s \in Seq(SortField)
  PROVE  /\ Written(s) \in Seq(SortField)
         /\ Written(s) = <<>> <=> s = <<>>
         /\ DOMAIN Written(s) = DOMAIN s
         /\ \A i \in DOMAIN s : s[i] \in SortField /\ Written(s)[i] = Directed(s[i])
         /\ s # <<>> => 1 \in DOMAIN s
<1>1. Len(s) \in Nat /\ DOMAIN s = 1 .. Len(s) /\ \A i \in 1 .. Len(s) : s[i] \in SortField
  OBVIOUS
<1>2. Written(s) = [i \in 1 .. Len(s) |-> Directed(s[i])]
  BY <1>1 DEF Written
<1>3. \A i \in 1 .. Len(s) : Directed(s[i]) \in SortField
  BY <1>1, DirectedType
<1>4. Written(s) \in [1 .. Len(s) -> SortField]
  BY <1>2, <1>3
<1>5. Written(s) \in Seq(SortField) /\ Len(Written(s)) = Len(s)
  BY <1>1, <1>4
<1>6. s # <<>> => Len(s) > 0
  BY <1>1
<1>7. Written(s) # <<>> => Len(Written(s)) > 0
  BY <1>5
<1>. QED
  BY <1>1, <1>2, <1>5, <1>6, <1>7

\* Records of one shape are equal when their fields are.
LEMMA SameRequest ==
  ASSUME NEW a \in Request, NEW b \in Request,
         a.method = b.method, a.route = b.route, a.malformed = b.malformed,
         a.bbox = b.bbox, a.intersects = b.intersects, a.datetime = b.datetime,
         a.ids = b.ids, a.collections = b.collections, a.limit = b.limit,
         a.cursor = b.cursor, a.sortby = b.sortby, a.filter = b.filter,
         a.lang = b.lang
  PROVE  a = b
<1>1. DOMAIN a = DOMAIN b /\ a = [f \in DOMAIN a |-> a[f]] /\ b = [f \in DOMAIN b |-> b[f]]
  BY Zenon DEF Request
<1>2. DOMAIN a = {"method", "route", "malformed", "bbox", "intersects", "datetime",
      "ids", "collections", "limit", "cursor", "sortby", "filter", "lang"}
  BY Zenon DEF Request
<1>3. ASSUME NEW f \in DOMAIN a PROVE a[f] = b[f]
  BY <1>2, Zenon
<1>. QED
  BY <1>1, <1>3, Zenon

\* What a body loses and gains as a query.
LEMMA ToQueryParamsType ==
  ASSUME NEW r \in Request
  PROVE  LET q == ToQueryParams(r)
         IN  /\ q \in Request
             /\ q.method = "GET" /\ q.route = r.route /\ q.malformed = r.malformed
             /\ q.intersects = r.intersects /\ q.datetime = r.datetime
             /\ q.collections = r.collections /\ q.limit = r.limit
             /\ q.cursor = r.cursor /\ q.filter = r.filter
             /\ q.bbox = IF Len(r.bbox) >= 4 THEN r.bbox ELSE <<>>
             /\ q.ids = IF r.ids = <<"">> THEN <<>> ELSE r.ids
             /\ q.sortby = Written(r.sortby)
             /\ q.lang = IF r.lang = "" /\ r.filter # "none" THEN "cql2-json" ELSE r.lang
<1>. DEFINE bbox == IF Len(r.bbox) >= 4 THEN r.bbox ELSE <<>>
            ids == IF r.ids = <<"">> THEN <<>> ELSE r.ids
            lang == IF r.lang = "" /\ r.filter # "none" THEN "cql2-json" ELSE r.lang
            q == [r EXCEPT !.method = "GET", !.bbox = bbox, !.ids = ids,
                           !.sortby = Written(r.sortby), !.lang = lang]
<1>1. /\ r.bbox \in Seq(Int) /\ r.ids \in Seq(Text) /\ r.lang \in Text
      /\ r.sortby \in Seq(SortField)
  BY Zenon DEF Request
<1>2. bbox \in Seq(Int) /\ ids \in Seq(Text)
  <2>1. <<>> \in Seq(Int) /\ <<>> \in Seq(Text)
    OBVIOUS
  <2>. QED
    BY <1>1, <2>1, Zenon
<1>3. lang \in Text
  BY <1>1, InputsAssumption
<1>4. Written(r.sortby) \in Seq(SortField)
  BY <1>1, WrittenType
<1>5. ToQueryParams(r) = q
  BY Zenon DEF ToQueryParams, Written
<1>6. "GET" \in {"GET", "POST"}
  OBVIOUS
<1>. HIDE DEF bbox, ids, lang
<1>7. q \in Request
  BY <1>2, <1>3, <1>4, <1>6, Zenon DEF Request
<1>8. /\ q.method = "GET" /\ q.route = r.route /\ q.malformed = r.malformed
      /\ q.intersects = r.intersects /\ q.datetime = r.datetime
      /\ q.collections = r.collections /\ q.limit = r.limit
      /\ q.cursor = r.cursor /\ q.filter = r.filter
      /\ q.bbox = bbox /\ q.ids = ids /\ q.sortby = Written(r.sortby) /\ q.lang = lang
  BY Zenon DEF Request
<1>. HIDE DEF q
<1>. QED
  BY <1>5, <1>7, <1>8, Zenon DEF bbox, ids, lang

\* A request as a query keeps its method's parameters.
LEMMA AsQueryType ==
  ASSUME NEW r \in Request
  PROVE  LET q == AsQuery(r)
         IN  /\ q \in Request
             /\ q.method = "GET" /\ q.route = r.route /\ q.malformed = r.malformed
             /\ q.intersects = r.intersects /\ q.datetime = r.datetime
             /\ q.collections = r.collections /\ q.limit = r.limit
             /\ q.cursor = r.cursor /\ q.filter = r.filter
             /\ r.method = "GET" => q = r
             /\ r.method = "POST" => q = ToQueryParams(r)
<1>1. r.method \in {"GET", "POST"}
  BY Zenon DEF Request
<1>2. CASE r.method = "POST"
  BY <1>2, ToQueryParamsType, Zenon DEF AsQuery
<1>3. CASE r.method = "GET"
  <2>1. AsQuery(r) = r
    BY <1>3, "GET" # "POST" DEF AsQuery
  <2>. QED
    BY <1>3, <2>1
<1>. QED
  BY <1>1, <1>2, <1>3

LEMMA PageLimitType ==
  ASSUME NEW r \in Request
  PROVE  /\ PageLimit(r) \in Int /\ FetchLimit(r) \in Int
         /\ r.limit >= 0 => PageLimit(r) >= 1
         /\ r.limit < 0 => PageLimit(r) = r.limit
         /\ r.limit # 0 /\ r.limit <= MaxLimit => PageLimit(r) = r.limit
         /\ PageLimit(r) # 0 /\ PageLimit(r) <= MaxLimit
<1>1. r.limit \in Int /\ r.cursor \in Bound
  BY Zenon DEF Request
<1>2. r.cursor.seen \in Nat
  BY <1>1 DEF Bound
<1>. QED
  BY <1>1, <1>2, RequestsAssumption DEF PageLimit, FetchLimit

LEMMA LinkOfType ==
  ASSUME NEW r \in Request, NEW c \in Bound
  PROVE  LET q == LinkOf(r, c)
         IN  /\ q \in Request
             /\ q.cursor = c /\ q.limit = PageLimit(r)
             /\ q.method = "GET" /\ q.route = r.route /\ q.malformed = r.malformed
             /\ q.intersects = r.intersects /\ q.datetime = r.datetime
             /\ q.collections = r.collections /\ q.filter = r.filter
             /\ q.bbox = AsQuery(r).bbox /\ q.ids = AsQuery(r).ids
             /\ q.sortby = AsQuery(r).sortby /\ q.lang = AsQuery(r).lang
<1>. DEFINE a == AsQuery(r)
            q == [a EXCEPT !.cursor = c, !.limit = PageLimit(r)]
<1>1. /\ a \in Request
      /\ a.method = "GET" /\ a.route = r.route /\ a.malformed = r.malformed
      /\ a.intersects = r.intersects /\ a.datetime = r.datetime
      /\ a.collections = r.collections /\ a.filter = r.filter
  BY AsQueryType, Zenon
<1>2. PageLimit(r) \in Int
  BY PageLimitType
<1>3. LinkOf(r, c) = q
  BY Zenon DEF LinkOf
<1>. HIDE DEF a
<1>4. q \in Request
  BY <1>1, <1>2, Zenon DEF Request
<1>5. /\ q.cursor = c /\ q.limit = PageLimit(r)
      /\ q.method = a.method /\ q.route = a.route /\ q.malformed = a.malformed
      /\ q.intersects = a.intersects /\ q.datetime = a.datetime
      /\ q.collections = a.collections /\ q.filter = a.filter
      /\ q.bbox = a.bbox /\ q.ids = a.ids /\ q.sortby = a.sortby /\ q.lang = a.lang
  BY <1>1, Zenon DEF Request
<1>. HIDE DEF q
<1>. QED
  BY <1>1, <1>3, <1>4, <1>5, Zenon DEF a

\* A link to a link is the link: nothing more is lost on later pages.
LEMMA LinkOfLink ==
  ASSUME NEW r \in Request, NEW c \in Bound, NEW d \in Bound
  PROVE  /\ LinkOf(LinkOf(r, c), d) = LinkOf(r, d)
         /\ PageLimit(LinkOf(r, c)) = PageLimit(r)
<1>. SUFFICES ASSUME NEW q, q = LinkOf(r, c), NEW a, a = LinkOf(q, d), NEW b, b = LinkOf(r, d)
              PROVE  a = b /\ PageLimit(q) = PageLimit(r)
  BY Zenon
<1>1. /\ q \in Request /\ q.method = "GET" /\ q.limit = PageLimit(r)
      /\ q.route = r.route /\ q.malformed = r.malformed
      /\ q.intersects = r.intersects /\ q.datetime = r.datetime
      /\ q.collections = r.collections /\ q.filter = r.filter
      /\ q.bbox = AsQuery(r).bbox /\ q.ids = AsQuery(r).ids
      /\ q.sortby = AsQuery(r).sortby /\ q.lang = AsQuery(r).lang
  BY LinkOfType, Zenon
<1>2. PageLimit(q) = PageLimit(r)
  BY <1>1, PageLimitType
<1>3. AsQuery(q) = q
  BY <1>1, AsQueryType
<1>4. /\ a \in Request
      /\ a.method = "GET" /\ a.cursor = d /\ a.limit = PageLimit(q)
      /\ a.route = q.route /\ a.malformed = q.malformed /\ a.intersects = q.intersects
      /\ a.datetime = q.datetime /\ a.collections = q.collections /\ a.filter = q.filter
      /\ a.bbox = q.bbox /\ a.ids = q.ids /\ a.sortby = q.sortby /\ a.lang = q.lang
  <2>1. /\ a \in Request
        /\ a.method = "GET" /\ a.cursor = d /\ a.limit = PageLimit(q)
        /\ a.route = q.route /\ a.malformed = q.malformed /\ a.intersects = q.intersects
        /\ a.datetime = q.datetime /\ a.collections = q.collections /\ a.filter = q.filter
        /\ a.bbox = AsQuery(q).bbox /\ a.ids = AsQuery(q).ids
        /\ a.sortby = AsQuery(q).sortby /\ a.lang = AsQuery(q).lang
    BY <1>1, LinkOfType, ZenonT(40)
  <2>. QED
    BY <1>3, <2>1
<1>5. /\ b \in Request
      /\ b.method = "GET" /\ b.cursor = d /\ b.limit = PageLimit(r)
      /\ b.route = r.route /\ b.malformed = r.malformed /\ b.intersects = r.intersects
      /\ b.datetime = r.datetime /\ b.collections = r.collections /\ b.filter = r.filter
      /\ b.bbox = AsQuery(r).bbox /\ b.ids = AsQuery(r).ids
      /\ b.sortby = AsQuery(r).sortby /\ b.lang = AsQuery(r).lang
  BY LinkOfType, Zenon
<1>6. a = b
  <2>1. /\ a.method = b.method /\ a.cursor = b.cursor /\ a.limit = b.limit
        /\ a.route = b.route /\ a.malformed = b.malformed /\ a.intersects = b.intersects
        /\ a.datetime = b.datetime /\ a.collections = b.collections /\ a.filter = b.filter
        /\ a.bbox = b.bbox /\ a.ids = b.ids /\ a.sortby = b.sortby /\ a.lang = b.lang
    BY <1>1, <1>2, <1>4, <1>5
  <2>. QED
    BY <1>4, <1>5, <2>1, SameRequest, Zenon
<1>. QED
  BY <1>2, <1>6

\* The same request with another cursor.
LEMMA WithCursor ==
  ASSUME NEW r \in Request, NEW c \in Bound
  PROVE  LET q == [r EXCEPT !.cursor = c]
         IN  /\ q \in Request
             /\ q.cursor = c /\ q.limit = r.limit
             /\ q.method = r.method /\ q.route = r.route /\ q.malformed = r.malformed
             /\ q.intersects = r.intersects /\ q.datetime = r.datetime
             /\ q.collections = r.collections /\ q.filter = r.filter
             /\ q.bbox = r.bbox /\ q.ids = r.ids
             /\ q.sortby = r.sortby /\ q.lang = r.lang
<1>. DEFINE q == [r EXCEPT !.cursor = c]
<1>1. q \in Request
  BY Zenon DEF Request
<1>. QED
  BY <1>1, Zenon DEF Request

-----------------------------------------------------------------------------
(* Queries. *)

LEMMA QueryType ==
  ASSUME NEW ids, NEW collections, NEW wkt, NEW box, NEW polygon, NEW start,
         NEW end, NEW filter, NEW sort, NEW max,
         NEW q, q = Query(ids, collections, wkt, box, polygon, start, end, filter, sort, max)
  PROVE  /\ DOMAIN q = DOMAIN NoQuery
         /\ q.ids = ids /\ q.start = start /\ q.end = end /\ q.max = max
         /\ max # -1 => q # NoQuery
<1>1. q.ids = ids /\ q.start = start /\ q.end = end /\ q.max = max
  BY DEF Query
<1>2. DOMAIN q = DOMAIN NoQuery
  BY Zenon DEF Query, NoQuery
<1>3. NoQuery.max = -1
  BY DEF Query, NoQuery
<1>. QED
  BY <1>1, <1>2, <1>3

\* Queries that differ in their end and their maximum only.
Continues(q, p) == q = [p EXCEPT !.end = q.end, !.max = q.max]

LEMMA QueryOtherwise ==
  ASSUME NEW ids, NEW collections, NEW wkt, NEW box, NEW polygon, NEW start,
         NEW end1, NEW end2, NEW filter, NEW sort, NEW max1, NEW max2,
         NEW p, p = Query(ids, collections, wkt, box, polygon, start, end1, filter, sort, max1),
         NEW q, q = Query(ids, collections, wkt, box, polygon, start, end2, filter, sort, max2)
  PROVE  Continues(q, p)
<1>1. q.end = end2 /\ q.max = max2
  BY QueryType
<1>. DEFINE e == [p EXCEPT !.end = end2, !.max = max2]
            D == {"ids", "collections", "wkt", "box", "polygon", "start", "end",
                  "filter", "sort", "max"}
<1>2. /\ p = [f \in D |-> p[f]] /\ q = [f \in D |-> q[f]] /\ DOMAIN p = D
      /\ q.ids = p.ids /\ q.collections = p.collections /\ q.wkt = p.wkt /\ q.box = p.box
      /\ q.polygon = p.polygon /\ q.start = p.start /\ q.filter = p.filter /\ q.sort = p.sort
  BY Zenon DEF Query
<1>3. e = [f \in D |-> e[f]]
  BY <1>2, Zenon
<1>4. ASSUME NEW f \in D PROVE e[f] = q[f]
  BY <1>1, <1>2, Zenon
<1>5. q = e
  BY <1>2, <1>3, <1>4, ZenonT(40)
<1>. QED
  BY <1>1, <1>5 DEF Continues

LEMMA MomentType ==
  ASSUME NEW r \in Request
  PROVE  /\ StartOf(r) \in Moments /\ EndOf(r) \in Moments
         /\ r.cursor = NoCursor => BoundedEnd(r) = EndOf(r)
<1>1. NoMoment \in Moments
  BY DEF NoMoment, Moment, Moments
<1>2. r.datetime \in Seq(DatetimePart)
  BY Zenon DEF Request
<1>3. ASSUME NEW p \in DatetimePart PROVE Instant(p) \in Moments
  BY <1>1, <1>3 DEF Instant, DatetimePart
<1>4. Parses(r.datetime) => r.datetime[1] \in DatetimePart /\ Last(r.datetime) \in DatetimePart
  BY <1>2 DEF Parses, Last
<1>. QED
  BY <1>1, <1>3, <1>4 DEF StartOf, EndOf, BoundedEnd

\* The parts of a query that are conversions of a request's parameters.
Filtered(r) == r.filter = "object"
Box(r) == IF Len(r.bbox) >= 4 THEN SubSeq(r.bbox, 1, 4) ELSE <<>>
ASFSorted(r) == IF r.sortby = <<>> THEN <<"", "">> ELSE <<"", ASFSort(r.sortby[1].field)>>
CMRSorted(r) == IF r.sortby = <<>> THEN <<"-", "start_date">>
                ELSE <<IF r.sortby[1].direction = "desc" THEN "-" ELSE "",
                       CMRSort(r.sortby[1].field)>>
ASFMax(r) == IF FetchLimit(r) > 0 THEN FetchLimit(r) ELSE 0
CMRMax(r) == IF FetchLimit(r) > 0 THEN FetchLimit(r) ELSE CMRPageSize

LEMMA ASFConverted ==
  ASSUME NEW r \in Request, backend = "asf"
  PROVE  Converted(r) =
           IF r.ids # <<>> THEN [NoQuery EXCEPT !.ids = r.ids, !.max = 0]
           ELSE Query(<<>>, CollectionsOf(r), ASFArea(r), <<>>, <<>>, InUTC(StartOf(r)),
                      InUTC(BoundedEnd(r)), Filtered(r), ASFSorted(r), ASFMax(r))
BY Zenon DEF Converted, ToASF, Filtered, ASFSorted, ASFMax

LEMMA CMRConverted ==
  ASSUME NEW r \in Request, backend # "asf"
  PROVE  Converted(r) =
           Query(r.ids, CollectionsOf(r), NoText, Box(r), CMRPolygon(r.intersects),
                 AsWritten(StartOf(r)), AsWritten(BoundedEnd(r)), Filtered(r), CMRSorted(r),
                 CMRMax(r))
BY Zenon DEF Converted, ToCMR, Filtered, Box, CMRSorted, CMRMax

\* A converted request is a query, none of them is the query that was not sent,
\* and the end of each is that of its request.
LEMMA ConvertedType ==
  ASSUME NEW r \in Request
  PROVE  /\ DOMAIN Converted(r) = DOMAIN NoQuery
         /\ Converted(r).max \in Nat
         /\ Converted(r) # NoQuery
         /\ Converted(r).start = IF backend # "asf" THEN AsWritten(StartOf(r))
                                 ELSE IF r.ids = <<>> THEN InUTC(StartOf(r)) ELSE NoMoment
         /\ Converted(r).end = IF backend # "asf" THEN AsWritten(BoundedEnd(r))
                               ELSE IF r.ids = <<>> THEN InUTC(BoundedEnd(r)) ELSE NoMoment
<1>1. ASFMax(r) \in Nat /\ CMRMax(r) \in Nat
  BY PageLimitType, RequestsAssumption DEF ASFMax, CMRMax
<1>2. CASE backend = "asf" /\ r.ids # <<>>
  <2>1. Converted(r) = [NoQuery EXCEPT !.ids = r.ids, !.max = 0]
    BY <1>2, ASFConverted
  <2>2. /\ DOMAIN Converted(r) = DOMAIN NoQuery /\ Converted(r).max = 0
        /\ Converted(r).start = NoMoment /\ Converted(r).end = NoMoment
        /\ NoQuery.max = -1
    BY <2>1, Zenon DEF NoQuery, Query
  <2>. QED
    BY <1>2, <2>2
<1>3. CASE backend = "asf" /\ r.ids = <<>>
  <2>1. Converted(r) = Query(<<>>, CollectionsOf(r), ASFArea(r), <<>>, <<>>,
                             InUTC(StartOf(r)), InUTC(BoundedEnd(r)), Filtered(r),
                             ASFSorted(r), ASFMax(r))
    BY <1>3, ASFConverted
  <2>2. ASFMax(r) # -1
    BY <1>1
  <2>3. /\ DOMAIN Converted(r) = DOMAIN NoQuery /\ Converted(r).max = ASFMax(r)
        /\ Converted(r) # NoQuery
        /\ Converted(r).start = InUTC(StartOf(r)) /\ Converted(r).end = InUTC(BoundedEnd(r))
    BY <2>1, <2>2, QueryType
  <2>. QED
    BY <1>1, <1>3, <2>3
<1>4. CASE backend # "asf"
  <2>1. Converted(r) = Query(r.ids, CollectionsOf(r), NoText, Box(r), CMRPolygon(r.intersects),
                             AsWritten(StartOf(r)), AsWritten(BoundedEnd(r)), Filtered(r),
                             CMRSorted(r), CMRMax(r))
    BY <1>4, CMRConverted
  <2>2. CMRMax(r) # -1
    BY <1>1
  <2>3. /\ DOMAIN Converted(r) = DOMAIN NoQuery /\ Converted(r).max = CMRMax(r)
        /\ Converted(r) # NoQuery
        /\ Converted(r).start = AsWritten(StartOf(r))
        /\ Converted(r).end = AsWritten(BoundedEnd(r))
    BY <2>1, <2>2, QueryType
  <2>. QED
    BY <1>1, <1>4, <2>3
<1>. QED
  BY <1>2, <1>3, <1>4

\* Two requests that agree on all but cursor, limit and how they were written
\* ask the upstream the same question, up to its end and its maximum.
Agree(q, r) ==
  /\ q.route = r.route /\ q.collections = r.collections /\ q.ids = r.ids
  /\ q.bbox = r.bbox /\ q.intersects = r.intersects /\ q.datetime = r.datetime
  /\ q.filter = r.filter
  /\ q.sortby = r.sortby \/ q.sortby = Written(r.sortby)

\* The two writings of a sort give the upstream the same order.
LEMMA SameSort ==
  ASSUME NEW q \in Request, NEW r \in Request,
         q.sortby = r.sortby \/ q.sortby = Written(r.sortby)
  PROVE  /\ q.sortby = <<>> <=> r.sortby = <<>>
         /\ r.sortby # <<>> =>
              /\ q.sortby[1].field = r.sortby[1].field
              /\ q.sortby[1].direction = "desc" <=> r.sortby[1].direction = "desc"
<1>1. r.sortby \in Seq(SortField)
  BY Zenon DEF Request
<1>2. CASE q.sortby = r.sortby
  BY <1>2
<1>3. CASE q.sortby = Written(r.sortby)
  <2>1. q.sortby = <<>> <=> r.sortby = <<>>
    BY <1>1, <1>3, WrittenType
  <2>2. ASSUME r.sortby # <<>>
        PROVE  r.sortby[1] \in SortField /\ q.sortby[1] = Directed(r.sortby[1])
    BY <1>1, <1>3, <2>2, WrittenType
  <2>. QED
    BY <2>1, <2>2, DirectedType
<1>. QED
  BY <1>2, <1>3

\* Requests that agree ask the upstream the same but for end and maximum.
LEMMA SameQuestion ==
  ASSUME NEW q \in Request, NEW r \in Request, Agree(q, r)
  PROVE  Continues(Converted(q), Converted(r))
<1>1. /\ CollectionsOf(q) = CollectionsOf(r) /\ ASFArea(q) = ASFArea(r)
      /\ StartOf(q) = StartOf(r)
      /\ q.ids = r.ids /\ q.bbox = r.bbox /\ q.intersects = r.intersects
      /\ q.filter = r.filter
  BY Zenon DEF Agree, CollectionsOf, ASFArea, StartOf
<1>2. ASFSorted(q) = ASFSorted(r) /\ CMRSorted(q) = CMRSorted(r)
  BY SameSort, Zenon DEF Agree, ASFSorted, CMRSorted
<1>3. Box(q) = Box(r) /\ Filtered(q) = Filtered(r)
  BY <1>1, Zenon DEF Box, Filtered
<1>4. CASE backend = "asf" /\ r.ids # <<>>
  <2>. DEFINE p == [NoQuery EXCEPT !.ids = r.ids, !.max = 0]
  <2>1. Converted(q) = p /\ Converted(r) = p
    BY <1>1, <1>4, ASFConverted
  <2>2. Continues(p, p)
    BY DEF Continues, NoQuery, Query
  <2>. HIDE DEF p
  <2>. QED
    BY <2>1, <2>2
<1>5. CASE backend = "asf" /\ r.ids = <<>>
  <2>1. /\ Converted(r) = Query(<<>>, CollectionsOf(r), ASFArea(r), <<>>, <<>>,
                                InUTC(StartOf(r)), InUTC(BoundedEnd(r)), Filtered(r),
                                ASFSorted(r), ASFMax(r))
        /\ Converted(q) = Query(<<>>, CollectionsOf(r), ASFArea(r), <<>>, <<>>,
                                InUTC(StartOf(r)), InUTC(BoundedEnd(q)), Filtered(r),
                                ASFSorted(r), ASFMax(q))
    BY <1>1, <1>2, <1>3, <1>5, ASFConverted
  <2>. QED
    BY <2>1, QueryOtherwise
<1>6. CASE backend # "asf"
  <2>1. /\ Converted(r) = Query(r.ids, CollectionsOf(r), NoText, Box(r),
                                CMRPolygon(r.intersects), AsWritten(StartOf(r)),
                                AsWritten(BoundedEnd(r)), Filtered(r), CMRSorted(r), CMRMax(r))
        /\ Converted(q) = Query(r.ids, CollectionsOf(r), NoText, Box(r),
                                CMRPolygon(r.intersects), AsWritten(StartOf(r)),
                                AsWritten(BoundedEnd(q)), Filtered(r), CMRSorted(r), CMRMax(q))
    BY <1>1, <1>2, <1>3, <1>6, CMRConverted
  <2>. QED
    BY <2>1, QueryOtherwise
<1>. QED
  BY <1>4, <1>5, <1>6

\* The end of a query: the bound of its cursor, if that comes before the end
\* that was asked for.
LEMMA EndsEarlier ==
  ASSUME NEW q \in Request, NEW r \in Request, Agree(q, r),
         q.cursor = NoCursor \/ Readable(q.cursor), r.cursor = NoCursor,
         Converted(r).end # NoMoment
  PROVE  /\ Converted(q).end # NoMoment
         /\ backend = "asf" \/ EndOf(r).offset >= 0 => Converted(q).end.at <= Converted(r).end.at
<1>. DEFINE end == EndOf(r)
            bound == Moment(q.cursor.bound + 1, 0)
<1>1. end \in Moments /\ BoundedEnd(r) = end
  BY MomentType
<1>2. EndOf(q) = end /\ q.ids = r.ids
  BY Zenon DEF Agree, EndOf
<1>3. \/ BoundedEnd(q) = end
      \/ /\ BoundedEnd(q) = bound /\ q.cursor.bound \in Nat
         /\ end = NoMoment \/ end.at >= bound.at
  <2>1. CASE q.cursor = NoCursor
    BY <1>2, <2>1 DEF BoundedEnd
  <2>2. CASE q.cursor # NoCursor
    <3>1. q.cursor.bound \in Nat
      BY <2>2 DEF Readable
    <3>2. end.at \in Int /\ end.frac \in Nat
      BY <1>1 DEF Moments
    <3>3. bound.at = q.cursor.bound + 1 /\ bound.frac = 0
      BY DEF Moment
    <3>4. Before(bound, end) => end.at >= bound.at
      BY <3>1, <3>2, <3>3 DEF Before
    <3>. QED
      BY <1>2, <2>2, <3>1, <3>4 DEF BoundedEnd
  <2>. QED
    BY <2>1, <2>2
<1>. HIDE DEF end
<1>4. CASE backend = "asf"
  <2>1. r.ids = <<>>
    BY <1>4, ConvertedType
  <2>2. Converted(q).end = InUTC(BoundedEnd(q)) /\ Converted(r).end = InUTC(end)
    BY <1>1, <1>2, <1>4, <2>1, ConvertedType
  <2>. QED
    BY <1>1, <1>3, <2>2 DEF InUTC, Moment, Moments, NoMoment
<1>5. CASE backend # "asf"
  <2>1. Converted(q).end = AsWritten(BoundedEnd(q)) /\ Converted(r).end = AsWritten(end)
    BY <1>1, <1>5, ConvertedType
  <2>. QED
    BY <1>1, <1>3, <1>5, <2>1 DEF AsWritten, Moment, Moments, NoMoment, end
<1>. QED
  BY <1>4, <1>5

-----------------------------------------------------------------------------
(* Types. *)

LEMMA ParsedType ==
  ASSUME NEW r \in Request
  PROVE  /\ Parsed(r) \in Request
         /\ Parsed(r).ids = r.ids /\ Parsed(r).datetime = r.datetime
         /\ Parsed(r).cursor = r.cursor /\ Parsed(r).limit = r.limit
<1>1. CASE Parsed(r) = r
  BY <1>1
<1>2. CASE Parsed(r) = [r EXCEPT !.filter = "string"]
  <2>1. "string" \in {"none", "object", "string"}
    OBVIOUS
  <2>. QED
    BY <1>2, <2>1, Zenon DEF Request
<1>. QED
  BY <1>1, <1>2 DEF Parsed

LEMMA CursorTypes ==
  /\ NoCursor \in Bound /\ Unreadable \in Bound /\ NoCursor # Unreadable
  /\ \A c \in NextCursors : c \in Bound /\ Readable(c)
  /\ \A r \in Request : r.cursor \in Bound
<1>1. NoCursor \in Bound /\ Unreadable \in Bound /\ NoCursor # Unreadable
  BY DEF NoCursor, Unreadable, Bound
<1>2. ASSUME NEW c \in NextCursors PROVE c \in Bound /\ Readable(c)
  BY <1>2, RequestsAssumption DEF NextCursors, Bound, Readable
<1>3. \A r \in Request : r.cursor \in Bound
  BY Zenon DEF Request
<1>. QED
  BY <1>1, <1>2, <1>3

\* What a refusal says, and what a request that is not refused has.
LEMMA CodeMeans ==
  ASSUME NEW routed \in BOOLEAN, NEW refused \in BOOLEAN, NEW known \in BOOLEAN, NEW code,
         code = IF ~routed THEN 404 ELSE IF refused THEN 400 ELSE IF ~known THEN 404 ELSE 0
  PROVE  /\ code \in {0, 400, 404}
         /\ code = 400 => refused
         /\ code = 404 => ~routed \/ ~known
         /\ code = 0 => ~refused
OBVIOUS

\* A request is refused for a reason, or not at all.
LEMMA RefusalMeans ==
  ASSUME NEW r \in Request
  PROVE  /\ Refusal(r) \in {0, 400, 404}
         /\ Refusal(r) = 0 => ~Refused(r) /\ r.cursor # Unreadable
<1>. DEFINE routed == r.route \in Known \cup {""}
            refused == Refused(r) \/ r.cursor = Unreadable
            known == ~(r.route = "" /\ ~(ToSet(r.collections) \subseteq Known))
<1>1. routed \in BOOLEAN /\ refused \in BOOLEAN /\ known \in BOOLEAN
  OBVIOUS
<1>2. Refusal(r) = IF ~routed THEN 404 ELSE IF refused THEN 400 ELSE IF ~known THEN 404 ELSE 0
  BY ZenonT(40) DEF Refusal
<1>. HIDE DEF routed, refused, known
<1>3. Refusal(r) \in {0, 400, 404} /\ (Refusal(r) = 0 => ~refused)
  BY <1>1, <1>2, CodeMeans
<1>. QED
  BY <1>3, Zenon DEF refused

\* What refuses a request that parses.
LEMMA GoodRefusalMeans ==
  ASSUME NEW r \in Request, ~Refused(r)
  PROVE  /\ Refusal(r) \in {0, 400, 404}
         /\ Refusal(r) = 400 => r.cursor = Unreadable
         /\ Refusal(r) = 404 => NamesUnknown(r)
<1>. DEFINE routed == r.route \in Known \cup {""}
            lost == r.cursor = Unreadable
            known == ~(r.route = "" /\ ~(ToSet(r.collections) \subseteq Known))
<1>1. routed \in BOOLEAN /\ lost \in BOOLEAN /\ known \in BOOLEAN
  OBVIOUS
<1>2. Refusal(r) = IF ~routed THEN 404 ELSE IF lost THEN 400 ELSE IF ~known THEN 404 ELSE 0
  BY ZenonT(40) DEF Refusal
<1>3. ~routed \/ ~known => NamesUnknown(r)
  BY Zenon DEF NamesUnknown
<1>. HIDE DEF routed, lost, known
<1>4. Refusal(r) \in {0, 400, 404} /\ (Refusal(r) = 400 => lost) /\ (Refusal(r) = 404 => NamesUnknown(r))
  BY <1>1, <1>2, <1>3, CodeMeans
<1>. QED
  BY <1>4, Zenon DEF lost

\* The answers of Respond: a page with or without a link, or the panic's.
LEMMA Responds ==
  ASSUME NEW count \in Int, NEW kept \in Int, Respond(count, kept)
  PROVE  /\ phase' = "answered"
         /\ \/ status' = 200 /\ \E c \in NextCursors : link' = LinkOf(wire, c)
            \/ status' = 200 /\ link' = NoLink
            \/ /\ status' = 500 /\ link' = NoLink
               /\ PageLimit(wire) < 0 \/ kept < 0
BY DEF Respond, Answer

\* Searches keep their types.
THEOREM RequestsTypeCorrect == Spec => []TypeOK
<1>1. Init => TypeOK
  <2>1. SUFFICES ASSUME Init PROVE TypeOK
    OBVIOUS
  <2>2. asked \in Request /\ NoLink \in Request
    BY <2>1, InputsAssumption, NoLinkType DEF Init
  <2>. QED
    BY <2>1, <2>2 DEF Init, TypeOK
<1>2. TypeOK /\ [Next]_vars => TypeOK'
  <2>. SUFFICES ASSUME TypeOK, [Next]_vars PROVE TypeOK'
    OBVIOUS
  <2>1. /\ backend \in {"asf", "cmr"} /\ asked \in Request /\ wire \in Request
        /\ link \in Request /\ NoLink \in Request
        /\ phase \in {"asking", "asked", "answered"}
        /\ sent # NoQuery => DOMAIN sent = DOMAIN NoQuery /\ sent.max >= 0
        /\ first # NoQuery => DOMAIN first = DOMAIN NoQuery /\ first.max >= 0
        /\ status \in {0, 200, 400, 404, 500, 502}
    BY NoLinkType DEF TypeOK
  <2>2. CASE Refuse
    <3>1. \A r \in Request : Refusal(r) \in {0, 400, 404}
      <4>1. TAKE r \in Request
      <4>. QED
        BY RefusalMeans, Zenon
    <3>. QED
      BY <2>1, <2>2, <3>1 DEF Refuse, Answer, TypeOK
  <2>3. CASE Call
    <3>. DEFINE q == Converted(Parsed(wire))
    <3>1. DOMAIN q = DOMAIN NoQuery /\ q.max >= 0
      BY <2>1, ParsedType, ConvertedType
    <3>2. /\ sent' = q /\ first' = (IF first = NoQuery THEN q ELSE first)
          /\ phase' = "asked"
          /\ UNCHANGED <<backend, asked, wire, status, link>>
      BY <2>3 DEF Call
    <3>. HIDE DEF q
    <3>3. first' # NoQuery => DOMAIN first' = DOMAIN NoQuery /\ first'.max >= 0
      BY <2>1, <3>1, <3>2
    <3>4. \A p \in {sent', first'} \ {NoQuery} : DOMAIN p = DOMAIN NoQuery /\ p.max >= 0
      BY <3>1, <3>2, <3>3, Zenon
    <3>5. {asked', wire', link'} \subseteq Request
      BY <2>1, <3>2
    <3>. QED
      BY <2>1, <3>2, <3>4, <3>5, ZenonT(40) DEF TypeOK
  <2>4. CASE CannotCall
    BY <2>1, <2>4 DEF CannotCall, Answer, TypeOK
  <2>5. CASE CallFails
    BY <2>1, <2>5 DEF CallFails, Answer, TypeOK
  <2>6. CASE CallReturns
    <3>1. PICK count \in Int, kept \in Int : Respond(count, kept)
      BY <2>6 DEF CallReturns
    <3>2. phase' = "answered" /\ status' \in {200, 500} /\ link' \in Request
      BY <2>1, <3>1, Responds, LinkOfType, CursorTypes
    <3>. QED
      BY <2>1, <2>6, <3>2 DEF CallReturns, TypeOK
  <2>7. CASE Follow
    BY <2>1, <2>7 DEF Follow, TypeOK
  <2>8. CASE Repeat
    BY <2>1, <2>8 DEF Repeat, TypeOK
  <2>9. CASE Expire
    <3>1. wire' \in Request
      BY <2>1, <2>9, WithCursor, CursorTypes DEF Expire
    <3>. QED
      BY <2>1, <2>9, <3>1 DEF Expire, TypeOK
  <2>10. CASE UNCHANGED vars
    BY <2>1, <2>10 DEF vars, TypeOK
  <2>. QED
    BY <2>2, <2>3, <2>4, <2>5, <2>6, <2>7, <2>8, <2>9, <2>10 DEF Next
<1>. QED
  BY <1>1, <1>2, PTL DEF Spec

-----------------------------------------------------------------------------
(* Links. *)

\* No refused request reaches the upstream.
LEMMA Accepted ==
  ASSUME NEW r \in Request, Refusal(r) = 0
  PROVE  ~Refused(r) /\ r.cursor # Unreadable
BY RefusalMeans, ZenonT(40)

\* The conjuncts of WireInv that tell what is on its way.
LEMMA WireIs ==
  ASSUME TypeOK, WireInv
  PROVE  /\ asked \in Request /\ wire \in Request /\ link \in Request /\ wire.cursor \in Bound
         /\ wire = asked \/ wire = LinkOf(asked, wire.cursor)
         /\ \A c \in Bound : LinkOf(wire, c) = LinkOf(asked, c)
         /\ PageLimit(wire) = PageLimit(asked)
<1>1. /\ asked \in Request /\ wire \in Request /\ link \in Request /\ wire.cursor \in Bound
      /\ wire = asked \/ wire = LinkOf(asked, wire.cursor)
  BY CursorTypes DEF TypeOK, WireInv
<1>2. CASE wire = asked
  BY <1>1, <1>2
<1>3. CASE wire = LinkOf(asked, wire.cursor)
  BY <1>1, <1>3, LinkOfLink
<1>. QED
  BY <1>1, <1>2, <1>3

\* A followed link that no longer resolves.
LEMMA LinkExpires ==
  ASSUME NEW r, NEW c, NEW d
  PROVE  [LinkOf(r, c) EXCEPT !.cursor = d] = LinkOf(r, d)
BY Zenon DEF LinkOf

\* What a step has to keep, with the queries of the first request named.
LEMMA WireInvKept ==
  ASSUME asked' = asked, backend' = backend,
         asked.cursor \in {NoCursor, Unreadable},
         wire' = asked \/ wire' = LinkOf(asked, wire'.cursor),
         wire'.cursor \in {asked.cursor, Unreadable} \/ Readable(wire'.cursor),
         link' # NoLink => link' = LinkOf(asked, link'.cursor) /\ Readable(link'.cursor),
         phase' = "asked" => first' # NoQuery,
         first' = NoQuery <=> sent' = NoQuery,
         first' = NoQuery => wire' = asked /\ link' = NoLink,
         first' # NoQuery => asked.cursor = NoCursor /\ first' = Converted(Parsed(asked))
  PROVE  WireInv'
<1>1. Converted(Parsed(asked))' = Converted(Parsed(asked))
  BY DEF Converted
<1>. QED
  BY <1>1, Zenon DEF WireInv

\* The wire holds the first request or a link of it over every step.
LEMMA WireInvInductive ==
  /\ Init => WireInv
  /\ TypeOK /\ WireInv /\ [Next]_vars => WireInv'
<1>1. Init => WireInv
  BY InputsAssumption DEF Init, WireInv
<1>2. TypeOK /\ WireInv /\ [Next]_vars => WireInv'
  <2>. SUFFICES ASSUME TypeOK, WireInv, [Next]_vars PROVE WireInv'
    OBVIOUS
  <2>1. /\ asked \in Request /\ wire \in Request /\ link \in Request /\ wire.cursor \in Bound
        /\ asked.cursor \in {NoCursor, Unreadable}
        /\ wire = asked \/ wire = LinkOf(asked, wire.cursor)
        /\ wire.cursor \in {asked.cursor, Unreadable} \/ Readable(wire.cursor)
        /\ link # NoLink => link = LinkOf(asked, link.cursor) /\ Readable(link.cursor)
        /\ phase = "asked" => first # NoQuery
        /\ first = NoQuery <=> sent = NoQuery
        /\ first = NoQuery => wire = asked /\ link = NoLink
        /\ first # NoQuery => asked.cursor = NoCursor /\ first = Converted(Parsed(asked))
    BY WireIs, Zenon DEF WireInv
  <2>2. CASE Refuse
    BY <2>1, <2>2, WireInvKept DEF Refuse, Answer
  <2>3. CASE Call
    <3>. DEFINE q == Converted(Parsed(wire))
    <3>1. /\ sent' = q /\ first' = (IF first = NoQuery THEN q ELSE first)
          /\ phase' = "asked" /\ Refusal(wire) = 0
          /\ UNCHANGED <<backend, asked, wire, status, link>>
      BY <2>3 DEF Call
    <3>2. q # NoQuery
      BY <2>1, ParsedType, ConvertedType
    <3>3. first = NoQuery => asked.cursor = NoCursor /\ q = Converted(Parsed(asked))
      BY <2>1, <3>1, Accepted
    <3>. HIDE DEF q
    <3>. QED
      BY <2>1, <3>1, <3>2, <3>3, WireInvKept
  <2>4. CASE CannotCall
    BY <2>1, <2>4, WireInvKept DEF CannotCall, Answer
  <2>5. CASE CallFails
    BY <2>1, <2>5, WireInvKept DEF CallFails, Answer
  <2>6. CASE CallReturns
    <3>1. PICK count \in Int, kept \in Int : Respond(count, kept)
      BY <2>6 DEF CallReturns
    <3>2. phase' = "answered"
      BY <3>1, Responds
    <3>3. link' # NoLink => link' = LinkOf(asked, link'.cursor) /\ Readable(link'.cursor)
      <4>. SUFFICES ASSUME NEW c \in NextCursors, link' = LinkOf(wire, c)
                    PROVE  link' = LinkOf(asked, link'.cursor) /\ Readable(link'.cursor)
        BY <3>1, Responds
      <4>1. c \in Bound /\ Readable(c)
        BY CursorTypes
      <4>2. link' = LinkOf(asked, c)
        BY <4>1, WireIs
      <4>3. link'.cursor = c
        BY <2>1, <4>1, <4>2, LinkOfType
      <4>. QED
        BY <4>1, <4>2, <4>3
    <3>4. phase = "asked" /\ UNCHANGED <<backend, asked, wire, sent, first>>
      BY <2>6 DEF CallReturns
    <3>. QED
      BY <2>1, <3>2, <3>3, <3>4, WireInvKept
  <2>7. CASE Follow
    BY <2>1, <2>7, WireInvKept DEF Follow
  <2>8. CASE Repeat
    BY <2>1, <2>8, WireInvKept DEF Repeat
  <2>9. CASE Expire
    <3>1. /\ wire.cursor.bound >= 0 /\ wire' = [wire EXCEPT !.cursor = Unreadable]
          /\ UNCHANGED <<backend, asked, phase, sent, first, status, link>>
      BY <2>9 DEF Expire
    <3>2. wire = LinkOf(asked, wire.cursor) /\ wire # asked
      BY <2>1, <3>1 DEF NoCursor, Unreadable
    <3>3. wire' = LinkOf(asked, Unreadable)
      <4>1. PICK d \in Bound : wire = LinkOf(asked, d)
        BY <2>1, <3>2
      <4>2. [LinkOf(asked, d) EXCEPT !.cursor = Unreadable] = LinkOf(asked, Unreadable)
        BY LinkExpires
      <4>. QED
        BY <3>1, <4>1, <4>2
    <3>4. wire'.cursor = Unreadable
      BY <2>1, <3>3, LinkOfType, CursorTypes
    <3>. QED
      BY <2>1, <3>1, <3>2, <3>3, <3>4, WireInvKept
  <2>10. CASE UNCHANGED vars
    BY <2>1, <2>10, WireInvKept DEF vars
  <2>. QED
    BY <2>2, <2>3, <2>4, <2>5, <2>6, <2>7, <2>8, <2>9, <2>10 DEF Next
<1>. QED
  BY <1>1, <1>2

-----------------------------------------------------------------------------
(* The links of a good request ask what it asked, and are good requests. *)

\* What well-formedness says of a request.
LEMMA GoodRequest ==
  ASSUME NEW r \in Request, WellFormed(r)
  PROVE  /\ ~r.malformed /\ r.limit >= 0
         /\ r.ids # <<"">>
         /\ r.bbox # <<>> => Len(r.bbox) \in {4, 6}
         /\ \A i \in DOMAIN r.sortby : r.sortby[i].field # ""
         /\ r.filter = "object" => r.lang \in {"", "cql2-json"}
<1>1. Valid(r) /\ Declared(r)
  BY DEF WellFormed
<1>2. ~r.malformed /\ (r.filter = "object" => r.lang \in {"", "cql2-json"})
  BY <1>1 DEF Declared
<1>3. \A i \in DOMAIN r.sortby : r.sortby[i].field # ""
  BY <1>1, Zenon DEF Declared, ToSet
<1>4. r.limit >= 0 /\ (r.bbox # <<>> => Len(r.bbox) \in {4, 6})
  BY <1>1 DEF Valid, ValidBBox
<1>5. "" \notin ToSet(r.ids)
  BY <1>1 DEF Valid
<1>6. r.ids # <<"">>
  <2>1. /\ Len(<<"">>) = 1 /\ <<"">>[1] = ""
        /\ 1 \in 1 .. 1
    OBVIOUS
  <2>2. DOMAIN r.ids = 1 .. Len(r.ids)
    <3>1. r.ids \in Seq(Text)
      BY Zenon DEF Request
    <3>. QED
      BY <3>1
  <2>. QED
    BY <1>5, <2>1, <2>2, Zenon DEF ToSet
<1>. QED
  BY <1>2, <1>3, <1>4, <1>6

\* What no parser refuses.
LEMMA NotRefused ==
  ASSUME NEW q, ~q.malformed, Len(q.bbox) \in {0, 4, 6}, ~(q.limit < 0),
         \A i \in DOMAIN q.sortby : q.sortby[i].field # ""
  PROVE  ~Refused(q)
<1>1. \A s \in ToSet(q.sortby) : s.field # ""
  BY Zenon DEF ToSet
<1>. QED
  BY <1>1, Zenon DEF Refused

\* The link of a well-formed request agrees with it.
LEMMA LinkAgrees ==
  ASSUME NEW r \in Request, NEW c \in Bound, WellFormed(r),
         NEW q, q = r \/ q = LinkOf(r, c)
  PROVE  q \in Request /\ Agree(q, r) /\ Parsed(q) = q /\ ~Refused(q)
<1>1. /\ ~r.malformed /\ r.limit >= 0 /\ r.ids # <<"">>
      /\ r.bbox # <<>> => Len(r.bbox) \in {4, 6}
      /\ \A i \in DOMAIN r.sortby : r.sortby[i].field # ""
      /\ r.filter = "object" => r.lang \in {"", "cql2-json"}
  BY GoodRequest
<1>2. /\ r.bbox \in Seq(Int) /\ r.sortby \in Seq(SortField) /\ r.limit \in Int
      /\ r.method \in {"GET", "POST"}
  BY Zenon DEF Request
<1>3. Len(r.bbox) \in {0, 4, 6}
  <2>1. Len(<<>>) = 0
    OBVIOUS
  <2>. QED
    BY <1>1, <2>1
<1>4. CASE q = r
  <2>1. Agree(q, r)
    BY <1>4, Zenon DEF Agree
  <2>2. Parsed(q) = q
    BY <1>1, <1>4 DEF Parsed
  <2>3. ~Refused(q)
    <3>1. ASSUME NEW n \in Int, n >= 0 PROVE ~(n < 0)
      BY <3>1
    <3>2. ~(q.limit < 0)
      BY <1>1, <1>2, <1>4, <3>1, Zenon
    <3>. QED
      BY <1>1, <1>3, <1>4, <3>2, NotRefused, Zenon
  <2>. QED
    BY <1>4, <2>1, <2>2, <2>3
<1>5. CASE q = LinkOf(r, c)
  <2>1. /\ q \in Request
        /\ q.cursor = c /\ q.limit = PageLimit(r)
        /\ q.route = r.route /\ q.malformed = r.malformed
        /\ q.intersects = r.intersects /\ q.datetime = r.datetime
        /\ q.collections = r.collections /\ q.filter = r.filter
        /\ q.bbox = AsQuery(r).bbox /\ q.ids = AsQuery(r).ids
        /\ q.sortby = AsQuery(r).sortby /\ q.lang = AsQuery(r).lang
    BY <1>5, LinkOfType, Zenon
  <2>2. /\ q.bbox = r.bbox /\ q.ids = r.ids
        /\ q.sortby = r.sortby \/ q.sortby = Written(r.sortby)
        /\ r.filter = "object" => q.lang \in {"", "cql2-json"}
    <3>1. CASE r.method = "GET"
      BY <1>1, <2>1, <3>1, AsQueryType, ZenonT(40)
    <3>2. CASE r.method = "POST"
      <4>1. AsQuery(r) = ToQueryParams(r)
        BY <3>2, AsQueryType
      <4>2. /\ q.bbox = IF Len(r.bbox) >= 4 THEN r.bbox ELSE <<>>
            /\ q.ids = IF r.ids = <<"">> THEN <<>> ELSE r.ids
            /\ q.sortby = Written(r.sortby)
            /\ q.lang = IF r.lang = "" /\ r.filter # "none" THEN "cql2-json" ELSE r.lang
        <5>. DEFINE a == ToQueryParams(r)
        <5>1. /\ a.bbox = IF Len(r.bbox) >= 4 THEN r.bbox ELSE <<>>
              /\ a.ids = IF r.ids = <<"">> THEN <<>> ELSE r.ids
              /\ a.sortby = Written(r.sortby)
              /\ a.lang = IF r.lang = "" /\ r.filter # "none" THEN "cql2-json" ELSE r.lang
          BY ToQueryParamsType, Zenon
        <5>. HIDE DEF a
        <5>2. q.bbox = a.bbox /\ q.ids = a.ids /\ q.sortby = a.sortby /\ q.lang = a.lang
          BY <2>1, <4>1, Zenon DEF a
        <5>. QED
          BY <5>1, <5>2, Zenon
      <4>3. q.bbox = r.bbox
        <5>1. \A n \in {4, 6} : n >= 4
          OBVIOUS
        <5>. QED
          BY <1>1, <4>2, <5>1, Zenon
      <4>4. r.filter = "object" => q.lang = "cql2-json"
        <5>1. "object" # "none"
          OBVIOUS
        <5>. QED
          BY <1>1, <4>2, <5>1, Zenon
      <4>. QED
        BY <1>1, <4>2, <4>3, <4>4, Zenon
    <3>. QED
      BY <1>2, <3>1, <3>2
  <2>3. Agree(q, r)
    BY <2>1, <2>2, Zenon DEF Agree
  <2>4. Parsed(q) = q
    BY <1>1, <2>1, <2>2 DEF Parsed
  <2>5. \A i \in DOMAIN q.sortby : q.sortby[i].field # ""
    <3>1. \A i \in DOMAIN r.sortby : Written(r.sortby)[i].field = r.sortby[i].field
      BY <1>2, WrittenType, DirectedType
    <3>2. DOMAIN Written(r.sortby) = DOMAIN r.sortby
      BY <1>2, WrittenType
    <3>. QED
      BY <1>1, <2>2, <3>1, <3>2, Zenon
  <2>6. q.limit >= 0
    <3>1. PageLimit(r) \in Int /\ PageLimit(r) >= 1
      BY <1>1, PageLimitType
    <3>. QED
      BY <2>1, <3>1
  <2>7. ~Refused(q)
    <3>1. ~(q.limit < 0)
      BY <1>2, <2>1, <2>6, PageLimitType
    <3>. QED
      BY <1>1, <1>3, <2>1, <2>2, <2>5, <3>1, NotRefused, Zenon
  <2>. QED
    BY <2>1, <2>3, <2>4, <2>7
<1>. QED
  BY <1>4, <1>5

\* However a search was sent, its pages ask the upstream the same question, up
\* to an end that is never later.
THEOREM LinksKeepTheQuery == Spec => []LinksKeepQuery
<1>1. Init => LinksKeepQuery
  BY DEF Init, LinksKeepQuery
<1>2. TypeOK /\ WireInv /\ WireInv' /\ LinksKeepQuery /\ [Next]_vars => LinksKeepQuery'
  <2>. SUFFICES ASSUME TypeOK, WireInv, WireInv', LinksKeepQuery, [Next]_vars
                PROVE  LinksKeepQuery'
    OBVIOUS
  <2>1. CASE Call
    <3>. SUFFICES ASSUME WellFormed(asked)
                  PROVE  /\ Continues(sent', first')
                         /\ first'.end # NoMoment =>
                              /\ sent'.end # NoMoment
                              /\ backend = "asf" \/ EndOf(asked).offset >= 0 =>
                                   sent'.end.at <= first'.end.at
      BY <2>1 DEF LinksKeepQuery, Continues, Call
    <3>1. /\ sent' = Converted(Parsed(wire)) /\ Refusal(wire) = 0
          /\ UNCHANGED <<backend, asked, wire>>
      BY <2>1 DEF Call
    <3>2. /\ asked \in Request /\ wire.cursor \in Bound
          /\ wire = asked \/ wire = LinkOf(asked, wire.cursor)
      BY WireIs, Zenon
    <3>3. /\ wire \in Request /\ Agree(wire, asked) /\ Parsed(wire) = wire
          /\ Parsed(asked) = asked
      BY <3>2, LinkAgrees
    <3>4. sent' = Converted(wire) /\ sent' # NoQuery
      BY <3>1, <3>3, ConvertedType
    <3>5. asked.cursor = NoCursor /\ first' = Converted(asked)
      <4>1. asked' = asked /\ Converted(Parsed(asked))' = Converted(Parsed(asked))
        BY <3>1 DEF Converted
      <4>2. first' # NoQuery
        BY <3>4 DEF WireInv
      <4>. QED
        BY <3>3, <4>1, <4>2 DEF WireInv
    <3>6. wire.cursor = NoCursor \/ Readable(wire.cursor)
      BY <3>1, <3>3, <3>5, Accepted DEF WireInv
    <3>7. Continues(sent', first')
      BY <3>2, <3>3, <3>4, <3>5, SameQuestion
    <3>. QED
      BY <3>2, <3>3, <3>4, <3>5, <3>6, <3>7, EndsEarlier
  <2>2. CASE UNCHANGED <<backend, asked, sent, first>>
    BY <2>2 DEF LinksKeepQuery
  <2>. QED
    BY <2>1, <2>2 DEF Next, Refuse, CannotCall, CallFails, CallReturns, Follow, Repeat, Expire, vars
<1>. QED
  BY <1>1, <1>2, RequestsTypeCorrect, WireInvInductive, PTL DEF Spec

-----------------------------------------------------------------------------
(* Answers. *)

\* A good request and the links served to it are refused only for a lost cursor
\* or an unknown collection, and never panic.
THEOREM AnswersAreFit == Spec => []AnswersFit
<1>1. Init => AnswersFit
  BY DEF Init, AnswersFit
<1>2. TypeOK /\ WireInv /\ AnswersFit /\ [Next]_vars => AnswersFit'
  <2>. SUFFICES ASSUME TypeOK, WireInv, AnswersFit, [Next]_vars,
                       phase' = "answered", WellFormed(asked), asked' = asked
                PROVE  /\ status' = 400 => wire'.cursor = Unreadable
                       /\ status' = 404 => NamesUnknown(asked)
                       /\ status' # 500
    <3>1. [Next]_vars => asked' = asked
      BY DEF Next, Refuse, Call, CannotCall, CallFails, CallReturns, Follow, Repeat, Expire, vars
    <3>. QED
      BY <3>1 DEF AnswersFit
  <2>1. /\ asked \in Request /\ wire \in Request /\ wire.cursor \in Bound
        /\ wire = asked \/ wire = LinkOf(asked, wire.cursor)
        /\ PageLimit(wire) = PageLimit(asked)
    BY WireIs, Zenon
  <2>2. Agree(wire, asked) /\ ~Refused(wire)
    BY <2>1, LinkAgrees
  <2>3. wire.route = asked.route /\ wire.collections = asked.collections
    BY <2>2, Zenon DEF Agree
  <2>4. CASE Refuse
    <3>1. status' = Refusal(wire) /\ wire' = wire
      BY <2>4 DEF Refuse, Answer
    <3>2. PICK r \in Request : r = wire /\ ~Refused(r)
      BY <2>1, <2>2, Zenon
    <3>3. /\ Refusal(r) \in {0, 400, 404}
          /\ Refusal(r) = 400 => r.cursor = Unreadable
          /\ Refusal(r) = 404 => NamesUnknown(r)
      BY <3>2, GoodRefusalMeans, ZenonT(40)
    <3>4. NamesUnknown(r) => NamesUnknown(asked)
      BY <2>3, <3>2, Zenon DEF NamesUnknown
    <3>. QED
      BY <3>1, <3>2, <3>3, <3>4
  <2>5. CASE CannotCall \/ CallFails
    BY <2>5 DEF CannotCall, CallFails, Answer
  <2>6. CASE CallReturns
    <3>1. PICK count \in Nat, kept \in Nat : Respond(count, kept)
      BY <2>6 DEF CallReturns
    <3>2. PageLimit(wire) \in Int /\ PageLimit(wire) >= 1
      BY <2>1, PageLimitType, GoodRequest
    <3>3. status' = 200
      BY <3>1, <3>2, Responds
    <3>. QED
      BY <3>3
  <2>7. CASE Call \/ Follow \/ Repeat \/ Expire
    BY <2>7 DEF Call, Follow, Repeat, Expire
  <2>8. CASE UNCHANGED vars
    BY <2>8 DEF vars, AnswersFit
  <2>. QED
    BY <2>4, <2>5, <2>6, <2>7, <2>8 DEF Next
<1>. QED
  BY <1>1, <1>2, RequestsTypeCorrect, WireInvInductive, PTL DEF Spec

-----------------------------------------------------------------------------
(* Intervals. *)

\* A part of an interval that is no date converts to the second it falls in.
LEMMA SentToTheSecond ==
  ASSUME NEW p \in DatetimePart, p.kind # "text"
  PROVE  /\ InUTC(Instant(p)) = SecondOf(p)
         /\ p.moment.offset = 0 => AsWritten(Instant(p)) = SecondOf(p)
<1>1. p.kind \in {"open", "instant"} /\ p.moment \in Moments
  BY DEF DatetimePart
<1>2. InUTC(NoMoment) = NoMoment /\ AsWritten(NoMoment) = NoMoment
  BY DEF InUTC, AsWritten, NoMoment, Moment
<1>3. p.moment.offset = 0 => AsWritten(p.moment) = InUTC(p.moment)
  BY <1>1 DEF Moments, AsWritten, InUTC, Moment
<1>. QED
  BY <1>1, <1>2, <1>3 DEF Instant, SecondOf, InUTC

\* The first request stays what it was.
LEMMA AskedFromInputs == Spec => [](asked \in Inputs)
<1>1. Init => asked \in Inputs
  BY DEF Init
<1>2. asked \in Inputs /\ [Next]_vars => (asked \in Inputs)'
  BY DEF Next, Refuse, Call, CannotCall, CallFails, CallReturns, Follow, Repeat, Expire, vars
<1>. QED
  BY <1>1, <1>2, PTL DEF Spec

\* The interval of open parts and instants that was asked for is the one the
\* first query has.
THEOREM IntervalsArrive ==
  ASSUME NoDates
  PROVE  Spec => []IntervalHonoured
<1>1. asked \in Inputs /\ TypeOK /\ WireInv => IntervalHonoured
  <2>. SUFFICES ASSUME asked \in Inputs, TypeOK, WireInv,
                       sent # NoQuery, ~IdsOnly, Len(asked.datetime) \in {1, 2},
                       backend = "cmr" => \A p \in ToSet(asked.datetime) : p.moment.offset = 0
                PROVE  /\ first.start = SecondOf(asked.datetime[1])
                       /\ first.end = SecondOf(Last(asked.datetime))
    BY Zenon DEF IntervalHonoured
  <2>1. /\ first = Converted(Parsed(asked)) /\ asked.cursor = NoCursor
        /\ asked \in Request /\ backend \in {"asf", "cmr"}
    BY DEF WireInv, TypeOK
  <2>. DEFINE d == asked.datetime
              r == Parsed(asked)
  <2>2. d \in Seq(DatetimePart)
    BY <2>1, Zenon DEF Request
  <2>3. /\ d[1] \in DatetimePart /\ Last(d) \in DatetimePart
        /\ 1 \in DOMAIN d /\ Len(d) \in DOMAIN d /\ Last(d) = d[Len(d)]
    BY <2>2 DEF Last
  <2>4. d[1].kind # "text" /\ Last(d).kind # "text"
    BY <2>3, Zenon DEF NoDates
  <2>5. backend = "cmr" => d[1].moment.offset = 0 /\ Last(d).moment.offset = 0
    BY <2>3, Zenon DEF ToSet
  <2>6. r \in Request /\ r.datetime = d /\ r.ids = asked.ids /\ r.cursor = NoCursor
    BY <2>1, ParsedType
  <2>7. StartOf(r) = Instant(d[1]) /\ EndOf(r) = Instant(Last(d))
    <3>1. Len(d) \in {1, 2} /\ Last(d) = d[Len(d)] /\ d[1] \in DatetimePart
      BY <2>3
    <3>2. CASE Parses(d)
      BY <2>6, <3>2 DEF StartOf, EndOf
    <3>3. CASE ~Parses(d)
      <4>1. d[1].kind \in {"open", "instant"} /\ Last(d).kind \in {"open", "instant"}
        BY <2>3, <2>4 DEF DatetimePart
      <4>2. Len(d) = 1 /\ d[1].kind # "instant"
        BY <3>1, <3>3, <4>1 DEF Parses
      <4>3. Instant(d[1]) = NoMoment /\ Last(d) = d[1]
        BY <3>1, <4>2 DEF Instant
      <4>. QED
        BY <2>6, <3>3, <4>3 DEF StartOf, EndOf
    <3>. QED
      BY <3>2, <3>3
  <2>8. BoundedEnd(r) = EndOf(r)
    BY <2>6, MomentType
  <2>9. CASE backend = "asf"
    <3>1. r.ids = <<>>
      BY <2>6, <2>9 DEF IdsOnly
    <3>. QED
      BY <2>1, <2>3, <2>4, <2>6, <2>7, <2>8, <2>9, <3>1, ConvertedType, SentToTheSecond
  <2>10. CASE backend = "cmr"
    BY <2>1, <2>3, <2>4, <2>5, <2>6, <2>7, <2>8, <2>10, ConvertedType, SentToTheSecond
  <2>. QED
    BY <2>1, <2>9, <2>10
<1>. QED
  BY <1>1, AskedFromInputs, RequestsTypeCorrect, WireInvInductive, PTL DEF Spec

-----------------------------------------------------------------------------
(* Areas. *)

\* An area that has a text, a shape and positions to draw is one the text keeps.
LEMMA AreaIsDrawn ==
  ASSUME NEW g \in Area, Drawn(g), Shaped(g), g.type \in {"Point", "Polygon", "MultiPolygon"}
  PROVE  /\ g \in Areas
         /\ g.type = "Polygon" =>
              g.polys[1] \in Seq(SomeRing) /\ g = Polygon(g.polys[1])
<1>1. g.polys \in Seq(Seq(Seq(Seq(Int)))) /\ g = Geometry(g.type, g.polys)
  BY Zenon DEF Area, Geometry
<1>. DEFINE polys == g.polys
<1>2. \A i \in 1 .. Len(polys) : \A j \in 1 .. Len(polys[i]) : polys[i][j] \in SomeRing
  BY <1>1, DrawnRings, Zenon
<1>3. \A i \in 1 .. Len(polys) : polys[i] \in Seq(SomeRing)
  BY <1>1, DrawnRings, Zenon
<1>4. polys \in Seq(Seq(SomeRing))
  BY <1>1, DrawnRings, Zenon
<1>. HIDE DEF polys
<1>5. CASE g.type = "Polygon"
  <2>1. Len(polys) = 1 /\ polys[1] \in Seq(SomeRing)
    <3>1. Len(polys) = 1
      BY <1>5 DEF Shaped, polys
    <3>2. 1 \in 1 .. Len(polys)
      BY <3>1
    <3>. QED
      BY <1>3, <3>1, <3>2
  <2>2. polys = <<polys[1]>>
    <3>. DEFINE T == Seq(SomeRing)
    <3>1. polys \in Seq(T)
      BY <1>4
    <3>. HIDE DEF T
    <3>. QED
      BY <2>1, <3>1
  <2>3. g = Polygon(polys[1])
    BY <1>1, <1>5, <2>2 DEF polys, Polygon
  <2>. QED
    BY <2>1, <2>3, Zenon DEF Areas, Polygons, polys
<1>6. CASE g.type = "Point"
  <2>1. Len(polys) = 1 /\ Len(polys[1]) = 1 /\ Len(polys[1][1]) = 1
    BY <1>6 DEF Shaped, polys
  <2>2. 1 \in 1 .. Len(polys) /\ 1 \in 1 .. Len(polys[1])
    BY <2>1
  <2>3. polys[1] \in Seq(SomeRing) /\ polys[1][1] \in SomeRing
    BY <1>2, <1>3, <2>2
  <2>4. polys[1][1] \in Seq(Position)
    BY <2>3 DEF SomeRing
  <2>5. polys[1][1][1] \in Position /\ polys[1][1] = <<polys[1][1][1]>>
    BY <2>1, <2>4
  <2>6. polys[1] = <<polys[1][1]>>
    BY <2>1, <2>3
  <2>7. polys = <<polys[1]>>
    <3>. DEFINE T == Seq(SomeRing)
    <3>1. polys \in Seq(T)
      BY <1>4
    <3>. HIDE DEF T
    <3>. QED
      BY <2>1, <3>1
  <2>8. polys = << << <<polys[1][1][1]>> >> >>
    BY <2>5, <2>6, <2>7, Zenon
  <2>9. g = PointAt(polys[1][1][1])
    BY <1>1, <1>6, <2>8 DEF polys, PointAt
  <2>10. g \in Points
    BY <2>5, <2>9, Zenon DEF Points
  <2>. QED
    BY <1>6, <2>10 DEF Areas
<1>7. CASE g.type = "MultiPolygon"
  <2>1. g = Geometry("MultiPolygon", polys)
    BY <1>1, <1>7 DEF polys
  <2>2. g \in MultiPolygons
    BY <1>4, <2>1, Zenon DEF MultiPolygons
  <2>. QED
    BY <1>7, <2>2 DEF Areas
<1>. QED
  BY <1>5, <1>6, <1>7

LEMMA TextTypes ==
  ASSUME NEW g, ToWKT(g) # NoText
  PROVE  g.type \in {"Point", "Polygon", "MultiPolygon"}
<1>1. SUFFICES ASSUME g.type \notin {"Point", "Polygon", "MultiPolygon"} PROVE ToWKT(g) = NoText
  OBVIOUS
<1>2. g.type # "Point" /\ g.type # "Polygon" /\ g.type # "MultiPolygon"
  BY <1>1
<1>. QED
  BY <1>2, Zenon DEF ToWKT

\* What a query says of its area.
LEMMA QueryArea ==
  ASSUME NEW ids, NEW collections, NEW wkt, NEW box, NEW polygon, NEW start,
         NEW end, NEW filter, NEW sort, NEW max,
         NEW q, q = Query(ids, collections, wkt, box, polygon, start, end, filter, sort, max)
  PROVE  q.wkt = wkt /\ q.box = box /\ q.polygon = polygon
BY DEF Query

\* A query that continues another asks for its area.
LEMMA SameArea ==
  ASSUME NEW p, DOMAIN p = DOMAIN NoQuery, NEW q, Continues(q, p)
  PROVE  q.wkt = p.wkt /\ q.box = p.box /\ q.polygon = p.polygon
<1>1. DOMAIN p = {"ids", "collections", "wkt", "box", "polygon", "start", "end",
                  "filter", "sort", "max"}
  BY Zenon DEF Query, NoQuery
<1>. DEFINE a == q.end
            b == q.max
            e == [p EXCEPT !.end = a, !.max = b]
<1>. HIDE DEF a, b
<1>2. e.wkt = p.wkt /\ e.box = p.box /\ e.polygon = p.polygon
  BY <1>1
<1>3. q = e
  BY DEF Continues, a, b
<1>. HIDE DEF e
<1>. QED
  BY <1>2, <1>3

\* What was asked of the upstream could be converted.
AreaInv == sent # NoQuery => Converts(Parsed(asked))

LEMMA AreaInvInductive == Spec => []AreaInv
<1>1. Init => AreaInv
  BY DEF Init, AreaInv
<1>2. WireInv /\ AreaInv /\ [Next]_vars => AreaInv'
  <2>. SUFFICES ASSUME WireInv, AreaInv, [Next]_vars PROVE AreaInv'
    OBVIOUS
  <2>1. CASE Call
    <3>1. Converts(Parsed(wire)) /\ UNCHANGED <<backend, asked>>
      BY <2>1 DEF Call
    <3>2. sent = NoQuery => wire = asked
      BY DEF WireInv
    <3>3. Converts(Parsed(asked))
      BY <3>1, <3>2 DEF AreaInv
    <3>4. Converts(Parsed(asked))' = Converts(Parsed(asked))
      BY <3>1 DEF Converts
    <3>. QED
      BY <3>3, <3>4 DEF AreaInv
  <2>2. CASE UNCHANGED <<backend, asked, sent>>
    BY <2>2 DEF AreaInv, Converts
  <2>. QED
    BY <2>1, <2>2 DEF Next, Refuse, CannotCall, CallFails, CallReturns, Follow, Repeat, Expire, vars
<1>. QED
  BY <1>1, <1>2, RequestsTypeCorrect, WireInvInductive, PTL DEF Spec

\* The ring of a box that is one has the box and its corners.
LEMMA BoxIs ==
  ASSUME NEW c \in Seq(Int), Len(c) = 4, Boxed(c[1], c[2], c[3], c[4])
  PROVE  IsBox(Polygon(<<BoxRing(c)>>), c)
<1>. DEFINE g == Polygon(<<BoxRing(c)>>)
            w == c[1]
            s == c[2]
            e == c[3]
            n == c[4]
            P == {<<w, s>>, <<e, s>>, <<e, n>>, <<w, n>>}
<1>1. Positions(g) = P
  <2>1. BoxRing(c) \in Seq(Position) /\ ToSet(BoxRing(c)) = P
    BY RingPositions
  <2>. HIDE DEF P
  <2>. QED
    BY <2>1, OneRing
<1>2. w \in Int /\ s \in Int /\ e \in Int /\ n \in Int /\ w <= e /\ s <= n
  <2>1. c \in [1 .. Len(c) -> Int] /\ 1 \in 1 .. Len(c) /\ 2 \in 1 .. Len(c) /\ 3 \in 1 .. Len(c)
        /\ 4 \in 1 .. Len(c)
    OBVIOUS
  <2>. QED
    BY <2>1 DEF Boxed
<1>3. c = <<w, s, e, n>>
  OBVIOUS
<1>4. g.type = "Polygon"
  BY DEF Polygon, Geometry
<1>. HIDE DEF g, w, s, e, n
<1>5. \A p \in P : Usable(p)
  <2>1. Len(<<w, s>>) = 2 /\ Len(<<e, s>>) = 2 /\ Len(<<e, n>>) = 2 /\ Len(<<w, n>>) = 2
    OBVIOUS
  <2>2. \A p \in P : Len(p) = 2
    BY <2>1, Zenon
  <2>3. 2 >= 2
    OBVIOUS
  <2>. QED
    BY <2>2, <2>3, Zenon DEF Usable
<1>6. {p \in Positions(g) : Usable(p)} = P
  BY <1>1, <1>5
<1>7. ComputeBBox(g) = BoxOf(P)
  BY <1>4, <1>6 DEF ComputeBBox
<1>8. {Lon(p) : p \in P} = {w, e} /\ {Lat(p) : p \in P} = {s, n} /\ P # {}
  <2>1. /\ Lon(<<w, s>>) = w /\ Lon(<<e, s>>) = e /\ Lon(<<e, n>>) = e /\ Lon(<<w, n>>) = w
        /\ Lat(<<w, s>>) = s /\ Lat(<<e, s>>) = s /\ Lat(<<e, n>>) = n /\ Lat(<<w, n>>) = n
    BY DEF Lon, Lat
  <2>. QED
    BY <2>1
<1>9. Lowest({w, e}) = w /\ Highest({w, e}) = e /\ Lowest({s, n}) = s /\ Highest({s, n}) = n
  BY <1>2 DEF Lowest, Highest
<1>10. BoxOf(P) = <<w, s, e, n>>
  BY <1>8, <1>9 DEF BoxOf
<1>11. ComputeBBox(g) = c
  BY <1>3, <1>7, <1>10
<1>. QED
  BY <1>1, <1>11 DEF IsBox, g, w, s, e, n

\* On ASF the text of the area is read back as the area.
LEMMA ASFHonours ==
  ASSUME NEW r \in Request, WellFormed(r), Drawn(r.intersects), Shaped(r.intersects),
         r.ids = <<>>, ASFConverts(r), NEW wkt, wkt = ASFArea(r)
  PROVE  /\ r.bbox # <<>> => IsBox(FromWKT(wkt), BoxAsked(r.bbox))
         /\ r.intersects # NoGeometry => FromWKT(wkt) = Plain(r.intersects)
<1>1. r.bbox \in Seq(Int) /\ r.intersects \in Area
  BY Zenon DEF Request
<1>2. Valid(r)
  BY DEF WellFormed
<1>3. ASSUME r.bbox # <<>> PROVE IsBox(FromWKT(wkt), BoxAsked(r.bbox))
  <2>. DEFINE b == r.bbox
              c == FlatBBox(b)
  <2>1. wkt = BBoxToWKT(b)
    BY <1>3, Zenon DEF ASFArea
  <2>2. ValidBBox(b) /\ b \in Seq(Int)
    BY <1>1, <1>2, <1>3 DEF Valid
  <2>. HIDE DEF b, c
  <2>3. Len(b) \in {4, 6}
    BY <2>2 DEF ValidBBox
  <2>4. /\ c \in Seq(Int) /\ Len(c) = 4
        /\ c = IF Len(b) = 6 THEN <<b[1], b[2], b[4], b[5]>> ELSE b
        /\ FromWKT(BBoxToWKT(b)) = Polygon(<<BoxRing(c)>>)
    BY <2>2, <2>3, BoxReads DEF c
  <2>5. c = BoxAsked(b)
    BY <2>4 DEF BoxAsked
  <2>6. Boxed(c[1], c[2], c[3], c[4])
    <3>1. CASE Len(b) = 4
      BY <2>2, <2>4, <3>1 DEF ValidBBox
    <3>2. CASE Len(b) = 6
      <4>1. Boxed(b[1], b[2], b[4], b[5])
        BY <2>2, <3>2 DEF ValidBBox
      <4>2. c[1] = b[1] /\ c[2] = b[2] /\ c[3] = b[4] /\ c[4] = b[5]
        <5>1. c = <<b[1], b[2], b[4], b[5]>>
          BY <2>4, <3>2
        <5>. QED
          BY <5>1
      <4>. QED
        BY <4>1, <4>2
    <3>. QED
      BY <2>3, <3>1, <3>2
  <2>7. IsBox(Polygon(<<BoxRing(c)>>), c)
    BY <2>4, <2>6, BoxIs
  <2>. QED
    BY <2>1, <2>4, <2>5, <2>7 DEF b
<1>4. ASSUME r.intersects # NoGeometry PROVE FromWKT(wkt) = Plain(r.intersects)
  <2>1. r.bbox = <<>>
    BY <1>2, <1>4 DEF Valid
  <2>2. wkt = ToWKT(r.intersects)
    BY <1>4, <2>1, Zenon DEF ASFArea
  <2>3. wkt # NoText
    BY <1>4, <2>1 DEF ASFConverts
  <2>4. r.intersects.type \in {"Point", "Polygon", "MultiPolygon"}
    BY <2>2, <2>3, TextTypes
  <2>5. r.intersects \in Areas
    BY <1>1, <2>4, AreaIsDrawn
  <2>. QED
    BY <2>2, <2>5, TextReadsBack
<1>. QED
  BY <1>3, <1>4

\* On CMR a flat box and a polygon without holes are sent as they are.
LEMMA CMRHonours ==
  ASSUME NEW r \in Request, Drawn(r.intersects), Shaped(r.intersects), CMRSendsArea(r)
  PROVE  /\ Box(r) = BoxAsked(r.bbox)
         /\ r.intersects # NoGeometry =>
              Polygon(<<CMRPolygon(r.intersects)>>) = Plain(r.intersects)
<1>1. r.bbox \in Seq(Int) /\ r.intersects \in Area /\ Len(r.bbox) \in {0, 4}
  BY Zenon DEF Request, CMRSendsArea
<1>2. Box(r) = BoxAsked(r.bbox)
  <2>. DEFINE b == r.bbox
  <2>1. b \in Seq(Int) /\ Len(b) \in {0, 4}
    BY <1>1
  <2>2. Box(r) = IF Len(b) >= 4 THEN SubSeq(b, 1, 4) ELSE <<>>
    BY DEF Box
  <2>. HIDE DEF b
  <2>3. CASE Len(b) = 0
    BY <2>1, <2>2, <2>3 DEF BoxAsked, b
  <2>4. CASE Len(b) = 4
    BY <2>1, <2>2, <2>4 DEF BoxAsked, b
  <2>. QED
    BY <2>1, <2>3, <2>4
<1>3. ASSUME r.intersects # NoGeometry
      PROVE  Polygon(<<CMRPolygon(r.intersects)>>) = Plain(r.intersects)
  <2>. DEFINE g == r.intersects
              rings == g.polys[1]
  <2>1. g.type = "Polygon" /\ Len(rings) = 1
    BY <1>3 DEF CMRSendsArea
  <2>2. rings \in Seq(SomeRing) /\ g = Polygon(rings)
    BY <1>1, <2>1, AreaIsDrawn
  <2>. HIDE DEF g, rings
  <2>3. PICK ring \in SomeRing : rings = <<ring>>
    <3>1. rings[1] \in SomeRing /\ rings = <<rings[1]>>
      BY <2>1, <2>2
    <3>. QED
      BY <3>1
  <2>4. ring \in Seq(Position) /\ ring # <<>>
    BY <2>3 DEF SomeRing
  <2>5. g.polys = << <<ring>> >>
    BY <2>2, <2>3 DEF Polygon, Geometry
  <2>6. CMRPolygon(g) = Kept(ring)
    <3>1. g.polys[1] # <<>> /\ g.polys[1][1] = ring
      BY <2>5
    <3>. QED
      BY <2>1, <3>1 DEF CMRPolygon
  <2>7. Kept(ring) = PlainRing(ring)
    BY <2>4, KeptIsPlain
  <2>8. Plain(g) = Polygon(<<PlainRing(ring)>>)
    <3>1. Plain(g) = Geometry(g.type, [i \in DOMAIN g.polys |-> PlainRings(g.polys[i])])
      BY DEF Plain, PlainRings, PlainRing
    <3>2. [i \in DOMAIN g.polys |-> PlainRings(g.polys[i])] = << <<PlainRing(ring)>> >>
      BY <2>5 DEF PlainRings
    <3>. QED
      BY <2>1, <3>1, <3>2 DEF Polygon
  <2>. QED
    BY <2>6, <2>7, <2>8 DEF g
<1>. QED
  BY <1>2, <1>3

\* The area a client asked for is the one the upstream is sent.
THEOREM AreasArrive == Spec => []AreaHonoured
<1>1. asked \in Inputs /\ TypeOK /\ WireInv /\ AreaInv /\ LinksKeepQuery => AreaHonoured
  <2>. SUFFICES ASSUME asked \in Inputs, TypeOK, WireInv, AreaInv, LinksKeepQuery,
                       sent # NoQuery, WellFormed(asked), ~IdsOnly, Drawn(asked.intersects)
                PROVE  IF backend = "asf"
                       THEN /\ asked.bbox # <<>> => IsBox(FromWKT(sent.wkt), BoxAsked(asked.bbox))
                            /\ asked.intersects # NoGeometry =>
                                 FromWKT(sent.wkt) = Plain(asked.intersects)
                       ELSE CMRSendsArea(asked) =>
                              /\ sent.box = BoxAsked(asked.bbox)
                              /\ asked.intersects # NoGeometry =>
                                   Polygon(<<sent.polygon>>) = Plain(asked.intersects)
    BY Zenon DEF AreaHonoured
  <2>1. /\ asked \in Request /\ asked.cursor = NoCursor /\ Shaped(asked.intersects)
        /\ first = Converted(Parsed(asked)) /\ first # NoQuery
    BY InputsAssumption DEF WireInv
  <2>2. Parsed(asked) = asked
    <3>1. NoCursor \in Bound
      BY CursorTypes
    <3>. QED
      BY <2>1, <3>1, LinkAgrees
  <2>3. sent.wkt = first.wkt /\ sent.box = first.box /\ sent.polygon = first.polygon
    <3>1. DOMAIN first = DOMAIN NoQuery
      BY <2>1, ConvertedType, ParsedType
    <3>2. Continues(sent, first)
      BY DEF LinksKeepQuery, Continues
    <3>. QED
      BY <3>1, <3>2, SameArea
  <2>4. CASE backend = "asf"
    <3>1. asked.ids = <<>>
      BY <2>4 DEF IdsOnly
    <3>2. first.wkt = ASFArea(asked)
      <4>1. Converted(asked) =
              Query(<<>>, CollectionsOf(asked), ASFArea(asked), <<>>, <<>>,
                    InUTC(StartOf(asked)), InUTC(BoundedEnd(asked)), Filtered(asked),
                    ASFSorted(asked), ASFMax(asked))
        BY <2>1, <2>4, <3>1, ASFConverted
      <4>. QED
        BY <2>1, <2>2, <4>1, QueryArea
    <3>3. ASFConverts(asked)
      BY <2>2, <2>4 DEF AreaInv, Converts
    <3>4. /\ asked.bbox # <<>> => IsBox(FromWKT(sent.wkt), BoxAsked(asked.bbox))
          /\ asked.intersects # NoGeometry => FromWKT(sent.wkt) = Plain(asked.intersects)
      BY <2>1, <2>3, <3>1, <3>2, <3>3, ASFHonours
    <3>. QED
      BY <2>4, <3>4
  <2>5. CASE backend # "asf"
    <3>1. first.box = Box(asked) /\ first.polygon = CMRPolygon(asked.intersects)
      BY <2>1, <2>2, <2>5, CMRConverted, QueryArea
    <3>2. CMRSendsArea(asked) =>
            /\ sent.box = BoxAsked(asked.bbox)
            /\ asked.intersects # NoGeometry => Polygon(<<sent.polygon>>) = Plain(asked.intersects)
      BY <2>1, <2>3, <3>1, CMRHonours
    <3>. QED
      BY <2>5, <3>2
  <2>. QED
    BY <2>4, <2>5
<1>. QED
  BY <1>1, AskedFromInputs, RequestsTypeCorrect, WireInvInductive, AreaInvInductive,
     LinksKeepTheQuery, PTL DEF Spec
=============================================================================
