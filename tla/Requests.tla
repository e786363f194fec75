------------------------------ MODULE Requests ------------------------------
(***************************************************************************)
(* A search request and everything it becomes: the parsed request, the     *)
(* query the upstream is sent, the answer, and the next link, which is a   *)
(* request again.  One client follows its links; the search endpoints are  *)
(* those of internal/api/handlers.go.                                      *)
(*                                                                         *)
(* A request is a record of its parameters.  In a POST body they have      *)
(* types, in a GET query they are text; the record is the same, and        *)
(* malformed says that some text or body element has not the shape its     *)
(* parameter needs (a word for a number, broken JSON).  Cursors are here   *)
(* only a bound and a number of items to skip: Cursors and PagedService    *)
(* tell their story.                                                       *)
(***************************************************************************)
EXTENDS Geometries

CONSTANTS Inputs,         \* the first requests of the client
          Text,           \* the words a request may hold
          Known,          \* the ids of the registered collections
          Instants,       \* the times items start at
          DefaultLimit, MaxLimit,
          CMRPageSize,    \* cmr.DefaultPageSize
          Crowd           \* no answer to a query by ids holds more items

ASSUME RequestsAssumption == /\ {DefaultLimit, MaxLimit, CMRPageSize, Crowd} \subseteq Nat \ {0}
                             /\ Instants \subseteq Nat

VARIABLES backend,  \* "asf" or "cmr"
          asked,    \* the client's first request
          wire,     \* the request on its way
          phase,    \* "asking", "asked" (the upstream), "answered"
          sent,     \* the latest query the upstream was sent
          first,    \* the first one
          status,   \* of the latest answer; 0 before it
          link      \* the next link of the latest answer

vars == <<backend, asked, wire, phase, sent, first, status, link>>

-----------------------------------------------------------------------------
(* Parameters. *)

\* Moments: an instant's second, the offset it was written with and the fraction
\* of its second.
Moment(at, offset) == [at |-> at, offset |-> offset, frac |-> 0]
NoMoment == Moment(-1, 0)

\* time.Before
Before(m, n) == m.at < n.at \/ (m.at = n.at /\ m.frac < n.frac)

\* A datetime is its parts around "/".  A part is "open" (".." or empty), an
\* RFC 3339 "instant", or some other "text": a date for instance.
Part(kind, moment) == [kind |-> kind, moment |-> moment]
OpenPart == Part("open", NoMoment)

NoCursor == [bound |-> -1, seen |-> 0]
Unreadable == [bound |-> -2, seen |-> 0]  \* damaged, expired or forgotten

\* route: "" for /search, a collection's id for its items.
Plainest == [method |-> "GET", route |-> "", malformed |-> FALSE,
             bbox |-> <<>>, intersects |-> NoGeometry, datetime |-> <<>>,
             ids |-> <<>>, collections |-> <<>>, limit |-> 0, cursor |-> NoCursor,
             sortby |-> <<>>, filter |-> "none", lang |-> ""]

NoLink == [Plainest EXCEPT !.route = "nowhere"]

\* The requests there are, and those a client may start with: no cursor, or one
\* it kept from another day.
Area == [type : Text, polys : Seq(Seq(Seq(Seq(Int))))]
Moments == [at : Int, offset : Int, frac : Nat]
DatetimePart == [kind : {"open", "instant", "text"}, moment : Moments]
SortField == [field : Text, direction : Text]
Bound == [bound : Int, seen : Nat]

Request ==
  [method : {"GET", "POST"}, route : Text, malformed : BOOLEAN, bbox : Seq(Int),
   intersects : Area, datetime : Seq(DatetimePart), ids : Seq(Text),
   collections : Seq(Text), limit : Int, cursor : Bound, sortby : Seq(SortField),
   filter : {"none", "object", "string"}, lang : Text]

\* The coordinates of a point or a polygon have the nesting of its type.
Shaped(g) ==
  /\ g.type \in {"Point", "Polygon"} => Len(g.polys) = 1
  /\ g.type = "Point" => Len(g.polys[1]) = 1 /\ Len(g.polys[1][1]) = 1

ASSUME InputsAssumption ==
  /\ Inputs \subseteq {r \in Request : /\ r.cursor \in {NoCursor, Unreadable}
                                       /\ Shaped(r.intersects)}
  /\ {"", "none", "nowhere", "asc", "cql2-json"} \subseteq Text

-----------------------------------------------------------------------------
(* Parsing: internal/stac/search.go. *)

\* Mutant: a box has four coordinates.
RefusedFlat(r) == \/ r.malformed
                  \/ /\ r.method = "GET"
                     /\ \/ Len(r.bbox) \notin {0, 4}
                        \/ r.limit < 0
                        \/ \E s \in ToSet(r.sortby) : s.field = ""

\* ParseSearchRequest refuses these; ParseSearchRequestBody has its types
\* checked by the decoder and looks at no value.
Refused(r) == \/ r.malformed
              \/ /\ r.method = "GET"
                 /\ \/ Len(r.bbox) \notin {0, 4, 6}
                    \/ r.limit < 0
                    \/ \E s \in ToSet(r.sortby) : s.field = ""

\* A filter is a JSON "object" or a "string".  In a query an object is one only
\* if the language says so or says nothing.
Parsed(r) == IF r.method = "GET" /\ r.filter = "object" /\ r.lang \notin {"", "cql2-json"}
             THEN [r EXCEPT !.filter = "string"]
             ELSE r

\* ToQueryParams: a body as a query.
Directed(s) == IF s.direction = "desc" THEN s ELSE [s EXCEPT !.direction = "asc"]

\* Mutant: the direction is not written.
ToQueryParamsUndirected(r) ==
  [r EXCEPT !.method = "GET", !.sortby = [i \in DOMAIN @ |-> [@[i] EXCEPT !.direction = "asc"]]]

ToQueryParams(r) ==
  [r EXCEPT !.method = "GET",
            !.bbox = IF Len(@) >= 4 THEN @ ELSE <<>>,
            !.ids = IF @ = <<"">> THEN <<>> ELSE @,
            !.sortby = [i \in DOMAIN @ |-> Directed(@[i])],
            !.lang = IF @ = "" /\ r.filter # "none" THEN "cql2-json" ELSE @]

\* ParseDateTimeInterval
Instant(part) == IF part.kind = "instant" THEN part.moment ELSE NoMoment
Parses(datetime) ==
  \/ Len(datetime) = 1 /\ datetime[1].kind = "instant"
  \/ Len(datetime) = 2 /\ \A i \in 1 .. 2 : datetime[i].kind \in {"open", "instant"}

\* buildBackendParams: what does not parse is dropped.
StartOf(r) == IF Parses(r.datetime) THEN Instant(r.datetime[1]) ELSE NoMoment
EndOf(r) == IF Parses(r.datetime) THEN Instant(Last(r.datetime)) ELSE NoMoment

\* Mutant: only a cursor ends a query.
BoundedEndOfCursor(r) == IF r.cursor = NoCursor THEN NoMoment ELSE Moment(r.cursor.bound + 1, 0)

\* ApplyCursorToDatetime
BoundedEnd(r) ==
  LET bound == Moment(r.cursor.bound + 1, 0)
  IN  IF r.cursor = NoCursor \/ (EndOf(r) # NoMoment /\ ~Before(bound, EndOf(r)))
      THEN EndOf(r) ELSE bound

\* Items, Search: the limit of the page and, with a cursor, of the over-fetch.
PageLimit(r) == LET limit == IF r.limit = 0 THEN DefaultLimit ELSE r.limit
                IN  IF limit > MaxLimit THEN MaxLimit ELSE limit
FetchLimit(r) == LET wanted == PageLimit(r) + r.cursor.seen
                 IN  IF r.cursor.seen > 0 /\ wanted > MaxLimit THEN MaxLimit ELSE wanted

CollectionsOf(r) == IF r.route # "" THEN <<r.route>> ELSE r.collections

-----------------------------------------------------------------------------
(* Upstream queries: toASFParams, toCMRParams and the two ToURLValues. *)

Query(ids, collections, wkt, box, polygon, start, end, filter, sort, max) ==
  [ids |-> ids, collections |-> collections, wkt |-> wkt, box |-> box,
   polygon |-> polygon, start |-> start, end |-> end, filter |-> filter,
   sort |-> sort, max |-> max]

NoQuery == Query(<<>>, <<>>, NoText, <<>>, <<>>, NoMoment, NoMoment, FALSE, <<"", "">>, -1)

\* A moment as ASF and as CMR read it.  Both texts end in Z and have no fraction;
\* only ASF's was converted to UTC first.
InUTC(m) == Moment(m.at, 0)
AsWritten(m) == Moment(m.at + m.offset, 0)

ASFSort(field) == CASE field \in {"datetime", "start_datetime"} -> "startTime"
                    [] field = "end_datetime" -> "stopTime"
                    [] field = "platform" -> "platform"
                    [] field = "collection" -> "dataset"
                    [] OTHER -> ""
CMRSort(field) == CASE field = "end_datetime" -> "end_date"
                    [] field = "platform" -> "platform"
                    [] OTHER -> "start_date"

\* A bbox wins over a geometry.
ASFArea(r) == CASE r.bbox # <<>> -> BBoxToWKT(r.bbox)
                [] r.bbox = <<>> /\ r.intersects # NoGeometry -> ToWKT(r.intersects)
                [] OTHER -> NoText

\* No text for an area that was asked for: the search fails before the call.
ASFConverts(r) == \/ r.ids # <<>>
                  \/ r.bbox = <<>> /\ r.intersects = NoGeometry
                  \/ ASFArea(r) # NoText

\* Mutant: a negative limit is sent.
ToASFUnchecked(r) ==
  IF r.ids # <<>> THEN [NoQuery EXCEPT !.ids = r.ids, !.max = 0] ELSE
  Query(<<>>, CollectionsOf(r), ASFArea(r), <<>>, <<>>,
        InUTC(StartOf(r)), InUTC(BoundedEnd(r)), r.filter = "object",
        <<"", "">>, FetchLimit(r))

\* A query by ids names the granules and nothing else.
ToASF(r) ==
  IF r.ids # <<>> THEN [NoQuery EXCEPT !.ids = r.ids, !.max = 0] ELSE
  Query(<<>>, CollectionsOf(r), ASFArea(r), <<>>, <<>>,
        InUTC(StartOf(r)), InUTC(BoundedEnd(r)), r.filter = "object",
        IF r.sortby = <<>> THEN <<"", "">> ELSE <<"", ASFSort(r.sortby[1].field)>>,
        IF FetchLimit(r) > 0 THEN FetchLimit(r) ELSE 0)

ToCMR(r) ==
  Query(r.ids, CollectionsOf(r), NoText,
        IF Len(r.bbox) >= 4 THEN SubSeq(r.bbox, 1, 4) ELSE <<>>,
        CMRPolygon(r.intersects),
        AsWritten(StartOf(r)), AsWritten(BoundedEnd(r)), r.filter = "object",
        IF r.sortby = <<>> THEN <<"-", "start_date">>
        ELSE <<IF r.sortby[1].direction = "desc" THEN "-" ELSE "", CMRSort(r.sortby[1].field)>>,
        IF FetchLimit(r) > 0 THEN FetchLimit(r) ELSE CMRPageSize)

Converts(r) == backend = "cmr" \/ ASFConverts(r)
Converted(r) == IF backend = "asf" THEN ToASF(r) ELSE ToCMR(r)

-----------------------------------------------------------------------------
Init == /\ backend \in {"asf", "cmr"}
        /\ asked \in Inputs
        /\ wire = asked
        /\ phase = "asking"
        /\ sent = NoQuery
        /\ first = NoQuery
        /\ status = 0
        /\ link = NoLink

Answer(code, next) == /\ phase' = "answered"
                      /\ status' = code
                      /\ link' = next

\* What a handler refuses by itself.  Items looks its collection up before it
\* parses, Search its collections after it has decoded the cursor.
Refusal(r) ==
  IF r.route \notin Known \cup {""} THEN 404 ELSE
  IF Refused(r) \/ r.cursor = Unreadable THEN 400 ELSE
  IF r.route = "" /\ ~(ToSet(r.collections) \subseteq Known) THEN 404 ELSE 0

Refuse == /\ phase = "asking"
          /\ Refusal(wire) # 0
          /\ Answer(Refusal(wire), NoLink)
          /\ UNCHANGED <<backend, asked, wire, sent, first>>

\* The backend's Search, up to its call of the upstream.
Call == LET r == Parsed(wire)
        IN  /\ phase = "asking"
            /\ Refusal(wire) = 0
            /\ Converts(r)
            /\ phase' = "asked"
            /\ sent' = Converted(r)
            /\ first' = IF first = NoQuery THEN Converted(r) ELSE first
            /\ UNCHANGED <<backend, asked, wire, status, link>>

\* A 502: the area has no text.
CannotCall == /\ phase = "asking"
              /\ Refusal(wire) = 0
              /\ ~Converts(Parsed(wire))
              /\ Answer(502, NoLink)
              /\ UNCHANGED <<backend, asked, wire, sent, first>>

\* A 502: the upstream failed or cannot be reached.
CallFails == /\ phase = "asked"
             /\ Answer(502, NoLink)
             /\ UNCHANGED <<backend, asked, wire, sent, first>>

\* buildCursorURLWithStore: the query again, or the body as a query, with the
\* new cursor and the limit the page had.
AsQuery(r) == IF r.method = "POST" THEN ToQueryParams(r) ELSE r
LinkOf(r, cursor) == [AsQuery(r) EXCEPT !.cursor = cursor, !.limit = PageLimit(r)]

\* The cursors that can come of a page: inside what was asked of the upstream.
NextCursors ==
  {[bound |-> b, seen |-> n] :
     b \in {t \in Instants : /\ sent.start = NoMoment \/ t >= sent.start.at
                             /\ sent.end = NoMoment \/ t <= sent.end.at},
     n \in {1, 2}}

\* count items came back, kept of them were not seen before.
Respond(count, kept) ==
  LET limit == PageLimit(wire)
      served == IF kept > limit THEN limit ELSE kept
  IN  \/ /\ served > 0
         /\ count >= FetchLimit(wire) \/ served >= limit
         /\ \E cursor \in NextCursors : Answer(200, LinkOf(wire, cursor))
      \/ /\ served >= 0
         /\ ~(served > 0 /\ (count >= FetchLimit(wire) \/ served >= limit))
         /\ Answer(200, NoLink)
      \/ /\ served < 0  \* the trim to a negative limit panics; Recovery answers
         /\ Answer(500, NoLink)

CallReturns == /\ phase = "asked"
               /\ \E count \in 0 .. (IF sent.max > 0 THEN sent.max ELSE Crowd) :
                  \E kept \in 0 .. count : /\ count - kept <= wire.cursor.seen
                                           /\ Respond(count, kept)
               /\ UNCHANGED <<backend, asked, wire, sent, first>>

Follow == /\ phase = "answered"
          /\ link # NoLink
          /\ wire' = link
          /\ phase' = "asking"
          /\ link' = NoLink
          /\ status' = 0
          /\ UNCHANGED <<backend, asked, sent, first>>

\* A lost answer or a 502: the client repeats its request.
Repeat == /\ phase = "answered"
          /\ status \in {200, 502}
          /\ phase' = "asking"
          /\ link' = NoLink
          /\ status' = 0
          /\ UNCHANGED <<backend, asked, wire, sent, first>>

\* The cursor of a followed link no longer resolves.
Expire == /\ phase = "asking"
          /\ wire.cursor.bound >= 0
          /\ wire' = [wire EXCEPT !.cursor = Unreadable]
          /\ UNCHANGED <<backend, asked, phase, sent, first, status, link>>

Next == \/ Refuse \/ Call \/ CannotCall \/ CallFails \/ CallReturns
        \/ Follow \/ Repeat \/ Expire

Spec == Init /\ [][Next]_vars

-----------------------------------------------------------------------------
(* What a good request is: ValidateSearchRequest, which no handler calls. *)

Boxed(w, s, e, n) == /\ -180 <= w /\ w <= e /\ e <= 180
                     /\ -90 <= s /\ s <= n /\ n <= 90

ValidBBox(b) == \/ Len(b) = 4 /\ Boxed(b[1], b[2], b[3], b[4])
                \/ Len(b) = 6 /\ Boxed(b[1], b[2], b[4], b[5]) /\ b[3] <= b[6]

ValidDatetime(d) ==
  \/ d = <<OpenPart>>
  \/ /\ Parses(d)
     /\ \/ NoMoment \in {Instant(d[1]), Instant(Last(d))}
        \/ ~Before(Instant(Last(d)), Instant(d[1]))

Valid(r) == /\ r.bbox # <<>> => ValidBBox(r.bbox)
            /\ r.datetime # <<>> => ValidDatetime(r.datetime)
            /\ r.bbox = <<>> \/ r.intersects = NoGeometry
            /\ r.limit >= 0
            /\ "" \notin ToSet(r.collections) \cup ToSet(r.ids)

\* What the validator does not look at and a link cannot carry: a sort field
\* without a name, an object that is declared to be text.
Declared(r) == /\ ~r.malformed
               /\ \A s \in ToSet(r.sortby) : s.field # ""
               /\ r.filter = "object" => r.lang \in {"", "cql2-json"}

WellFormed(r) == Valid(r) /\ Declared(r)

-----------------------------------------------------------------------------
\* Every variable has its type; no upstream is sent a negative maximum.
TypeOK ==
  /\ backend \in {"asf", "cmr"}
  /\ {asked, wire, link} \subseteq Request
  /\ phase \in {"asking", "asked", "answered"}
  /\ \A q \in {sent, first} \ {NoQuery} : DOMAIN q = DOMAIN NoQuery /\ q.max >= 0
  /\ status \in {0, 200, 400, 404, 500, 502}

\* A query by ids on ASF carries nothing but the ids.
IdsOnly == backend = "asf" /\ asked.ids # <<>>

\* However a search was sent, each page of it asks the upstream the same
\* question as the first, up to an end that is never later (ToQueryParams,
\* ParseSearchRequest, buildCursorURLWithStore, both backends).  CMR is sent the
\* wall clock of an offset as if it were UTC: there an end written west of
\* Greenwich is shifted back, and the cursor's end, which is not, may follow it.
LinksKeepQuery ==
  sent # NoQuery /\ WellFormed(asked) =>
    /\ sent = [first EXCEPT !.end = sent.end, !.max = sent.max]
    /\ first.end # NoMoment =>
         /\ sent.end # NoMoment
         /\ backend = "asf" \/ EndOf(asked).offset >= 0 => sent.end.at <= first.end.at

\* The inductive invariant behind the properties of this module: the wire holds
\* the first request or, with some cursor, its next link, and the first query is
\* what the first request asks for.
Readable(cursor) == cursor.bound \in Nat /\ cursor.seen \in Nat

WireInv ==
  /\ asked.cursor \in {NoCursor, Unreadable}
  /\ wire = asked \/ wire = LinkOf(asked, wire.cursor)
  /\ wire.cursor \in {asked.cursor, Unreadable} \/ Readable(wire.cursor)
  /\ link # NoLink => link = LinkOf(asked, link.cursor) /\ Readable(link.cursor)
  /\ phase = "asked" => first # NoQuery
  /\ first = NoQuery <=> sent = NoQuery
  /\ IF first = NoQuery THEN wire = asked /\ link = NoLink
     ELSE asked.cursor = NoCursor /\ first = Converted(Parsed(asked))

NamesUnknown(r) == IF r.route = "" THEN ~(ToSet(r.collections) \subseteq Known)
                                   ELSE r.route \notin Known

\* A well-formed request is answered: with a 400 only when its cursor is gone,
\* with a 404 only when it names an unknown collection, never with a 500.  This
\* goes for every link served to it as well (Items, Search, Recovery).
AnswersFit ==
  phase = "answered" /\ WellFormed(asked) =>
    /\ status = 400 => wire.cursor = Unreadable
    /\ status = 404 => NamesUnknown(asked)
    /\ status # 500

\* The area a client asked for is the one the upstream is sent, read back from
\* its text (BBoxToWKT, IntersectsToWKT, geojsonToPolygon).  On CMR only flat
\* boxes and polygons without holes are: the others are cut down or dropped.  An
\* empty ring is written as "()", which does not read back, and CMR's polygon
\* passes over a position it cannot use.
CMRSendsArea(r) == /\ Len(r.bbox) \in {0, 4}
                   /\ \/ r.intersects = NoGeometry
                      \/ r.intersects.type = "Polygon" /\ Len(r.intersects.polys[1]) = 1
BoxAsked(b) == IF Len(b) = 6 THEN <<b[1], b[2], b[4], b[5]>> ELSE b
IsBox(g, b) == /\ ComputeBBox(g) = b
               /\ Positions(g) = {<<b[1], b[2]>>, <<b[3], b[2]>>, <<b[3], b[4]>>, <<b[1], b[4]>>}

AreaHonoured ==
  sent # NoQuery /\ WellFormed(asked) /\ ~IdsOnly /\ Drawn(asked.intersects) =>
    IF backend = "asf"
    THEN /\ asked.bbox # <<>> => IsBox(FromWKT(sent.wkt), BoxAsked(asked.bbox))
         /\ asked.intersects # NoGeometry => FromWKT(sent.wkt) = Plain(asked.intersects)
    ELSE CMRSendsArea(asked) =>
           /\ sent.box = BoxAsked(asked.bbox)
           /\ asked.intersects # NoGeometry =>
                Polygon(<<sent.polygon>>) = Plain(asked.intersects)

\* The interval a client asked for is, to the second, the one its first query has;
\* a date stands for the moment it begins (ParseDateTimeInterval,
\* buildBackendParams and the two formats).  No more is promised of an instant
\* with a fraction: the query starts and ends where its second begins, which is
\* early for a start and cuts off what begins later in the second of an end.  CMR
\* is sent the wall clock of an offset as if it were UTC.
SecondOf(part) == IF part.kind = "open" THEN NoMoment ELSE Moment(part.moment.at, 0)

IntervalHonoured ==
  /\ sent # NoQuery /\ ~IdsOnly
  /\ Len(asked.datetime) \in {1, 2}
  /\ backend = "cmr" => \A p \in ToSet(asked.datetime) : p.moment.offset = 0
  => /\ first.start = SecondOf(asked.datetime[1])
     /\ first.end = SecondOf(Last(asked.datetime))

\* The client writes no dates: each part of its intervals is open or an instant.
NoDates == \A r \in Inputs : \A i \in DOMAIN r.datetime : r.datetime[i].kind # "text"
=============================================================================
