# A TLA+ model of asf-stac-proxy

asf-stac-proxy answers STAC API requests from the search services of ASF or of
NASA's CMR. Neither is asked to page: the proxy makes its own cursors out of
the start times of the items it serves. That is the part of the program where
several requests, an archive that changes, a process that restarts and a few
off-by-one decisions have to agree, and it is where this project began. Around
it are the translation of a request into an upstream query and of a granule
into an item, and the life of the process that serves both.

## 1. Inventory

| Part (under `src/`) | State | Operations | Talks to |
|---|---|---|---|
| Cursor pagination, `internal/stac/pagination.go` | none: the cursor travels in the next link | `BuildCursorPaginationLinks`, `ApplyCursorToDatetime`, `FilterSeenItems`, encode and decode | called by the search handlers; the cursor store |
| Cursor store, `internal/stac/cursorstore.go` | map token -> cursor and expiry, stop channel, goroutine | `Store`, `Retrieve`, `Delete`, `cleanup`, `Stop` | handlers of all requests at once; its own goroutine |
| Search handlers, `internal/api/handlers.go` | per request only | `Items`, `Search`, `buildBackendParams`, CQL2 extraction, `Item` | pagination, store, backend, registry |
| Backends, `internal/backend`, `internal/cmr/backend.go` | none | `Search`, `GetItem`, parameter mapping, `determineCollection` | clients, registry, translation |
| Upstream clients, `internal/asf`, `internal/cmr` | connection pools | one HTTP call with a timeout; `GetGranule` | ASF, CMR |
| Request parsing and validation, `internal/stac/search.go`, `validation.go`, `sort.go` | none | parse GET and POST, back to query parameters; a validator no handler calls | handlers |
| Translation, `internal/translate`, `internal/cmr/translate.go` | none | feature to item, datetime intervals, CQL2, geometry to WKT | backends |
| Collection registry, `internal/config/collections.go` | map id -> collection, read-only after start | load all or nothing, look-ups in map order | handlers, backends |
| Configuration, `internal/config/config.go` | read-only | parse, validate | everything |
| Router and middleware, `internal/api` | none | routes, request ids, panic recovery, envelopes | handlers |
| Process, `cmd/server/main.go`; embedding, `pkg/server` | listener, signal channel, the store | start, graceful shutdown; `Close` | everything |
| Geometry library, `pkg/geojson` | none | decode, bounding boxes, WKT | translation |

What is hard here:

* *Paging without state.* A cursor is a second and a list of item ids. Whether
  a walk of many pages repeats or misses something depends on truncation to
  seconds, on ties that straddle a page, on the cap of the over-fetch, on the
  upstream's order, and on an archive that changes in between.
* *Retries.* A 502 or a lost response makes the client follow the same link
  again, so nothing may be consumed by the first attempt.
* *Shared, expiring state.* Cursors too large for a URL live in the store. They
  expire between and during requests, are swept by a goroutine, and are lost
  by a restart, while clients go on holding their links.
* *Silent fallbacks.* A cursor that fails to decode the second time, a
  datetime or filter that does not parse, a granule that does not translate:
  each is ignored, and the answer is quietly a different one.
* *Mappings that should be inverse.* Collections become datasets and levels on
  the way out, and granules are filed under collections on the way back; what an
  item shows ought to be what can be searched for; a POST body becomes the query
  of its own next link, which is parsed again; a box becomes text and text a box.
* *The end of the process.* A signal, a goroutine that may not have bound yet,
  requests whose upstream call outlasts the shutdown, timeouts that no rule
  relates.

What makes each part correct: pagination must deliver every matching granule
exactly once, newest first, and end; a token must stand for its own cursor for
its whole lifetime and for nothing afterwards; sharing the store must cost no
walk anything; a request must reach the upstream with the meaning it had, or be
refused, on its first page and on every later one; a granule must be filed where
its collection's listing has it, and its self link must lead back to it; an
accepted request must be answered unless there is a reason not to. `PROJECT.json`
lists every hazard at its line.

## 2. Modules

| Module | What it is |
|---|---|
| `Cursors` | The pure part: times and truncation, cursors, limits, what the upstream answers, filter, next cursor, next link. No state. |
| `Pagination` | One client and its walk: `Ask`, `Search` or `SearchFails`, `Receive` or `Lose`, and the archive's `Ingest` and `Withdraw`. |
| `Listing` | Abstract: pages of new items in order, and an end that is the end. No cursors. `Pagination` implements it (`ListsInOrder`). |
| `CursorStore` | `MemoryCursorStore` with its goroutine, ticker and clock. |
| `CursorLease` | Abstract: what a token is worth, until its time is up or its holder gives it back (`Revoke`). `CursorStore` implements it (`KeepsLeases`), with `Delete`, and nothing else, as `Revoke`. |
| `PagedService` | Handlers and store together: several clients, stored cursors, both decodings, `Close`, restarts. Uses `Cursors` and an instance of `CursorStore`. |
| `Geometries` | Pure: the GeoJSON library, bounding boxes, WKT written and read, CMR polygons and granule geometries. |
| `Requests` | A search request and what becomes of it: parsing by method, refusals, the upstream's query, the answer, the next link as a request. Extends `Geometries`. |
| `Filters` | Pure: CQL2 expressions as both translations see them. Recursive functions over the set of expressions, each of a finite depth. |
| `Catalogue` | Collections, granules, items: searches by collection and filter, filing, the look-up of one item. Composes `Filters` and `Geometries`. |
| `Process` | `cmd/server/main.go`: loading, the listening goroutine, signals, drain, exit, and the requests in flight. |
| `MCPagination`, `MCRegular`, `MCPagedService`, `MCRequests`, `MCCatalogue`, `MCProcess` | Instances for TLC. `MCRegular`, `MCPagedService`, `MCRequests` and `MCCatalogue` also make TLC evaluate the hypotheses of the theorems. |
| `CursorsProofs` | Lemmas about the operators of `Cursors`, for the two modules that use them. |
| `GeometriesProofs` | Boxes and texts of geometries: what a box covers, and that a text reads back. |
| `PaginationProofs`, `CursorStoreProofs`, `PagedServiceProofs`, `RequestsProofs`, `CatalogueProofs`, `ProcessProofs` | The theorems about each state machine. |

### How the code becomes actions

A handler runs to completion without touching shared memory except through the
store, so `Items` and `Search` (the two are line for line the same as far as
paging goes) are cut where the world can interfere: at the call of the
upstream and at each call of the store.

* `Pagination!Ask`: limit defaulting and capping, decoding of the cursor,
  over-fetch, bound on the end (`handlers.go:183-219`, `702-714`).
* `Pagination!Search`: the upstream's answer, skipping of granules that do not
  translate, `FilterSeenItems`, the trim, the next link (`221-300`).
  `SearchFails` is the 502. `Lose` is a response that never arrives.
* A page is a set. The order inside a page is not part of any property; the
  order of the upstream's answer decides which granules are on it, and ties are
  cut arbitrarily (`Firsts`).
* `PagedService!Decode` and `Build` are the two separate decodings of the same
  cursor (`handlers.go:194-206` or `409-422`, then `709`): for a stored cursor
  each is a `Retrieve` of its own.
* `CursorStore`: each method holds the mutex throughout and is one action. The
  goroutine's `select` is two, `Cleanup` and `Exit`. Time is relative (`left`).
  A tick that finds the ticker's channel full is dropped, as `time.Ticker`
  does.
* A restart (`PagedService!Restart`) empties the map and drops the requests in
  flight; clients keep their links.
* `Requests!Call` is a handler and its backend up to the HTTP call: parsing
  (`Refused`, `Parsed`), the interval and the limits, `ToASF` or `ToCMR`.
  `Refuse` is each early return in the order of the code (`Refusal`),
  `CannotCall` the 502 of an area without text, `CallReturns` everything after
  the call, the panic that `Recovery` turns into a 500 included. `Follow` makes
  the served link the next request. A request is one record whichever way it
  travels; a POST's link goes through `ToQueryParams` (`AsQuery`). Names, ids and
  encodings are members of a constant set, `Text`.
* In `Catalogue`, `Search` is a whole backend search and `Fetch` is
  `Handlers.Item` with `GetItem` and `GetGranule`. The order of a Go map is a
  choice: `DetermineCollection` is the set of collections some order yields.
* In `Process`, `run` is cut at what the world can see: `Start` (up to the
  goroutine), `Notify`, the two cases of the select, the two ends of `Shutdown`,
  `Exit`. The goroutine is `Bind`, at any time after `Start`. A signal before
  `Notify` is `Killed`. Time passes in ticks between these steps, never inside.
  A request is there from the end of its header (`Arrive`), and has a body to
  read, at most one call of the upstream, and a response to write (`Call`,
  `Reply`, `Take`). Each of the three has its timeout; that of the response
  counts from `Arrive`, as `net/http` counts `WriteTimeout`.

Times are ticks, `TicksPerSecond` to a second, so that a fraction of a second
exists in the model. `Stamp` is the start time the handler reads off an item:
an ASF item keeps its fraction, a CMR item has lost it.

The upstream catalogues are outside the repository. `Before`, `Firsts` and
`Answers` say what the backends rely on: the query's end bounds start times,
at most the maximum is returned, first in the order asked for.

## 3. Runs

| Run | Expected | Shows |
|---|---|---|
| `paging_asf` | pass | types; nothing repeated (`NoDuplicates`), nothing left out (`NothingSkipped`), the abstract listing (`ListsInOrder`), an end (`WalkEnds`) |
| `store` | pass | leases kept (`KeepsLeases`), expired entries swept, `Stop` ends the goroutine |
| `service` | pass | links keep their meaning, die of age or restart only, walks repeat and lose nothing |
| `service_ends` | pass | on CMR, with fractions of a second in the archive: walks through the store repeat and lose nothing and end, with the listing or a 400 |
| `requests` | pass | well-formed requests are answered (`AnswersFit`), their area and interval reach the upstream (`AreaHonoured`, `IntervalHonoured`), links ask the same question (`LinksKeepQuery`) |
| `catalogue` | pass | filters find what items show (`FilterExact`), granules are filed where they are listed (`FiledWhereListed`), self links and boxes lead back (`SelfLinkYieldsItem`, `BoxFindsItem`), the two filter translations agree (`TranslatorsAgree`) |
| `process` | pass | requests are cut off for cause only (`CutForCause`), exit code 0 means none was (`CleanExit`), a drain accepts nothing (`DrainAcceptsNone`), a response is too late to be written only where the write timeout is no longer than a body's and a call's together (`LostToWriteTimeout`), a signal ends the process (`SignalEnds`) |
| `paging_fraction` | violation | truncated cursor, ASF times with a fraction: an item comes again |
| `paging_ascending` | violation | ascending sort on CMR: all but the first page is skipped |
| `service_advance` | violation | a cursor that expires between its two decodings: the bound is lost |
| `requests_interval` | violation | an interval of dates is dropped, and the search has none |
| `process_registry` | violation | one bad collection file, and the service starts with no collection at all |

Each violation run contradicts a comment or an example quoted in
`PROJECT.json`. `paging_fraction` differs from `paging_asf` in `Start`,
`paging_ascending` in the backend and the direction; `requests_interval` adds to
the passing instance a datetime of dates, `process_registry` states another
property of the instance that passes; `service_advance` differs from `service` in
the property and in a lifetime that ends within a request. More
counterexamples, for which no run is kept: `MaxLimit = 3` (as many granules in
one second as MAX_LIMIT: the capped over-fetch is filtered down to nothing and
the walk ends early, against `pagination.go:176`), `Untranslatable = {b}` (a full
upstream page looks short and ends the walk, against `handlers.go:234`), both to
`NothingSkipped`; `ByIds` on ASF (a query by ids is sent with neither bound nor
maximum, `backend/asf.go:119`) and `EndInclusive` (a bound one second past the
cursor suits an exclusive end only, `pagination.go:265` against
`asf/params.go:22`), both to `NoDuplicates`. A sort by any other key breaks the
newest-first order as the ascending one does.

What the properties of `requests` and `catalogue` leave out is named, and each
exclusion is a limit of the code: dropping it gives a counterexample in the same
instance.

* `WellFormed` is the code's own `ValidateSearchRequest`, which no handler calls,
  and two things that validator does not look at (`Declared`): a sort without a
  field, and an object filter declared to be text. What is not well-formed is
  still sent: a negative limit by POST ends in a panic and a 500, a POST bbox of
  five values in a link that is a 400.
* `Drawn`: every ring has a position and every position two coordinates. An empty
  ring is written as `()`, which does not read back, and CMR's polygon passes
  over a position it cannot use.
* `CMRSendsArea`: flat boxes and polygons without holes. CMR is sent the first
  four of six values, the outer ring, and nothing for other geometries.
* `IntervalHonoured` is about whole seconds: both backends write instants without
  their fraction (`InUTC`, `AsWritten`), so an interval starts and ends where the
  second of its instant begins, up to a second early at either end. On CMR it is
  about instants written in UTC; others are shifted by their offset. For the same
  reason `LinksKeepQuery` promises an end that is never later, on CMR, only for
  ends written in UTC or east of it: an end written west of Greenwich is sent as
  an earlier moment, the end a cursor sets is not.
* `Expressible`: conjunctions of clauses on different properties. `NOT` is
  read as its argument, `OR` across properties as a conjunction, numbers are not
  read; `processing:level` is shown mapped and searched unmapped; ASF platforms
  must be in the table of names; CMR is sent no platform, repeats an attribute
  for each value, may hold directions as letters, has items that show the
  direction of their orbit instead (`WordedDirection`), and is asked for
  `BEAM_MODE` where an item without one shows `BEAM_MODE_TYPE` (`ModeByType`).
  A direction in upper case is understood upstream and shown by no item;
  polarizations are shown in capitals and, on ASF, split (`Reworded`). A list
  without texts and an empty text describe nothing, but are passed over as if
  they were not there (`Clause`; the same exclusion in `TranslatorsAgree`).
* `TranslatorsAgree` compares orbit numbers only where the filter names none:
  `TranslateCQL2Filter` sends them, and the service, which passes numbers over,
  searches every orbit, although the repository's README lists
  `sat:relative_orbit` as queryable in all collections.
* `Separable`: on ASF one collection at a time, and no product type beside it: a
  product type replaces the levels of the collections, and those of several
  collections are pooled (`backend/asf.go:172`). So a search of uavsar and
  sentinel-1-slc together demands the level SLC of UAVSAR too and finds none of
  its granules, against `asf.go:224`, "Collection has no processing level filter
  (like UAVSAR), accept any".
* `Configured`: granules of a platform the registry lists for the dataset. Others
  (Sentinel-1D, in the instance) are filed under the empty id.

Bounds, and why they are enough:

* Five granules over three seconds, three of them in one second. With pages of
  one or two, a second is cut by a page break twice in a row, which is what
  accumulation of seen ids needs; there is a newer and an older granule to lose
  or to repeat; and with `MaxLimit = 4` the over-fetch meets its cap.
* `AskedLimits = {0, 1, 5}`: the default, the smallest page, and a limit above
  the maximum. `SomeEnds`: none, one at a granule's second, one inside a second.
* The archive starts with any subset and changes freely, so an item may enter
  or leave at every point of a request.
* `store`: three tokens, two cursors, a lifetime of three and an interval of
  two, so that ticks fall before, at and after expiry, and a token is deleted,
  expires or is swept while another lives.
* `service`: two clients, four granules, two of them of one second, a lifetime
  of two units and a sweep every unit; `InlineMax = 0`, so every cursor is a
  candidate for the store. The page of two cuts the middle second either way,
  and the two clients' cursors differ. The granules of that second, the clients
  and the tokens are interchangeable, and the run uses that symmetry (its
  properties are safety properties). Two tokens bound the number of cursors
  ever stored (`issued` grows only); once both are used, cursors travel inline,
  the code's own fallback when no token can be had, and that branch is open
  from the start as well.
* `service_ends`: one client and every page size up to the maximum, on CMR,
  whose items have lost the fractions their granules have, without symmetry.
  Clients do not block one another anywhere in the code, so a second one adds
  states but no way to keep the first from ending.
* `requests`: both methods, a known and an unknown route, both backends, and any
  two parameters out of the ordinary at once, from every shape the parsers tell
  apart: boxes of 3 to 6 values, all geometry types (with holes, several
  polygons, a short position), open, reversed and offset intervals, instants with
  a fraction (two of one second, one of which is later), empty ids,
  unknown collections, limits below, at and above the bounds, both filter
  encodings. Parameters are converted one by one, so what two of them can do to
  each other shows with two. Instants 1 and 3 leave room on either side of an
  asked interval. The handlers' limits are 2 (default) and 3 (maximum).
* `catalogue`: four shipped collections and seven granules: two scenes of two
  products, a level and a platform no collection has, a granule of several
  polygons without a file id. All of them are in the archive, or all but one
  product of a scene; the look-up of one product then meets the other. One
  archive has neither of the granules that keep CMR from being asked for a
  direction (a letter, an orbit of its own), and one has each of them alone.
  Among the granules are one of two polarizations, one whose polarization CMR
  has in small letters, one with the type of its beam mode only and none of the
  optional texts, and one of the relative orbit that is asked for. One
  search is of two collections. Every atom a translation distinguishes, and pairs of them under each operator.
  `MaxChanges = 1`: one granule comes or goes between a search and a look-up. The
  registry is fixed when the process starts, so it does not change here.
* `process`: two requests at a time, so that one may end and another not; a write
  timeout equal to a body's and a call's together, which is the shape of the
  defaults, one that is longer, one equal to the upstream's, one shorter than it,
  and two settings that `Validate` refuses; files that all load, one that does
  not, and none. Three ticks are enough to put a timeout before, at and after
  another.

Fairness. The client keeps following its link (weak fairness of `Ask` or
`Decode`). An upstream and a network that are tried again and again do not
fail every time (strong fairness of `Search` and `Receive`; in `PagedService`
also of `Build`, which a restart may cut off). The code retries nothing by
itself: `WalkEnds` says that *paging* does not go round in circles, given a
client that persists. In `CursorStore` the clock advances and the goroutine is
scheduled; Go's `select` picks a ready case at random, so neither of two ready
cases starves. Nothing is assumed of the store's goroutine in `PagedService`.

In `Process`, main takes its next step when it can, time passes, and what has
reached its timeout ends: the reading of a body (`ReadTimeout`), a call
(`http.Client.Timeout`), the writing of a response (`WriteTimeout`). Nothing is
assumed of clients, of the upstream, of the listening goroutine or of the
supervisor: `SignalEnds` holds while all of them do as they like.

The walks of `paging_asf` are finite only because a finite set of granules is
ingested; a walk whose archive grows for ever behind the cursor is not
promised an end by the code either.

`slipped` in `PagedService` is a history variable: the clients one of whose
handlers lost its upper bound. `NoRepeats` speaks of the others; what happens
to the slipped ones is `service_advance`. `NoneLost` speaks of all.

## 4. Proofs

| Theorem | States | Under |
|---|---|---|
| `TypeCorrect` | `Spec => []TypeOK` | the named assumptions of `Cursors` and `Pagination` |
| `NeverRepeats` | `Spec => []NoDuplicates` | `WholeSeconds`, `BoundsHeld` |
| `NeverSkips` | `Spec => []NothingSkipped` | `Regular` |
| `ImplementsListing` | `Spec => ListsInOrder` | `Regular` |
| `StoreTypeCorrect` | store: `Spec => []TypeOK` | `StoreAssumption` |
| `ImplementsLeases` | store: `Spec => KeepsLeases` | `StoreAssumption` |
| `ServiceTypeCorrect` | service: `Spec => []TypeOK` | `ServiceAssumption` and those of `Cursors` |
| `LinksMeanOneCursor` | service: `Spec => []LinksKeepMeaning` | the same |
| `LinksLiveOut` | service: `Spec => LinksDieOfAge` | the same |
| `WalksNeverRepeat` | service: `Spec => []NoRepeats` | `WholeSeconds`, `BoundsHeld` |
| `WalksLoseNone` | service: `Spec => []NoneLost` | `Regular` |
| `RequestsTypeCorrect` | requests: `Spec => []TypeOK` | `RequestsAssumption`, `InputsAssumption` |
| `LinksKeepTheQuery` | requests: `Spec => []LinksKeepQuery` | the same |
| `AnswersAreFit` | requests: `Spec => []AnswersFit` | the same |
| `IntervalsArrive` | requests: `Spec => []IntervalHonoured` | `NoDates` |
| `TextReadsBack` | geometries: `FromWKT(ToWKT(g)) = Plain(g)` for every drawn point, polygon and multipolygon | nothing |
| `AreasArrive` | requests: `Spec => []AreaHonoured` | `RequestsAssumption`, `InputsAssumption` |
| `CatalogueTypeCorrect` | catalogue: `Spec => []TypeOK` | `CatalogueAssumption`, `NamesAssumption` |
| `SelfLinksWork` | catalogue: `Spec => []SelfLinkYieldsItem` | the same |
| `FilingInvertsListing` | catalogue: `Spec => []FiledWhereListed` | the same and `Orderly` |
| `BoxesFindItems` | catalogue: `Spec => []BoxFindsItem` | `CatalogueAssumption`, `NamesAssumption`, `FootprintsAssumption` |
| `TranslationsAgree` | catalogue: `Spec => []TranslatorsAgree` | `CatalogueAssumption`, `NamesAssumption`, `ExprAssumption`, `LowerAssumption` |
| `WhatIsShownIsFound` | catalogue: `Spec => FilterExact` | `CatalogueAssumption`, `NamesAssumption`, `ExprAssumption`, `LowerAssumption`, `PlatformsAssumption` |
| `ProcessTypeCorrect` | process: `Spec => []TypeOK` | `ProcessAssumption` |
| `AcceptsOnlyWaiting` | process: `Spec => DrainAcceptsNone` | `ProcessAssumption` |
| `ExitsClean`, `CutsForCause` | process: `Spec => []CleanExit`, `Spec => CutForCause` | `ProcessAssumption` |
| `LosesOnlyToWriteTimeout` | process: `Spec => []LostToWriteTimeout` | `ProcessAssumption` |

### Paging

`NoDuplicates` is not inductive: that a page is disjoint from what was
delivered follows from what the cursor knows. `CursorInv` says it: everything
delivered is at or above the cursor's second, and what is at that second is in
its list (`Remembers`), for the cursor the client holds and for the one on its
way. A step that builds a page preserves it because whatever starts before the
second after the cursor's starts, to the second, no later than the cursor
(`TruncBefore`), and because the seen list is accumulated exactly when the
second does not change.

`NothingSkipped` needs the other direction. `ReachInv` adds that the cursor
lists only items of its own second that were delivered (`ListsOnly`), so the
list is shorter than the maximum when no second is too crowded, so the
over-fetch reaches past it and an undelivered granule makes the page full.

`Regular` names what the code needs and does not enforce: whole-second stamps,
an exclusive end that is sent, the newest-first order, granules that all
translate, and fewer granules in any second than MAX_LIMIT. Each conjunct is
necessary in the sense that an instance without it has a counterexample
(section 3). TLC evaluates `Regular` on the passing instances of `Pagination`
and on all of `PagedService`, so the theorems are not vacuous there.

### The store

`ImplementsLeases` rests on two lemmas: a sweep takes away no lease, and a unit
of time ages every lease alike, the last one included. Every other step but
`Store` and `Delete` leaves all leases as they are, and `Delete` takes one that
its caller gives back. Hence what a token is worth does not depend on when, or
whether, the goroutine runs: a sweep of one live entry would be no step of
`CursorLease`.

### The service

The service proofs treat the store through two lemmas: whatever a step does to
it, its variables keep their types (`StoreTyped`), and an issued token stands
for the cursor it was issued for or, from some moment on, for nothing
(`TokensKept`). Three layers stand on them.

* `LinkInv`: the link a client holds and the link of the page on its way mean
  (`Means`) the cursor each was made from. The ghost variable `meant` is that
  cursor. It gives `LinksKeepMeaning`, and `LinksDieOfAge` because the only
  steps that take an entry away before its end are restarts.
* `HandlerInv`: a handler works with the cursor of its client's link; its call
  carries that cursor's bound, or none if the client is in `slipped`.
* `MemoryInv` and `WalkInv` are the two arguments of paging, client by client,
  over the lemmas of `CursorsProofs`. `MemoryInv` needs the bound and therefore
  speaks of the clients outside `slipped`. `WalkInv` does not: without its bound
  a query answers with the newest granules again, and whatever is on the page
  the cursor only moves to what was found, so nothing is passed over. Hence
  `NoneLost` holds of every client.

### Requests

The question a client asks is lost sight of once its request is a link, so
`WireInv` keeps it: the wire holds the first request or its link
(`LinkOf(asked, cursor)`), the served link is one too, and the first query is
what the first request converts to. What is left is pure: a link of a link is a
link of the first request (`LinkOfLink`); a well-formed request and its link
agree in everything but method, cursor, limit and the writing of the sort
(`LinkAgrees`); requests that agree are converted to the same question
(`SameQuestion`), with an end that is bounded by the first one (`EndsEarlier`);
and no parser refuses the link of a request it did not refuse (`NotRefused`),
so that only a lost cursor or an unknown collection is left as a reason
(`GoodRefusalMeans`).

`AreasArrive` is `TextReadsBack` with the conversions around it. A text is read by
counting parentheses, so its proof follows the scan (`Read`) token by token: a
ring is one group whatever it holds, a polygon is one group of rings, and what
stands between groups is a comma, which is passed over; hence the groups are
the rings that were written. `ComputeBBox` is a fold over a set of positions;
`DrawnRings` and the lemmas before it show that it covers every position and
takes its sides from them, so that a box, drawn, has itself as its box.
`InputsAssumption` says that a point is written down as one polygon of one
ring of one position, and a polygon as one polygon (`Shaped`): every geometry has
the one form `polys` here.

`NoDates` says that no interval has a date without a time. Such an interval is
dropped, which `requests_interval` shows; TLC evaluates `NoDates` in the run
`requests`.

### The catalogue

`FilingInv`: a served item is what its granule and its collection make, the
granule is one the search finds, the collection one that `determineCollection`
may answer with. What is left is about one granule.

* A self link (`FetchYields`): on ASF, among the products that answer to a file
  id the one that bears it is found, however many others of its scene come with
  it; on CMR nothing else has the UR. This is where `NamesAssumption` is needed,
  that no two granules share a file id or a UR; it is about the upstreams.
* `FiledIsListed` and `FiledWhereAsked`: by platform and level on ASF, by short
  name on CMR, filing leads back to the collection that was searched. It needs
  `Orderly`: collections that share a dataset have the same platforms and the
  other way round, those that share a platform are told apart by levels that are
  set, and short names are given, not shared, and not datasets. The shipped
  collections meet it and nothing in `validateCollection` enforces it; TLC
  evaluates it on the instances.
* Boxes (`FootprintBox`, `ExtentBox`): whichever polygon, rectangle or point the
  item's box was computed from, the box written as text and read again has the
  sides it had, and they are at or outside every position of the footprint.
  `FootprintsAssumption` is about the upstreams: footprints have positions, and
  the extent that CMR gives draws the footprint, if that is one polygon.
* Filters. `Extracted`, `Processed`, `Speaks` and `Described` are defined by
  recursion on expressions, of which the constants say only that each has a
  `Depth` greater than that of its arguments. `FilterRecursion` shows that such
  a recursion has a solution, by recursion on depth; from it come the four
  equations (`ExtractedEq`, `ProcessedEq`, `SpeaksEq`, `DescribedEq`), and an
  induction on depth shows for every expression that both translations collect
  the same texts (`AllAgree`), hence the same parameters (`ParametersAgree`), orbit
  numbers excepted, of which the service's translation has none.
* `WhatIsShownIsFound`: a clause describes the items that show one of its texts
  (`ClauseMeans`), a conjunction those that do so for each property it names
  (`ConjunctionMeans`), because no two clauses are about one property. That is
  what the query asks of ASF, value by value (`ASFExact`), and of CMR, where all
  the values of a property are one (`CMRExact`). `LowerAssumption` and
  `PlatformsAssumption` are about the table of platform names: it is the lower
  case of what it leads to, and ASF writes those platforms as the table does;
  the former also about the two directions. That what is shown is what is asked
  for is shown property by property: `SamePolarizations`, `DirectionMet`, and
  `ShownMode` where `ModeByType` does not hold.

### The process

The process's properties rest on three inductive invariants. `ListenerInv`: a
process that drains, has returned or is off has no open listener, and a serving
error leaves none; so no request starts after the signal. `CutInv`: no request
is cut while the process is there, and one that returned with a request active
has used up its timeout or had failed, and does not exit with 0. `AgeInv`: a body
is read no longer than the read timeout and a call is no older than its client's,
so that a request is no older than the two together when it is answered, and a
response that comes after the write timeout comes from a process whose write
timeout is no longer than that.

### Only model-checked

The liveness properties: `WalkEnds`, `WalksEnd`, those of the store and
`SignalEnds`. Liveness under fairness is beyond the prover. Every invariant and
every action property of a passing run is a theorem. The library's theorems of
induction over data cannot be instantiated here; where the proofs need an
induction they make a set of numbers of the claim and use that a set of
naturals that holds 0 and every successor holds them all (`Induction`).

Assumed of the upstreams, from the way the backends use them: ASF takes any of
the values of a parameter and CMR wants all the attributes it is sent; names and
levels match exactly, directions in any case; ASF answers a name with whatever bears it and possibly
other products of the scene. `net/http` accepts nothing once shut down, even
before it listens, and `Shutdown` waits for active requests or its context;
connections that were accepted and have sent nothing yet, which `Shutdown` gives
five seconds, are left out. Its write deadline runs from the end of the request's
header.

## 5. What is not modelled, and the plan

Not modelled, for they decide nothing or nothing calls them: logging, headers,
routing tables, response envelopes, static documents (landing page, conformance,
queryables, collections), assets and the metadata fields no filter names, white
space and digits in texts, `Translator.TranslateSTACSearchToASF`, the two
`FindByASFDataset` look-ups, the deprecated page-number links, CMR concept ids
(no shipped collection has them), which environment variable fills which field,
the comparison script.

Left to do:

1. Items with no time of their own: a page made only of them has no next link
   (`handlers.go:658`). The paging modules give every granule a start.
2. The two settings that the shipped instances of `Pagination` exclude, `ByIds`
   and `EndInclusive`, as runs, once the upstream's reading of `end` is settled.
3. Filters on numbers, once the handlers read them: `Shows` would gain the orbit
   numbers, `Expressible` and `TranslatorsAgree` lose an exclusion each.
