------------------------------ MODULE Filters ------------------------------
(***************************************************************************)
(* CQL2 filters: what they mean, and what the proxy keeps of them.  Two    *)
(* translations exist.  extractFilterParams (internal/api/handlers.go) is  *)
(* the one the service uses; TranslateCQL2Filter                           *)
(* (internal/translate/filter.go) is the one the tests exercise.           *)
(*                                                                         *)
(* An expression is a record.  "=" and "in" compare a property with a      *)
(* sequence of literals, all of them strings or all of them whole numbers  *)
(* (written as strings here); the other operators have arguments.          *)
(***************************************************************************)
EXTENDS Integers, SequencesExt

CONSTANTS Expr,     \* the expressions that may be asked, with their arguments
          Depth,    \* how deep each is nested
          Lower(_)  \* strings.ToLower

Atom(op, prop, values, numeric) ==
  [op |-> op, prop |-> prop, values |-> values, numeric |-> numeric, args |-> <<>>]
Compound(op, args) ==
  [op |-> op, prop |-> "", values |-> <<>>, numeric |-> FALSE, args |-> args]

\* No filter: an empty conjunction, which constrains nothing.
NoFilter == Compound("and", <<>>)

\* A filter is a finite tree of what the JSON decoder makes of the request.
ASSUME ExprAssumption ==
  /\ NoFilter \in Expr
  /\ Depth \in [Expr -> Nat]
  /\ \A e \in Expr : /\ e.prop \in STRING /\ e.values \in Seq(STRING)
                      /\ e.numeric \in BOOLEAN
                      /\ e.args \in Seq(Expr) /\ (e.op = "not" => Len(e.args) = 1)
                      /\ \A i \in DOMAIN e.args : Depth[e.args[i]] < Depth[e]

Pairs(e) == [i \in DOMAIN e.values |-> <<e.prop, e.values[i]>>]
ValuesIn(pairs, prop) == {pairs[i][2] : i \in {j \in DOMAIN pairs : pairs[j][1] = prop}}

-----------------------------------------------------------------------------
(* extractFilterParams. *)

\* The texts of a comparison; an empty one is passed over.
Texts(e) == FlattenSeq([i \in DOMAIN e.values |->
                          IF e.values[i] = "" THEN <<>> ELSE << <<e.prop, e.values[i]>> >>])

\* extractPropertiesFromExpression: every branch of every operator is read, a
\* negation like what it negates; numbers and other comparisons are passed over.
Extracted[e \in Expr] ==
  CASE e.op \in {"and", "or", "not"} ->
         FlattenSeq([i \in DOMAIN e.args |-> Extracted[e.args[i]]])
    [] e.op \in {"=", "in"} /\ ~e.numeric -> Texts(e)
    [] OTHER -> <<>>

\* normalizePlatformForASF: its table of lower case names, and any other platform
\* as it is.
ASFName ==
  ("sentinel-1a" :> "Sentinel-1A") @@ ("sentinel-1b" :> "Sentinel-1B") @@
  ("sentinel-1c" :> "Sentinel-1C") @@ ("alos" :> "ALOS") @@ ("ers-1" :> "ERS-1") @@
  ("ers-2" :> "ERS-2") @@ ("jers-1" :> "JERS-1") @@ ("radarsat-1" :> "RADARSAT-1") @@
  ("seasat" :> "SEASAT") @@ ("uavsar" :> "UAVSAR") @@ ("airsar" :> "AIRSAR")
NormalPlatform(p) == IF Lower(p) \in DOMAIN ASFName THEN ASFName[Lower(p)] ELSE p

\* The names of the table are the ones in the answers, in lower case; directions
\* are written in two cases, and lower case is kept.
ASSUME LowerAssumption ==
  /\ Lower("") = ""
  /\ \A p \in DOMAIN ASFName : Lower(p) = p /\ Lower(ASFName[p]) = p
  /\ Lower("ascending") = "ascending" /\ Lower("ASCENDING") = "ascending"
  /\ Lower("descending") = "descending" /\ Lower("DESCENDING") = "descending"

\* Where the orbit states are among the pairs, and the first of them.
StatesAt(pairs) == {i \in DOMAIN pairs : pairs[i][1] = "sat:orbit_state"}
FirstState(pairs) == IF StatesAt(pairs) = {} THEN "" ELSE pairs[Min(StatesAt(pairs))][2]

FilterParams(beamMode, polarization, direction, level, platform, relativeOrbit, absoluteOrbit) ==
  [beamMode |-> beamMode, polarization |-> polarization, direction |-> direction,
   level |-> level, platform |-> platform,
   relativeOrbit |-> relativeOrbit, absoluteOrbit |-> absoluteOrbit]

\* Mutant: the product type is forgotten.
ExtractFilterParamsUntyped(e) ==
  LET pairs == Extracted[e]
  IN  FilterParams(ValuesIn(pairs, "sar:instrument_mode"),
                   ValuesIn(pairs, "sar:polarizations"),
                   FirstState(pairs),
                   ValuesIn(pairs, "processing:level"),
                   {NormalPlatform(p) : p \in ValuesIn(pairs, "platform")}, {}, {})

\* extractFilterParams, which is not called without a filter: one direction, the
\* first; a product type replaces the processing levels; no orbits.
ExtractFilterParams(e) ==
  LET pairs == Extracted[e]
      types == ValuesIn(pairs, "sar:product_type")
  IN  IF e = NoFilter THEN FilterParams({}, {}, "", {}, {}, {}, {}) ELSE
      FilterParams(ValuesIn(pairs, "sar:instrument_mode"),
                   ValuesIn(pairs, "sar:polarizations"),
                   FirstState(pairs),
                   IF types # {} THEN types ELSE ValuesIn(pairs, "processing:level"),
                   {NormalPlatform(p) : p \in ValuesIn(pairs, "platform")}, {}, {})

-----------------------------------------------------------------------------
(* TranslateCQL2Filter. *)

TextProps == {"sar:instrument_mode", "sar:polarizations", "sar:product_type",
              "sat:orbit_state", "processing:level", "platform"}
OrbitProps == {"sat:relative_orbit", "sat:absolute_orbit"}

\* applyPropertyFilter for each literal: strings for the one kind, numbers for
\* the other, and one of two orbit states in either case.
Applies(e) == \/ e.prop \in OrbitProps /\ e.numeric
              \/ /\ e.prop \in TextProps /\ ~e.numeric
                 /\ e.prop = "sat:orbit_state" =>
                      \A v \in ToSet(e.values) : Lower(v) \in {"ascending", "descending"}

\* processFilterExpression: an error anywhere is an error.
Processed[e \in Expr] ==
  CASE e.op \in {"and", "or"} ->
         [ok |-> e.args # <<>> /\ \A i \in DOMAIN e.args : Processed[e.args[i]].ok,
          pairs |-> FlattenSeq([i \in DOMAIN e.args |-> Processed[e.args[i]].pairs])]
    [] e.op \in {"=", "in"} ->
         [ok |-> Applies(e) \/ (e.op = "in" /\ e.values = <<>>), pairs |-> Pairs(e)]
    [] OTHER -> [ok |-> FALSE, pairs |-> <<>>]

\* applyOrbitStateFilter: two directions are a conflict.
Translates(e) ==
  /\ Processed[e].ok
  /\ \A s, t \in ValuesIn(Processed[e].pairs, "sat:orbit_state") : Lower(s) = Lower(t)

\* The direction of orbit states that do not conflict, in upper case.
FlightDirection(states) ==
  IF states = {} THEN ""
  ELSE IF \E s \in states : Lower(s) = "ascending" THEN "ASCENDING" ELSE "DESCENDING"

TranslateCQL2Filter(e) ==
  LET pairs == Processed[e].pairs
  IN  FilterParams(ValuesIn(pairs, "sar:instrument_mode"),
                   ValuesIn(pairs, "sar:polarizations"),
                   FlightDirection(ValuesIn(pairs, "sat:orbit_state")),
                   ValuesIn(pairs, "sar:product_type") \cup ValuesIn(pairs, "processing:level"),
                   ValuesIn(pairs, "platform"),
                   ValuesIn(pairs, "sat:relative_orbit"),
                   ValuesIn(pairs, "sat:absolute_orbit"))

-----------------------------------------------------------------------------
(* Which filters can survive as a conjunction of parameters. *)

\* The properties an expression speaks of.
Speaks[e \in Expr] ==
  IF e.op \in {"=", "in"} THEN {e.prop} ELSE UNION {Speaks[e.args[i]] : i \in DOMAIN e.args}

\* One or several texts for one property: a clause.  Not an empty list and no
\* empty text: they describe nothing, and are passed over.
Comparisons(e) == IF e.op = "or" THEN ToSet(e.args) ELSE {e}
Clause(e) == /\ \A c \in Comparisons(e) :
                  c.op \in {"=", "in"} /\ ~c.numeric /\ c.values # <<>> /\ "" \notin ToSet(c.values)
             /\ \E p \in TextProps : Speaks[e] = {p}

Conjuncts(e) == IF e.op = "and" THEN ToSet(e.args) ELSE {e}

\* A conjunction of clauses for different properties, one orbit state at most,
\* and not both of the two properties that become a processing level.
Conjunctive(e) ==
  /\ \A c \in Conjuncts(e) : Clause(c)
  /\ \A c, d \in Conjuncts(e) : c # d => Speaks[c] \cap Speaks[d] = {}
  /\ \A i, j \in StatesAt(Extracted[e]) : i = j
  /\ ~({"processing:level", "sar:product_type"} \subseteq Speaks[e])
=============================================================================
