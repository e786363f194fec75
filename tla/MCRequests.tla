----------------------------- MODULE MCRequests -----------------------------
(* Instances of Requests: requests with at most two parameters out of the    *)
(* ordinary, by both methods and on both routes.                             *)
EXTENDS Requests

CONSTANT Dates  \* dates without a time may be asked for

Square(a, b) == Ring(a, a, b, b)
Shapes == {PointAt(<<1, 2>>), PointAt(<<1>>), Polygon(<<Square(0, 4)>>),
           Polygon(<<Square(0, 4), Square(1, 2)>>),
           Geometry("MultiPolygon", << <<Square(0, 4), Square(1, 2)>>, <<Square(6, 8)>> >>),
           Polygon(<< <<>> >>), Polygon(<< << <<0, 0>>, <<4>>, <<4, 4>>, <<0, 0>> >> >>),
           Geometry("LineString", << << << <<0, 0>>, <<1, 1, 7>> >> >> >>),
           Geometry("null", <<>>)}

At(t) == Part("instant", Moment(t, 0))
Later(part) == [part EXCEPT !.moment.frac = 5]  \* by as many tenths of a second
Datetimes == {<<At(2)>>, <<At(1), At(3)>>, <<At(1), OpenPart>>, <<OpenPart, At(2)>>,
              <<At(3), At(1)>>, <<Part("instant", Moment(1, 2)), OpenPart>>,
              <<OpenPart, Part("instant", Moment(3, -2))>>,
              <<Later(At(2))>>, <<Later(At(1)), Later(At(3))>>, <<At(3), Later(At(3))>>,
              <<Later(At(3)), At(3)>>, <<OpenPart, Later(Part("instant", Moment(2, 1)))>>}
             \cup IF Dates THEN {<<Part("text", Moment(1, 0)), Part("text", Moment(3, 0))>>}
                           ELSE {}

Sort(f, d) == [field |-> f, direction |-> d]

\* The values a parameter may take besides the ordinary one.
Odd == [malformed   |-> {TRUE},
        bbox        |-> {<<1, 2, 3, 4>>, <<1, 2, 0, 3, 4, 9>>, <<1, 2, 3>>, <<1, 2, 3, 4, 5>>},
        intersects  |-> Shapes,
        datetime    |-> Datetimes,
        ids         |-> {<<"g">>, <<"g", "h">>, <<"">>},
        collections |-> {<<"c">>, <<"c", "d">>, <<"x">>},
        limit       |-> {-1, 1, 5},
        cursor      |-> {Unreadable},
        sortby      |-> {<<Sort("datetime", "desc")>>, <<Sort("platform", "asc")>>,
                         <<Sort("", "asc")>>, <<Sort("cloud", "up"), Sort("platform", "desc")>>},
        filter      |-> {"object", "string"},
        lang        |-> {"cql2-json", "cql2-text"}]

Ordinary == {[Plainest EXCEPT !.method = "GET"], [Plainest EXCEPT !.method = "POST"],
             [Plainest EXCEPT !.route = "c"], [Plainest EXCEPT !.route = "x"]}

MCInputs == UNION {{[r EXCEPT ![f] = v, ![g] = w] : v \in Odd[f], w \in Odd[g]} :
                     r \in Ordinary, f \in DOMAIN Odd, g \in DOMAIN Odd}
MCText == STRING
MCKnown == {"c", "d"}
MCInstants == {1, 3}

\* The hypothesis of IntervalsArrive.
ASSUME DatesInstance == Dates \/ NoDates
=============================================================================
