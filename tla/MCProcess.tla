----------------------------- MODULE MCProcess -----------------------------
(* Instances of Process.  The timeouts: the shape of the defaults (a write     *)
(* timeout of a body's and a call's together), a longer write timeout, one     *)
(* equal to the upstream's, one shorter than it; and two settings that         *)
(* Validate refuses.                                                           *)
EXTENDS Process

Settings(read, write, shutdown, upstream) ==
  [port |-> 8080, read |-> read, write |-> write, shutdown |-> shutdown, upstream |-> upstream,
   backend |-> "asf", defaultLimit |-> 10, maxLimit |-> 250]

MCConfigs == {Settings(1, 2, 1, 1), Settings(1, 3, 1, 1), Settings(1, 2, 1, 2),
              Settings(1, 1, 3, 2),
              [Settings(1, 2, 1, 1) EXCEPT !.maxLimit = 5], Settings(1, 2, 0, 1)}

File(json, valid, id) == [json |-> json, valid |-> valid, id |-> id]
MCFileSets == {{File(TRUE, TRUE, "a"), File(TRUE, TRUE, "b"), File(FALSE, FALSE, "readme")},
               {File(TRUE, TRUE, "a"), File(TRUE, FALSE, "b")},
               {File(FALSE, FALSE, "readme")}}
=============================================================================
