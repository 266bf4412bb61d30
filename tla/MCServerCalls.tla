--------------------------- MODULE MCServerCalls ---------------------------
(* An instance of ServerCalls: a call that starts the job and may kill it, *)
(* and two that may ask for its output at once, or for something else.     *)
EXTENDS ServerCalls, TLC

CONSTANTS c1, c2, c3
LaneOf == [k \in Kinds |-> IF k = "search" THEN "file" ELSE "shell"]
OfferOf == (c1 :> {"start", "kill"}) @@ (c2 :> {"output", "plain"})
              @@ (c3 :> {"output", "search"})
=============================================================================
