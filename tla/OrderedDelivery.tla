--------------------------- MODULE OrderedDelivery -------------------------
(***************************************************************************)
(* What for_each_ordered promises its caller, with no window, no runner    *)
(* and no credit: the reducer of each request is handed the results of     *)
(* candidates 0, 1, 2, ... each exactly once, each computed in the         *)
(* generation that is current when it is handed over, until the reducer    *)
(* breaks, the candidates run out, or the client's cancellation is seen.   *)
(***************************************************************************)
EXTENDS Integers, Sequences

CONSTANTS
    Requests,   \* grep requests
    Count,      \* Count[q]: number of candidates of request q
    GenLimit    \* the largest generation

VARIABLES
    cancelled,  \* the request's cancellation token
    generation, \* the generation whose speculative results are valid
    delivered,  \* what the reducer was handed
    result      \* what the call returned

vars == <<cancelled, generation, delivered, result>>

Init ==
    /\ cancelled = [q \in Requests |-> FALSE]
    /\ generation = [q \in Requests |-> 0]
    /\ delivered = [q \in Requests |-> <<>>]
    /\ result = [q \in Requests |-> "none"]

Cancel(q) ==
    /\ ~cancelled[q]
    /\ cancelled' = [cancelled EXCEPT ![q] = TRUE]
    /\ UNCHANGED <<generation, delivered, result>>

(* The next candidate's result; the reducer may retire the generation it   *)
(* was computed in, and may break.                                         *)
Deliver(q) ==
    /\ result[q] = "none"
    /\ Len(delivered[q]) < Count[q]
    /\ delivered' = [delivered EXCEPT ![q] =
                        Append(@, [index |-> Len(@), gen |-> generation[q]])]
    /\ \/ UNCHANGED generation
       \/ /\ generation[q] < GenLimit
          /\ generation' = [generation EXCEPT ![q] = @ + 1]
    /\ \/ UNCHANGED result
       \/ result' = [result EXCEPT ![q] = "break"]
    /\ UNCHANGED cancelled

(* The reducer breaks after it retired the generation.                     *)
Break(q) ==
    /\ result[q] = "none"
    /\ delivered[q] # <<>>
    /\ result' = [result EXCEPT ![q] = "break"]
    /\ UNCHANGED <<cancelled, generation, delivered>>

Finish(q) ==
    /\ result[q] = "none"
    /\ \/ /\ Len(delivered[q]) = Count[q]
          /\ result' = [result EXCEPT ![q] = "ok"]
       \/ /\ cancelled[q]
          /\ result' = [result EXCEPT ![q] = "cancelled"]
    /\ UNCHANGED <<cancelled, generation, delivered>>

(* Nothing computed for a request outlives it.                             *)
Close(q) ==
    /\ result[q] # "none"
    /\ generation[q] < GenLimit
    /\ generation' = [generation EXCEPT ![q] = @ + 1]
    /\ UNCHANGED <<cancelled, delivered, result>>

Next == \E q \in Requests :
            Cancel(q) \/ Deliver(q) \/ Break(q) \/ Finish(q) \/ Close(q)

Spec == Init /\ [][Next]_vars
=============================================================================
