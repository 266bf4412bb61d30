-------------------------- MODULE MCOrderedWindow --------------------------
(* Small instances of OrderedWindow for TLC. *)
EXTENDS OrderedWindow, TLC

CONSTANTS q1, q2, r1, r2, r3

OneRequest == {q1}
TwoRequests == {q1, q2}
TwoRunners == {r1, r2}
ThreeRunners == {r1, r2, r3}

(* One request that fills its window, or a long and a short one.           *)
FourItems == [q \in Requests |-> 4]
ThreeAndOne == [q \in Requests |-> IF q = q1 THEN 3 ELSE 1]

Symmetric == Permutations(Runners)
=============================================================================
