------------------------------- MODULE Inputs -------------------------------
(* One input of one algorithm: the state of Algorithms.  First an          *)
(* algorithm is chosen, then an input of it.                               *)
VARIABLE input

Chosen(algorithm) == input.of = algorithm
Unchosen(algorithm) == input = [of |-> "nothing", next |-> algorithm]
=============================================================================
