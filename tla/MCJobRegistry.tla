--------------------------- MODULE MCJobRegistry ---------------------------
(* TLC instances of JobRegistry.                                           *)
EXTENDS JobRegistry, TLC

(* Jobs, servers and clients are interchangeable.                          *)
Symmetry == Permutations(Jobs) \cup Permutations(Servers) \cup Permutations(Clients)
=============================================================================
