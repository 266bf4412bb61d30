----------------------------- MODULE MCReplace ------------------------------
(* Small instances of Replace for TLC.                                     *)
EXTENDS Replace

CONSTANTS c1, c2, s1, s2

(* The second call is served by the process of the first or by another.    *)
MCServersOf(c) == IF c = c1 THEN {s1} ELSE {s1, s2}
=============================================================================
