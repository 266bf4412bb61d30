------------------------------ MODULE MCUpdate ------------------------------
(* Small instances of Update for TLC.                                      *)
EXTENDS Update

CONSTANTS u1, u2

MCKindsOf(u) == IF u = u1 THEN {"release", "exec"} ELSE {"global"}
=============================================================================
