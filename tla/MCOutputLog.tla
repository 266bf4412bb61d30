---------------------------- MODULE MCOutputLog ----------------------------
(* TLC instances of OutputLog.                                             *)
EXTENDS OutputLog

(* One and two bytes of content; two wide units whose bytes form a line    *)
(* feed across their boundary.                                             *)
PlainChunks == [e \in Encoded |->
    IF e = "wide" THEN {<<"x", "n">>, <<"o", "x">>}
    ELSE {<<"x">>}]
=============================================================================
