---------------------------- MODULE MCGeojsonMap ----------------------------
(* Two files with soundings and one without.                                 *)
EXTENDS GeojsonMap

MCFeatures == [f \in {"a", "b", "c"} |->
    IF f = "a" THEN {"a1"} ELSE IF f = "b" THEN {"b1"} ELSE {}]
=============================================================================
