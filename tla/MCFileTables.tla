---------------------------- MODULE MCFileTables ----------------------------
(* Two recordings, one of them converted.                                    *)
EXTENDS FileTables

CONSTANTS r1, r2

MCFiles == {<<r1, "wibl">>, <<r2, "wibl">>, <<r1, "geojson">>}
MCSockets == Kinds \X {"table"}
MCExternal == {<<r2, "wibl">>}
MCUnreliable == {<<"wibl", "table">>}
MCRefusable == {<<r1, "wibl">>}

\* r1 starts in the last second of a minute and ends in the first second of
\* the next day; the times of r2 are unknown.
MCInfo == [f \in OfKind("wibl") |->
    IF Root(f) = r1 THEN [platform |-> "p", logger |-> "l", start |-> 86339, end |-> 86400]
                    ELSE [platform |-> "p", logger |-> "m", start |-> None, end |-> None]]
Entry(d, t, p, l) == [date |-> d, time |-> t, platform |-> p, logger |-> l]
MCFilters == {Entry(0, 1438, None, None), Entry(1, None, "p", "l"), Entry(0, Invalid, None, None)}
=============================================================================
