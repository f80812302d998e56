---------------------------- MODULE MCRowDetails ----------------------------
(* Two recordings, of one of which only the GeoJSON file is left.            *)
EXTENDS RowDetails

CONSTANTS r1, r2

MCFiles == {<<r1, "wibl">>, <<r1, "geojson">>, <<r2, "geojson">>}
MCLists == {{}, MCFiles}
MCSockets == Kinds \X {"detail"}
MCUnreliable == {<<"wibl", "detail">>}
=============================================================================
