------------------------------ MODULE FrontEnd ------------------------------
(***************************************************************************)
(* Names shared by the models of the WIBL front end's main page: the files *)
(* it lists and the sockets it opens.                                      *)
(***************************************************************************)
EXTENDS Naturals, Sequences, FiniteSets

CONSTANTS
    Files,          \* <<root, kind>>: "x.wibl" is <<x, "wibl">>
    None            \* no file, or an empty entry of the filter menu

Kinds == {"wibl", "geojson"}
Other(k) == IF k = "wibl" THEN "geojson" ELSE "wibl"
Root(f) == f[1]
Kind(f) == f[2]
OfKind(k) == {f \in Files : Kind(f) = k}

\* The URLs of the sockets of a table and of its detail table.
Table(k) == <<k, "table">>
Detail(k) == <<k, "detail">>

ASSUME FilesAssumption ==
    /\ \A f \in Files : Kind(f) \in Kinds
    /\ None \notin Files
=============================================================================
