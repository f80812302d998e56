------------------------------ MODULE TableView ------------------------------
(***************************************************************************)
(* What the rest of the page can rely on of the two file tables: which     *)
(* rows there are and which of them are hidden.  FileTables implements it, *)
(* RowDetails is built on it.                                              *)
(***************************************************************************)
EXTENDS FrontEnd

CONSTANT Lists      \* the sets of files that the server may list

ASSUME ListsAssumption == Lists \subseteq SUBSET Files

VARIABLES
    rows,           \* rows[k]: the files listed in table k
    hidden,         \* the rows of the WIBL table that its filter hides
    tableHidden,    \* the WIBL table as a whole is hidden
    header          \* the WIBL table's header row: "absent", "headerRow" (its
                    \* class when it is built) or "bare" (that class is gone)

viewVars == <<rows, hidden, tableHidden, header>>

ViewTypeOK ==
    /\ rows \in [Kinds -> SUBSET Files]
    /\ \A k \in Kinds : rows[k] \subseteq OfKind(k)
    /\ hidden \subseteq rows["wibl"]
    /\ tableHidden \in BOOLEAN
    /\ header \in {"absent", "headerRow", "bare"}

ViewInit ==
    /\ rows = [k \in Kinds |-> {}]
    /\ hidden = {}
    /\ tableHidden = FALSE
    /\ header = "absent"

\* Mutant of Rebuilt: rows keep their class over a new list.
RebuiltKeeps(k) ==
    /\ \E fs \in Lists : rows' = [rows EXCEPT ![k] = fs \cap OfKind(k)]
    /\ header' = IF k = "wibl" THEN "headerRow" ELSE header
    /\ UNCHANGED <<hidden, tableHidden>>

\* A table is rebuilt from a list that may be out of date; nothing is hidden
\* in it, although the table itself stays as it was.
Rebuilt(k) ==
    /\ \E fs \in Lists : rows' = [rows EXCEPT ![k] = fs \cap OfKind(k)]
    /\ hidden' = IF k = "wibl" THEN {} ELSE hidden
    /\ header' = IF k = "wibl" THEN "headerRow" ELSE header
    /\ UNCHANGED tableHidden

\* The filter hides some rows, and the table with the last of them, or it is
\* cleared; either way every row loses its class, the header row as well.
Filtered ==
    /\ hidden' \in SUBSET rows["wibl"]
    /\ tableHidden' \in {hidden' = rows["wibl"], FALSE}
    /\ header' = IF header = "absent" THEN "absent" ELSE "bare"
    /\ UNCHANGED rows

\* Clearing the selection shows the table again, with its rows as they are.
Unhidden ==
    /\ tableHidden' = FALSE
    /\ UNCHANGED <<rows, hidden, header>>

ViewNext ==
    \/ \E k \in Kinds : Rebuilt(k)
    \/ Filtered
    \/ Unhidden

ViewSpec == ViewInit /\ [][ViewNext]_viewVars
=============================================================================
