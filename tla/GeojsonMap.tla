----------------------------- MODULE GeojsonMap -----------------------------
(***************************************************************************)
(* The map of the WIBL front end (GeojsonMap.js): the map button loads the *)
(* checked GeoJSON files, each in an asynchronous call of loadGeojson()    *)
(* that waits for the server between clearing the map and adding its       *)
(* layer.  Each layer brings a Select interaction of OpenLayers, which is  *)
(* never removed; all of them share one popup and its close button.        *)
(***************************************************************************)
EXTENDS Naturals, Sequences, FiniteSets

CONSTANTS
    Files,          \* the GeoJSON files that may be mapped
    Features,       \* Features[f]: the features of file f
    None,           \* no feature
    MaxLoads        \* bound on the calls of loadGeojson()

ASSUME MapAssumption ==
    /\ \A f \in Files : None \notin Features[f]
    /\ MaxLoads \in Nat

VARIABLES
    loads,          \* the calls so far: file, how far it is, feature selected
    layers,         \* the map's layers above the first one: indices of loads
    popup,          \* the feature in the popup, or None if that is closed
    closer,         \* the load whose selection the close button clears, or 0
    since           \* history: the first load of the last mapping

vars == <<loads, layers, popup, closer, since>>

Feature == UNION {Features[f] : f \in Files}
Load == [file : Files, state : {"fetching", "failed", "empty", "mapped"},
         selected : Feature \cup {None}]

Init ==
    /\ loads = <<>>
    /\ layers = <<>>
    /\ popup = None
    /\ closer = 0
    /\ since = 1

\* The loop that is to clear the map removes layers from the array that it
\* runs over, and so steps over the one behind each that it removes.
resetLayers(ls) == [i \in 1..(Len(ls) \div 2) |-> ls[2 * i]]

\* ... which happens once for each file mapped.
Resets[n \in Nat] == [ls \in Seq(1..MaxLoads) |->
    IF n = 0 THEN ls ELSE resetLayers(Resets[n - 1][ls])]

Started(f) == [file |-> f, state |-> "fetching", selected |-> None]

\* The map button, with these files checked: each load runs up to its fetch.
mapButton(fs) ==
    /\ fs # <<>>
    /\ Len(loads) + Len(fs) <= MaxLoads
    /\ loads' = loads \o [i \in 1..Len(fs) |-> Started(fs[i])]
    /\ layers' = Resets[Len(fs)][layers]
    /\ since' = Len(loads) + 1
    /\ UNCHANGED <<popup, closer>>

\* Mutant of Mapped: the map is cleared when the answer arrives.
MappedClears(i) ==
    /\ loads[i].state = "fetching"
    /\ Features[loads[i].file] # {}
    /\ loads' = [loads EXCEPT ![i].state = "mapped"]
    /\ layers' = <<i>>
    /\ closer' = i
    /\ UNCHANGED <<popup, since>>

\* The answer to load i: its layer is added, and its interaction.
Mapped(i) ==
    /\ loads[i].state = "fetching"
    /\ Features[loads[i].file] # {}
    /\ loads' = [loads EXCEPT ![i].state = "mapped"]
    /\ layers' = Append(layers, i)
    /\ closer' = i
    /\ UNCHANGED <<popup, since>>

\* Without features, loadGeojson() dies of an exception after it has added the
\* layer, which it reports to the console.
MappedEmpty(i) ==
    /\ loads[i].state = "fetching"
    /\ Features[loads[i].file] = {}
    /\ loads' = [loads EXCEPT ![i].state = "empty"]
    /\ layers' = Append(layers, i)
    /\ UNCHANGED <<popup, closer, since>>

\* Mutant of Failed: the layer is added before the answer is looked at.
FailedAdds(i) ==
    /\ loads[i].state = "fetching"
    /\ loads' = [loads EXCEPT ![i].state = "failed"]
    /\ layers' = Append(layers, i)
    /\ UNCHANGED <<popup, closer, since>>

\* The file cannot be fetched or is not GeoJSON; this is reported likewise.
Failed(i) ==
    /\ loads[i].state = "fetching"
    /\ loads' = [loads EXCEPT ![i].state = "failed"]
    /\ UNCHANGED <<layers, popup, closer, since>>

OnMap == {i \in DOMAIN loads : loads[i].state = "mapped" /\ \E j \in DOMAIN layers : layers[j] = i}

\* A click on the map hits at most one feature of each layer.  Every interaction
\* selects the one of its own layer, or nothing; a feature that is newly
\* selected goes to the popup.  Which of several does is up to OpenLayers.
Click(hit) ==
    LET selected(i) == IF i \in DOMAIN hit THEN hit[i] ELSE None
        new == {i \in DOMAIN hit : hit[i] \notin {None, loads[i].selected}}
    IN
    /\ \A i \in DOMAIN hit : hit[i] \in Features[loads[i].file] \cup {None}
    /\ loads' = [i \in DOMAIN loads |-> [loads[i] EXCEPT !.selected = selected(i)]]
    /\ popup' \in IF new = {} THEN {popup} ELSE {hit[i] : i \in new}
    /\ UNCHANGED <<layers, closer, since>>

\* Mutant of Close: the feature stays selected.
CloseOnly ==
    /\ popup # None
    /\ popup' = None
    /\ UNCHANGED <<loads, layers, closer, since>>

\* The close button, which was set up by the load that ended last.
Close ==
    /\ popup # None
    /\ popup' = None
    /\ loads' = [loads EXCEPT ![closer].selected = None]
    /\ UNCHANGED <<layers, closer, since>>

\* The rows of the GeoJSON table that are checked, in any order.
Checked == {fs \in UNION {[1..n -> Files] : n \in 1..Cardinality(Files)} :
                \A i, j \in DOMAIN fs : fs[i] = fs[j] => i = j}

Next ==
    \/ \E fs \in Checked : mapButton(fs)
    \/ \E i \in DOMAIN loads : Mapped(i) \/ MappedEmpty(i) \/ Failed(i)
    \/ \E hit \in [OnMap -> Feature \cup {None}] : Click(hit)
    \/ Close

Spec == Init /\ [][Next]_vars
-----------------------------------------------------------------------------
(* Properties.                                                             *)

\* Every variable stays in its range, and only layers of ended loads are shown,
\* each once.
MapTypeOK ==
    /\ loads \in Seq(Load)
    /\ layers \in Seq(DOMAIN loads)
    /\ \A i \in DOMAIN layers : loads[layers[i]].state \in {"empty", "mapped"}
    /\ \A i, j \in DOMAIN layers : layers[i] = layers[j] => i = j
    /\ popup \in Feature \cup {None}
    /\ closer \in {0} \cup DOMAIN loads
    /\ since \in 1..(Len(loads) + 1)

\* Every file of the last mapping is on the map as soon as it has been fetched,
\* in whatever order the fetches end: no other load takes it off again.
LastMappedStays ==
    \A i \in since..Len(loads) :
        loads[i].state \in {"empty", "mapped"} => \E j \in DOMAIN layers : layers[j] = i

\* While the popup is closed, nothing is selected in the layer that came last,
\* so that a click on any of its features opens it.
ClosedIsUnselected == popup = None /\ closer # 0 => loads[closer].selected = None

\* "Reset map back to initial layer.": nothing but that layer is left when the
\* files of a new mapping are fetched.
MapIsReset == [][since' # since => layers' = <<>>]_vars
=============================================================================
