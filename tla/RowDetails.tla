----------------------------- MODULE RowDetails -----------------------------
(***************************************************************************)
(* Row selection on the front end's main page (tableSelectEvent() of       *)
(* index.html and clearSelected() of the tables), the "link" box, the two  *)
(* detail tables (DetailTable.js and its subclasses) and the two consumers *)
(* at the other end of their sockets.  The file tables behave as TableView *)
(* says.  The active tab and the raw-file button are layout and left out.  *)
(***************************************************************************)
EXTENDS TableView, SocketManager

CONSTANTS
    Unreliable,     \* the sockets whose connection may be lost
    MaxPending      \* bound on the timeouts and messages under way when the user acts

ASSUME DetailsAssumption ==
    /\ Sockets = {Detail(k) : k \in Kinds}
    /\ Unreliable \subseteq Sockets
    /\ MaxPending \in Nat

VARIABLES
    selected,       \* selected[k]: rows of table k with class is-selected
    linkFlag,       \* the "link" box
    tasks,          \* zero-delay timeouts of row clicks
    shown,          \* shown[k]: the file in detail table k, None for none
    asked           \* history: the file last asked of detail socket k, if that
                    \* was open, and neither answered late nor cleared

clickVars == <<selected, linkFlag, tasks, shown, asked>>
vars == <<viewVars, sockVars, clickVars>>

\* The file_id of a request or a click: a file, or nothing (the header row).
FileId == {{f} : f \in Files} \cup {{}}
Request == [type : {"details"}, files : FileId]
Message == [event : {"details"}, file : Files] \cup {NoEvent, CloseMark}
Task == [kind : Kinds, files : FileId, linked : BOOLEAN]
DetailRequest(k, fs) == [sock |-> Detail(k), req |-> [type |-> "details", files |-> fs]]

Init ==
    /\ ViewInit
    /\ SocketsInit(<<>>)
    /\ selected = [k \in Kinds |-> {}]
    /\ linkFlag = FALSE
    /\ tasks = <<>>
    /\ shown = [k \in Kinds |-> None]
    /\ asked = [k \in Kinds |-> None]
-----------------------------------------------------------------------------
(* The tables change; the rows that do lose their selection.               *)
\* Mutant of TableRebuilt: the selection outlives the rows.
TableRebuiltKeeps(k) ==
    /\ Rebuilt(k)
    /\ UNCHANGED <<sockVars, selected, linkFlag, tasks, shown, asked>>

TableRebuilt(k) ==
    /\ Rebuilt(k)
    /\ selected' = [selected EXCEPT ![k] = {}]
    /\ UNCHANGED <<sockVars, linkFlag, tasks, shown, asked>>

FilterApplied ==
    /\ Filtered
    /\ selected' = [selected EXCEPT !["wibl"] = {}]
    /\ UNCHANGED <<sockVars, linkFlag, tasks, shown, asked>>
-----------------------------------------------------------------------------
(* The consumers and the messages.                                         *)

\* The details of a file, if the manager still has it.  If not, the consumer
\* reports the 404 and goes on to read the fields of the error; with an empty
\* file_id the manager answers with its list.  Either exception is its end.
send_details(k) ==
    /\ Asks(Detail(k), "details")
    /\ LET fs == Head(wire[Detail(k)]).files IN
       \/ /\ fs = {}
          /\ Consume(Detail(k), <<>>, <<CloseMark>>)
       \/ /\ fs # {}
          /\ Consume(Detail(k), <<>>, <<NoEvent, CloseMark>>)
       \/ \E f \in fs : Consume(Detail(k), <<>>, <<[event |-> "details", file |-> f]>>)
    /\ UNCHANGED <<viewVars, clickVars>>

\* Details arrive: the first time the table is built, later it is refilled.
listFileDetails(k) ==
    /\ handleEvent(Detail(k), "details")
    /\ shown' = [shown EXCEPT ![k] = Head(answers[Detail(k)]).file]
    /\ UNCHANGED <<viewVars, selected, linkFlag, tasks, asked>>

\* The error has no event and reaches no handler.
ErrorDropped(k) ==
    /\ handleEvent(Detail(k), "none")
    /\ UNCHANGED <<viewVars, clickVars>>

SocketEvent(s) ==
    /\ \/ SocketOpens(s)
       \/ s \in Unreliable /\ SocketLost(s)
       \/ answers[s] # <<>> /\ Head(answers[s]) = CloseMark /\ SocketCloses(s)
    /\ UNCHANGED <<viewVars, clickVars>>

TimerFires ==
    /\ doSendRequest
    /\ UNCHANGED <<viewVars, clickVars>>
-----------------------------------------------------------------------------
(* Clicks.                                                                 *)

\* linkFiles(): the roots listed in both tables.  The page keeps them in a
\* variable, which it computes anew after every list and when the box is ticked.
linked_files == {Root(f) : f \in rows["wibl"]} \cap {Root(f) : f \in rows["geojson"]}

\* clearSelected() of table k, apart from its rows.
Unhide(k) == IF k = "wibl" THEN Unhidden ELSE UNCHANGED viewVars

\* The first half of tableSelectEvent(): the selection moves to the row that was
\* clicked, and the rest is left to a timeout.
ClickRow(k, f) ==
    /\ f \in rows[k] \ hidden
    /\ k = "wibl" => ~tableHidden
    /\ Unhide(k)
    /\ selected' = [selected EXCEPT ![k] = {f}]
    /\ tasks' = Append(tasks, [kind |-> k, files |-> {f},
                               linked |-> linkFlag /\ Root(f) \in linked_files])
    /\ UNCHANGED <<sockVars, linkFlag, shown, asked>>

\* The WIBL table's header row takes clicks as well, once the filter menu has
\* emptied its class.  It has no id.
ClickHeader ==
    /\ header = "bare"
    /\ ~tableHidden
    /\ Unhide("wibl")
    /\ selected' = [selected EXCEPT !["wibl"] = {}]
    /\ tasks' = Append(tasks, [kind |-> "wibl", files |-> {}, linked |-> FALSE])
    /\ UNCHANGED <<sockVars, linkFlag, shown, asked>>

ToggleLink ==
    /\ linkFlag' = ~linkFlag
    /\ UNCHANGED <<viewVars, sockVars, selected, tasks, shown, asked>>

\* Requests made before the socket is open may change places, so no promise is
\* made of them; nor of a request for nothing.
Noted(k, fs) == IF readyState[Detail(k)] = "open" /\ fs # {}
                THEN CHOOSE f \in Files : f \in fs
                ELSE None

\* The second half: the details of the clicked row are asked for and, if a file
\* was linked to it at the click, those of that file, when its row is not
\* hidden.  If its row is gone the handler dies before it asks for anything.
SelectTimeout ==
    /\ tasks # <<>>
    /\ tasks' = Tail(tasks)
    /\ LET t == Head(tasks)
           k == t.kind
           o == Other(k)
           linked == IF t.linked THEN {<<Root(f), o>> : f \in t.files} ELSE {}
           visible == (linked \cap rows[o]) \ hidden
           cleared == IF linkFlag THEN [selected EXCEPT ![o] = {}] ELSE selected
           clears == t.linked \/ linkFlag
       IN
       /\ IF linkFlag THEN Unhide(o) ELSE UNCHANGED viewVars
       /\ \/ /\ visible # {}
             /\ selected' = [cleared EXCEPT ![o] = @ \cup visible]
             /\ sendRequest(<<DetailRequest(o, visible), DetailRequest(k, t.files)>>)
             /\ asked' = [asked EXCEPT ![o] = Noted(o, visible), ![k] = Noted(k, t.files)]
             /\ UNCHANGED shown
          \/ /\ visible = {} /\ linked \subseteq rows[o]
             /\ selected' = cleared
             /\ sendRequest(<<DetailRequest(k, t.files)>>)
             /\ shown' = [shown EXCEPT ![o] = IF clears THEN None ELSE @]   \* clear()
             /\ asked' = [asked EXCEPT ![o] = IF clears THEN None ELSE @,
                                       ![k] = Noted(k, t.files)]
          \/ /\ ~(linked \subseteq rows[o])
             /\ selected' = cleared
             /\ UNCHANGED <<timers, shown, asked>>
    /\ UNCHANGED <<readyState, wire, answers, linkFlag>>
-----------------------------------------------------------------------------
UnderWay(k) == Len(wire[Detail(k)]) + Len(answers[Detail(k)])

UserActs ==
    /\ Len(tasks) + Len(timers) + UnderWay("wibl") + UnderWay("geojson") < MaxPending
    /\ \/ \E k \in Kinds, f \in Files : ClickRow(k, f)
       \/ ClickHeader
       \/ ToggleLink

Next ==
    \/ UserActs
    \/ SelectTimeout
    \/ TimerFires
    \/ FilterApplied
    \/ \E k \in Kinds : TableRebuilt(k) \/ send_details(k) \/ listFileDetails(k) \/ ErrorDropped(k)
    \/ \E s \in Sockets : SocketEvent(s)

Spec == Init /\ [][Next]_vars
-----------------------------------------------------------------------------
(* Properties.                                                             *)

\* Every variable stays in its range.
DetailsTypeOK ==
    /\ ViewTypeOK
    /\ SocketsTypeOK(Request, Message)
    /\ selected \in [Kinds -> SUBSET Files]
    /\ linkFlag \in BOOLEAN
    /\ tasks \in Seq(Task)
    /\ shown \in [Kinds -> Files \cup {None}]
    /\ asked \in [Kinds -> Files \cup {None}]

\* Whatever is selected is a row of its table, and none of the rows the filter
\* hides: neither a link found before a filter or a new list, nor a timeout that
\* comes after one, selects a row that is gone or hidden.  (It speaks of rows.
\* The WIBL table as a whole stays hidden over a new list, whose rows are not; and
\* with the link box ticked at a click in the other table and unticked before its
\* timeout, the linked row is selected in the table that nobody sees.)
SelectionIsVisible ==
    /\ \A k \in Kinds : selected[k] \subseteq rows[k]
    /\ selected["wibl"] \cap hidden = {}

\* No message of detail table k, whose socket works, is under way.
Quiet(k) ==
    /\ Alive(Detail(k))
    /\ UnderWay(k) = 0
    /\ \A i \in DOMAIN timers : timers[i].sock # Detail(k)

\* Once its messages are handled, a detail table shows the file asked for last:
\* the answer to an earlier click never ends up on top of it.
LastAskedIsShown == \A k \in Kinds : Quiet(k) /\ asked[k] # None => shown[k] = asked[k]
=============================================================================
