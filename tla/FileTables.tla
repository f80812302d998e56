----------------------------- MODULE FileTables -----------------------------
(***************************************************************************)
(* The WIBL and GeoJSON file tables (FileTable.js and its two subclasses), *)
(* the filter menu and the download button (IndexEventManager.js), the     *)
(* delete button of index.html, the Django consumers at the other end of   *)
(* the two table sockets and the manager's records they ask for.  Row      *)
(* selection and details are RowDetails.                                   *)
(*                                                                         *)
(* A step of the page is one run of an event handler to its end; messages, *)
(* timers and the user's gestures interleave between them.                 *)
(***************************************************************************)
EXTENDS FrontEnd, SocketManager

CONSTANTS
    Initially,      \* the files the manager knows when the page is opened
    External,       \* the files other users and the cloud chain add and remove
    Info,           \* Info[f]: platform, logger, start and end second of f
    Filters,        \* what the user may enter in the filter menu
    Invalid,        \* an entry that is no time
    Unreliable,     \* the sockets whose connection may be lost
    Refusable,      \* the files whose deletion the manager may refuse
    MaxPending      \* bound on the messages under way when the user acts

\* Seconds in a minute and minutes in a day.
Minute == 60
Day == 1440

ASSUME TablesAssumption ==
    /\ Sockets = {Table(k) : k \in Kinds}
    /\ IsFiniteSet(Files)
    /\ Initially \subseteq Files
    /\ External \subseteq Files
    /\ Unreliable \subseteq Sockets
    /\ Refusable \subseteq Files
    /\ None \notin Filters
    /\ MaxPending \in Nat

\* Times are numbers, as far as they are known and valid.
ASSUME TimesAssumption ==
    /\ Invalid # None
    /\ \A f \in OfKind("wibl") : {Info[f].start, Info[f].end} \subseteq Nat \cup {None}
    /\ \A f \in Filters : f.date \in Nat \cup {None} /\ f.time \in Nat \cup {None, Invalid}

VARIABLES
    store,          \* the manager's records (behind the consumers)
    raw,            \* raw[k]: the rows of table k, with their _rawData
    rowClass,       \* class of each row of the WIBL table: "" or "is-hidden"
    headerClass,    \* class of its header row
    tableHidden,    \* the WIBL table has class is-hidden
    checked,        \* checked[k]: rows of table k whose checkbox is checked
    filter,         \* history: the filter applied to the rows now listed
    purged,         \* history: files this page deleted, not back since
    kept            \* history: files whose deletion was refused, not asked for again since

tableVars == <<raw, rowClass, headerClass, tableHidden, checked, filter>>
vars == <<sockVars, tableVars, store, purged, kept>>

Request == [type : {"list", "delete"}, files : SUBSET Files]
Message == [event : {"list", "delete"}, files : SUBSET Files] \cup {NoEvent, CloseMark}
ListRequest(k) == [sock |-> Table(k), req |-> [type |-> "list", files |-> {}]]
DeleteRequest(k, fs) == [sock |-> Table(k), req |-> [type |-> "delete", files |-> fs]]

Init ==
    /\ SocketsInit(<<ListRequest("wibl"), ListRequest("geojson")>>)
    /\ store = Initially
    /\ raw = [k \in Kinds |-> {}]
    /\ rowClass = [f \in OfKind("wibl") |-> ""]
    /\ headerClass = "absent"
    /\ tableHidden = FALSE
    /\ checked = [k \in Kinds |-> {}]
    /\ filter = None
    /\ purged = {}
    /\ kept = {}
-----------------------------------------------------------------------------
(* The manager and the consumers.                                          *)

\* Another user, or the cloud chain, adds or removes a record.
RecordAdded(f) ==
    /\ f \in External \ store
    /\ store' = store \cup {f}
    /\ purged' = purged \ {f}
    /\ UNCHANGED <<sockVars, tableVars, kept>>

RecordRemoved(f) ==
    /\ f \in External \cap store
    /\ store' = store \ {f}
    /\ UNCHANGED <<sockVars, tableVars, purged, kept>>

send_list_files(k) ==
    /\ Asks(Table(k), "list")
    /\ Consume(Table(k), <<>>, <<[event |-> "list", files |-> store \cap OfKind(k)]>>)
    /\ UNCHANGED <<tableVars, store, purged, kept>>

\* The manager's answer to the deletion of f: 204 if it had the file, an error
\* if not, or one because its database failed, and then the record stays.
Answers(f) ==
    \/ /\ store' = store \ {f}
       /\ purged' = purged \cup ({f} \cap store)
       /\ UNCHANGED kept
    \/ /\ f \in Refusable \cap store
       /\ kept' = kept \cup {f}
       /\ UNCHANGED <<store, purged>>

\* Mutant of delete_file: an answer that is an error ends the deletion.
delete_fileStops(k) ==
    /\ Asks(Table(k), "delete")
    /\ LET r == Head(wire[Table(k)]) IN
       \E f \in r.files :
        /\ Answers(f)
        /\ Consume(Table(k), <<[r EXCEPT !.files = IF f \in store \ store' THEN @ \ {f} ELSE {}]>>, <<NoEvent>>)
    /\ UNCHANGED <<tableVars>>

\* One file of a deletion.  The consumer takes every status but 200 for a
\* failure, sends a message without an event and goes on with the next file.
delete_file(k) ==
    /\ Asks(Table(k), "delete")
    /\ LET r == Head(wire[Table(k)]) IN
       \E f \in r.files :
        /\ Answers(f)
        /\ Consume(Table(k), <<[r EXCEPT !.files = @ \ {f}]>>, <<NoEvent>>)
    /\ UNCHANGED <<tableVars>>

\* ... and its end: the list of successes holds no file.
delete_files(k) ==
    /\ Asks(Table(k), "delete")
    /\ Head(wire[Table(k)]).files = {}
    /\ Consume(Table(k), <<>>, <<[event |-> "delete", files |-> {}]>>)
    /\ UNCHANGED <<tableVars, store, purged, kept>>

\* The manager cannot be reached, or answers with an error instead of a list: the
\* exception ends the consumer.
consumer_fails(s) ==
    /\ s \in Unreliable /\ Alive(s) /\ wire[s] # <<>>
    /\ Consume(s, <<>>, <<CloseMark>>)
    /\ UNCHANGED <<tableVars, store, purged, kept>>
-----------------------------------------------------------------------------
(* Events of the page.                                                     *)
\* Mutant of ListFiles: check marks are taken over into the new rows.
ListFilesKeeps(k) ==
    /\ handleEvent(Table(k), "list")
    /\ raw' = [raw EXCEPT ![k] = Head(answers[Table(k)]).files]
    /\ IF k = "wibl"
       THEN /\ rowClass' = [f \in OfKind("wibl") |-> ""]
            /\ headerClass' = "headerRow"
            /\ filter' = None
       ELSE UNCHANGED <<rowClass, headerClass, filter>>
    /\ UNCHANGED <<checked, tableHidden, store, purged, kept>>

\* A list arrives: the table is rebuilt, with no filter and nothing checked.
ListFiles(k) ==
    /\ handleEvent(Table(k), "list")
    /\ raw' = [raw EXCEPT ![k] = Head(answers[Table(k)]).files]
    /\ checked' = [checked EXCEPT ![k] = {}]
    /\ IF k = "wibl"
       THEN /\ rowClass' = [f \in OfKind("wibl") |-> ""]
            /\ headerClass' = "headerRow"
            /\ filter' = None
       ELSE UNCHANGED <<rowClass, headerClass, filter>>
    /\ UNCHANGED <<tableHidden, store, purged, kept>>

\* The handler of deletions only writes to the console; a message without an
\* event reaches no handler.
DeleteFiles(s) ==
    /\ handleEvent(s, "delete") \/ handleEvent(s, "none")
    /\ UNCHANGED <<tableVars, store, purged, kept>>

SocketEvent(s) ==
    /\ \/ SocketOpens(s)
       \/ s \in Unreliable /\ SocketLost(s)
       \/ answers[s] # <<>> /\ Head(answers[s]) = CloseMark /\ SocketCloses(s)
    /\ UNCHANGED <<tableVars, store, purged, kept>>

TimerFires ==
    /\ doSendRequest
    /\ UNCHANGED <<tableVars, store, purged, kept>>

Visible(k) == IF k = "wibl"
              THEN {f \in raw[k] : ~tableHidden /\ rowClass[f] # "is-hidden"}
              ELSE raw[k]

Tick(k, f) ==
    /\ f \in Visible(k)
    /\ checked' = [checked EXCEPT ![k] = IF f \in @ THEN @ \ {f} ELSE @ \cup {f}]
    /\ UNCHANGED <<sockVars, raw, rowClass, headerClass, tableHidden, filter>>
    /\ UNCHANGED <<store, purged, kept>>

\* The WIBL table's clearSelected(), when a row is clicked there or, with the
\* tables linked, in the other table; the rows stay hidden.
clearSelected ==
    /\ tableHidden' = FALSE
    /\ UNCHANGED <<sockVars, raw, rowClass, headerClass, checked, filter>>
    /\ UNCHANGED <<store, purged, kept>>
-----------------------------------------------------------------------------
(* The filter menu of the WIBL table.                                      *)
\* Mutant of dateMatch: the times of the file are not cut down to the minute.
dateMatchUncut(i, f) ==
    \/ f.date = None
    \/ /\ f.date # None /\ f.time = None
       /\ None \notin {i.start, i.end}
       /\ i.start \div (Minute * Day) <= f.date
       /\ f.date <= i.end \div (Minute * Day)
    \/ /\ f.date # None /\ f.time \notin {None, Invalid}
       /\ None \notin {i.start, i.end}
       /\ i.start <= (f.date * Day + f.time) * Minute
       /\ (f.date * Day + f.time) * Minute <= i.end

\* The comparisons of filterTable(), which cuts the times of the file down to
\* the precision of the entry; one with an invalid or unknown time is false.
dateMatch(i, f) ==
    \/ f.date = None
    \/ /\ f.date # None /\ f.time = None
       /\ None \notin {i.start, i.end}
       /\ i.start \div (Minute * Day) <= f.date
       /\ f.date <= i.end \div (Minute * Day)
    \/ /\ f.date # None /\ f.time \notin {None, Invalid}
       /\ None \notin {i.start, i.end}
       /\ i.start \div Minute <= f.date * Day + f.time
       /\ f.date * Day + f.time <= i.end \div Minute

filterMatch(i, f) ==
    /\ dateMatch(i, f)
    /\ f.platform \in {None, i.platform}
    /\ f.logger \in {None, i.logger}

\* Mutant of clearAll: the table stays hidden.
clearAllRows ==
    /\ rowClass' = [f \in OfKind("wibl") |-> ""]
    /\ headerClass' = IF headerClass = "absent" THEN "absent" ELSE ""
    /\ filter' = None
    /\ UNCHANGED <<sockVars, raw, checked, tableHidden, store, purged, kept>>

\* clearAll() empties the class of every row of the table, the header's too.
clearAll ==
    /\ rowClass' = [f \in OfKind("wibl") |-> ""]
    /\ headerClass' = IF headerClass = "absent" THEN "absent" ELSE ""
    /\ tableHidden' = FALSE
    /\ filter' = None
    /\ UNCHANGED <<sockVars, raw, checked, store, purged, kept>>

\* The filter button: after clearAll(), the rows that do not match are hidden,
\* and the table with them if no row is left.
filterTable(f) ==
    LET hide == {r \in raw["wibl"] : ~filterMatch(Info[r], f)} IN
    /\ rowClass' = [r \in OfKind("wibl") |-> IF r \in hide THEN "is-hidden" ELSE ""]
    /\ headerClass' = IF headerClass = "absent" THEN "absent" ELSE ""
    /\ tableHidden' = (Cardinality(hide) = Cardinality(raw["wibl"]))
    /\ filter' = f
    /\ UNCHANGED <<sockVars, raw, checked, store, purged, kept>>
-----------------------------------------------------------------------------
(* The delete and download buttons.                                        *)

\* getSelectedFiles() of both tables: each that has checked rows names them and
\* asks the user, and unchecks them after a yes.  After a no it returns nothing
\* at all instead of a list.
Asked == {k \in Kinds : checked[k] # {}}

getSelectedFiles(confirmed) ==
    /\ confirmed \subseteq Asked
    /\ checked' = [k \in Kinds |-> IF k \in confirmed THEN {} ELSE checked[k]]

\* Mutant of DeleteButton: the list is asked for before the deletion.
DeleteButtonLate(confirmed) ==
    LET requests(k) == IF k \in confirmed
                       THEN <<ListRequest(k), DeleteRequest(k, checked[k])>>
                       ELSE <<>>
        refused == "wibl" \in Asked \ confirmed
    IN
    /\ Asked # {}
    /\ getSelectedFiles(confirmed)
    /\ sendRequest(IF refused THEN <<>> ELSE requests("wibl") \o requests("geojson"))
    /\ UNCHANGED <<readyState, wire, answers, raw, rowClass, headerClass, tableHidden, filter>>
    /\ kept' = kept \ UNION {checked[k] : k \in confirmed}
    /\ UNCHANGED <<store, purged>>

\* A refusal at the WIBL prompt makes the handler die on the length of nothing,
\* after the GeoJSON prompt but before any request.
DeleteButton(confirmed) ==
    LET requests(k) == IF k \in confirmed
                       THEN <<DeleteRequest(k, checked[k]), ListRequest(k)>>
                       ELSE <<>>
        refused == "wibl" \in Asked \ confirmed
    IN
    /\ Asked # {}
    /\ getSelectedFiles(confirmed)
    /\ sendRequest(IF refused THEN <<>> ELSE requests("wibl") \o requests("geojson"))
    /\ UNCHANGED <<readyState, wire, answers, raw, rowClass, headerClass, tableHidden, filter>>
    /\ kept' = kept \ UNION {checked[k] : k \in confirmed}
    /\ UNCHANGED <<store, purged>>

\* The download button changes nothing else on this page: one confirmed file is
\* looked for on the server and the browser sent to it, more are refused.
DownloadButton(confirmed) ==
    /\ Asked # {}
    /\ getSelectedFiles(confirmed)
    /\ UNCHANGED <<sockVars, raw, rowClass, headerClass, tableHidden, filter>>
    /\ UNCHANGED <<store, purged, kept>>
-----------------------------------------------------------------------------
UnderWay(s) == Len(wire[s]) + Len(answers[s])

UserActs ==
    /\ Len(timers) + UnderWay(Table("wibl")) + UnderWay(Table("geojson")) < MaxPending
    /\ \/ \E k \in Kinds, f \in Files : Tick(k, f)
       \/ clearSelected
       \/ clearAll
       \/ \E f \in Filters : filterTable(f)
       \/ \E confirmed \in SUBSET Kinds : DeleteButton(confirmed) \/ DownloadButton(confirmed)

Serves(k) == send_list_files(k) \/ delete_file(k) \/ delete_files(k)

PageHandles == (\E k \in Kinds : ListFiles(k)) \/ (\E s \in Sockets : DeleteFiles(s))

Next ==
    \/ UserActs
    \/ TimerFires
    \/ PageHandles
    \/ \E k \in Kinds : Serves(k)
    \/ \E s \in Sockets : SocketEvent(s) \/ consumer_fails(s)
    \/ \E f \in External : RecordAdded(f) \/ RecordRemoved(f)

\* The browser runs its timers and the server its consumers; nobody has to
\* click, and no socket has to open.
Spec ==
    /\ Init /\ [][Next]_vars
    /\ WF_vars(TimerFires)
    /\ \A k \in Kinds : WF_vars(Serves(k))
-----------------------------------------------------------------------------
(* Properties.                                                             *)

\* Every variable stays in its range, and checked rows are rows.
TablesTypeOK ==
    /\ SocketsTypeOK(Request, Message)
    /\ store \subseteq Files
    /\ raw \in [Kinds -> SUBSET Files]
    /\ \A k \in Kinds : raw[k] \subseteq OfKind(k) /\ checked[k] \subseteq raw[k]
    /\ rowClass \in [OfKind("wibl") -> {"", "is-hidden"}]
    /\ headerClass \in {"absent", "headerRow", ""}
    /\ tableHidden \in BOOLEAN
    /\ checked \in [Kinds -> SUBSET Files]
    /\ filter \in Filters \cup {None}
    /\ purged \subseteq Files /\ kept \subseteq Files

\* The tables are what the rest of the page takes them for.
HiddenRows == {f \in raw["wibl"] : rowClass[f] = "is-hidden"}

View == INSTANCE TableView WITH
    Lists <- SUBSET Files,
    rows <- raw,
    hidden <- HiddenRows,
    header <- IF headerClass = "" THEN "bare" ELSE headerClass

ImplementsTableView == View!ViewSpec

\* Until the list is loaded again, the rows hidden are those of the files that
\* recorded at no instant of the day or minute asked for, or were made by
\* another platform or logger: cutting the times down loses no file.
FilterIsExact ==
    LET from(f) == (f.date * Day + (IF f.time = None THEN 0 ELSE f.time)) * Minute
        to(f) == from(f) + Minute * (IF f.time = None THEN Day ELSE 1)
        recordedIn(i, f) == /\ f.time # Invalid
                            /\ None \notin {i.start, i.end}
                            /\ i.start < to(f) /\ from(f) <= i.end
        wanted(i, f) == /\ f.date = None \/ recordedIn(i, f)
                        /\ f.platform = None \/ f.platform = i.platform
                        /\ f.logger = None \/ f.logger = i.logger
    IN filter # None => HiddenRows = {r \in raw["wibl"] : ~wanted(Info[r], filter)}

\* No message of socket s, which works, is under way.
Quiet(s) == Alive(s) /\ UnderWay(s) = 0 /\ \A i \in DOMAIN timers : timers[i].sock # s

\* A file that this page deleted is listed no longer once the table's messages
\* are handled: the list that follows a deletion never overtakes it, in the
\* timers, on the wire or in the consumer.
DeletedRowsGo == \A k \in Kinds : Quiet(Table(k)) => raw[k] \cap purged = {}

\* A deletion in the timers or on the wire is carried out, for each of its files
\* whatever becomes of the others, unless the socket fails, or the manager
\* refuses to delete that very file, which nothing tries again until the user
\* asks for it again.
Deleting(f) ==
    LET deletes(r) == r.type = "delete" /\ f \in r.files IN
    \/ \E i \in DOMAIN timers : deletes(timers[i].req)
    \/ \E i \in DOMAIN wire[Table(Kind(f))] : deletes(wire[Table(Kind(f))][i])

DeletionsHappen == \A f \in Files : Deleting(f) ~> (f \notin store \/ f \in kept \/ ~Alive(Table(Kind(f))))
=============================================================================
