-------------------------- MODULE FileTables_proofs --------------------------
(***************************************************************************)
(* Proofs about FileTables: what its run checks with three files and two   *)
(* messages under way holds for any files, filters and messages.           *)
(***************************************************************************)
EXTENDS FileTables, SocketManager_proofs, FiniteSetTheorems

Timer == TimerOf(Request)
SockTypes == SocketsTypeOK(Request, Message)

LEMMA TableSockets ==
  /\ \A k \in Kinds : Table(k) \in Sockets
  /\ \A s \in Sockets : \E k \in Kinds : s = Table(k)
  /\ \A k, j \in Kinds : Table(k) = Table(j) => k = j
BY TablesAssumption DEF Table, Kinds

LEMMA RequestTypes ==
  ASSUME NEW k \in Kinds, NEW fs \in SUBSET Files
  PROVE  ListRequest(k) \in Timer /\ DeleteRequest(k, fs) \in Timer
BY TableSockets DEF ListRequest, DeleteRequest, Timer, TimerOf, Request
-----------------------------------------------------------------------------
(* Types, and that no file gets into the table of the other kind.          *)

KindTimer == {t \in Timer : \A k \in Kinds : t.sock = Table(k) => t.req.files \subseteq OfKind(k)}
KindRequest(k) == {r \in Request : r.files \subseteq OfKind(k)}
KindMessage(k) == {m \in Message : m.event = "list" => m.files \subseteq OfKind(k)}

OfTheirKind ==
    /\ timers \in Seq(KindTimer)
    /\ \A k \in Kinds : /\ wire[Table(k)] \in Seq(KindRequest(k))
                        /\ answers[Table(k)] \in Seq(KindMessage(k))

TypesInv == TablesTypeOK /\ OfTheirKind

LEMMA KindRequests ==
  ASSUME NEW k \in Kinds, NEW fs \in SUBSET OfKind(k)
  PROVE  ListRequest(k) \in KindTimer /\ DeleteRequest(k, fs) \in KindTimer
<1>1. fs \in SUBSET Files /\ OfKind(k) \subseteq Files
  BY DEF OfKind
<1>2. ListRequest(k) \in Timer /\ DeleteRequest(k, fs) \in Timer
  BY <1>1, RequestTypes
<1>3. /\ ListRequest(k).sock = Table(k) /\ ListRequest(k).req.files = {}
      /\ DeleteRequest(k, fs).sock = Table(k) /\ DeleteRequest(k, fs).req.files = fs
  BY DEF ListRequest, DeleteRequest
<1> QED BY <1>2, <1>3, TableSockets DEF KindTimer

LEMMA TypesInit == Init => TypesInv
<1> SUFFICES ASSUME Init PROVE TypesInv
  OBVIOUS
<1>1. "wibl" \in Kinds /\ "geojson" \in Kinds
  BY DEF Kinds
<1>2. ListRequest("wibl") \in KindTimer /\ ListRequest("geojson") \in KindTimer
  BY <1>1, KindRequests
<1>3. timers \in Seq(KindTimer) /\ timers \in Seq(Timer)
  <2>1. timers = <<ListRequest("wibl"), ListRequest("geojson")>>
    BY DEF Init, SocketsInit
  <2> QED BY <1>2, <2>1 DEF KindTimer
<1>4. SockTypes
  <2>1. <<>> \in Seq(Request) /\ <<>> \in Seq(Message)
    OBVIOUS
  <2>2. timers \in Seq([sock : Sockets, req : Request])
    BY <1>3 DEF Timer, TimerOf
  <2> QED BY <2>1, <2>2 DEF Init, SocketsInit, SockTypes, SocketsTypeOK
<1>5. OfTheirKind
  <2>1. ASSUME NEW k \in Kinds
        PROVE  wire[Table(k)] \in Seq(KindRequest(k)) /\ answers[Table(k)] \in Seq(KindMessage(k))
    <3>1. wire[Table(k)] = <<>> /\ answers[Table(k)] = <<>>
      BY TableSockets DEF Init, SocketsInit
    <3> QED BY <3>1
  <2> QED BY <1>3, <2>1 DEF OfTheirKind
<1>6. TablesTypeOK
  BY <1>4, TablesAssumption DEF Init, TablesTypeOK, SockTypes, OfKind, Kinds
<1> QED BY <1>5, <1>6 DEF TypesInv

\* A message goes one step further on socket Table(k).
LEMMA KindWire ==
  ASSUME TypesInv, NEW k \in Kinds, NEW rest \in Seq(KindRequest(k)), NEW ms \in Seq(KindMessage(k)),
         wire[Table(k)] # <<>>, Consume(Table(k), rest, ms)
  PROVE  SockTypes' /\ OfTheirKind'
<1>1. SockTypes /\ OfTheirKind /\ Table(k) \in Sockets
  BY TableSockets DEF TypesInv, TablesTypeOK, SockTypes
<1>2. rest \in Seq(Request) /\ ms \in Seq(Message)
  BY DEF KindRequest, KindMessage
<1>3. SockTypes'
  BY <1>1, <1>2, ConsumeTypes DEF SockTypes
<1>4. timers' \in Seq(KindTimer)
  BY <1>1 DEF OfTheirKind, Consume
<1>5. ASSUME NEW j \in Kinds
      PROVE  wire'[Table(j)] \in Seq(KindRequest(j)) /\ answers'[Table(j)] \in Seq(KindMessage(j))
  <2>1. CASE j = k
    <3>1. rest \o Tail(wire[Table(k)]) \in Seq(KindRequest(k))
      BY <1>1 DEF OfTheirKind
    <3>2. answers[Table(k)] \o ms \in Seq(KindMessage(k))
      BY <1>1 DEF OfTheirKind
    <3> QED BY <1>1, <2>1, <3>1, <3>2 DEF Consume, SockTypes, SocketsTypeOK
  <2>2. CASE j # k
    BY <1>1, <2>2, TableSockets DEF Consume, SockTypes, SocketsTypeOK, OfTheirKind
  <2> QED BY <2>1, <2>2
<1> QED BY <1>3, <1>4, <1>5 DEF OfTheirKind

LEMMA KindHandle ==
  ASSUME TypesInv, NEW k \in Kinds, NEW e, handleEvent(Table(k), e)
  PROVE  SockTypes' /\ OfTheirKind' /\ Head(answers[Table(k)]) \in KindMessage(k)
<1>1. SockTypes /\ OfTheirKind /\ Table(k) \in Sockets
  BY TableSockets DEF TypesInv, TablesTypeOK, SockTypes
<1>2. SockTypes'
  BY <1>1, HandleTypes DEF SockTypes
<1>3. Tail(answers[Table(k)]) \in Seq(KindMessage(k)) /\ Head(answers[Table(k)]) \in KindMessage(k)
  BY <1>1 DEF OfTheirKind, handleEvent
<1>4. timers' \in Seq(KindTimer) /\ wire' = wire
  BY <1>1 DEF OfTheirKind, handleEvent
<1>5. ASSUME NEW j \in Kinds PROVE answers'[Table(j)] \in Seq(KindMessage(j))
  <2>1. CASE j = k
    BY <1>1, <1>3, <2>1 DEF handleEvent, SockTypes, SocketsTypeOK
  <2>2. CASE j # k
    BY <1>1, <2>2, TableSockets DEF handleEvent, SockTypes, SocketsTypeOK, OfTheirKind
  <2> QED BY <2>1, <2>2
<1> QED BY <1>1, <1>2, <1>3, <1>4, <1>5 DEF OfTheirKind

LEMMA KindTimerFires ==
  ASSUME TypesInv, doSendRequest
  PROVE  SockTypes' /\ OfTheirKind'
<1> DEFINE t == Head(timers)
<1>1. SockTypes /\ OfTheirKind
  BY DEF TypesInv, TablesTypeOK, SockTypes
<1>2. SockTypes'
  BY <1>1, TimerTypes DEF SockTypes
<1>3. timers \in Seq(KindTimer) /\ timers # <<>>
  BY <1>1 DEF OfTheirKind, doSendRequest
<1>4. t \in KindTimer /\ Tail(timers) \in Seq(KindTimer)
  BY <1>3
<1>5. Append(Tail(timers), t) \in Seq(KindTimer)
  BY <1>4
<1>6. timers' \in Seq(KindTimer) /\ answers' = answers
  BY <1>4, <1>5 DEF doSendRequest
<1>7. ASSUME NEW j \in Kinds PROVE wire'[Table(j)] \in Seq(KindRequest(j))
  <2>1. wire[Table(j)] \in Seq(KindRequest(j)) /\ Table(j) \in Sockets
    BY <1>1, TableSockets DEF OfTheirKind
  <2>2. CASE t.sock = Table(j)
    <3>1. t.req \in KindRequest(j)
      BY <1>4, <2>2 DEF KindTimer, Timer, TimerOf, KindRequest
    <3>2. Append(wire[Table(j)], t.req) \in Seq(KindRequest(j))
      BY <2>1, <3>1
    <3> QED BY <1>1, <2>1, <2>2, <3>2 DEF doSendRequest, SockTypes, SocketsTypeOK
  <2>3. CASE t.sock # Table(j)
    BY <1>1, <2>1, <2>3 DEF doSendRequest, SockTypes, SocketsTypeOK
  <2> QED BY <2>2, <2>3
<1> QED BY <1>1, <1>2, <1>6, <1>7 DEF OfTheirKind

LEMMA KindSocket ==
  ASSUME TypesInv, NEW s \in Sockets, SocketOpens(s) \/ SocketCloses(s)
  PROVE  SockTypes' /\ OfTheirKind'
<1>1. SockTypes /\ OfTheirKind
  BY DEF TypesInv, TablesTypeOK, SockTypes
<1>2. SockTypes'
  BY <1>1, SocketTypes DEF SockTypes
<1>3. ASSUME NEW j \in Kinds
      PROVE  /\ wire'[Table(j)] = wire[Table(j)] \/ wire'[Table(j)] = <<>>
             /\ answers'[Table(j)] = answers[Table(j)] \/ answers'[Table(j)] = <<>>
  BY <1>1, TableSockets DEF SocketOpens, SocketCloses, SockTypes, SocketsTypeOK
<1>4. timers' = timers
  BY DEF SocketOpens, SocketCloses
<1>5. \A j \in Kinds : <<>> \in Seq(KindRequest(j)) /\ <<>> \in Seq(KindMessage(j))
  OBVIOUS
<1> QED BY <1>1, <1>2, <1>3, <1>4, <1>5 DEF OfTheirKind
-----------------------------------------------------------------------------
(* The steps that change more than messages.                               *)

\* Messages move, and the records change with them.
MessagesMove ==
    \/ \E k \in Kinds : Serves(k)
    \/ \E s \in Sockets : SocketEvent(s) \/ consumer_fails(s) \/ DeleteFiles(s)
    \/ TimerFires

\* What the consumers do to the messages.
LEMMA ServeCases ==
  ASSUME TypesInv, NEW k \in Kinds, Serves(k)
  PROVE  \E rest \in Seq(KindRequest(k)), ms \in Seq(KindMessage(k)) :
            wire[Table(k)] # <<>> /\ Consume(Table(k), rest, ms)
<1> DEFINE w == wire[Table(k)]
<1>1. w \in Seq(KindRequest(k)) /\ w # <<>>
  BY DEF TypesInv, OfTheirKind, Serves, send_list_files, delete_file, delete_files, Asks
<1>2. Head(w) \in KindRequest(k)
  BY <1>1
<1>3. <<>> \in Seq(KindRequest(k))
  OBVIOUS
<1>4. /\ <<NoEvent>> \in Seq(KindMessage(k)) /\ <<[event |-> "delete", files |-> {}]>> \in Seq(KindMessage(k))
      /\ <<[event |-> "list", files |-> store \cap OfKind(k)]>> \in Seq(KindMessage(k))
  <2>1. NoEvent \in KindMessage(k) /\ [event |-> "delete", files |-> {}] \in KindMessage(k)
    BY DEF KindMessage, Message, NoEvent
  <2>2. [event |-> "list", files |-> store \cap OfKind(k)] \in KindMessage(k)
    BY DEF KindMessage, Message, OfKind
  <2> QED BY <2>1, <2>2
<1>5. \A f : <<[Head(w) EXCEPT !.files = @ \ {f}]>> \in Seq(KindRequest(k))
  BY <1>2 DEF KindRequest, Request
<1>6. CASE send_list_files(k)
  BY <1>1, <1>3, <1>4, <1>6 DEF send_list_files
<1>7. CASE delete_files(k)
  BY <1>1, <1>3, <1>4, <1>7 DEF delete_files
<1>8. CASE delete_file(k)
  BY <1>1, <1>4, <1>5, <1>8 DEF delete_file
<1> QED BY <1>6, <1>7, <1>8 DEF Serves

LEMMA TypesMessages ==
  ASSUME TypesInv, MessagesMove
  PROVE  TypesInv' /\ UNCHANGED tableVars
<1>1. SockTypes' /\ OfTheirKind'
  <2>1. ASSUME NEW k \in Kinds, Serves(k) PROVE SockTypes' /\ OfTheirKind'
    BY <2>1, ServeCases, KindWire
  <2>2. ASSUME NEW s \in Sockets, SocketEvent(s) PROVE SockTypes' /\ OfTheirKind'
    BY <2>2, KindSocket DEF SocketEvent, SocketLost
  <2>3. ASSUME NEW s \in Sockets, consumer_fails(s) PROVE SockTypes' /\ OfTheirKind'
    <3>1. PICK k \in Kinds : s = Table(k)
      BY TableSockets
    <3>2. <<>> \in Seq(KindRequest(k)) /\ <<CloseMark>> \in Seq(KindMessage(k))
      BY DEF KindMessage, Message, CloseMark
    <3> QED BY <2>3, <3>1, <3>2, KindWire DEF consumer_fails
  <2>4. ASSUME NEW s \in Sockets, DeleteFiles(s) PROVE SockTypes' /\ OfTheirKind'
    BY <2>4, TableSockets, KindHandle DEF DeleteFiles
  <2>5. CASE TimerFires
    BY <2>5, KindTimerFires DEF TimerFires
  <2> QED BY <2>1, <2>2, <2>3, <2>4, <2>5 DEF MessagesMove
<1>2. UNCHANGED tableVars
  BY DEF MessagesMove, Serves, send_list_files, delete_file, delete_files, SocketEvent,
         consumer_fails, DeleteFiles, TimerFires
<1>3. store' \subseteq Files /\ purged' \subseteq Files /\ kept' \subseteq Files
  <2>1. store \subseteq Files /\ purged \subseteq Files /\ kept \subseteq Files
    BY DEF TypesInv, TablesTypeOK
  <2>2. ASSUME NEW f, Answers(f)
        PROVE  store' \subseteq Files /\ purged' \subseteq Files /\ kept' \subseteq Files
    BY <2>1, <2>2, TablesAssumption DEF Answers
  <2>3. CASE UNCHANGED <<store, purged, kept>>
    BY <2>1, <2>3
  <2> QED BY <2>2, <2>3 DEF MessagesMove, Serves, send_list_files, delete_file, delete_files,
                            SocketEvent, consumer_fails, DeleteFiles, TimerFires
<1> QED BY <1>1, <1>2, <1>3 DEF TypesInv, TablesTypeOK, SockTypes, tableVars

LEMMA TypesList ==
  ASSUME TypesInv, NEW k \in Kinds, ListFiles(k)
  PROVE  TypesInv'
<1>1. SockTypes' /\ OfTheirKind' /\ Head(answers[Table(k)]) \in KindMessage(k)
  BY KindHandle DEF ListFiles
<1>2. Head(answers[Table(k)]).files \subseteq OfKind(k)
  BY <1>1 DEF KindMessage, ListFiles, handleEvent
<1>3. OfKind(k) \subseteq Files
  BY DEF OfKind
<1>4. /\ raw' \in [Kinds -> SUBSET Files] /\ checked' \in [Kinds -> SUBSET Files]
      /\ \A j \in Kinds : raw'[j] \subseteq OfKind(j) /\ checked'[j] \subseteq raw'[j]
  BY <1>2, <1>3 DEF TypesInv, TablesTypeOK, ListFiles
<1>5. /\ rowClass' \in [OfKind("wibl") -> {"", "is-hidden"}]
      /\ headerClass' \in {"absent", "headerRow", ""} /\ filter' \in Filters \cup {None}
      /\ UNCHANGED <<store, purged, kept, tableHidden>>
  BY DEF TypesInv, TablesTypeOK, ListFiles
<1> QED BY <1>1, <1>4, <1>5 DEF TypesInv, TablesTypeOK, SockTypes

\* The requests of the delete button for table k.
Requests(k, confirmed) ==
    IF k \in confirmed THEN <<DeleteRequest(k, checked[k]), ListRequest(k)>> ELSE <<>>

LEMMA ButtonCases ==
  ASSUME NEW confirmed, DeleteButton(confirmed)
  PROVE  /\ confirmed \subseteq Asked
         /\ checked' = [k \in Kinds |-> IF k \in confirmed THEN {} ELSE checked[k]]
         /\ sendRequest(<<>>) \/ sendRequest(Requests("wibl", confirmed) \o Requests("geojson", confirmed))
         /\ UNCHANGED <<readyState, wire, answers, raw, rowClass, headerClass, tableHidden, filter>>
         /\ UNCHANGED <<store, purged>>
BY DEF DeleteButton, Requests, getSelectedFiles

LEMMA KindButton ==
  ASSUME TypesInv, NEW confirmed
  PROVE  /\ \A k \in Kinds : Requests(k, confirmed) \in Seq(KindTimer)
         /\ Requests("wibl", confirmed) \o Requests("geojson", confirmed) \in Seq(KindTimer)
<1>1. ASSUME NEW k \in Kinds PROVE Requests(k, confirmed) \in Seq(KindTimer)
  <2>1. checked[k] \in SUBSET OfKind(k)
    BY DEF TypesInv, TablesTypeOK
  <2>2. ListRequest(k) \in KindTimer /\ DeleteRequest(k, checked[k]) \in KindTimer
    BY <2>1, KindRequests
  <2> QED BY <2>2 DEF Requests
<1>2. "wibl" \in Kinds /\ "geojson" \in Kinds
  BY DEF Kinds
<1> QED BY <1>1, <1>2

LEMMA TypesClicks ==
  ASSUME TypesInv, UserActs
  PROVE  TypesInv'
<1>1. TablesTypeOK /\ SockTypes /\ OfTheirKind
  BY DEF TypesInv, TablesTypeOK, SockTypes
<1>2. /\ SockTypes' /\ OfTheirKind'
  <2>1. CASE UNCHANGED sockVars
    BY <1>1, <2>1 DEF SockTypes, SocketsTypeOK, OfTheirKind, sockVars
  <2>2. ASSUME NEW confirmed \in SUBSET Kinds, DeleteButton(confirmed) PROVE SockTypes' /\ OfTheirKind'
    <3>1. PICK rs \in Seq(KindTimer) : sendRequest(rs)
      <4>1. <<>> \in Seq(KindTimer)
        OBVIOUS
      <4> QED BY <2>2, <4>1, ButtonCases, KindButton
    <3>2. UNCHANGED <<readyState, wire, answers>>
      BY <2>2, ButtonCases
    <3>3. rs \in Seq(Timer)
      BY DEF KindTimer
    <3>4. SockTypes'
      BY <1>1, <3>1, <3>2, <3>3, SendTypes DEF SockTypes, Timer
    <3>5. timers' \in Seq(KindTimer)
      BY <1>1, <3>1 DEF sendRequest, OfTheirKind
    <3> QED BY <1>1, <3>2, <3>4, <3>5 DEF OfTheirKind
  <2> QED BY <2>1, <2>2 DEF UserActs, Tick, clearSelected, clearAll, filterTable, DownloadButton
<1>3. /\ checked' \in [Kinds -> SUBSET Files] /\ raw' = raw
      /\ \A k \in Kinds : checked'[k] \subseteq raw[k]
  <2>1. ASSUME NEW k \in Kinds, NEW f \in Files, Tick(k, f)
        PROVE  /\ checked' \in [Kinds -> SUBSET Files] /\ raw' = raw
               /\ \A j \in Kinds : checked'[j] \subseteq raw[j]
    <3>1. f \in raw[k] /\ raw' = raw
      BY <2>1 DEF Tick, Visible
    <3>2. PICK cs \in SUBSET Files : checked' = [checked EXCEPT ![k] = cs] /\ cs \subseteq raw[k]
      <4>1. checked[k] \subseteq Files /\ checked[k] \subseteq raw[k]
        BY <1>1 DEF TablesTypeOK
      <4>2. CASE f \in checked[k]
        BY <2>1, <3>1, <4>1, <4>2 DEF Tick
      <4>3. CASE f \notin checked[k]
        BY <2>1, <3>1, <4>1, <4>3 DEF Tick
      <4> QED BY <4>2, <4>3
    <3> QED BY <1>1, <3>1, <3>2 DEF TablesTypeOK
  <2>2. ASSUME NEW c \in SUBSET Kinds, DeleteButton(c) \/ DownloadButton(c)
        PROVE  /\ checked' \in [Kinds -> SUBSET Files] /\ raw' = raw
               /\ \A j \in Kinds : checked'[j] \subseteq raw[j]
    BY <1>1, <2>2 DEF TablesTypeOK, DeleteButton, DownloadButton, getSelectedFiles
  <2>3. CASE UNCHANGED <<checked, raw>>
    BY <1>1, <2>3 DEF TablesTypeOK
  <2> QED BY <2>1, <2>2, <2>3 DEF UserActs, clearSelected, clearAll, filterTable
<1>4. /\ rowClass' \in [OfKind("wibl") -> {"", "is-hidden"}]
      /\ headerClass' \in {"absent", "headerRow", ""} /\ filter' \in Filters \cup {None}
      /\ tableHidden' \in BOOLEAN
  BY <1>1 DEF TablesTypeOK, UserActs, Tick, clearSelected, clearAll, filterTable, DeleteButton, DownloadButton
<1>5. UNCHANGED <<store, purged>> /\ kept' \subseteq kept
  BY DEF UserActs, Tick, clearSelected, clearAll, filterTable, DeleteButton, DownloadButton
<1> QED BY <1>1, <1>2, <1>3, <1>4, <1>5 DEF TypesInv, TablesTypeOK, SockTypes

LEMMA TypesRecords ==
  ASSUME TypesInv, NEW f \in External, RecordAdded(f) \/ RecordRemoved(f)
  PROVE  TypesInv'
<1>1. f \in Files
  BY TablesAssumption
<1> QED BY <1>1 DEF TypesInv, TablesTypeOK, OfTheirKind, SocketsTypeOK, RecordAdded, RecordRemoved,
                    sockVars, tableVars

\* Every step keeps the variables in their ranges.
LEMMA TypesStep == TypesInv /\ [Next]_vars => TypesInv'
<1> SUFFICES ASSUME TypesInv, [Next]_vars PROVE TypesInv'
  OBVIOUS
<1>1. CASE UserActs
  BY <1>1, TypesClicks
<1>2. CASE MessagesMove
  BY <1>2, TypesMessages
<1>3. CASE \E k \in Kinds : ListFiles(k)
  BY <1>3, TypesList
<1>4. CASE \E f \in External : RecordAdded(f) \/ RecordRemoved(f)
  BY <1>4, TypesRecords
<1>5. CASE UNCHANGED vars
  BY <1>5 DEF vars, tableVars, sockVars, TypesInv, TablesTypeOK, OfTheirKind, SocketsTypeOK
<1> QED BY <1>1, <1>2, <1>3, <1>4, <1>5 DEF Next, PageHandles, MessagesMove

\* Every variable of the file tables stays in its range and checked rows are
\* rows, whatever files there are and however many messages are under way.
THEOREM TablesTypeCorrect == Spec => []TablesTypeOK
<1>1. Spec => []TypesInv
  BY TypesInit, TypesStep, PTL DEF Spec
<1>2. TypesInv => TablesTypeOK
  BY DEF TypesInv
<1> QED BY <1>1, <1>2, PTL
-----------------------------------------------------------------------------
(* The tables implement TableView, and the filter hides the rows it should. *)

LEMMA InitRefines == Init => View!ViewInit
<1> SUFFICES ASSUME Init PROVE View!ViewInit
  OBVIOUS
<1>1. raw = [k \in View!Kinds |-> {}] /\ tableHidden = FALSE /\ headerClass = "absent"
  BY DEF Init, Kinds, View!Kinds
<1>2. HiddenRows = {}
  BY <1>1 DEF HiddenRows, View!Kinds
<1> QED BY <1>1, <1>2 DEF View!ViewInit

\* The rows that the filter hides, when it is applied to hide.
LEMMA FilteredRows ==
  ASSUME TablesTypeOK, NEW hide \in SUBSET raw["wibl"], raw' = raw,
         rowClass' = [r \in OfKind("wibl") |-> IF r \in hide THEN "is-hidden" ELSE ""]
  PROVE  HiddenRows' = hide
<1>1. raw["wibl"] \subseteq OfKind("wibl")
  BY DEF TablesTypeOK, Kinds
<1> QED BY <1>1 DEF HiddenRows

LEMMA ClicksRefine ==
  ASSUME TypesInv, UserActs
  PROVE  View!ViewNext \/ UNCHANGED View!viewVars
<1>1. TablesTypeOK
  BY DEF TypesInv
<1>2. CASE clearAll
  <2>1. rowClass' = [r \in OfKind("wibl") |-> ""] /\ raw' = raw
    BY <1>2 DEF clearAll
  <2>2. HiddenRows' = {}
    BY <1>1, <2>1 DEF HiddenRows, TablesTypeOK, Kinds
  <2>3. View!Filtered
    BY <1>1, <1>2, <2>2 DEF clearAll, View!Filtered, TablesTypeOK
  <2> QED BY <2>3 DEF View!ViewNext
<1>3. ASSUME NEW f \in Filters, filterTable(f) PROVE View!ViewNext
  <2> DEFINE hide == {r \in raw["wibl"] : ~filterMatch(Info[r], f)}
  <2>1. rowClass' = [r \in OfKind("wibl") |-> IF r \in hide THEN "is-hidden" ELSE ""] /\ raw' = raw
        /\ tableHidden' = (Cardinality(hide) = Cardinality(raw["wibl"]))
        /\ headerClass' = (IF headerClass = "absent" THEN "absent" ELSE "")
    BY <1>3 DEF filterTable
  <2>2. hide \subseteq raw["wibl"]
    OBVIOUS
  <2> HIDE DEF hide
  <2>3. HiddenRows' = hide
    BY <1>1, <2>1, <2>2, FilteredRows
  <2>4. IsFiniteSet(raw["wibl"])
    <3>1. raw["wibl"] \subseteq Files
      BY <1>1 DEF TablesTypeOK, Kinds
    <3> QED BY <3>1, TablesAssumption, FS_Subset
  <2>5. Cardinality(hide) = Cardinality(raw["wibl"]) => hide = raw["wibl"]
    BY <2>2, <2>4, FS_Subset
  <2>6. tableHidden' \in {hide = raw["wibl"], FALSE}
    BY <2>1, <2>5
  <2>7. View!Filtered
    BY <1>1, <2>1, <2>2, <2>3, <2>6 DEF View!Filtered, TablesTypeOK
  <2> QED BY <2>7 DEF View!ViewNext
<1>4. CASE clearSelected
  BY <1>4 DEF clearSelected, View!ViewNext, View!Unhidden, HiddenRows
<1>5. CASE UNCHANGED <<raw, rowClass, headerClass, tableHidden>>
  BY <1>5 DEF View!viewVars, HiddenRows
<1> QED BY <1>2, <1>3, <1>4, <1>5 DEF UserActs, Tick, DeleteButton, DownloadButton

LEMMA ListRefines ==
  ASSUME TypesInv, NEW k \in Kinds, ListFiles(k)
  PROVE  View!ViewNext
<1> DEFINE fs == Head(answers[Table(k)]).files
<1>1. TablesTypeOK /\ fs \subseteq OfKind(k) /\ OfKind(k) \subseteq Files
  <2>1. Head(answers[Table(k)]) \in KindMessage(k)
    BY KindHandle DEF ListFiles
  <2> QED BY <2>1 DEF KindMessage, ListFiles, handleEvent, OfKind, TypesInv
<1> HIDE DEF fs
<1>2. raw' = [raw EXCEPT ![k] = fs \cap View!OfKind(k)] /\ fs \in SUBSET Files
  <2>1. raw' = [raw EXCEPT ![k] = fs]
    BY DEF ListFiles, fs
  <2>2. View!OfKind(k) = OfKind(k)
    BY DEF OfKind, View!OfKind, Kind, View!Kind
  <2> QED BY <1>1, <2>1, <2>2
<1>3. HiddenRows' = IF k = "wibl" THEN {} ELSE HiddenRows
  <2>1. CASE k = "wibl"
    <3>1. rowClass' = [f \in OfKind("wibl") |-> ""] /\ raw'["wibl"] = fs
      BY <1>1, <2>1 DEF ListFiles, TablesTypeOK, fs
    <3> QED BY <1>1, <2>1, <3>1 DEF HiddenRows
  <2>2. CASE k # "wibl"
    <3>1. rowClass' = rowClass /\ raw'["wibl"] = raw["wibl"]
      BY <1>1, <1>2, <2>2 DEF ListFiles, TablesTypeOK, Kinds
    <3> QED BY <2>2, <3>1 DEF HiddenRows
  <2> QED BY <2>1, <2>2
<1>4. View!Rebuilt(k)
  BY <1>2, <1>3 DEF View!Rebuilt, ListFiles
<1> QED BY <1>4 DEF View!ViewNext, View!Kinds, Kinds

\* The rest of the page takes the tables for TableView: which rows there are and
\* which are hidden changes only as that specification says.  A step of the
\* tables is one of its steps or concerns none of its variables.
THEOREM TablesImplementView == Spec => ImplementsTableView
<1>1. TypesInv /\ [Next]_vars => [View!ViewNext]_View!viewVars
  <2> SUFFICES ASSUME TypesInv, [Next]_vars PROVE View!ViewNext \/ UNCHANGED View!viewVars
    BY DEF View!viewVars
  <2>1. CASE UserActs
    BY <2>1, ClicksRefine
  <2>2. CASE \E k \in Kinds : ListFiles(k)
    BY <2>2, ListRefines
  <2>3. CASE UNCHANGED <<raw, rowClass, headerClass, tableHidden>>
    BY <2>3 DEF View!viewVars, HiddenRows
  <2>4. MessagesMove => UNCHANGED tableVars
    BY TypesMessages
  <2>5. (\E f \in External : RecordAdded(f) \/ RecordRemoved(f)) => UNCHANGED tableVars
    BY DEF RecordAdded, RecordRemoved
  <2> QED BY <2>1, <2>2, <2>3, <2>4, <2>5 DEF Next, PageHandles, MessagesMove, vars, tableVars
<1>2. Spec => []TypesInv
  BY TypesInit, TypesStep, PTL DEF Spec
<1> QED BY <1>1, <1>2, InitRefines, PTL DEF Spec, ImplementsTableView, View!ViewSpec

\* The comparisons of filterTable() are exact: with the entry's time cut down to
\* a minute or a day, the file's own times may be cut down as well.
Recorded(i, f) ==
    LET from == (f.date * Day + (IF f.time = None THEN 0 ELSE f.time)) * Minute
        to == from + Minute * (IF f.time = None THEN Day ELSE 1)
    IN /\ f.time # Invalid
       /\ None \notin {i.start, i.end}
       /\ i.start < to /\ from <= i.end

LEMMA DateMatchExact ==
  ASSUME NEW r \in OfKind("wibl"), NEW f \in Filters
  PROVE  dateMatch(Info[r], f) <=> f.date = None \/ Recorded(Info[r], f)
<1> DEFINE s == Info[r].start
           e == Info[r].end
           d == f.date
           t == f.time
<1>1. s \in Nat \cup {None} /\ e \in Nat \cup {None} /\ d \in Nat \cup {None}
      /\ t \in Nat \cup {None, Invalid} /\ Invalid # None
  BY TimesAssumption
<1>2. \A a, b \in Nat :
        /\ a \div 60 <= b <=> a < (b * 60) + 60
        /\ b <= a \div 60 <=> b * 60 <= a
        /\ a \div 86400 <= b <=> a < (b * 86400) + 86400
        /\ b <= a \div 86400 <=> b * 86400 <= a
  OBVIOUS
<1> HIDE DEF s, e, d, t
<1>3. CASE d = None
  BY <1>3 DEF dateMatch, d
<1>4. CASE d # None /\ None \in {s, e}
  BY <1>4 DEF dateMatch, Recorded, d, s, e
<1>5. CASE d # None /\ None \notin {s, e} /\ t = Invalid
  BY <1>1, <1>5 DEF dateMatch, Recorded, d, s, e, t
<1>6. CASE d # None /\ None \notin {s, e} /\ t = None
  <2>1. d \in Nat /\ s \in Nat /\ e \in Nat
    BY <1>1, <1>6
  <2>2. Minute * Day = 86400 /\ (d * Day + 0) * Minute = d * 86400
    BY <2>1 DEF Minute, Day
  <2>3. Recorded(Info[r], f) <=> s < (d * 86400) + 86400 /\ d * 86400 <= e
    BY <1>1, <1>6, <2>2 DEF Recorded, d, s, e, t
  <2>4. dateMatch(Info[r], f) <=> s \div 86400 <= d /\ d <= e \div 86400
    BY <1>1, <1>6, <2>2 DEF dateMatch, d, s, e, t
  <2> QED BY <1>2, <1>6, <2>1, <2>3, <2>4 DEF d
<1>7. CASE d # None /\ None \notin {s, e} /\ t \notin {None, Invalid}
  <2> DEFINE n == d * Day + t
  <2>1. d \in Nat /\ s \in Nat /\ e \in Nat /\ t \in Nat
    BY <1>1, <1>7
  <2>2. n \in Nat /\ n * Minute = n * 60 /\ Minute * 1 = 60
    BY <2>1 DEF Minute, Day
  <2>3. Recorded(Info[r], f) <=> s < n * Minute + Minute * 1 /\ n * Minute <= e
    BY <1>7 DEF Recorded, d, s, e, t
  <2>4. dateMatch(Info[r], f) <=> s \div 60 <= n /\ n <= e \div 60
    BY <1>7 DEF dateMatch, Minute, d, s, e, t
  <2> HIDE DEF n
  <2> QED BY <1>2, <1>7, <2>1, <2>2, <2>3, <2>4 DEF d
<1> QED BY <1>3, <1>4, <1>5, <1>6, <1>7

\* What the filter that is on hides.
FilterInv ==
    /\ TypesInv
    /\ filter # None => \A r \in raw["wibl"] : rowClass[r] = "is-hidden" <=> ~filterMatch(Info[r], filter)

LEMMA FilterShown == FilterInv => FilterIsExact
<1> SUFFICES ASSUME FilterInv, filter # None PROVE FilterIsExact
  BY DEF FilterIsExact
<1>1. filter \in Filters /\ raw["wibl"] \subseteq OfKind("wibl")
  BY DEF FilterInv, TypesInv, TablesTypeOK, Kinds
<1>2. \A r \in raw["wibl"] : dateMatch(Info[r], filter) <=> filter.date = None \/ Recorded(Info[r], filter)
  BY <1>1, DateMatchExact
<1> QED BY <1>1, <1>2 DEF FilterIsExact, FilterInv, HiddenRows, filterMatch, Recorded

LEMMA FilterStep == FilterInv /\ [Next]_vars => FilterInv'
<1> SUFFICES ASSUME FilterInv, [Next]_vars, filter' # None
             PROVE  \A r \in raw'["wibl"] : rowClass'[r] = "is-hidden" <=> ~filterMatch(Info[r], filter')
  BY TypesStep DEF FilterInv
<1>1. TypesInv /\ raw["wibl"] \subseteq OfKind("wibl")
  BY DEF FilterInv, TypesInv, TablesTypeOK, Kinds
<1>2. CASE \E f \in Filters : filterTable(f)
  BY <1>1, <1>2 DEF filterTable
<1>3. CASE clearAll
  BY <1>3 DEF clearAll
<1>4. CASE raw'["wibl"] = raw["wibl"] /\ UNCHANGED <<rowClass, filter>>
  BY <1>4 DEF FilterInv
<1>5. ASSUME NEW k \in Kinds, ListFiles(k) PROVE k # "wibl" /\ raw'["wibl"] = raw["wibl"] /\ UNCHANGED <<rowClass, filter>>
  BY <1>1, <1>5 DEF ListFiles, TypesInv, TablesTypeOK, Kinds
<1>6. MessagesMove \/ (\E f \in External : RecordAdded(f) \/ RecordRemoved(f)) \/ UNCHANGED vars
        => UNCHANGED tableVars
  BY <1>1, TypesMessages DEF RecordAdded, RecordRemoved, vars
<1>7. (\E k \in Kinds, f \in Files : Tick(k, f)) \/ clearSelected
        \/ (\E c \in SUBSET Kinds : DeleteButton(c) \/ DownloadButton(c))
        => UNCHANGED <<raw, rowClass, filter>>
  BY DEF Tick, clearSelected, DeleteButton, DownloadButton
<1> QED BY <1>2, <1>3, <1>4, <1>5, <1>6, <1>7 DEF Next, UserActs, PageHandles, MessagesMove, tableVars

\* Until a list is loaded again, exactly the rows of the files that do not match
\* the entries are hidden.
THEOREM FilterCorrect == Spec => []FilterIsExact
<1>1. Init => FilterInv
  BY TypesInit DEF FilterInv, Init
<1>2. Spec => []FilterInv
  BY <1>1, FilterStep, PTL DEF Spec
<1> QED BY <1>2, FilterShown, PTL
-----------------------------------------------------------------------------
(* A deletion is followed by a list that is made after it.                  *)

\* Timers of table k that ask for its list, or delete some of its files, and that
\* every deletion has a list behind it.
Lists(ts, k) == \E i \in DOMAIN ts : ts[i].sock = Table(k) /\ ts[i].req.type = "list"
Deletes(ts, k) == \E i \in DOMAIN ts : ts[i].sock = Table(k) /\ ts[i].req.type = "delete"
Followed(ts, k) == \A i \in DOMAIN ts :
    ts[i].sock = Table(k) /\ ts[i].req.type = "delete" =>
        \E j \in DOMAIN ts : j > i /\ ts[j].sock = Table(k) /\ ts[j].req.type = "list"

LEMMA JoinedTimers ==
  ASSUME NEW ts \in Seq(Timer), NEW rs \in Seq(Timer), NEW k \in Kinds
  PROVE  /\ Lists(ts \o rs, k) <=> Lists(ts, k) \/ Lists(rs, k)
         /\ Deletes(ts \o rs, k) <=> Deletes(ts, k) \/ Deletes(rs, k)
         /\ Followed(ts, k) /\ Followed(rs, k) => Followed(ts \o rs, k)
<1> DEFINE all == ts \o rs
<1>1. /\ DOMAIN ts = 1..Len(ts) /\ DOMAIN rs = 1..Len(rs) /\ DOMAIN all = 1..(Len(ts) + Len(rs))
      /\ \A i \in 1..(Len(ts) + Len(rs)) : all[i] = IF i <= Len(ts) THEN ts[i] ELSE rs[i - Len(ts)]
      /\ Len(ts) \in Nat /\ Len(rs) \in Nat
  OBVIOUS
<1> HIDE DEF all
<1>2. \A i \in DOMAIN ts : i \in DOMAIN all /\ all[i] = ts[i]
  BY <1>1
<1>3. \A i \in DOMAIN rs : Len(ts) + i \in DOMAIN all /\ all[Len(ts) + i] = rs[i]
  BY <1>1
<1>4. \A i \in DOMAIN all : \/ i \in DOMAIN ts
                            \/ i - Len(ts) \in DOMAIN rs /\ i > Len(ts) /\ all[i] = rs[i - Len(ts)]
  BY <1>1
<1>5. Lists(all, k) <=> Lists(ts, k) \/ Lists(rs, k)
  BY <1>2, <1>3, <1>4 DEF Lists
<1>6. Deletes(all, k) <=> Deletes(ts, k) \/ Deletes(rs, k)
  BY <1>2, <1>3, <1>4 DEF Deletes
<1>7. ASSUME Followed(ts, k), Followed(rs, k), NEW i \in DOMAIN all,
             all[i].sock = Table(k), all[i].req.type = "delete"
      PROVE  \E j \in DOMAIN all : j > i /\ all[j].sock = Table(k) /\ all[j].req.type = "list"
  <2>1. CASE i \in DOMAIN ts
    <3>1. PICK j \in DOMAIN ts : j > i /\ ts[j].sock = Table(k) /\ ts[j].req.type = "list"
      BY <1>2, <1>7, <2>1 DEF Followed
    <3> QED BY <1>2, <3>1
  <2>2. CASE i - Len(ts) \in DOMAIN rs /\ all[i] = rs[i - Len(ts)]
    <3>1. PICK j \in DOMAIN rs : j > i - Len(ts) /\ rs[j].sock = Table(k) /\ rs[j].req.type = "list"
      BY <1>7, <2>2 DEF Followed
    <3>2. Len(ts) + j > i
      BY <1>1, <3>1
    <3> QED BY <1>3, <3>1, <3>2
  <2> QED BY <1>4, <2>1, <2>2
<1> QED BY <1>5, <1>6, <1>7 DEF Followed, all

LEMMA TailTimers ==
  ASSUME NEW ts \in Seq(Timer), ts # <<>>, NEW k \in Kinds
  PROVE  /\ Lists(Tail(ts), k) => Lists(ts, k)
         /\ Lists(ts, k) => Lists(Tail(ts), k) \/ (Head(ts).sock = Table(k) /\ Head(ts).req.type = "list")
         /\ Deletes(Tail(ts), k) => Deletes(ts, k)
         /\ Deletes(<<Head(ts)>>, k) => Deletes(ts, k)
         /\ Followed(ts, k) => Followed(Tail(ts), k)
         /\ Followed(ts, k) /\ Head(ts).sock = Table(k) /\ Head(ts).req.type = "delete"
                => Lists(Tail(ts), k)
<1> DEFINE tl == Tail(ts)
<1>1. /\ DOMAIN ts = 1..Len(ts) /\ Len(ts) \in Nat /\ Len(ts) > 0 /\ DOMAIN tl = 1..(Len(ts) - 1)
      /\ \A i \in 1..(Len(ts) - 1) : tl[i] = ts[i + 1]
      /\ Head(ts) = ts[1]
  OBVIOUS
<1> HIDE DEF tl
<1>2. \A i \in DOMAIN tl : i + 1 \in DOMAIN ts /\ tl[i] = ts[i + 1]
  BY <1>1
<1>3. ASSUME NEW i \in DOMAIN ts PROVE i = 1 \/ (i - 1 \in DOMAIN tl /\ tl[i - 1] = ts[i])
  <2>1. i \in Int /\ i >= 1 /\ i <= Len(ts) /\ (i - 1) + 1 = i
    BY <1>1
  <2>2. i # 1 => i - 1 \in 1..(Len(ts) - 1)
    BY <1>1, <2>1
  <2> QED BY <1>1, <2>1, <2>2
<1>4. 1 \in DOMAIN ts
  BY <1>1
<1>5. Lists(tl, k) => Lists(ts, k)
  BY <1>2 DEF Lists
<1>6. Lists(ts, k) => Lists(tl, k) \/ (Head(ts).sock = Table(k) /\ Head(ts).req.type = "list")
  BY <1>1, <1>3 DEF Lists
<1>7. Deletes(tl, k) => Deletes(ts, k)
  BY <1>2 DEF Deletes
<1>8. Deletes(<<Head(ts)>>, k) => Deletes(ts, k)
  <2> DEFINE t == Head(ts)
  <2>1. t = ts[1]
    BY <1>1
  <2> HIDE DEF t
  <2>2. Deletes(<<t>>, k) => t.sock = Table(k) /\ t.req.type = "delete"
    BY DEF Deletes
  <2> QED BY <1>4, <2>1, <2>2 DEF Deletes, t
<1>9. ASSUME Followed(ts, k), NEW i \in DOMAIN ts, ts[i].sock = Table(k), ts[i].req.type = "delete"
      PROVE  \E j \in DOMAIN tl : j > i - 1 /\ tl[j].sock = Table(k) /\ tl[j].req.type = "list"
  <2>1. PICK j \in DOMAIN ts : j > i /\ ts[j].sock = Table(k) /\ ts[j].req.type = "list"
    BY <1>9 DEF Followed
  <2>2. j - 1 \in DOMAIN tl /\ tl[j - 1] = ts[j] /\ j - 1 > i - 1
    BY <1>1, <1>3, <2>1
  <2> QED BY <2>1, <2>2
<1>10. ASSUME Followed(ts, k) PROVE Followed(tl, k)
  <2> SUFFICES ASSUME NEW i \in DOMAIN tl, tl[i].sock = Table(k), tl[i].req.type = "delete"
               PROVE  \E j \in DOMAIN tl : j > i /\ tl[j].sock = Table(k) /\ tl[j].req.type = "list"
    BY DEF Followed
  <2>1. i + 1 \in DOMAIN ts /\ tl[i] = ts[i + 1] /\ (i + 1) - 1 = i
    BY <1>1, <1>2
  <2> QED BY <1>9, <1>10, <2>1
<1>11. ASSUME Followed(ts, k), Head(ts).sock = Table(k), Head(ts).req.type = "delete" PROVE Lists(tl, k)
  BY <1>1, <1>4, <1>9, <1>11 DEF Lists
<1> QED BY <1>5, <1>6, <1>7, <1>8, <1>10, <1>11 DEF tl

\* The same for the requests on the wire.
Wanted(w) == \E i \in DOMAIN w : w[i].type = "list"
Covered(w) == \A i \in DOMAIN w : w[i].type = "delete" => \E j \in DOMAIN w : j > i /\ w[j].type = "list"

LEMMA WrittenList ==
  ASSUME NEW w \in Seq(Request), NEW r \in Request, r.type = "list"
  PROVE  Wanted(Append(w, r)) /\ Covered(Append(w, r))
<1> DEFINE v == Append(w, r)
<1>1. /\ DOMAIN v = 1..(Len(w) + 1) /\ Len(w) \in Nat /\ v[Len(w) + 1] = r
      /\ \A i \in 1..(Len(w) + 1) : i = Len(w) + 1 \/ i < Len(w) + 1
  OBVIOUS
<1> HIDE DEF v
<1>2. Len(w) + 1 \in DOMAIN v
  BY <1>1
<1>3. Wanted(v)
  BY <1>1, <1>2 DEF Wanted
<1>4. Covered(v)
  BY <1>1, <1>2 DEF Covered
<1> QED BY <1>3, <1>4 DEF v

\* The oldest request is taken off, or r takes its place.
LEMMA TakenRequest ==
  ASSUME NEW w \in Seq(Request), w # <<>>, NEW r \in Request
  PROVE  /\ Covered(w) => Covered(Tail(w))
         /\ Wanted(w) /\ Head(w).type # "list" => Wanted(Tail(w))
         /\ Covered(w) /\ Head(w).type = "delete"
                => Wanted(<<r>> \o Tail(w)) /\ Covered(<<r>> \o Tail(w))
<1> DEFINE tl == Tail(w)
           v == <<r>> \o Tail(w)
<1>1. /\ DOMAIN w = 1..Len(w) /\ Len(w) \in Nat /\ Len(w) > 0 /\ DOMAIN tl = 1..(Len(w) - 1)
      /\ \A i \in 1..(Len(w) - 1) : tl[i] = w[i + 1]
      /\ Head(w) = w[1]
      /\ tl \in Seq(Request)
  OBVIOUS
<1>2. /\ DOMAIN v = 1..Len(w)
      /\ \A i \in 1..Len(w) : i > 1 => v[i] = w[i]
  <2>1. PICK u \in Seq(Request) : u = Tail(w)
    BY <1>1
  <2>2. PICK x : x = <<r>> \o u
    OBVIOUS
  <2>3. /\ DOMAIN x = 1..(Len(u) + 1)
        /\ \A i \in 1..Len(u) : x[i + 1] = u[i]
    BY <2>2, PutFirst
  <2>4. v = x /\ Len(u) = Len(w) - 1 /\ (Len(w) - 1) + 1 = Len(w) /\ u = tl
    BY <2>1, <2>2
  <2> HIDE DEF v, tl
  <2>5. ASSUME NEW i \in 1..Len(w), i > 1 PROVE v[i] = w[i]
    <3>1. PICK j \in 1..(Len(w) - 1) : i = j + 1
      <4>1. i - 1 \in 1..(Len(w) - 1) /\ i = (i - 1) + 1
        BY <1>1, <2>5
      <4> QED BY <4>1
    <3>2. tl[j] = w[j + 1]
      BY <1>1
    <3>3. x[j + 1] = u[j]
      BY <2>3, <2>4
    <3> QED BY <2>4, <3>1, <3>2, <3>3
  <2> QED BY <2>3, <2>4, <2>5
<1> HIDE DEF v, tl
<1>3. ASSUME Covered(w), NEW i \in DOMAIN tl, tl[i].type = "delete"
      PROVE  \E j \in DOMAIN tl : j > i /\ tl[j].type = "list"
  <2>1. i + 1 \in DOMAIN w /\ w[i + 1] = tl[i]
    BY <1>1
  <2>2. PICK j \in DOMAIN w : j > i + 1 /\ w[j].type = "list"
    BY <1>3, <2>1 DEF Covered
  <2>3. j - 1 \in DOMAIN tl /\ j - 1 > i /\ tl[j - 1] = w[j]
    BY <1>1, <2>2
  <2> QED BY <2>2, <2>3
<1>4. ASSUME Wanted(w), Head(w).type # "list" PROVE Wanted(tl)
  <2>1. PICK j \in DOMAIN w : w[j].type = "list"
    BY <1>4 DEF Wanted
  <2>2. j - 1 \in DOMAIN tl /\ tl[j - 1] = w[j]
    BY <1>1, <1>4, <2>1
  <2> QED BY <2>1, <2>2 DEF Wanted
<1>5. ASSUME Covered(w), Head(w).type = "delete" PROVE Wanted(v) /\ Covered(v)
  <2>1. 1 \in DOMAIN w
    BY <1>1
  <2>2. PICK j \in DOMAIN w : j > 1 /\ w[j].type = "list"
    BY <1>1, <1>5, <2>1 DEF Covered
  <2>3. j \in DOMAIN v /\ v[j].type = "list"
    BY <1>1, <1>2, <2>2
  <2>4. ASSUME NEW i \in DOMAIN v, v[i].type = "delete" PROVE \E n \in DOMAIN v : n > i /\ v[n].type = "list"
    <3>1. CASE i = 1
      BY <2>2, <2>3, <3>1
    <3>2. CASE i > 1
      <4>1. i \in DOMAIN w /\ w[i].type = "delete"
        BY <1>1, <1>2, <2>4, <3>2
      <4>2. PICK n \in DOMAIN w : n > i /\ w[n].type = "list"
        BY <1>5, <4>1 DEF Covered
      <4> QED BY <1>1, <1>2, <3>2, <4>2
    <3> QED BY <1>1, <1>2, <3>1, <3>2
  <2> QED BY <2>3, <2>4 DEF Wanted, Covered
<1> QED BY <1>3, <1>4, <1>5 DEF Covered, tl, v
-----------------------------------------------------------------------------
\* The youngest list on its way to the page, or in the table, has none of gone.
Clean(a, listed, gone) ==
    LET ls == {i \in DOMAIN a : a[i].event = "list"} IN
    /\ ls = {} => listed \cap gone = {}
    /\ \A i \in ls : (\A j \in ls : j <= i) => a[i].files \cap gone = {}

\* A message is appended: a list without any of gone, or no list.
LEMMA AppendedMessage ==
  ASSUME NEW a \in Seq(Message), NEW m \in Message, NEW listed, NEW gone,
         \/ m.event = "list" /\ m.files \cap gone = {}
         \/ m.event # "list" /\ Clean(a, listed, gone)
  PROVE  Clean(a \o <<m>>, listed, gone)
<1> DEFINE b == a \o <<m>>
<1>1. /\ DOMAIN a = 1..Len(a) /\ Len(a) \in Nat /\ DOMAIN b = 1..(Len(a) + 1)
      /\ \A i \in 1..Len(a) : b[i] = a[i]
      /\ b[Len(a) + 1] = m
  OBVIOUS
<1> HIDE DEF b
<1>2. CASE m.event = "list" /\ m.files \cap gone = {}
  BY <1>1, <1>2 DEF Clean, b
<1>3. CASE m.event # "list" /\ Clean(a, listed, gone)
  <2>1. {i \in DOMAIN b : b[i].event = "list"} = {i \in DOMAIN a : a[i].event = "list"}
    BY <1>1, <1>3
  <2> QED BY <1>1, <1>3, <2>1 DEF Clean, b
<1> QED BY <1>2, <1>3

\* The oldest message is taken out: a list that goes to the table, or no list.
LEMMA TakenMessage ==
  ASSUME NEW a \in Seq(Message), a # <<>>, NEW listed, NEW next, NEW gone, Clean(a, listed, gone),
         IF Head(a).event = "list" THEN next = Head(a).files ELSE next = listed
  PROVE  Clean(Tail(a), next, gone)
<1> DEFINE tl == Tail(a)
           ls == {i \in DOMAIN a : a[i].event = "list"}
           lt == {i \in DOMAIN tl : tl[i].event = "list"}
<1>1. /\ DOMAIN a = 1..Len(a) /\ Len(a) \in Nat /\ Len(a) > 0 /\ DOMAIN tl = 1..(Len(a) - 1)
      /\ \A i \in 1..(Len(a) - 1) : tl[i] = a[i + 1]
      /\ Head(a) = a[1]
  OBVIOUS
<1> HIDE DEF tl
<1>2. \A i \in lt : i + 1 \in ls /\ tl[i] = a[i + 1]
  BY <1>1
<1>3. \A i \in ls : i = 1 \/ i - 1 \in lt
  BY <1>1
<1>4. 1 \in ls <=> Head(a).event = "list"
  BY <1>1
<1>5. ls \subseteq Int /\ lt \subseteq Int /\ \A i \in ls : i >= 1
  BY <1>1
<1> HIDE DEF ls, lt
<1>6. ASSUME lt = {} PROVE next \cap gone = {}
  <2>1. CASE Head(a).event = "list"
    <3>1. 1 \in ls /\ \A j \in ls : j <= 1
      BY <1>3, <1>4, <1>6, <2>1
    <3> QED BY <1>1, <2>1, <3>1 DEF Clean, ls
  <2>2. CASE Head(a).event # "list"
    <3>1. ls = {}
      BY <1>3, <1>4, <1>6, <2>2
    <3> QED BY <2>2, <3>1 DEF Clean, ls
  <2> QED BY <2>1, <2>2
<1>7. ASSUME NEW i \in lt, \A j \in lt : j <= i PROVE tl[i].files \cap gone = {}
  <2>1. i + 1 \in ls /\ tl[i] = a[i + 1]
    BY <1>2
  <2>2. ASSUME NEW j \in ls PROVE j <= i + 1
    <3>1. CASE j = 1
      BY <1>5, <2>1, <3>1
    <3>2. CASE j - 1 \in lt
      BY <1>5, <1>7, <3>2
    <3> QED BY <1>3, <3>1, <3>2
  <2> QED BY <2>1, <2>2 DEF Clean, ls
<1> QED BY <1>6, <1>7 DEF Clean, lt, tl
-----------------------------------------------------------------------------
(* The invariant: as long as no list of table k is asked for, the youngest  *)
(* one made has none of the files deleted.                                  *)

InOrder(k) ==
    LET D == Table(k) IN
    /\ readyState[D] = "connecting" =>
            raw[k] = {} /\ wire[D] = <<>> /\ answers[D] = <<>> /\ ~Deletes(timers, k)
    /\ Alive(D) =>
            /\ Followed(timers, k)
            /\ Lists(timers, k) \/ Covered(wire[D])
            /\ Lists(timers, k) \/ Wanted(wire[D]) \/ Clean(answers[D], raw[k], purged)

OrderInv ==
    /\ TypesInv
    /\ purged \cap store = {}
    /\ \A k \in Kinds : InOrder(k)

LEMMA OrderInit == Init => OrderInv
<1> SUFFICES ASSUME Init PROVE OrderInv
  OBVIOUS
<1>1. ASSUME NEW k \in Kinds PROVE InOrder(k)
  <2>1. /\ readyState[Table(k)] = "connecting" /\ wire[Table(k)] = <<>> /\ answers[Table(k)] = <<>>
        /\ raw[k] = {} /\ timers = <<ListRequest("wibl"), ListRequest("geojson")>>
    BY TableSockets DEF Init, SocketsInit
  <2>2. ~Deletes(timers, k)
    BY <2>1 DEF Deletes, ListRequest
  <2> QED BY <2>1, <2>2 DEF InOrder, Alive
<1> QED BY <1>1, TypesInit DEF OrderInv, Init

LEMMA OrderShown == OrderInv => DeletedRowsGo
<1> SUFFICES ASSUME OrderInv, NEW k \in Kinds, Quiet(Table(k)) PROVE raw[k] \cap purged = {}
  BY DEF DeletedRowsGo
<1> DEFINE w == wire[Table(k)]
           a == answers[Table(k)]
<1>1. w \in Seq(KindRequest(k)) /\ a \in Seq(KindMessage(k)) /\ Len(w) + Len(a) = 0
  BY DEF OrderInv, TypesInv, OfTheirKind, Quiet, UnderWay
<1>2. InOrder(k) /\ Alive(Table(k)) /\ ~Lists(timers, k)
  BY DEF OrderInv, Quiet, Lists
<1> HIDE DEF w, a
<1>3. w = <<>> /\ a = <<>>
  <2>1. Len(w) \in Nat /\ Len(a) \in Nat
    BY <1>1
  <2>2. Len(w) = 0 /\ Len(a) = 0
    BY <1>1, <2>1
  <2> QED BY <1>1, <2>2
<1> QED BY <1>2, <1>3 DEF InOrder, Wanted, Clean, w, a

\* Files of one table only are deleted by its requests.
LEMMA CleanOther ==
  ASSUME NEW k \in Kinds, NEW a \in Seq(KindMessage(k)), NEW listed \in SUBSET OfKind(k), NEW gone, NEW more,
         more \cap OfKind(k) \subseteq gone, Clean(a, listed, gone)
  PROVE  Clean(a, listed, more)
<1>1. \A i \in DOMAIN a : a[i].event = "list" => a[i].files \subseteq OfKind(k)
  BY DEF KindMessage
<1> QED BY <1>1 DEF Clean

\* Nothing that concerns table k happens.
LEMMA OrderSame ==
  ASSUME NEW k \in Kinds, TypesInv, InOrder(k), UNCHANGED timers, raw'[k] = raw[k],
         wire'[Table(k)] = wire[Table(k)], answers'[Table(k)] = answers[Table(k)],
         readyState'[Table(k)] = readyState[Table(k)], purged' \cap OfKind(k) \subseteq purged
  PROVE  InOrder(k)'
<1>1. Alive(Table(k))' <=> Alive(Table(k))
  BY DEF Alive, Table
<1>2. Clean(answers[Table(k)], raw[k], purged) => Clean(answers[Table(k)], raw[k], purged')
  <2>1. answers[Table(k)] \in Seq(KindMessage(k)) /\ raw[k] \subseteq OfKind(k)
    BY DEF TypesInv, OfTheirKind, TablesTypeOK
  <2> QED BY <2>1, CleanOther
<1> QED BY <1>1, <1>2 DEF InOrder, Table

\* A timer fires.
LEMMA OrderTimer ==
  ASSUME OrderInv, TimerFires, NEW k \in Kinds
  PROVE  InOrder(k)'
<1> DEFINE D == Table(k)
<1>1. SockTypes /\ TypesInv /\ InOrder(k) /\ doSendRequest /\ UNCHANGED <<raw, purged>>
  BY DEF OrderInv, TypesInv, TablesTypeOK, SockTypes, TimerFires, tableVars
<1>2. timers \in Seq(Timer) /\ timers # <<>> /\ D \in Sockets /\ wire \in [Sockets -> Seq(Request)]
  BY <1>1, TableSockets DEF SockTypes, SocketsTypeOK, doSendRequest, Timer, TimerOf
<1>3. PICK t \in Timer : t = Head(timers)
  BY <1>2
<1>4. UNCHANGED <<readyState, answers>> /\ (Alive(D)' <=> Alive(D))
  BY <1>1 DEF doSendRequest, Alive
<1>5. CASE readyState[t.sock] = "open"
  <2>1. timers' = Tail(timers) /\ wire' = [wire EXCEPT ![t.sock] = Append(@, t.req)]
    BY <1>1, <1>3, <1>5 DEF doSendRequest
  <2>2. ~Deletes(timers, k) => ~Deletes(timers', k)
    BY <1>2, <2>1, TailTimers
  <2>3. Followed(timers, k) => Followed(timers', k)
    BY <1>2, <2>1, TailTimers
  <2>4. CASE t.sock = D
    <3>1. readyState'[D] # "connecting"
      BY <1>4, <1>5, <2>4
    <3>2. wire'[D] = Append(wire[D], t.req) /\ wire[D] \in Seq(Request) /\ t.req \in Request
      BY <1>2, <2>1, <2>4 DEF Timer, TimerOf
    <3>3. CASE t.req.type = "list"
      <4>1. Wanted(wire'[D]) /\ Covered(wire'[D])
        BY <3>2, <3>3, WrittenList
      <4> QED BY <1>1, <1>4, <2>3, <3>1, <4>1 DEF InOrder
    <3>4. CASE t.req.type = "delete"
      <4>1. Followed(timers, k) => Lists(timers', k)
        BY <1>2, <1>3, <2>1, <2>4, <3>4, TailTimers
      <4> QED BY <1>1, <1>4, <2>3, <3>1, <4>1 DEF InOrder
    <3> QED BY <3>2, <3>3, <3>4 DEF Request
  <2>5. CASE t.sock # D
    <3>1. wire'[D] = wire[D]
      BY <1>2, <2>1, <2>5
    <3>2. Lists(timers', k) <=> Lists(timers, k)
      BY <1>2, <1>3, <2>1, <2>5, TailTimers
    <3> QED BY <1>1, <1>4, <2>2, <2>3, <3>1, <3>2 DEF InOrder
  <2> QED BY <2>4, <2>5
<1>6. CASE readyState[t.sock] # "open"
  <2>1. PICK u \in Seq(Timer) : u = Tail(timers)
    <3>1. Tail(timers) \in Seq(Timer)
      BY <1>2
    <3> QED BY <3>1
  <2>2. PICK o \in Seq(Timer) : o = <<t>>
    <3>1. <<t>> \in Seq(Timer)
      OBVIOUS
    <3> QED BY <3>1
  <2>3. timers' = u \o o /\ wire' = wire
    <3>1. timers' = Append(u, t) /\ wire' = wire
      BY <1>1, <1>3, <1>6, <2>1 DEF doSendRequest
    <3>2. Append(u, t) = u \o <<t>>
      OBVIOUS
    <3> QED BY <2>2, <3>1, <3>2
  <2>4. /\ Lists(timers', k) <=> Lists(u, k) \/ Lists(o, k)
        /\ Deletes(timers', k) <=> Deletes(u, k) \/ Deletes(o, k)
        /\ Followed(u, k) /\ Followed(o, k) => Followed(timers', k)
    BY <2>3, JoinedTimers
  <2>5. ~Deletes(timers, k) => ~Deletes(timers', k)
    <3>1. Deletes(u, k) => Deletes(timers, k)
      BY <1>2, <2>1, TailTimers
    <3>2. Deletes(o, k) => Deletes(timers, k)
      BY <1>2, <1>3, <2>2, TailTimers
    <3> QED BY <2>4, <3>1, <3>2
  <2>6. ASSUME Alive(D)
        PROVE  /\ Followed(timers, k) => Followed(timers', k)
               /\ Lists(timers', k) <=> Lists(timers, k)
    <3>1. t.sock # D
      BY <1>6, <2>6 DEF Alive
    <3>2. ~Lists(o, k) /\ Followed(o, k)
      BY <2>2, <3>1 DEF Lists, Followed
    <3>3. Lists(u, k) <=> Lists(timers, k)
      BY <1>2, <1>3, <2>1, <3>1, TailTimers
    <3>4. Followed(timers, k) => Followed(u, k)
      BY <1>2, <2>1, TailTimers
    <3> QED BY <2>4, <3>2, <3>3, <3>4
  <2> QED BY <1>1, <1>4, <2>3, <2>5, <2>6 DEF InOrder
<1> QED BY <1>5, <1>6

\* The consumer of table k serves its oldest request.
LEMMA OrderServes ==
  ASSUME OrderInv, NEW c \in Kinds, Serves(c)
  PROVE  (purged \cap store)' = {} /\ \A k \in Kinds : InOrder(k)'
<1> DEFINE D == Table(c)
           w == wire[D]
           a == answers[D]
<1>1. SockTypes /\ TypesInv /\ (\A k \in Kinds : InOrder(k)) /\ Alive(D) /\ UNCHANGED tableVars
      /\ purged \cap store = {}
  BY DEF OrderInv, TypesInv, TablesTypeOK, SockTypes, Serves, send_list_files, delete_file, delete_files,
         Asks
<1>2. D \in Sockets /\ wire \in [Sockets -> Seq(Request)] /\ answers \in [Sockets -> Seq(Message)]
  BY <1>1, TableSockets DEF SockTypes, SocketsTypeOK
<1>3. UNCHANGED <<readyState, timers>>
      /\ \A k \in Kinds : k # c => wire'[Table(k)] = wire[Table(k)] /\ answers'[Table(k)] = answers[Table(k)]
  BY <1>2, TableSockets DEF Serves, send_list_files, delete_file, delete_files, Consume
<1>4. w \in Seq(Request) /\ w # <<>> /\ a \in Seq(Message) /\ Head(w) \in KindRequest(c)
  BY <1>1, <1>2 DEF Serves, send_list_files, delete_file, delete_files, Asks, TypesInv, OfTheirKind
<1>5. (purged \cap store)' = {} /\ \A k \in Kinds : k # c => purged' \cap OfKind(k) \subseteq purged
  <2>1. CASE UNCHANGED <<store, purged>>
    BY <1>1, <2>1
  <2>2. CASE delete_file(c)
    <3>1. PICK f \in Head(w).files :
            \/ UNCHANGED <<store, purged>>
            \/ store' = store \ {f} /\ purged' = purged \cup ({f} \cap store)
      BY <2>2 DEF delete_file, Answers
    <3>2. \A k \in Kinds : k # c => f \notin OfKind(k)
      BY <1>4, <3>1 DEF KindRequest, OfKind
    <3> QED BY <1>1, <3>1, <3>2
  <2> QED BY <2>1, <2>2 DEF Serves, send_list_files, delete_files
<1>6. ASSUME NEW k \in Kinds, k # c PROVE InOrder(k)'
  BY <1>1, <1>3, <1>5, <1>6, OrderSame DEF tableVars
<1>7. readyState'[D] # "connecting" /\ InOrder(c) /\ raw' = raw
  BY <1>1, <1>3 DEF Alive, tableVars
<1>8. PICK u \in Seq(Request) : u = Tail(w)
  <2>1. Tail(w) \in Seq(Request)
    BY <1>4
  <2> QED BY <2>1
<1>9. /\ Covered(w) => Covered(u)
      /\ Wanted(w) /\ Head(w).type # "list" => Wanted(u)
      /\ \A r \in Request : Covered(w) /\ Head(w).type = "delete"
                                => Wanted(<<r>> \o u) /\ Covered(<<r>> \o u)
  <2>1. Head(w) \in Request
    BY <1>4
  <2> QED BY <1>4, <1>8, <2>1, TakenRequest
<1>10. ASSUME send_list_files(c) PROVE InOrder(c)'
  <2> DEFINE m == [event |-> "list", files |-> store \cap OfKind(c)]
  <2>1. wire'[D] = u /\ answers'[D] = a \o <<m>> /\ UNCHANGED purged
    <3>1. wire'[D] = <<>> \o Tail(w) /\ answers'[D] = a \o <<m>> /\ UNCHANGED purged
      BY <1>2, <1>10 DEF send_list_files, Consume
    <3>2. <<>> \o Tail(w) = u
      BY <1>4, <1>8
    <3> QED BY <3>1, <3>2
  <2>2. m \in Message /\ m.event = "list" /\ m.files \cap purged = {}
    BY <1>1 DEF Message, OfKind
  <2>3. Clean(answers'[D], raw'[c], purged')
    <3> HIDE DEF m, a, D
    <3> QED BY <1>4, <1>7, <2>1, <2>2, AppendedMessage
  <2>4. Covered(w) => Covered(wire'[D])
    BY <1>4, <1>9, <2>1
  <2> QED BY <1>1, <1>3, <1>7, <2>3, <2>4 DEF InOrder
<1>11. ASSUME delete_file(c) PROVE InOrder(c)'
  <2>1. PICK f \in Head(w).files : wire'[D] = <<[Head(w) EXCEPT !.files = @ \ {f}]>> \o u
    BY <1>2, <1>8, <1>11 DEF delete_file, Consume
  <2>2. PICK r \in Request : wire'[D] = <<r>> \o u
    <3>1. [Head(w) EXCEPT !.files = @ \ {f}] \in Request
      BY <1>4 DEF KindRequest, Request
    <3> QED BY <2>1, <3>1
  <2>3. Head(w).type = "delete"
    BY <1>11 DEF delete_file, Asks
  <2>4. Covered(w) => Wanted(wire'[D]) /\ Covered(wire'[D])
    BY <1>9, <2>2, <2>3
  <2> QED BY <1>1, <1>3, <1>7, <2>4 DEF InOrder
<1>12. ASSUME delete_files(c) PROVE InOrder(c)'
  <2> DEFINE m == [event |-> "delete", files |-> {}]
  <2>1. wire'[D] = u /\ answers'[D] = a \o <<m>> /\ UNCHANGED purged
    <3>1. wire'[D] = <<>> \o Tail(w) /\ answers'[D] = a \o <<m>> /\ UNCHANGED purged
      BY <1>2, <1>12 DEF delete_files, Consume
    <3>2. <<>> \o Tail(w) = u
      BY <1>4, <1>8
    <3> QED BY <3>1, <3>2
  <2>2. m \in Message /\ m.event # "list" /\ Head(w).type # "list"
    BY <1>12 DEF Message, delete_files, Asks
  <2>3. Clean(a, raw[c], purged) => Clean(answers'[D], raw'[c], purged')
    <3> HIDE DEF m, a, D
    <3> QED BY <1>4, <1>7, <2>1, <2>2, AppendedMessage
  <2>4. (Covered(w) => Covered(wire'[D])) /\ (Wanted(w) => Wanted(wire'[D]))
    BY <1>4, <1>9, <2>1, <2>2
  <2> QED BY <1>1, <1>3, <1>7, <2>3, <2>4 DEF InOrder
<1> QED BY <1>5, <1>6, <1>10, <1>11, <1>12 DEF Serves

\* The consumer dies, or a socket opens or closes.
LEMMA OrderSocket ==
  ASSUME OrderInv, NEW s \in Sockets, SocketEvent(s) \/ consumer_fails(s), NEW k \in Kinds
  PROVE  InOrder(k)'
<1>1. SockTypes /\ TypesInv /\ InOrder(k) /\ UNCHANGED <<raw, purged, timers>> /\ Table(k) \in Sockets
  BY TableSockets DEF OrderInv, TypesInv, TablesTypeOK, SockTypes, SocketEvent, consumer_fails, tableVars,
                      SocketOpens, SocketLost, SocketCloses, Consume
<1>2. CASE Table(k) # s
  <2>1. /\ wire'[Table(k)] = wire[Table(k)] /\ answers'[Table(k)] = answers[Table(k)]
        /\ readyState'[Table(k)] = readyState[Table(k)]
    BY <1>1, <1>2 DEF SockTypes, SocketsTypeOK, SocketEvent, consumer_fails, SocketOpens, SocketLost,
                      SocketCloses, Consume
  <2> QED BY <1>1, <2>1, OrderSame
<1>3. CASE Table(k) = s /\ SocketOpens(s)
  <2>1. readyState'[s] = "open" /\ UNCHANGED <<wire, answers>> /\ readyState[s] = "connecting"
    BY <1>1, <1>3 DEF SocketOpens, SockTypes, SocketsTypeOK
  <2>2. raw[k] = {} /\ wire[s] = <<>> /\ answers[s] = <<>> /\ ~Deletes(timers, k)
    BY <1>1, <1>3, <2>1 DEF InOrder
  <2>3. Followed(timers, k) /\ Covered(wire[s]) /\ Clean(answers[s], raw[k], purged)
    BY <2>2 DEF Followed, Deletes, Covered, Clean
  <2> QED BY <1>1, <1>3, <2>1, <2>3 DEF InOrder
<1>4. CASE Table(k) = s /\ SocketCloses(s)
  <2>1. readyState'[s] = "closed"
    BY <1>1, <1>4 DEF SocketCloses, SockTypes, SocketsTypeOK
  <2> QED BY <1>4, <2>1 DEF InOrder, Alive
<1>5. CASE Table(k) = s /\ consumer_fails(s)
  <2>1. /\ answers'[s] = answers[s] \o <<CloseMark>> /\ answers[s] \in Seq(Message)
        /\ readyState[s] = "open" /\ UNCHANGED readyState
    BY <1>1, <1>5 DEF consumer_fails, Consume, Alive, SockTypes, SocketsTypeOK
  <2>2. Len(answers'[s]) \in DOMAIN answers'[s] /\ answers'[s][Len(answers'[s])] = CloseMark
    <3>1. CloseMark \in Message
      BY DEF Message
    <3> QED BY <2>1, <3>1
  <2> QED BY <1>5, <2>1, <2>2 DEF InOrder, Alive
<1> QED BY <1>2, <1>3, <1>4, <1>5 DEF SocketEvent, SocketLost

\* The page handles a message of table c.
LEMMA OrderHandle ==
  ASSUME OrderInv, NEW c \in Kinds, ListFiles(c) \/ DeleteFiles(Table(c)), NEW k \in Kinds
  PROVE  InOrder(k)'
<1> DEFINE D == Table(c)
           a == answers[D]
<1>1. SockTypes /\ TypesInv /\ InOrder(k) /\ UNCHANGED <<timers, wire, readyState, purged>> /\ D \in Sockets
      /\ raw \in [Kinds -> SUBSET Files]
  BY TableSockets DEF OrderInv, TypesInv, TablesTypeOK, SockTypes, ListFiles, DeleteFiles, handleEvent
<1>2. PICK e \in {"list", "delete", "none"} : /\ handleEvent(D, e)
                                              /\ IF e = "list" THEN ListFiles(c) ELSE DeleteFiles(D)
  BY DEF ListFiles, DeleteFiles
<1>3. /\ a \in Seq(Message) /\ a # <<>> /\ Head(a).event = e
      /\ answers' = [answers EXCEPT ![D] = Tail(a)]
  BY <1>1, <1>2 DEF handleEvent, SockTypes, SocketsTypeOK
<1>4. CASE k # c
  <2>1. answers'[Table(k)] = answers[Table(k)]
    BY <1>1, <1>3, <1>4, TableSockets DEF SockTypes, SocketsTypeOK
  <2>2. raw'[k] = raw[k]
    BY <1>1, <1>2, <1>4 DEF ListFiles, DeleteFiles, tableVars
  <2> QED BY <1>1, <2>1, <2>2, OrderSame
<1>5. CASE k = c
  <2>1. answers'[D] = Tail(a) /\ readyState[D] # "connecting"
    BY <1>1, <1>3, <1>5 DEF SockTypes, SocketsTypeOK, InOrder
  <2>2. Alive(D)' => Alive(D)
    BY <1>1, <1>2, HandledAlive DEF SockTypes
  <2>3. IF Head(a).event = "list" THEN raw'[c] = Head(a).files ELSE raw'[c] = raw[c]
    BY <1>1, <1>2, <1>3 DEF ListFiles, DeleteFiles, tableVars
  <2>4. Clean(a, raw[c], purged) => Clean(Tail(a), raw'[c], purged)
    <3> HIDE DEF a, D
    <3> QED BY <1>3, <2>3, TakenMessage
  <2> QED BY <1>1, <1>5, <2>1, <2>2, <2>4 DEF InOrder
<1> QED BY <1>4, <1>5

\* The requests of the delete button keep the order: each deletion has its list
\* behind it.
LEMMA OrderButton ==
  ASSUME OrderInv, NEW confirmed, DeleteButton(confirmed), NEW k \in Kinds
  PROVE  InOrder(k)'
<1> DEFINE D == Table(k)
<1>1. /\ SockTypes /\ TypesInv /\ InOrder(k) /\ timers \in Seq(Timer)
      /\ UNCHANGED <<readyState, wire, answers, raw, purged>> /\ confirmed \subseteq Asked
  BY ButtonCases DEF OrderInv, TypesInv, TablesTypeOK, SockTypes, SocketsTypeOK, Timer, TimerOf
<1>2. CASE sendRequest(<<>>)
  <2>1. timers' = timers
    BY <1>1, <1>2 DEF sendRequest
  <2> QED BY <1>1, <2>1, OrderSame
<1>3. CASE sendRequest(Requests("wibl", confirmed) \o Requests("geojson", confirmed))
  <2>1. \A j \in Kinds : Requests(j, confirmed) \in Seq(Timer)
    <3>1. ASSUME NEW j \in Kinds PROVE Requests(j, confirmed) \in Seq(Timer)
      <4>1. PICK r \in Seq(KindTimer) : r = Requests(j, confirmed)
        BY <1>1, KindButton
      <4>2. KindTimer \subseteq Timer
        BY DEF KindTimer
      <4>3. r \in Seq(Timer)
        BY <4>2
      <4> QED BY <4>1, <4>3
    <3> QED BY <3>1
  <2>2. PICK a \in Seq(Timer) : a = Requests("wibl", confirmed)
    BY <2>1 DEF Kinds
  <2>3. PICK b \in Seq(Timer) : b = Requests("geojson", confirmed)
    BY <2>1 DEF Kinds
  <2>4. PICK rs \in Seq(Timer) : rs = a \o b
    <3>1. a \o b \in Seq(Timer)
      OBVIOUS
    <3> QED BY <3>1
  <2>5. timers' = timers \o rs
    BY <1>3, <2>2, <2>3, <2>4 DEF sendRequest
  <2>6. ASSUME NEW j \in Kinds
        PROVE  LET r == Requests(j, confirmed) IN
               /\ Followed(r, k)
               /\ Lists(r, k) <=> j = k /\ j \in confirmed
               /\ Deletes(r, k) <=> j = k /\ j \in confirmed
    <3>1. CASE j \notin confirmed
      BY <3>1 DEF Requests, Followed, Lists, Deletes
    <3>2. CASE j \in confirmed
      <4> DEFINE r == Requests(j, confirmed)
                 d == DeleteRequest(j, checked[j])
                 l == ListRequest(j)
      <4>1. r = <<d, l>>
        BY <3>2 DEF Requests
      <4>2. /\ d.sock = Table(j) /\ d.req.type = "delete"
            /\ l.sock = Table(j) /\ l.req.type = "list"
            /\ (Table(j) = Table(k) <=> j = k)
        BY TableSockets DEF DeleteRequest, ListRequest
      <4> HIDE DEF r, d, l
      <4>3. DOMAIN r = {1, 2} /\ r[1] = d /\ r[2] = l
        BY <4>1
      <4>4. /\ Followed(r, k)
            /\ Lists(r, k) <=> j = k
            /\ Deletes(r, k) <=> j = k
        BY <4>2, <4>3 DEF Followed, Lists, Deletes
      <4> QED BY <3>2, <4>4 DEF r
    <3> QED BY <3>1, <3>2
  <2>7. /\ Followed(a, k) /\ Followed(b, k)
        /\ Lists(a, k) \/ Lists(b, k) <=> k \in confirmed
        /\ Deletes(a, k) \/ Deletes(b, k) <=> k \in confirmed
    BY <2>2, <2>3, <2>6 DEF Kinds
  <2>8. /\ Followed(rs, k)
        /\ Lists(rs, k) <=> k \in confirmed
        /\ Deletes(rs, k) <=> k \in confirmed
    BY <2>4, <2>7, JoinedTimers
  <2>9. /\ Followed(timers, k) => Followed(timers', k)
        /\ Lists(timers', k) <=> Lists(timers, k) \/ k \in confirmed
        /\ Deletes(timers', k) <=> Deletes(timers, k) \/ k \in confirmed
    BY <1>1, <2>5, <2>8, JoinedTimers
  <2>10. readyState[D] = "connecting" => k \notin confirmed
    <3>1. readyState[D] = "connecting" => checked[k] = {}
      BY <1>1 DEF InOrder, TypesInv, TablesTypeOK
    <3> QED BY <1>1, <3>1 DEF Asked
  <2>11. Alive(D)' <=> Alive(D)
    BY <1>1 DEF Alive
  <2> QED BY <1>1, <2>9, <2>10, <2>11 DEF InOrder
<1> QED BY <1>2, <1>3, ButtonCases

\* Every step keeps the requests for lists behind the deletions before them.
LEMMA OrderStep == OrderInv /\ [Next]_vars => OrderInv'
<1> SUFFICES ASSUME OrderInv, [Next]_vars
             PROVE  (purged \cap store)' = {} /\ \A k \in Kinds : InOrder(k)'
  BY TypesStep DEF OrderInv
<1>1. TypesInv /\ purged \cap store = {} /\ \A k \in Kinds : InOrder(k)
  BY DEF OrderInv
<1>2. ASSUME UNCHANGED <<sockVars, raw, purged, store>> PROVE \A k \in Kinds : InOrder(k)'
  BY <1>1, <1>2, OrderSame DEF sockVars
<1>3. CASE UserActs
  <2>1. UNCHANGED <<store, purged>>
    BY <1>3 DEF UserActs, Tick, clearSelected, clearAll, filterTable, DeleteButton, DownloadButton
  <2>2. CASE \E confirmed \in SUBSET Kinds : DeleteButton(confirmed)
    BY <1>1, <2>1, <2>2, OrderButton
  <2>3. CASE UNCHANGED <<sockVars, raw>>
    BY <1>1, <1>2, <2>1, <2>3
  <2> QED BY <1>3, <2>2, <2>3 DEF UserActs, Tick, clearSelected, clearAll, filterTable, DownloadButton
<1>4. CASE TimerFires
  BY <1>1, <1>4, OrderTimer DEF TimerFires
<1>5. CASE PageHandles
  <2>1. UNCHANGED <<store, purged>>
    BY <1>5 DEF PageHandles, ListFiles, DeleteFiles
  <2> QED BY <1>1, <1>5, <2>1, OrderHandle, TableSockets DEF PageHandles
<1>6. CASE \E k \in Kinds : Serves(k)
  BY <1>6, OrderServes
<1>7. CASE \E s \in Sockets : SocketEvent(s) \/ consumer_fails(s)
  <2>1. UNCHANGED <<store, purged>>
    BY <1>7 DEF SocketEvent, consumer_fails
  <2> QED BY <1>1, <1>7, <2>1, OrderSocket
<1>8. CASE \E f \in External : RecordAdded(f) \/ RecordRemoved(f)
  <2>1. UNCHANGED <<sockVars, raw>> /\ purged' \subseteq purged /\ (purged \cap store)' = {}
    BY <1>1, <1>8 DEF RecordAdded, RecordRemoved, tableVars
  <2> QED BY <1>1, <2>1, OrderSame DEF sockVars
<1>9. CASE UNCHANGED vars
  BY <1>1, <1>2, <1>9 DEF vars, tableVars
<1> QED BY <1>3, <1>4, <1>5, <1>6, <1>7, <1>8, <1>9 DEF Next

\* Once the messages of a table are handled, it lists no file that this page has
\* deleted: the list that is asked for after a deletion stays behind it in the
\* timers, on the wire and in the consumer, and is handled after any list made
\* before it.
THEOREM DeletedRowsCorrect == Spec => []DeletedRowsGo
<1>1. Spec => []OrderInv
  BY OrderInit, OrderStep, PTL DEF Spec
<1> QED BY <1>1, OrderShown, PTL
=============================================================================
