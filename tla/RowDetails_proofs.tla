-------------------------- MODULE RowDetails_proofs --------------------------
(***************************************************************************)
(* Proofs about RowDetails: what its run checks with three files and two   *)
(* messages under way holds for any files and any number of messages.      *)
(***************************************************************************)
EXTENDS RowDetails, SocketManager_proofs

Timer == TimerOf(Request)

-----------------------------------------------------------------------------
(* Names of sockets and requests.                                          *)

LEMMA DetailSockets ==
  /\ \A k \in Kinds : Detail(k) \in Sockets /\ Other(k) \in Kinds /\ Other(k) # k
  /\ \A s \in Sockets : \E k \in Kinds : s = Detail(k)
  /\ \A k, j \in Kinds : Detail(k) = Detail(j) => k = j
BY DetailsAssumption DEF Detail, Kinds, Other

LEMMA RequestTypes ==
  ASSUME NEW k \in Kinds, NEW fs \in FileId
  PROVE  DetailRequest(k, fs) \in Timer
BY DetailSockets DEF DetailRequest, Timer, TimerOf, Request

\* A file that is linked to a click, and the rows of it that can be seen.
LEMMA LinkedFiles ==
  ASSUME NEW t \in Task, NEW V, V \subseteq Files,
         V \subseteq {<<Root(f), Other(t.kind)>> : f \in t.files}
  PROVE  V \in FileId
<1>1. CASE t.files = {}
  BY <1>1 DEF FileId
<1>2. CASE \E f \in Files : t.files = {f}
  <2>1. PICK f \in Files : t.files = {f}
    BY <1>2
  <2>2. V \subseteq {<<Root(f), Other(t.kind)>>}
    BY <2>1
  <2>3. V = {} \/ \E g \in Files : V = {g}
    BY <2>2
  <2> QED BY <2>3 DEF FileId
<1> QED BY <1>1, <1>2 DEF Task, FileId

LEMMA NotedFile ==
  ASSUME NEW k \in Kinds, NEW fs \in FileId
  PROVE  /\ Noted(k, fs) \in Files \cup {None}
         /\ Noted(k, fs) # None => readyState[Detail(k)] = "open" /\ fs = {Noted(k, fs)}
<1>1. CASE readyState[Detail(k)] = "open" /\ fs # {}
  <2>1. PICK g \in Files : fs = {g}
    BY <1>1 DEF FileId
  <2>2. (CHOOSE f \in Files : f \in fs) = g
    BY <2>1
  <2> QED BY <1>1, <2>1, <2>2 DEF Noted
<1>2. CASE ~(readyState[Detail(k)] = "open" /\ fs # {})
  BY <1>2 DEF Noted
<1> QED BY <1>1, <1>2
-----------------------------------------------------------------------------
(* Types.                                                                  *)

SockTypes == SocketsTypeOK(Request, Message)

LEMMA TypesInit == Init => DetailsTypeOK
<1> SUFFICES ASSUME Init PROVE DetailsTypeOK
  OBVIOUS
<1>1. ViewTypeOK
  BY DEF Init, ViewInit, ViewTypeOK, OfKind, Kinds
<1>2. SockTypes
  BY DEF Init, SocketsInit, SockTypes, SocketsTypeOK
<1>3. /\ selected \in [Kinds -> SUBSET Files] /\ tasks \in Seq(Task)
      /\ shown \in [Kinds -> Files \cup {None}] /\ asked \in [Kinds -> Files \cup {None}]
  BY DEF Init
<1> QED BY <1>1, <1>2, <1>3 DEF Init, DetailsTypeOK, SockTypes

\* The steps of the file tables keep their types.
LEMMA ViewTypes ==
  ASSUME ViewTypeOK, NEW k \in Kinds, Rebuilt(k) \/ Filtered \/ Unhidden
  PROVE  ViewTypeOK'
<1>1. CASE Rebuilt(k)
  <2>1. PICK fs \in Lists : rows' = [rows EXCEPT ![k] = fs \cap OfKind(k)]
    BY <1>1 DEF Rebuilt
  <2>2. fs \subseteq Files
    BY ListsAssumption
  <2> QED BY <1>1, <2>1, <2>2 DEF Rebuilt, ViewTypeOK, OfKind, Kinds
<1>2. CASE Filtered
  BY <1>2 DEF Filtered, ViewTypeOK
<1>3. CASE Unhidden
  BY <1>3 DEF Unhidden, ViewTypeOK
<1> QED BY <1>1, <1>2, <1>3
-----------------------------------------------------------------------------
(* The second half of a click.                                             *)

\* The three outcomes of SelectTimeout, for the click t: the rows V of linked
\* files are seen, or none is, or a linked row is gone.
Seen(t, V) ==
    /\ sendRequest(<<DetailRequest(Other(t.kind), V), DetailRequest(t.kind, t.files)>>)
    /\ asked' = [asked EXCEPT ![Other(t.kind)] = Noted(Other(t.kind), V),
                              ![t.kind] = Noted(t.kind, t.files)]
    /\ UNCHANGED shown

Unseen(t, clears) ==
    /\ sendRequest(<<DetailRequest(t.kind, t.files)>>)
    /\ shown' = [shown EXCEPT ![Other(t.kind)] = IF clears THEN None ELSE @]
    /\ asked' = [asked EXCEPT ![Other(t.kind)] = IF clears THEN None ELSE @,
                              ![t.kind] = Noted(t.kind, t.files)]

Gone == UNCHANGED <<timers, shown, asked>>

LEMMA TimeoutCases ==
  ASSUME DetailsTypeOK, SelectTimeout
  PROVE  \E t \in Task, V \in FileId :
            /\ V \subseteq rows[Other(t.kind)] \ hidden
            /\ tasks' \in Seq(Task)
            /\ UNCHANGED <<readyState, wire, answers, linkFlag>>
            /\ viewVars' = viewVars \/ Unhidden
            /\ \E cleared \in {selected, [selected EXCEPT ![Other(t.kind)] = {}]} :
                    selected' = [cleared EXCEPT ![Other(t.kind)] = @ \cup V]
            /\ \/ V # {} /\ Seen(t, V)
               \/ \E clears \in BOOLEAN : Unseen(t, clears)
               \/ Gone
<1> DEFINE t == Head(tasks)
           o == Other(t.kind)
           linked == IF t.linked THEN {<<Root(f), o>> : f \in t.files} ELSE {}
           V == (linked \cap rows[o]) \ hidden
           cleared == IF linkFlag THEN [selected EXCEPT ![o] = {}] ELSE selected
<1>1. t \in Task /\ tasks' \in Seq(Task)
  BY DEF DetailsTypeOK, SelectTimeout
<1>2. o \in Kinds
  BY <1>1, DetailSockets DEF Task
<1>3. V \in FileId /\ {} \in FileId
  <2>1. rows[o] \subseteq Files
    BY <1>2 DEF DetailsTypeOK, ViewTypeOK
  <2>2. V \subseteq {<<Root(f), o>> : f \in t.files}
    BY DEF FileId
  <2> HIDE DEF V
  <2>3. V \subseteq Files
    BY <2>1 DEF V
  <2> QED BY <1>1, <2>2, <2>3, LinkedFiles DEF FileId
<1>4. UNCHANGED <<readyState, wire, answers, linkFlag>> /\ (viewVars' = viewVars \/ Unhidden)
  BY DEF SelectTimeout, Unhide
<1>5. cleared \in {selected, [selected EXCEPT ![o] = {}]} /\ cleared \in [Kinds -> SUBSET Files]
  BY <1>2 DEF DetailsTypeOK
<1>6. CASE V # {} /\ selected' = [cleared EXCEPT ![o] = @ \cup V] /\ Seen(t, V)
  <2> HIDE DEF t, V, cleared
  <2>1. V \subseteq rows[o] \ hidden
    BY DEF V
  <2> QED BY <1>1, <1>3, <1>4, <1>5, <1>6, <2>1
<1>7. CASE selected' = cleared /\ (Unseen(t, t.linked \/ linkFlag) \/ Gone)
  <2>1. (t.linked \/ linkFlag) \in BOOLEAN
    OBVIOUS
  <2> HIDE DEF t, cleared
  <2>2. selected' = [cleared EXCEPT ![o] = @ \cup {}]
    BY <1>2, <1>5, <1>7
  <2>3. \E clears \in BOOLEAN : Unseen(t, clears) \/ Gone
    BY <1>7, <2>1
  <2> HIDE DEF o
  <2>4. {} \in FileId /\ {} \subseteq rows[Other(t.kind)] \ hidden
    BY <1>3
  <2>5. \E c \in {selected, [selected EXCEPT ![Other(t.kind)] = {}]} :
            selected' = [c EXCEPT ![Other(t.kind)] = @ \cup {}]
    BY <1>5, <2>2 DEF o
  <2> QED BY <1>1, <1>4, <2>3, <2>4, <2>5
<1>8. \/ V # {} /\ selected' = [cleared EXCEPT ![o] = @ \cup V] /\ Seen(t, V)
      \/ selected' = cleared /\ (Unseen(t, t.linked \/ linkFlag) \/ Gone)
  BY DEF SelectTimeout, Seen, Unseen, Gone
<1> QED BY <1>6, <1>7, <1>8
-----------------------------------------------------------------------------
(* Types, and that no row is selected that is gone or hidden.              *)

SelectInv == DetailsTypeOK /\ SelectionIsVisible

LEMMA SelectInit == Init => SelectInv
BY TypesInit DEF SelectInv, SelectionIsVisible, Init, ViewInit, DetailsTypeOK, ViewTypeOK, Kinds

\* The table and its rows change.
LEMMA SelectTables ==
  ASSUME SelectInv, NEW k \in Kinds, TableRebuilt(k) \/ FilterApplied
  PROVE  SelectInv'
<1>1. DetailsTypeOK /\ SelectionIsVisible
  BY DEF SelectInv
<1>2. SocketsTypeOK(Request, Message)'
  BY <1>1 DEF DetailsTypeOK, SocketsTypeOK, TableRebuilt, FilterApplied, sockVars
<1>3. CASE TableRebuilt(k)
  <2>1. ViewTypeOK'
    BY <1>1, <1>3, ViewTypes DEF DetailsTypeOK, TableRebuilt
  <2>2. DetailsTypeOK'
    BY <1>1, <1>2, <1>3, <2>1 DEF DetailsTypeOK, TableRebuilt
  <2>3. \A j \in Kinds : selected'[j] \subseteq rows'[j]
    BY <1>1, <1>3 DEF SelectionIsVisible, DetailsTypeOK, ViewTypeOK, TableRebuilt, Rebuilt
  <2>4. selected'["wibl"] \cap hidden' = {}
    BY <1>1, <1>3 DEF SelectionIsVisible, DetailsTypeOK, ViewTypeOK, TableRebuilt, Rebuilt, Kinds
  <2> QED BY <2>2, <2>3, <2>4 DEF SelectInv, SelectionIsVisible
<1>4. CASE FilterApplied
  <2>1. ViewTypeOK'
    BY <1>1, <1>4, ViewTypes DEF DetailsTypeOK, FilterApplied
  <2>2. DetailsTypeOK'
    BY <1>1, <1>2, <1>4, <2>1 DEF DetailsTypeOK, FilterApplied
  <2>3. \A j \in Kinds : selected'[j] \subseteq rows'[j]
    BY <1>1, <1>4 DEF SelectionIsVisible, DetailsTypeOK, ViewTypeOK, FilterApplied, Filtered
  <2>4. selected'["wibl"] = {}
    BY <1>1, <1>4 DEF DetailsTypeOK, FilterApplied, Kinds
  <2> QED BY <2>2, <2>3, <2>4 DEF SelectInv, SelectionIsVisible
<1> QED BY <1>3, <1>4

\* A message goes one step further.
LEMMA SelectMessages ==
  ASSUME SelectInv, NEW k \in Kinds, NEW s \in Sockets,
         \/ send_details(k) \/ listFileDetails(k) \/ ErrorDropped(k)
         \/ SocketEvent(s) \/ TimerFires
  PROVE  SelectInv'
<1>1. DetailsTypeOK /\ SockTypes /\ SelectionIsVisible
  BY DEF SelectInv, DetailsTypeOK, SockTypes
<1>2. Detail(k) \in Sockets
  BY DetailSockets
<1>3. UNCHANGED viewVars /\ UNCHANGED <<selected, linkFlag, tasks, asked>>
  BY DEF send_details, listFileDetails, ErrorDropped, SocketEvent, TimerFires, clickVars
<1>4. SockTypes' /\ shown' \in [Kinds -> Files \cup {None}]
  <2>1. CASE send_details(k)
    <3>1. wire[Detail(k)] # <<>> /\ Head(wire[Detail(k)]).files \subseteq Files
      <4>1. wire[Detail(k)] \in Seq(Request) /\ wire[Detail(k)] # <<>>
        BY <1>1, <1>2, <2>1 DEF send_details, Asks, SockTypes, SocketsTypeOK
      <4>2. Head(wire[Detail(k)]) \in Request
        BY <4>1
      <4> QED BY <4>1, <4>2 DEF Request, FileId
    <3>2. \E ms \in Seq(Message) : Consume(Detail(k), <<>>, ms)
      <4>1. /\ <<CloseMark>> \in Seq(Message) /\ <<NoEvent, CloseMark>> \in Seq(Message)
            /\ \A f \in Files : <<[event |-> "details", file |-> f]>> \in Seq(Message)
        BY DEF Message
      <4> QED BY <2>1, <3>1, <4>1 DEF send_details
    <3>3. SockTypes'
      <4>1. <<>> \in Seq(Request)
        OBVIOUS
      <4> QED BY <1>1, <1>2, <3>1, <3>2, <4>1, ConsumeTypes DEF SockTypes
    <3> QED BY <1>1, <2>1, <3>3 DEF send_details, clickVars, DetailsTypeOK
  <2>2. CASE listFileDetails(k)
    <3>1. SockTypes' /\ Head(answers[Detail(k)]) \in Message
      BY <1>1, <1>2, <2>2, HandleTypes DEF SockTypes, listFileDetails
    <3>2. Head(answers[Detail(k)]).event = "details"
      BY <2>2 DEF listFileDetails, handleEvent
    <3>3. Head(answers[Detail(k)]).file \in Files
      BY <3>1, <3>2 DEF Message, NoEvent, CloseMark
    <3> QED BY <1>1, <2>2, <3>1, <3>3 DEF listFileDetails, DetailsTypeOK
  <2>3. CASE ErrorDropped(k)
    BY <1>1, <1>2, <2>3, HandleTypes DEF SockTypes, ErrorDropped, clickVars, DetailsTypeOK
  <2>4. CASE SocketEvent(s)
    BY <1>1, <2>4, SocketTypes DEF SockTypes, SocketEvent, SocketLost, clickVars, DetailsTypeOK
  <2>5. CASE TimerFires
    BY <1>1, <2>5, TimerTypes DEF SockTypes, TimerFires, clickVars, DetailsTypeOK
  <2> QED BY <2>1, <2>2, <2>3, <2>4, <2>5
<1>5. DetailsTypeOK'
  BY <1>1, <1>3, <1>4 DEF DetailsTypeOK, SockTypes, ViewTypeOK, viewVars
<1>6. SelectionIsVisible'
  BY <1>1, <1>3 DEF SelectionIsVisible, viewVars
<1> QED BY <1>5, <1>6 DEF SelectInv

\* The user clicks.
LEMMA SelectClicks ==
  ASSUME SelectInv, UserActs
  PROVE  SelectInv'
<1>1. DetailsTypeOK /\ SelectionIsVisible
  BY DEF SelectInv
<1>2. SocketsTypeOK(Request, Message)'
  BY <1>1 DEF DetailsTypeOK, SocketsTypeOK, UserActs, ClickRow, ClickHeader, ToggleLink, sockVars
<1>3. /\ ViewTypeOK'
      /\ UNCHANGED <<rows, hidden, shown, asked>>
  BY <1>1 DEF DetailsTypeOK, ViewTypeOK, UserActs, ClickRow, ClickHeader, ToggleLink, Unhide, Unhidden, viewVars
<1>4. /\ selected' \in [Kinds -> SUBSET Files] /\ tasks' \in Seq(Task) /\ linkFlag' \in BOOLEAN
      /\ SelectionIsVisible'
  <2>1. CASE \E k \in Kinds, f \in Files : ClickRow(k, f)
    <3> PICK k \in Kinds, f \in Files : ClickRow(k, f)
      BY <2>1
    <3>1. [kind |-> k, files |-> {f}, linked |-> linkFlag /\ Root(f) \in linked_files] \in Task
      BY DEF Task, FileId
    <3>2. tasks' \in Seq(Task) /\ selected' = [selected EXCEPT ![k] = {f}] /\ f \in rows[k] \ hidden
      BY <1>1, <3>1 DEF DetailsTypeOK, ClickRow
    <3>3. linkFlag' = linkFlag
      BY DEF ClickRow
    <3> QED BY <1>1, <1>3, <3>2, <3>3 DEF DetailsTypeOK, SelectionIsVisible, Kinds
  <2>2. CASE ClickHeader
    <3>1. [kind |-> "wibl", files |-> {}, linked |-> FALSE] \in Task
      BY DEF Task, FileId, Kinds
    <3>2. tasks' \in Seq(Task) /\ selected' = [selected EXCEPT !["wibl"] = {}] /\ linkFlag' = linkFlag
      BY <1>1, <2>2, <3>1 DEF DetailsTypeOK, ClickHeader
    <3> QED BY <1>1, <1>3, <3>2 DEF DetailsTypeOK, SelectionIsVisible, Kinds
  <2>3. CASE ToggleLink
    BY <1>1, <1>3, <2>3 DEF DetailsTypeOK, SelectionIsVisible, ToggleLink
  <2> QED BY <2>1, <2>2, <2>3 DEF UserActs
<1> QED BY <1>1, <1>2, <1>3, <1>4 DEF SelectInv, DetailsTypeOK

LEMMA SelectTimeoutStep ==
  ASSUME SelectInv, SelectTimeout
  PROVE  SelectInv'
<1>1. DetailsTypeOK /\ SockTypes /\ SelectionIsVisible
  BY DEF SelectInv, DetailsTypeOK, SockTypes
<1>2. PICK t \in Task, V \in FileId :
            /\ V \subseteq rows[Other(t.kind)] \ hidden
            /\ tasks' \in Seq(Task)
            /\ UNCHANGED <<readyState, wire, answers, linkFlag>>
            /\ viewVars' = viewVars \/ Unhidden
            /\ \E cleared \in {selected, [selected EXCEPT ![Other(t.kind)] = {}]} :
                    selected' = [cleared EXCEPT ![Other(t.kind)] = @ \cup V]
            /\ \/ V # {} /\ Seen(t, V)
               \/ \E clears \in BOOLEAN : Unseen(t, clears)
               \/ Gone
  BY <1>1, TimeoutCases
<1> DEFINE o == Other(t.kind)
           k == t.kind
<1>3. k \in Kinds /\ o \in Kinds /\ t.files \in FileId /\ V \subseteq Files
  BY <1>2, DetailSockets DEF Task, FileId
<1> HIDE DEF o, k
<1>4. /\ UNCHANGED <<rows, hidden>>
      /\ ViewTypeOK'
  BY <1>1, <1>2 DEF Unhidden, viewVars, ViewTypeOK, DetailsTypeOK
<1>5. selected' \in [Kinds -> SUBSET Files] /\ SelectionIsVisible'
  <2>1. PICK cleared \in {selected, [selected EXCEPT ![o] = {}]} :
            selected' = [cleared EXCEPT ![o] = @ \cup V]
    BY <1>2 DEF o
  <2>2. /\ cleared \in [Kinds -> SUBSET Files]
        /\ \A j \in Kinds : cleared[j] \subseteq selected[j]
    BY <1>1, <1>3 DEF DetailsTypeOK
  <2>3. V \subseteq rows[o] \ hidden
    BY <1>2 DEF o
  <2>4. selected' \in [Kinds -> SUBSET Files]
    BY <1>3, <2>1, <2>2
  <2>5. \A j \in Kinds : selected'[j] \subseteq cleared[j] \cup (IF j = o THEN V ELSE {})
    BY <1>3, <2>1, <2>2
  <2>6. \A j \in Kinds : selected'[j] \subseteq rows'[j]
    BY <1>1, <1>4, <2>2, <2>3, <2>5 DEF SelectionIsVisible
  <2>7. selected'["wibl"] \cap hidden' = {}
    BY <1>1, <1>4, <2>2, <2>3, <2>5 DEF SelectionIsVisible, Kinds
  <2> QED BY <2>4, <2>6, <2>7 DEF SelectionIsVisible
<1>6. SockTypes' /\ shown' \in [Kinds -> Files \cup {None}] /\ asked' \in [Kinds -> Files \cup {None}]
  <2>1. /\ Noted(o, V) \in Files \cup {None}
        /\ Noted(k, t.files) \in Files \cup {None}
    BY <1>3, NotedFile
  <2>2. DetailRequest(o, V) \in Timer /\ DetailRequest(k, t.files) \in Timer
    BY <1>3, RequestTypes
  <2>3. CASE Seen(t, V)
    <3>1. <<DetailRequest(o, V), DetailRequest(k, t.files)>> \in Seq(Timer)
      BY <2>2
    <3>2. SockTypes'
      BY <1>1, <1>2, <2>3, <3>1, SendTypes DEF SockTypes, Timer, Seen, o, k
    <3> QED BY <1>1, <1>3, <2>1, <2>3, <3>2 DEF Seen, DetailsTypeOK, o, k
  <2>4. CASE \E clears \in BOOLEAN : Unseen(t, clears)
    <3>1. PICK clears \in BOOLEAN : Unseen(t, clears)
      BY <2>4
    <3>2. <<DetailRequest(k, t.files)>> \in Seq(Timer)
      BY <2>2
    <3>3. SockTypes'
      BY <1>1, <1>2, <3>1, <3>2, SendTypes DEF SockTypes, Timer, Unseen, k
    <3> QED BY <1>1, <1>3, <2>1, <3>1, <3>3 DEF Unseen, DetailsTypeOK, o, k
  <2>5. CASE Gone
    BY <1>1, <1>2, <2>5 DEF Gone, DetailsTypeOK, SockTypes, SocketsTypeOK
  <2> QED BY <1>2, <2>3, <2>4, <2>5
<1>7. tasks' \in Seq(Task) /\ linkFlag' \in BOOLEAN
  BY <1>1, <1>2 DEF DetailsTypeOK
<1> QED BY <1>4, <1>5, <1>6, <1>7 DEF SelectInv, DetailsTypeOK, SockTypes

\* Every step of the page, its sockets and consumers keeps the selections right.
LEMMA SelectStep == SelectInv /\ [Next]_vars => SelectInv'
<1> SUFFICES ASSUME SelectInv, [Next]_vars PROVE SelectInv'
  OBVIOUS
<1>1. CASE UserActs
  BY <1>1, SelectClicks
<1>2. CASE SelectTimeout
  BY <1>2, SelectTimeoutStep
<1>3. CASE TimerFires \/ \E s \in Sockets : SocketEvent(s)
  BY <1>3, SelectMessages, DetailSockets DEF Kinds
<1>4. CASE FilterApplied \/ \E k \in Kinds : TableRebuilt(k)
  BY <1>4, SelectTables DEF Kinds
<1>5. CASE \E k \in Kinds : send_details(k) \/ listFileDetails(k) \/ ErrorDropped(k)
  BY <1>5, SelectMessages, DetailSockets
<1>6. CASE UNCHANGED vars
  BY <1>6 DEF vars, viewVars, sockVars, clickVars, SelectInv, DetailsTypeOK, ViewTypeOK,
              SocketsTypeOK, SelectionIsVisible
<1> QED BY <1>1, <1>2, <1>3, <1>4, <1>5, <1>6 DEF Next

\* Every variable of the page's row selection and of its detail sockets stays in
\* its range, whatever files there are and however many messages are under way.
THEOREM DetailsTypeCorrect == Spec => []DetailsTypeOK
<1>1. Spec => []SelectInv
  BY SelectInit, SelectStep, PTL DEF Spec
<1>2. SelectInv => DetailsTypeOK
  BY DEF SelectInv
<1> QED BY <1>1, <1>2, PTL

\* What is selected is a row of its table that the filter does not hide
\* (SelectionIsVisible): the second half of a click looks at the rows again, and
\* every change of the rows takes their selection away.  Nothing is said of the
\* table as a whole, which may be hidden.
THEOREM SelectionCorrect == Spec => []SelectionIsVisible
<1>1. Spec => []SelectInv
  BY SelectInit, SelectStep, PTL DEF Spec
<1>2. SelectInv => SelectionIsVisible
  BY DEF SelectInv
<1> QED BY <1>1, <1>2, PTL
-----------------------------------------------------------------------------
(* The file asked for last is the one shown in the end.                    *)

\* Timer i of ts belongs to detail table k.
Owns(ts, i, k) == ts[i].sock = Detail(k)
Owned(ts, k) == \E i \in DOMAIN ts : Owns(ts, i, k)

\* The last timer of table k in ts asks for file f.
LastTimer(ts, k, f) ==
    \E i \in DOMAIN ts :
        /\ Owns(ts, i, k) /\ ts[i].req.files = {f}
        /\ \A j \in DOMAIN ts : j > i => ~Owns(ts, j, k)

\* The request for f is the youngest thing on its way between page and table k:
\* in a timer, on the wire, as an answer, or in the table already.
Youngest(k, f) ==
    /\ Owned(timers, k) => LastTimer(timers, k, f)
    /\ ~Owned(timers, k) /\ wire[Detail(k)] # <<>> =>
            wire[Detail(k)][Len(wire[Detail(k)])].files = {f}
    /\ ~Owned(timers, k) /\ wire[Detail(k)] = <<>> /\ answers[Detail(k)] # <<>> =>
            LET m == answers[Detail(k)][Len(answers[Detail(k)])] IN m.event = "details" /\ m.file = f
    /\ ~Owned(timers, k) /\ wire[Detail(k)] = <<>> /\ answers[Detail(k)] = <<>> => shown[k] = f

Asked(k) == asked[k] # None =>
    /\ readyState[Detail(k)] # "connecting"
    /\ Alive(Detail(k)) => Youngest(k, asked[k])

AskedInv == SelectInv /\ \A k \in Kinds : Asked(k)

LEMMA AskedInit == Init => AskedInv
BY SelectInit DEF AskedInv, Asked, Init

\* It is the property that the run checks.
LEMMA AskedShown == AskedInv => LastAskedIsShown
<1> SUFFICES ASSUME AskedInv, NEW k \in Kinds, Quiet(k), asked[k] # None
             PROVE  shown[k] = asked[k]
  BY DEF LastAskedIsShown
<1>1. Detail(k) \in Sockets /\ wire[Detail(k)] \in Seq(Request) /\ answers[Detail(k)] \in Seq(Message)
  BY DetailSockets DEF AskedInv, SelectInv, DetailsTypeOK, SocketsTypeOK
<1>2. wire[Detail(k)] = <<>> /\ answers[Detail(k)] = <<>>
  <2> DEFINE w == wire[Detail(k)]
             a == answers[Detail(k)]
  <2>1. Len(w) + Len(a) = 0
    BY DEF Quiet, UnderWay
  <2> HIDE DEF w, a
  <2>2. w \in Seq(Request) /\ a \in Seq(Message)
    BY <1>1 DEF w, a
  <2>3. Len(w) \in Nat /\ Len(a) \in Nat
    BY <2>2
  <2>4. Len(w) = 0 /\ Len(a) = 0
    BY <2>1, <2>3
  <2>5. w = <<>> /\ a = <<>>
    BY <2>2, <2>4
  <2> QED BY <2>5 DEF w, a
<1> QED BY <1>2 DEF AskedInv, Asked, Youngest, Quiet, Owned, Owns

\* Nothing that concerns table k happens.
LEMMA AskedSame ==
  ASSUME NEW k \in Kinds, Asked(k), UNCHANGED timers, shown'[k] = shown[k], asked'[k] = asked[k],
         wire'[Detail(k)] = wire[Detail(k)], answers'[Detail(k)] = answers[Detail(k)],
         readyState'[Detail(k)] = readyState[Detail(k)]
  PROVE  Asked(k)'
BY DEF Asked, Alive, Youngest, Owned, Owns, LastTimer, Detail

\* Timers are appended: the last of a table is that of the appended ones, if it
\* has one among them, and otherwise the last that it had.
LEMMA SentTimers ==
  ASSUME NEW ts \in Seq(Timer), NEW rs \in Seq(Timer), NEW k \in Kinds, NEW f
  PROVE  /\ LastTimer(rs, k, f) => LastTimer(ts \o rs, k, f)
         /\ ~Owned(rs, k) /\ LastTimer(ts, k, f) => LastTimer(ts \o rs, k, f)
         /\ Owned(ts \o rs, k) => Owned(ts, k) \/ Owned(rs, k)
<1> DEFINE all == ts \o rs
<1>1. /\ Len(all) = Len(ts) + Len(rs)
      /\ DOMAIN ts = 1..Len(ts) /\ DOMAIN rs = 1..Len(rs) /\ DOMAIN all = 1..(Len(ts) + Len(rs))
      /\ \A i \in 1..(Len(ts) + Len(rs)) : all[i] = IF i <= Len(ts) THEN ts[i] ELSE rs[i - Len(ts)]
      /\ Len(ts) \in Nat /\ Len(rs) \in Nat
  OBVIOUS
<1> HIDE DEF all
<1>2. ASSUME LastTimer(rs, k, f) PROVE LastTimer(all, k, f)
  <2>1. PICK i \in DOMAIN rs : /\ Owns(rs, i, k) /\ rs[i].req.files = {f}
                               /\ \A j \in DOMAIN rs : j > i => ~Owns(rs, j, k)
    BY <1>2 DEF LastTimer
  <2>2. Len(ts) + i \in DOMAIN all /\ all[Len(ts) + i] = rs[i]
    BY <1>1
  <2>3. ASSUME NEW j \in DOMAIN all, j > Len(ts) + i PROVE ~Owns(all, j, k)
    <3>1. j - Len(ts) \in DOMAIN rs /\ j - Len(ts) > i /\ all[j] = rs[j - Len(ts)]
      BY <1>1, <2>3
    <3> QED BY <2>1, <3>1 DEF Owns
  <2> QED BY <2>1, <2>2, <2>3 DEF LastTimer, Owns
<1>3. ASSUME ~Owned(rs, k), LastTimer(ts, k, f) PROVE LastTimer(all, k, f)
  <2>1. PICK i \in DOMAIN ts : /\ Owns(ts, i, k) /\ ts[i].req.files = {f}
                               /\ \A j \in DOMAIN ts : j > i => ~Owns(ts, j, k)
    BY <1>3 DEF LastTimer
  <2>2. i \in DOMAIN all /\ all[i] = ts[i]
    BY <1>1
  <2>3. ASSUME NEW j \in DOMAIN all, j > i PROVE ~Owns(all, j, k)
    <3>1. CASE j <= Len(ts)
      BY <1>1, <2>1, <2>3, <3>1 DEF Owns
    <3>2. CASE j > Len(ts)
      <4>1. j - Len(ts) \in DOMAIN rs /\ all[j] = rs[j - Len(ts)]
        BY <1>1, <3>2
      <4> QED BY <1>3, <4>1 DEF Owned, Owns
    <3> QED BY <1>1, <3>1, <3>2
  <2> QED BY <2>1, <2>2, <2>3 DEF LastTimer, Owns
<1>4. ASSUME Owned(all, k) PROVE Owned(ts, k) \/ Owned(rs, k)
  <2>1. PICK i \in DOMAIN all : Owns(all, i, k)
    BY <1>4 DEF Owned
  <2>2. CASE i <= Len(ts)
    BY <1>1, <2>1, <2>2 DEF Owned, Owns
  <2>3. CASE i > Len(ts)
    <3>1. i - Len(ts) \in DOMAIN rs /\ all[i] = rs[i - Len(ts)]
      BY <1>1, <2>3
    <3> QED BY <2>1, <3>1 DEF Owned, Owns
  <2> QED BY <1>1, <2>2, <2>3
<1> QED BY <1>2, <1>3, <1>4 DEF all

\* The first timer is taken out.
LEMMA TakenTimer ==
  ASSUME NEW ts \in Seq(Timer), ts # <<>>, NEW k \in Kinds, NEW f, LastTimer(ts, k, f)
  PROVE  /\ Owned(Tail(ts), k) => LastTimer(Tail(ts), k, f)
         /\ ~Owned(Tail(ts), k) => Owns(ts, 1, k) /\ Head(ts).req.files = {f}
<1> DEFINE tl == Tail(ts)
<1>1. /\ DOMAIN ts = 1..Len(ts) /\ Len(ts) \in Nat /\ Len(ts) > 0 /\ DOMAIN tl = 1..(Len(ts) - 1)
      /\ \A i \in 1..(Len(ts) - 1) : tl[i] = ts[i + 1]
      /\ Head(ts) = ts[1]
  OBVIOUS
<1> HIDE DEF tl
<1>2. PICK i \in DOMAIN ts : /\ Owns(ts, i, k) /\ ts[i].req.files = {f}
                             /\ \A j \in DOMAIN ts : j > i => ~Owns(ts, j, k)
  BY DEF LastTimer
<1>3. CASE i = 1
  <2>1. ~Owned(tl, k)
    <3> SUFFICES ASSUME NEW j \in DOMAIN tl, Owns(tl, j, k) PROVE FALSE
      BY DEF Owned
    <3>1. j + 1 \in DOMAIN ts /\ j + 1 > i /\ tl[j] = ts[j + 1]
      BY <1>1, <1>3
    <3> QED BY <1>2, <3>1 DEF Owns
  <2> QED BY <1>1, <1>2, <1>3, <2>1 DEF tl
<1>4. CASE i > 1
  <2>1. i - 1 \in DOMAIN tl /\ tl[i - 1] = ts[i]
    BY <1>1, <1>4
  <2>2. ASSUME NEW j \in DOMAIN tl, j > i - 1 PROVE ~Owns(tl, j, k)
    <3>1. j + 1 \in DOMAIN ts /\ j + 1 > i /\ tl[j] = ts[j + 1]
      BY <1>1, <2>2
    <3> QED BY <1>2, <3>1 DEF Owns
  <2>3. LastTimer(tl, k, f) /\ Owned(tl, k)
    BY <1>2, <2>1, <2>2 DEF LastTimer, Owned, Owns
  <2> QED BY <2>3 DEF tl
<1> QED BY <1>1, <1>3, <1>4

\* A timer fires: it is written, if its socket is open, or goes to the end.
LEMMA AskedTimer ==
  ASSUME AskedInv, TimerFires, NEW k \in Kinds
  PROVE  Asked(k)'
<1> DEFINE t == Head(timers)
           D == Detail(k)
<1>1. SockTypes /\ Asked(k) /\ doSendRequest /\ UNCHANGED <<shown, asked>>
  BY DEF AskedInv, SelectInv, DetailsTypeOK, SockTypes, TimerFires, clickVars
<1>2. timers \in Seq(Timer) /\ timers # <<>> /\ D \in Sockets /\ wire \in [Sockets -> Seq(Request)]
  BY <1>1, DetailSockets DEF SockTypes, SocketsTypeOK, doSendRequest, Timer, TimerOf
<1>3. t \in Timer /\ Tail(timers) \in Seq(Timer) /\ t = timers[1]
  BY <1>2
<1>4. UNCHANGED <<readyState, answers>> /\ (Alive(D)' <=> Alive(D))
  BY <1>1 DEF doSendRequest, Alive
<1> SUFFICES ASSUME asked[k] # None, Alive(D) PROVE Youngest(k, asked[k])'
  BY <1>1, <1>4 DEF Asked
<1>5. readyState[D] = "open" /\ Youngest(k, asked[k])
  BY <1>1 DEF Asked, Alive
<1>6. CASE readyState[t.sock] = "open"
  <2>1. timers' = Tail(timers) /\ wire' = [wire EXCEPT ![t.sock] = Append(@, t.req)]
    BY <1>1, <1>6 DEF doSendRequest
  <2>2. CASE t.sock = D
    <3>1. Owned(timers, k)
      BY <1>2, <1>3, <2>2 DEF Owned, Owns
    <3>2. /\ Owned(Tail(timers), k) => LastTimer(Tail(timers), k, asked[k])
          /\ ~Owned(Tail(timers), k) => t.req.files = {asked[k]}
      BY <1>2, <1>5, <3>1, TakenTimer DEF Youngest
    <3>3. wire'[D] = Append(wire[D], t.req) /\ wire'[D] # <<>> /\ wire'[D][Len(wire'[D])] = t.req
      <4>1. wire[D] \in Seq(Request) /\ t.req \in Request
        BY <1>2, <1>3 DEF Timer, TimerOf
      <4> HIDE DEF t, D
      <4>2. wire'[D] = Append(wire[D], t.req)
        BY <1>2, <2>1, <2>2
      <4> QED BY <4>1, <4>2
    <3> QED BY <1>1, <1>4, <2>1, <3>2, <3>3 DEF Youngest
  <2>3. CASE t.sock # D
    <3>1. ~Owns(timers, 1, k)
      BY <1>3, <2>3 DEF Owns
    <3>2. Owned(timers, k) => Owned(Tail(timers), k) /\ LastTimer(Tail(timers), k, asked[k])
      BY <1>2, <1>5, <3>1, TakenTimer DEF Youngest
    <3>3. Owned(Tail(timers), k) => Owned(timers, k)
      <4>1. ASSUME NEW i \in DOMAIN Tail(timers), Owns(Tail(timers), i, k) PROVE Owned(timers, k)
        <5>1. i + 1 \in DOMAIN timers /\ Tail(timers)[i] = timers[i + 1]
          BY <1>2, <4>1
        <5> QED BY <4>1, <5>1 DEF Owned, Owns
      <4> QED BY <4>1 DEF Owned
    <3>4. wire'[D] = wire[D]
      BY <1>2, <2>1, <2>3
    <3> QED BY <1>1, <1>4, <1>5, <2>1, <3>2, <3>3, <3>4 DEF Youngest
  <2> QED BY <2>2, <2>3
<1>7. CASE readyState[t.sock] # "open"
  <2>1. timers' = Tail(timers) \o <<t>> /\ wire' = wire /\ t.sock # D
    <3>1. timers' = Append(Tail(timers), t) /\ wire' = wire
      BY <1>1, <1>7 DEF doSendRequest
    <3>2. t.sock # D
      BY <1>5, <1>7
    <3> HIDE DEF t, D
    <3>3. Append(Tail(timers), t) = Tail(timers) \o <<t>>
      BY <1>3
    <3> QED BY <3>1, <3>2, <3>3
  <2>2. <<t>> \in Seq(Timer) /\ ~Owned(<<t>>, k) /\ ~Owns(timers, 1, k)
    BY <1>3, <2>1 DEF Owned, Owns
  <2>3. Owned(timers, k) => Owned(Tail(timers), k) /\ LastTimer(Tail(timers), k, asked[k])
    BY <1>2, <1>5, <2>2, TakenTimer DEF Youngest
  <2>4. Owned(timers, k) => LastTimer(timers', k, asked[k])
    BY <1>3, <2>1, <2>2, <2>3, SentTimers
  <2>5. Owned(timers', k) => Owned(timers, k)
    <3>1. Owned(timers', k) => Owned(Tail(timers), k)
      BY <1>3, <2>1, <2>2, SentTimers
    <3>2. ASSUME NEW i \in DOMAIN Tail(timers), Owns(Tail(timers), i, k) PROVE Owned(timers, k)
      <4>1. i + 1 \in DOMAIN timers /\ Tail(timers)[i] = timers[i + 1]
        BY <1>2, <3>2
      <4> QED BY <3>2, <4>1 DEF Owned, Owns
    <3> QED BY <3>1, <3>2 DEF Owned
  <2>6. LastTimer(timers', k, asked[k]) => Owned(timers', k)
    BY DEF LastTimer, Owned
  <2> QED BY <1>1, <1>4, <1>5, <2>1, <2>4, <2>5, <2>6 DEF Youngest
<1> QED BY <1>6, <1>7

\* The consumer answers, or dies.
LEMMA AskedConsume ==
  ASSUME AskedInv, NEW c \in Kinds, send_details(c), NEW k \in Kinds
  PROVE  Asked(k)'
<1>1. SockTypes /\ Asked(k) /\ Asks(Detail(c), "details") /\ UNCHANGED <<shown, asked>>
  BY DEF AskedInv, SelectInv, DetailsTypeOK, SockTypes, send_details, clickVars
<1>2. /\ Detail(k) \in Sockets /\ Detail(c) \in Sockets /\ (Detail(k) = Detail(c) => k = c)
      /\ wire \in [Sockets -> Seq(Request)] /\ answers \in [Sockets -> Seq(Message)]
  BY <1>1, DetailSockets DEF SockTypes, SocketsTypeOK
<1>3. CASE k # c
  <2>1. UNCHANGED <<timers, readyState>> /\ wire'[Detail(k)] = wire[Detail(k)]
        /\ answers'[Detail(k)] = answers[Detail(k)]
    BY <1>2, <1>3 DEF send_details, Consume
  <2> QED BY <1>1, <2>1, AskedSame
<1>4. CASE k = c
  <2> DEFINE D == Detail(k)
             fs == Head(wire[D]).files
  <2>1. wire[D] \in Seq(Request) /\ wire[D] # <<>> /\ answers[D] \in Seq(Message) /\ Alive(D)
    BY <1>1, <1>2, <1>4 DEF Asks
  <2>2. UNCHANGED <<timers, readyState>> /\ wire'[D] = Tail(wire[D])
    <3>1. <<>> \o Tail(wire[D]) = Tail(wire[D])
      BY <2>1
    <3> QED BY <1>2, <1>4, <3>1 DEF send_details, Consume
  <2>3. CASE \/ answers'[D] = answers[D] \o <<CloseMark>>
             \/ answers'[D] = answers[D] \o <<NoEvent, CloseMark>>
    <3>1. /\ CloseMark \in Message /\ NoEvent \in Message
          /\ Len(answers'[D]) \in DOMAIN answers'[D] /\ answers'[D][Len(answers'[D])] = CloseMark
      BY <2>1, <2>3 DEF Message
    <3>2. ~Alive(D)'
      BY <3>1 DEF Alive
    <3> QED BY <1>1, <2>2, <3>2 DEF Asked
  <2>4. CASE \E f \in fs : answers'[D] = answers[D] \o <<[event |-> "details", file |-> f]>>
    <3>1. PICK f \in fs : answers'[D] = answers[D] \o <<[event |-> "details", file |-> f]>>
      BY <2>4
    <3> DEFINE msg == [event |-> "details", file |-> f]
    <3>2. /\ answers'[D] # <<>> /\ answers'[D][Len(answers'[D])] = msg
          /\ msg.event = "details" /\ msg.file = f
      <4> HIDE DEF D, fs, msg
      <4>1. answers[D] \in Seq(Message \cup {msg}) /\ <<msg>> \in Seq(Message \cup {msg})
        BY <2>1
      <4>2. answers'[D] = answers[D] \o <<msg>>
        BY <3>1 DEF msg
      <4> QED BY <4>1, <4>2 DEF msg
    <3> SUFFICES ASSUME asked[k] # None PROVE Youngest(k, asked[k])'
      BY <1>1, <2>2 DEF Asked
    <3>3. Youngest(k, asked[k])
      BY <1>1, <2>1 DEF Asked
    <3>4. CASE Tail(wire[D]) # <<>>
      <4>1. Tail(wire[D])[Len(Tail(wire[D]))] = wire[D][Len(wire[D])]
        <5> HIDE DEF D
        <5> QED BY <2>1, <3>4, LastOfTail
      <4> QED BY <1>1, <2>1, <2>2, <3>3, <3>4, <4>1 DEF Youngest, Owned, Owns, LastTimer
    <3>5. CASE Tail(wire[D]) = <<>>
      <4>1. wire[D][Len(wire[D])] = Head(wire[D])
        <5> HIDE DEF D, fs
        <5> QED BY <2>1, <3>5, LastOfTail
      <4>2. ~Owned(timers, k) => f = asked[k]
        BY <2>1, <3>1, <3>3, <4>1 DEF Youngest
      <4> QED BY <1>1, <2>2, <3>2, <3>3, <3>5, <4>2 DEF Youngest, Owned, Owns, LastTimer
    <3> QED BY <3>4, <3>5
  <2> QED BY <1>2, <1>4, <2>3, <2>4 DEF send_details, Consume
<1> QED BY <1>3, <1>4

\* A message is handled: the last one is the details that were asked for.
LEMMA AskedHandle ==
  ASSUME AskedInv, NEW c \in Kinds, listFileDetails(c) \/ ErrorDropped(c), NEW k \in Kinds
  PROVE  Asked(k)'
<1>1. SockTypes /\ Asked(k) /\ shown \in [Kinds -> Files \cup {None}] /\ asked' = asked
  BY DEF AskedInv, SelectInv, DetailsTypeOK, SockTypes, listFileDetails, ErrorDropped, clickVars
<1>2. /\ Detail(k) \in Sockets /\ Detail(c) \in Sockets /\ (Detail(k) = Detail(c) => k = c)
      /\ answers \in [Sockets -> Seq(Message)]
  BY <1>1, DetailSockets DEF SockTypes, SocketsTypeOK
<1>3. PICK e \in {"details", "none"} : handleEvent(Detail(c), e)
  BY DEF listFileDetails, ErrorDropped
<1>4. /\ UNCHANGED <<readyState, timers, wire>>
      /\ answers' = [answers EXCEPT ![Detail(c)] = Tail(answers[Detail(c)])]
  BY <1>3 DEF handleEvent
<1>5. CASE k # c
  <2>1. answers'[Detail(k)] = answers[Detail(k)]
    BY <1>2, <1>4, <1>5
  <2>2. shown'[k] = shown[k]
    BY <1>1, <1>5 DEF listFileDetails, ErrorDropped, clickVars
  <2> QED BY <1>1, <1>4, <2>1, <2>2, AskedSame
<1>6. CASE k = c
  <2> DEFINE D == Detail(k)
             a == answers[D]
  <2>1. a \in Seq(Message) /\ a # <<>> /\ answers'[D] = Tail(a) /\ Head(a).event = e
    BY <1>2, <1>3, <1>4, <1>6 DEF handleEvent
  <2>2. Alive(D)' => Alive(D)
    BY <1>1, <1>2, <1>3, <1>6, HandledAlive DEF SockTypes
  <2> SUFFICES ASSUME asked[k] # None, Alive(D) PROVE Youngest(k, asked[k])'
    BY <1>1, <1>4, <2>2 DEF Asked
  <2>3. Youngest(k, asked[k])
    BY <1>1 DEF Asked
  <2>4. CASE Tail(a) # <<>>
    <3>1. Tail(a)[Len(Tail(a))] = a[Len(a)]
      <4> HIDE DEF a
      <4> QED BY <2>1, <2>4, LastOfTail
    <3> QED BY <1>1, <1>4, <2>1, <2>3, <2>4, <3>1 DEF Youngest, Owned, Owns, LastTimer
  <2>5. CASE Tail(a) = <<>>
    <3>1. a[Len(a)] = Head(a)
      <4> HIDE DEF a
      <4> QED BY <2>1, <2>5, LastOfTail
    <3>2. ~Owned(timers, k) /\ wire[D] = <<>> => Head(a).event = "details" /\ Head(a).file = asked[k]
      BY <2>1, <2>3, <3>1 DEF Youngest
    <3>3. ~Owned(timers, k) /\ wire[D] = <<>> => shown'[k] = asked[k]
      <4>1. CASE listFileDetails(c)
        BY <1>1, <1>6, <3>2, <4>1 DEF listFileDetails
      <4>2. CASE ErrorDropped(c)
        BY <1>6, <3>2, <4>2 DEF ErrorDropped, handleEvent
      <4> QED BY <4>1, <4>2
    <3> QED BY <1>1, <1>4, <2>1, <2>3, <2>5, <3>3 DEF Youngest, Owned, Owns, LastTimer
  <2> QED BY <2>4, <2>5
<1> QED BY <1>5, <1>6

\* A socket opens, which is none that had been asked; or closes for good.
LEMMA AskedSocket ==
  ASSUME AskedInv, NEW s \in Sockets, SocketEvent(s), NEW k \in Kinds
  PROVE  Asked(k)'
<1>1. /\ Asked(k) /\ UNCHANGED <<timers, shown, asked>> /\ Detail(k) \in Sockets
      /\ readyState \in [Sockets -> {"connecting", "open", "closed"}]
      /\ wire \in [Sockets -> Seq(Request)] /\ answers \in [Sockets -> Seq(Message)]
      /\ SocketOpens(s) \/ SocketCloses(s)
  BY DetailSockets DEF AskedInv, SelectInv, DetailsTypeOK, SocketsTypeOK, SocketEvent, clickVars,
                       SocketOpens, SocketLost, SocketCloses
<1>2. CASE Detail(k) # s
  <2>1. /\ wire'[Detail(k)] = wire[Detail(k)] /\ answers'[Detail(k)] = answers[Detail(k)]
        /\ readyState'[Detail(k)] = readyState[Detail(k)]
    BY <1>1, <1>2 DEF SocketOpens, SocketCloses
  <2> QED BY <1>1, <2>1, AskedSame
<1>3. CASE Detail(k) = s /\ SocketOpens(s)
  <2>1. asked[k] = None
    BY <1>1, <1>3 DEF Asked, SocketOpens
  <2> QED BY <1>1, <2>1 DEF Asked
<1>4. CASE Detail(k) = s /\ SocketCloses(s)
  <2>1. readyState'[Detail(k)] = "closed"
    BY <1>1, <1>4 DEF SocketCloses
  <2> QED BY <2>1 DEF Asked, Alive
<1> QED BY <1>1, <1>2, <1>3, <1>4

\* Requests are made: the last one for table k is the one noted for it, or none
\* is for it.
LEMMA AskedSent ==
  ASSUME SockTypes, NEW k \in Kinds, NEW rs \in Seq(Timer), sendRequest(rs),
         UNCHANGED <<readyState, wire, answers>>,
         \/ asked'[k] # None => readyState[Detail(k)] = "open" /\ LastTimer(rs, k, asked'[k])
         \/ ~Owned(rs, k) /\ Asked(k) /\ shown'[k] = shown[k] /\ asked'[k] = asked[k]
  PROVE  Asked(k)'
<1> DEFINE f == asked'[k]
<1>1. timers \in Seq(Timer) /\ timers' = timers \o rs
  BY DEF SockTypes, SocketsTypeOK, sendRequest, Timer, TimerOf
<1>2. LastTimer(timers', k, f) => Owned(timers', k)
  BY DEF LastTimer, Owned
<1>3. Alive(Detail(k))' <=> Alive(Detail(k))
  BY DEF Alive
<1> SUFFICES ASSUME f # None PROVE Asked(k)'
  BY DEF Asked
<1>4. CASE readyState[Detail(k)] = "open" /\ LastTimer(rs, k, f)
  <2>1. LastTimer(timers', k, f)
    BY <1>1, <1>4, SentTimers
  <2> QED BY <1>2, <1>4, <2>1 DEF Asked, Youngest
<1>5. CASE ~Owned(rs, k) /\ Asked(k) /\ shown'[k] = shown[k] /\ asked'[k] = asked[k]
  <2>1. LastTimer(timers, k, f) => LastTimer(timers', k, f)
    BY <1>1, <1>5, SentTimers
  <2>2. Owned(timers', k) => Owned(timers, k)
    BY <1>1, <1>5, SentTimers
  <2> QED BY <1>2, <1>3, <1>5, <2>1, <2>2 DEF Asked, Youngest
<1> QED BY <1>4, <1>5

LEMMA AskedTimeout ==
  ASSUME AskedInv, SelectTimeout, NEW j \in Kinds
  PROVE  Asked(j)'
<1>1. DetailsTypeOK /\ SockTypes /\ Asked(j)
  BY DEF AskedInv, SelectInv, DetailsTypeOK, SockTypes
<1>2. PICK t \in Task, V \in FileId :
            /\ UNCHANGED <<readyState, wire, answers>>
            /\ \/ Seen(t, V)
               \/ \E clears \in BOOLEAN : Unseen(t, clears)
               \/ Gone
  BY <1>1, TimeoutCases
<1> DEFINE k == t.kind
           o == Other(t.kind)
           rk == DetailRequest(k, t.files)
           ro == DetailRequest(o, V)
<1>3. k \in Kinds /\ o \in Kinds /\ o # k /\ t.files \in FileId /\ (j = k \/ j = o)
  BY DetailSockets DEF Task, Kinds, Other
<1>4. rk \in Timer /\ ro \in Timer /\ rk.sock = Detail(k) /\ rk.req.files = t.files
      /\ ro.sock = Detail(o) /\ ro.req.files = V
      /\ Detail(k) # Detail(o)
  BY <1>3, RequestTypes, DetailSockets DEF DetailRequest
<1>5. asked \in [Kinds -> Files \cup {None}] /\ shown \in [Kinds -> Files \cup {None}]
  BY <1>1 DEF DetailsTypeOK
<1>6. CASE Seen(t, V)
  <2>1. <<ro, rk>> \in Seq(Timer) /\ sendRequest(<<ro, rk>>)
    BY <1>4, <1>6 DEF Seen
  <2>2. asked'[k] = Noted(k, t.files) /\ asked'[o] = Noted(o, V)
    BY <1>3, <1>5, <1>6 DEF Seen
  <2>3. asked'[k] # None => readyState[Detail(k)] = "open" /\ LastTimer(<<ro, rk>>, k, asked'[k])
    <3> SUFFICES ASSUME asked'[k] # None
                 PROVE  readyState[Detail(k)] = "open" /\ LastTimer(<<ro, rk>>, k, asked'[k])
      OBVIOUS
    <3>1. readyState[Detail(k)] = "open" /\ t.files = {asked'[k]}
      BY <1>3, <2>2, NotedFile
    <3> HIDE DEF rk, ro, k, o
    <3>2. Owns(<<ro, rk>>, 2, k)
      BY <1>4 DEF Owns
    <3> QED BY <1>4, <3>1, <3>2 DEF LastTimer
  <2>4. asked'[o] # None => readyState[Detail(o)] = "open" /\ LastTimer(<<ro, rk>>, o, asked'[o])
    <3> SUFFICES ASSUME asked'[o] # None
                 PROVE  readyState[Detail(o)] = "open" /\ LastTimer(<<ro, rk>>, o, asked'[o])
      OBVIOUS
    <3>1. readyState[Detail(o)] = "open" /\ V = {asked'[o]}
      BY <1>3, <2>2, NotedFile
    <3> HIDE DEF rk, ro, k, o
    <3>2. Owns(<<ro, rk>>, 1, o) /\ ~Owns(<<ro, rk>>, 2, o)
      BY <1>4 DEF Owns
    <3> QED BY <1>4, <3>1, <3>2 DEF LastTimer
  <2> HIDE DEF k, o, rk, ro
  <2> QED BY <1>1, <1>2, <1>3, <2>1, <2>3, <2>4, AskedSent
<1>7. ASSUME NEW clears \in BOOLEAN, Unseen(t, clears) PROVE Asked(j)'
  <2>1. <<rk>> \in Seq(Timer) /\ sendRequest(<<rk>>)
    BY <1>4, <1>7 DEF Unseen
  <2>2. /\ asked'[k] = Noted(k, t.files)
        /\ \/ asked'[o] = None
           \/ asked'[o] = asked[o] /\ shown'[o] = shown[o]
    BY <1>3, <1>5, <1>7 DEF Unseen
  <2>3. asked'[k] # None => readyState[Detail(k)] = "open" /\ LastTimer(<<rk>>, k, asked'[k])
    <3> SUFFICES ASSUME asked'[k] # None
                 PROVE  readyState[Detail(k)] = "open" /\ LastTimer(<<rk>>, k, asked'[k])
      OBVIOUS
    <3>1. readyState[Detail(k)] = "open" /\ t.files = {asked'[k]}
      BY <1>3, <2>2, NotedFile
    <3> HIDE DEF rk, k
    <3> QED BY <1>4, <3>1 DEF LastTimer, Owns
  <2>4. ~Owned(<<rk>>, o)
    <3> HIDE DEF rk, k, o
    <3> QED BY <1>4 DEF Owned, Owns
  <2> HIDE DEF k, o, rk
  <2>5. CASE j = k
    BY <1>1, <1>2, <1>3, <2>1, <2>3, <2>5, AskedSent
  <2>6. CASE j = o
    BY <1>1, <1>2, <1>3, <2>1, <2>2, <2>4, <2>6, AskedSent
  <2> QED BY <1>3, <2>5, <2>6
<1>8. CASE Gone
  BY <1>1, <1>2, <1>8, AskedSame DEF Gone
<1> QED BY <1>2, <1>6, <1>7, <1>8

\* Every step keeps the youngest request ahead of everything else on its way.
LEMMA AskedStep == AskedInv /\ [Next]_vars => AskedInv'
<1> SUFFICES ASSUME AskedInv, [Next]_vars, NEW k \in Kinds PROVE Asked(k)'
  BY SelectStep DEF AskedInv
<1>1. Asked(k)
  BY DEF AskedInv
<1>2. CASE UserActs \/ FilterApplied \/ (\E c \in Kinds : TableRebuilt(c)) \/ UNCHANGED vars
  <2>1. UNCHANGED sockVars /\ UNCHANGED <<shown, asked>>
    BY <1>2 DEF UserActs, ClickRow, ClickHeader, ToggleLink, FilterApplied, TableRebuilt, vars, clickVars
  <2> QED BY <1>1, <2>1, AskedSame DEF sockVars
<1>3. CASE SelectTimeout
  BY <1>3, AskedTimeout
<1>4. CASE TimerFires
  BY <1>4, AskedTimer
<1>5. CASE \E c \in Kinds : send_details(c) \/ listFileDetails(c) \/ ErrorDropped(c)
  BY <1>5, AskedConsume, AskedHandle
<1>6. CASE \E s \in Sockets : SocketEvent(s)
  BY <1>6, AskedSocket
<1> QED BY <1>2, <1>3, <1>4, <1>5, <1>6 DEF Next

\* A detail table whose messages are all handled shows the file asked for last:
\* timers fire and messages arrive in the order of the clicks, so the answer to
\* an earlier click never ends up on top of a later one.
THEOREM LastAskedCorrect == Spec => []LastAskedIsShown
<1>1. Spec => []AskedInv
  BY AskedInit, AskedStep, PTL DEF Spec
<1> QED BY <1>1, AskedShown, PTL
=============================================================================
