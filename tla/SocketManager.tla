---------------------------- MODULE SocketManager ----------------------------
(***************************************************************************)
(* The front end's SocketManager.js: one WebSocket for each URL, shared by *)
(* every element of the page that asks getInstance() for that URL.  A      *)
(* request is never written at once: _doSendRequest() arms a 20 ms timer   *)
(* that writes it if the socket is open by then and arms itself again if   *)
(* not.  All timers wait equally long, so they fire in the order in which  *)
(* they were armed; a re-armed one goes to the end.  A closed socket is    *)
(* never opened again.                                                     *)
(***************************************************************************)
EXTENDS Naturals, Sequences

CONSTANT Sockets    \* the URLs that have an instance

VARIABLES
    readyState,     \* readyState[s]: "connecting", "open" or "closed" (0, 1 and 3)
    timers,         \* armed timers in firing order: [sock, req] records
    wire,           \* wire[s]: requests written that the server has not handled
    answers         \* answers[s]: messages to the page that it has not handled

sockVars == <<readyState, timers, wire, answers>>

SocketsTypeOK(Requests, Messages) ==
    /\ readyState \in [Sockets -> {"connecting", "open", "closed"}]
    /\ timers \in Seq([sock : Sockets, req : Requests])
    /\ wire \in [Sockets -> Seq(Requests)]
    /\ answers \in [Sockets -> Seq(Messages)]

\* The constructors, with the requests in rs made before any socket is open.
SocketsInit(rs) ==
    /\ readyState = [s \in Sockets |-> "connecting"]
    /\ timers = rs
    /\ wire = [s \in Sockets |-> <<>>]
    /\ answers = [s \in Sockets |-> <<>>]

\* The last message of a socket whose consumer has died of an exception: the
\* server closes the connection after what it had already sent.
CloseMark == [event |-> "close"]

\* A message without an event, such as an error: handleEvent() drops it.
NoEvent == [event |-> "none"]

Alive(s) ==
    /\ readyState[s] = "open"
    /\ \A i \in DOMAIN answers[s] : answers[s][i] # CloseMark

\* sendRequest(), once for each of rs in this order.
sendRequest(rs) == timers' = timers \o rs

\* Mutant of doSendRequest: a request overtakes those on the wire.
doSendRequestFirst ==
    /\ timers # <<>>
    /\ LET t == Head(timers) IN
       \/ /\ readyState[t.sock] = "open"
          /\ timers' = Tail(timers)
          /\ wire' = [wire EXCEPT ![t.sock] = <<t.req>> \o @]
       \/ /\ readyState[t.sock] # "open"
          /\ timers' = Append(Tail(timers), t)
          /\ UNCHANGED wire
    /\ UNCHANGED <<readyState, answers>>

\* The oldest timer of _doSendRequest() fires.
doSendRequest ==
    /\ timers # <<>>
    /\ LET t == Head(timers) IN
       \/ /\ readyState[t.sock] = "open"
          /\ timers' = Tail(timers)
          /\ wire' = [wire EXCEPT ![t.sock] = Append(@, t.req)]
       \/ /\ readyState[t.sock] # "open"
          /\ timers' = Append(Tail(timers), t)
          /\ UNCHANGED wire
    /\ UNCHANGED <<readyState, answers>>

SocketOpens(s) ==
    /\ readyState[s] = "connecting"
    /\ readyState' = [readyState EXCEPT ![s] = "open"]
    /\ UNCHANGED <<timers, wire, answers>>

\* The page learns that the socket is closed; the class listens to messages
\* only, so nothing else happens.
SocketCloses(s) ==
    /\ readyState' = [readyState EXCEPT ![s] = "closed"]
    /\ wire' = [wire EXCEPT ![s] = <<>>]
    /\ answers' = [answers EXCEPT ![s] = <<>>]
    /\ UNCHANGED timers

\* The connection is lost, or was refused.
SocketLost(s) == readyState[s] # "closed" /\ SocketCloses(s)

\* The consumer of s has such a request next.
Asks(s, type) == Alive(s) /\ wire[s] # <<>> /\ Head(wire[s]).type = type

\* What the server's consumer of s does with the oldest request: it answers
\* with ms and, unless the request stays (rest), takes it off the wire.
Consume(s, rest, ms) ==
    /\ wire' = [wire EXCEPT ![s] = rest \o Tail(@)]
    /\ answers' = [answers EXCEPT ![s] = @ \o ms]
    /\ UNCHANGED <<readyState, timers>>

\* handleEvent() is called with the oldest message of s, which has this event,
\* and delivers it to the handlers registered for it, if there are any.
handleEvent(s, event) ==
    /\ answers[s] # <<>>
    /\ Head(answers[s]).event = event
    /\ answers' = [answers EXCEPT ![s] = Tail(@)]
    /\ UNCHANGED <<readyState, timers, wire>>
=============================================================================
