------------------------ MODULE SocketManager_proofs ------------------------
(***************************************************************************)
(* Lemmas about SocketManager, for any requests Rs and messages Ms: every  *)
(* step keeps the types, and what becomes of the youngest element of a     *)
(* queue when the oldest is taken out.                                     *)
(***************************************************************************)
EXTENDS SocketManager, TLAPS

TimerOf(Rs) == [sock : Sockets, req : Rs]

\* The consumer of s answers its oldest request, or part of it.
LEMMA ConsumeTypes ==
  ASSUME NEW Rs, NEW Ms, SocketsTypeOK(Rs, Ms), NEW s \in Sockets,
         NEW rest \in Seq(Rs), NEW ms \in Seq(Ms), wire[s] # <<>>, Consume(s, rest, ms)
  PROVE  SocketsTypeOK(Rs, Ms)'
<1>1. rest \o Tail(wire[s]) \in Seq(Rs) /\ answers[s] \o ms \in Seq(Ms)
  BY DEF SocketsTypeOK
<1> QED BY <1>1 DEF SocketsTypeOK, Consume

\* The page handles the oldest message of s.
LEMMA HandleTypes ==
  ASSUME NEW Rs, NEW Ms, SocketsTypeOK(Rs, Ms), NEW s \in Sockets, NEW e, handleEvent(s, e)
  PROVE  SocketsTypeOK(Rs, Ms)' /\ Head(answers[s]) \in Ms
<1>1. Tail(answers[s]) \in Seq(Ms) /\ Head(answers[s]) \in Ms
  BY DEF SocketsTypeOK, handleEvent
<1> QED BY <1>1 DEF SocketsTypeOK, handleEvent

\* The oldest timer fires.
LEMMA TimerTypes ==
  ASSUME NEW Rs, NEW Ms, SocketsTypeOK(Rs, Ms), doSendRequest
  PROVE  SocketsTypeOK(Rs, Ms)'
<1> DEFINE t == Head(timers)
<1>1. timers \in Seq(TimerOf(Rs)) /\ timers # <<>>
  BY DEF SocketsTypeOK, doSendRequest, TimerOf
<1>2. t \in TimerOf(Rs) /\ Tail(timers) \in Seq(TimerOf(Rs))
  BY <1>1
<1>3. Append(Tail(timers), t) \in Seq(TimerOf(Rs))
  BY <1>2
<1>4. t.sock \in Sockets /\ Append(wire[t.sock], t.req) \in Seq(Rs)
  BY <1>2 DEF SocketsTypeOK, TimerOf
<1>5. timers' \in Seq(TimerOf(Rs)) /\ wire' \in [Sockets -> Seq(Rs)]
  BY <1>2, <1>3, <1>4 DEF SocketsTypeOK, doSendRequest
<1> QED BY <1>5 DEF SocketsTypeOK, doSendRequest, TimerOf

\* A socket opens or closes.
LEMMA SocketTypes ==
  ASSUME NEW Rs, NEW Ms, SocketsTypeOK(Rs, Ms), NEW s \in Sockets,
         SocketOpens(s) \/ SocketCloses(s)
  PROVE  SocketsTypeOK(Rs, Ms)'
<1>1. <<>> \in Seq(Rs) /\ <<>> \in Seq(Ms)
  OBVIOUS
<1>2. CASE SocketOpens(s)
  BY <1>2 DEF SocketsTypeOK, SocketOpens
<1>3. CASE SocketCloses(s)
  BY <1>1, <1>3 DEF SocketsTypeOK, SocketCloses
<1> QED BY <1>2, <1>3

\* The page makes requests.
LEMMA SendTypes ==
  ASSUME NEW Rs, NEW Ms, SocketsTypeOK(Rs, Ms), NEW rs \in Seq(TimerOf(Rs)), sendRequest(rs),
         UNCHANGED <<readyState, wire, answers>>
  PROVE  SocketsTypeOK(Rs, Ms)'
BY DEF SocketsTypeOK, sendRequest, TimerOf
-----------------------------------------------------------------------------
\* The youngest of a queue when its oldest is taken out.
LEMMA LastOfTail ==
  ASSUME NEW S, NEW w \in Seq(S), w # <<>>
  PROVE  /\ Tail(w) = <<>> => w[Len(w)] = Head(w)
         /\ Tail(w) # <<>> => Tail(w)[Len(Tail(w))] = w[Len(w)]
<1>1. Tail(w) \in Seq(S) /\ Len(w) \in Nat /\ Len(w) > 0 /\ Len(Tail(w)) = Len(w) - 1 /\ Head(w) = w[1]
  OBVIOUS
<1>2. \A u \in Seq(S) : IF u = <<>> THEN Len(u) = 0 ELSE Len(u) > 0
  OBVIOUS
<1>3. IF Tail(w) = <<>> THEN Len(Tail(w)) = 0 ELSE Len(Tail(w)) > 0
  BY <1>1, <1>2
<1>4. \A i \in 1..(Len(w) - 1) : Tail(w)[i] = w[i + 1]
  OBVIOUS
<1> QED BY <1>1, <1>3, <1>4

\* Two queues are joined.
LEMMA Joined ==
  ASSUME NEW S, NEW o \in Seq(S), NEW u \in Seq(S)
  PROVE  /\ Len(o \o u) = Len(o) + Len(u)
         /\ DOMAIN (o \o u) = 1..(Len(o) + Len(u))
         /\ \A i \in 1..(Len(o) + Len(u)) : (o \o u)[i] = IF i <= Len(o) THEN o[i] ELSE u[i - Len(o)]
OBVIOUS

\* Something takes the place of what was taken out.
LEMMA PutFirst ==
  ASSUME NEW S, NEW r \in S, NEW u \in Seq(S), NEW v, v = <<r>> \o u
  PROVE  /\ Len(v) = Len(u) + 1
         /\ DOMAIN v = 1..(Len(u) + 1)
         /\ \A i \in 1..Len(u) : v[i + 1] = u[i]
<1> DEFINE o == <<r>>
<1>1. o \in Seq(S) /\ Len(o) = 1 /\ Len(u) \in Nat /\ v = o \o u
  OBVIOUS
<1> HIDE DEF o
<1>2. /\ Len(v) = Len(o) + Len(u)
      /\ DOMAIN v = 1..(Len(o) + Len(u))
      /\ \A i \in 1..(Len(o) + Len(u)) : v[i] = IF i <= Len(o) THEN o[i] ELSE u[i - Len(o)]
  BY ONLY <1>1, Joined
<1>3. ASSUME NEW i \in 1..Len(u) PROVE v[i + 1] = u[i]
  <2>1. i + 1 \in 1..(Len(o) + Len(u)) /\ i + 1 > Len(o) /\ (i + 1) - Len(o) = i
    BY <1>1
  <2> QED BY <1>2, <2>1
<1> QED BY <1>1, <1>2, <1>3

\* A socket that is alive after a message was handled was so before.
LEMMA HandledAlive ==
  ASSUME NEW Rs, NEW Ms, SocketsTypeOK(Rs, Ms), NEW s \in Sockets, NEW e, e # "close",
         handleEvent(s, e), NEW c \in Sockets, Alive(c)'
  PROVE  Alive(c)
<1> DEFINE a == answers[s]
<1>1. a \in Seq(Ms) /\ a # <<>> /\ Head(a) # CloseMark /\ UNCHANGED readyState
  BY DEF SocketsTypeOK, handleEvent, CloseMark
<1>2. answers' = [answers EXCEPT ![s] = Tail(a)] /\ answers \in [Sockets -> Seq(Ms)]
  BY DEF SocketsTypeOK, handleEvent
<1> SUFFICES ASSUME NEW i \in DOMAIN answers[c] PROVE answers[c][i] # CloseMark
  BY <1>1 DEF Alive
<1>3. CASE c = s
  <2>1. \A j \in DOMAIN Tail(a) : Tail(a)[j] # CloseMark
    BY <1>2, <1>3 DEF Alive
  <2>2. i \in DOMAIN a
    BY <1>3
  <2> HIDE DEF a
  <2>3. Head(a) = a[1] /\ (i > 1 => i - 1 \in DOMAIN Tail(a) /\ Tail(a)[i - 1] = a[i])
    BY <1>1, <2>2
  <2>4. i \in Nat /\ i >= 1
    BY <1>1, <2>2
  <2>5. a[i] # CloseMark
    <3>1. CASE i = 1
      BY <1>1, <2>3, <3>1
    <3>2. CASE i > 1
      BY <2>1, <2>3, <3>2
    <3> QED BY <2>4, <3>1, <3>2
  <2> QED BY <1>3, <2>5 DEF a
<1>4. CASE c # s
  BY <1>2, <1>4 DEF Alive
<1> QED BY <1>3, <1>4
=============================================================================
