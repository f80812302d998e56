--------------------------- MODULE Firmware_proofs ---------------------------
(***************************************************************************)
(* What holds of two parts of the logger's firmware for every value of     *)
(* their constants.                                                        *)
(*                                                                         *)
(* WiFi, for every number of retries and every delay: the types, that all  *)
(* joins are tried before the logger gives up, that the status a user      *)
(* reads is that of the machine, and that the reason for reverting to an   *)
(* access point, once written, is passed on by the next boot.              *)
(*                                                                         *)
(* An NMEA0183 channel, for every length of the ring and of a sentence:    *)
(* the types, that the ring keeps what was put in it until it is full,     *)
(* that times are recorded once and in order, and what is recorded when    *)
(* the ring is read in time.                                               *)
(***************************************************************************)
EXTENDS MessageAssembler, WiFiAdapter, FiniteSetTheorems, SequenceTheorems, TLAPS

-----------------------------------------------------------------------------
(* Lists of writes. *)

LEMMA WriteTypes ==
  /\ \A m \in Modes : SetMode(m) \in Write
  /\ \A s \in StatusValues : SetStatus(s) \in Write /\ SetBoot(s) \in Write
  /\ Restart \in Write
BY DEF Write

\* A write tells which parameter it sets, and to what.
LEMMA WriteIs ==
  ASSUME NEW w \in Write
  PROVE  \/ w = Restart
         \/ w[1] = "wifimode" /\ w[2] \in Modes /\ w = SetMode(w[2])
         \/ w[1] = "WSStatus" /\ w[2] \in StatusValues /\ w = SetStatus(w[2])
         \/ w[1] = "WSBootStatus" /\ w[2] \in StatusValues /\ w = SetBoot(w[2])
<1>1. CASE w = Restart
  BY <1>1
<1>2. CASE \E m \in Modes : w = SetMode(m)
  BY <1>2 DEF SetMode
<1>3. CASE \E s \in StatusValues : w = SetStatus(s)
  BY <1>3 DEF SetStatus
<1>4. CASE \E s \in StatusValues : w = SetBoot(s)
  BY <1>4 DEF SetBoot
<1> QED BY <1>1, <1>2, <1>3, <1>4 DEF Write

\* The list once its first write is done.
LEMMA TailOf ==
  ASSUME NEW q \in Seq(Write), q # <<>>
  PROVE  /\ Len(q) \in Nat \ {0} /\ DOMAIN q = 1 .. Len(q)
         /\ Head(q) = q[1] /\ q[1] \in Write
         /\ Tail(q) \in Seq(Write) /\ Len(Tail(q)) = Len(q) - 1
         /\ DOMAIN Tail(q) = 1 .. Len(q) - 1
         /\ \A i \in 1 .. Len(q) - 1 : Tail(q)[i] = q[i + 1] /\ i + 1 \in 1 .. Len(q)
         /\ Tail(q) = <<>> <=> Len(q) = 1
<1>1. Len(q) \in Nat \ {0} /\ DOMAIN q = 1 .. Len(q)
  OBVIOUS
<1>2. Head(q) = q[1] /\ q[1] \in Write
  BY <1>1
<1>3. Tail(q) \in Seq(Write) /\ Len(Tail(q)) = Len(q) - 1
  BY <1>1
<1>4. DOMAIN Tail(q) = 1 .. Len(q) - 1
  BY <1>3
<1>5. \A i \in 1 .. Len(q) - 1 : Tail(q)[i] = q[i + 1] /\ i + 1 \in 1 .. Len(q)
  BY <1>1
<1>6. Tail(q) = <<>> <=> Len(q) = 1
  <2>1. PICK t : t = Tail(q)
    OBVIOUS
  <2>2. t \in Seq(Write) /\ Len(t) = Len(q) - 1
    BY <1>3, <2>1
  <2>3. t = <<>> <=> Len(t) = 0
    BY <2>2, EmptySeq
  <2> QED BY <1>1, <2>1, <2>2, <2>3
<1> QED BY <1>1, <1>2, <1>3, <1>4, <1>5, <1>6

LEMMA Lists ==
  ASSUME NEW a \in Write, NEW b \in Write, NEW c \in Write
  PROVE  /\ <<a>> \in Seq(Write) /\ <<a, b>> \in Seq(Write) /\ <<a, b, c>> \in Seq(Write)
         /\ <<>> \in Seq(Write)
         /\ <<>> \o <<a>> = <<a>> /\ <<a, b>> \o <<c>> = <<a, b, c>>
<1>1. <<>> \in Seq(Write) /\ <<a>> \in Seq(Write)
  OBVIOUS
<1>2. <<a, b>> \in Seq(Write)
  OBVIOUS
<1>3. <<a, b, c>> \in Seq(Write)
  OBVIOUS
<1>4. <<>> \o <<a>> = <<a>>
  OBVIOUS
<1>5. <<a, b>> \o <<c>> = <<a, b, c>>
  <2>0. PICK s, t : s = <<a, b>> /\ t = <<c>>
    OBVIOUS
  <2>1. s \in Seq(Write) /\ t \in Seq(Write)
    BY <1>1, <1>2, <2>0
  <2>2. /\ s \o t \in Seq(Write) /\ Len(s \o t) = 3
        /\ (s \o t)[1] = a /\ (s \o t)[2] = b /\ (s \o t)[3] = c
    <3>1. Len(s) = 2 /\ Len(t) = 1 /\ s[1] = a /\ s[2] = b /\ t[1] = c
      BY <2>0
    <3>2. /\ s \o t \in Seq(Write) /\ Len(s \o t) = Len(s) + Len(t)
          /\ \A i \in 1 .. Len(s) + Len(t) :
               (s \o t)[i] = IF i <= Len(s) THEN s[i] ELSE t[i - Len(s)]
      BY <2>1, ConcatProperties
    <3> QED BY <3>1, <3>2
  <2>3. PICK u : u = <<a, b, c>>
    OBVIOUS
  <2>4. Len(u) = 3 /\ u[1] = a /\ u[2] = b /\ u[3] = c
    BY <2>3
  <2>5. \A i \in 1 .. 3 : (s \o t)[i] = u[i]
    BY <2>2, <2>4
  <2>6. s \o t = u
    <3>1. u \in Seq(Write)
      BY <1>3, <2>3
    <3> QED BY <2>2, <2>4, <2>5, <3>1, SeqEqual
  <2> QED BY <2>0, <2>3, <2>6
<1> QED BY <1>1, <1>2, <1>3, <1>4, <1>5

LEMMA AgeTypes ==
  /\ MaxAge \in Nat \ {0} /\ 0 \in Age
  /\ \A a \in Age : Older(a) \in Age
BY WiFiConstants DEF MaxAge, Later, Age, Older

\* A join is begun, or would be.
LEMMA JoinTypes ==
  ASSUME WiFiTypeOK, NEW age \in Age, NEW n \in Nat, AttemptStationJoin(age, n)
  PROVE  /\ currentState' \in {"STATION_CONNECTED", "STATION_CONNECTING"}
         /\ sinceAttempt' \in Age
         /\ attempts' = IF configured.ssid THEN n + 1 ELSE n
         /\ joined' \in BOOLEAN
BY AgeTypes DEF AttemptStationJoin, WiFiTypeOK

\* What Start writes, and where the machine is afterwards.
LEMMA StartTypes ==
  ASSUME WiFiTypeOK, NEW age \in Age, NEW n \in Nat, NEW first, Start(first, age, n)
  PROVE  /\ sinceAttempt' \in Age /\ joined' \in BOOLEAN /\ network' = network
         /\ \/ /\ currentState' = "AP_MODE" /\ attempts' = n
               /\ pending' = first \o <<SetStatus("AP-Enabled")>>
            \/ /\ currentState' \in {"STATION_CONNECTED", "STATION_CONNECTING"}
               /\ attempts' = IF configured.ssid THEN n + 1 ELSE n
               /\ pending' = first \o <<SetStatus("Connecting")>>
BY JoinTypes DEF Start, WiFiTypeOK

LEMMA BootTypes ==
  ASSUME WiFiTypeOK
  PROVE  /\ SetBoot(status) \in Write /\ SetStatus(Stopped(mode)) \in Write
         /\ Stopped(mode) \in {"AP-Stopped", "Station-Stopped"}
         /\ BootWrites = <<SetBoot(status), SetStatus(Stopped(mode))>>
         /\ BootWrites \in Seq(Write)
         /\ \A s \in StatusValues :
              BootWrites \o <<SetStatus(s)>> = <<SetBoot(status), SetStatus(Stopped(mode)), SetStatus(s)>>
<1>1. Stopped(mode) \in {"AP-Stopped", "Station-Stopped"}
  BY DEF Stopped
<1>2. SetBoot(status) \in Write /\ SetStatus(Stopped(mode)) \in Write
  BY <1>1, WriteTypes DEF WiFiTypeOK, StatusValues
<1> QED BY <1>1, <1>2, WriteTypes, Lists DEF BootWrites
LEMMA DownTypes ==
  ASSUME PowerDown
  PROVE  /\ power' = FALSE /\ pending' \in Seq(Write) /\ pending' = <<>>
         /\ currentState' = "STOPPED" /\ currentState' \in States
         /\ retries' \in 0 .. Retries /\ sinceAttempt' \in Age /\ sinceCheck' \in Age
         /\ joined' = FALSE /\ attempts' \in Nat
         /\ reason' = IF reason = "told" THEN "none" ELSE reason
<1>1. pending' \in Seq(Write) /\ pending' = <<>>
  BY EmptySeq DEF PowerDown
<1>2. /\ power' = FALSE /\ currentState' = "STOPPED" /\ joined' = FALSE
      /\ retries' = 0 /\ sinceAttempt' = 0 /\ sinceCheck' = 0 /\ attempts' = 0
  BY DEF PowerDown
<1>3. retries' \in 0 .. Retries /\ attempts' \in Nat
  BY <1>2, WiFiConstants
<1>4. sinceAttempt' \in Age /\ sinceCheck' \in Age
  BY <1>2, AgeTypes
<1>5. currentState' \in States
  BY <1>2 DEF States
<1>6. reason' = IF reason = "told" THEN "none" ELSE reason
  BY DEF PowerDown
<1> QED BY <1>1, <1>2, <1>3, <1>4, <1>5, <1>6
-----------------------------------------------------------------------------
(* Types. *)

\* Types are right in every state (WiFiTypeOK).
THEOREM WiFiTypeCorrect == Spec => []WiFiTypeOK
<1>1. Init => WiFiTypeOK
  <2> SUFFICES ASSUME Init PROVE WiFiTypeOK
    OBVIOUS
  <2>1. pending \in Seq(Write)
    BY EmptySeq DEF Init
  <2>2. /\ mode \in Modes /\ status = "" /\ bootStatus = ""
        /\ configured \in [ssid : BOOLEAN, onBoot : BOOLEAN] /\ network \in BOOLEAN
        /\ power = FALSE /\ joined = FALSE /\ reason \in Reasons
    BY DEF Init, Reasons
  <2>3. /\ currentState = "STOPPED" /\ retries = 0 /\ sinceAttempt = 0 /\ sinceCheck = 0
        /\ attempts = 0 /\ changes = 0
    BY DEF Init
  <2>4. status \in StatusValues /\ bootStatus \in StatusValues /\ currentState \in States
    BY <2>2, <2>3 DEF StatusValues, States
  <2>5. /\ retries \in 0 .. Retries /\ sinceAttempt \in Age /\ sinceCheck \in Age /\ attempts \in Nat
        /\ changes \in 0 .. MaxChanges
    BY <2>3, WiFiConstants, AgeTypes
  <2> QED BY <2>1, <2>2, <2>4, <2>5 DEF WiFiTypeOK
<1>2. WiFiTypeOK /\ [Next]_vars => WiFiTypeOK'
  <2> SUFFICES ASSUME WiFiTypeOK, [Next]_vars
               PROVE  WiFiTypeOK'
    OBVIOUS
  <2> USE AgeTypes, WiFiConstants
  <2>0. /\ {"STOPPED", "AP_MODE", "STATION_CONNECTING", "STATION_CONNECTED"} \subseteq States
        /\ {"Connecting", "AP-Enabled"} \subseteq StatusValues
    BY DEF States, StatusValues
  <2>1. CASE Boot
    <3>1. CASE configured.onBoot /\ Start(BootWrites, 0, 0)
      <4>1. pending' \in Seq(Write)
        <5>1. PICK s \in {"AP-Enabled", "Connecting"} : pending' = BootWrites \o <<SetStatus(s)>>
          BY <2>0, <3>1, StartTypes
        <5>2. pending' = <<SetBoot(status), SetStatus(Stopped(mode)), SetStatus(s)>>
          BY <2>0, <5>1, BootTypes
        <5> QED BY <2>0, <5>2, BootTypes, WriteTypes, Lists
      <4>2. attempts' \in Nat /\ sinceAttempt' \in Age /\ joined' \in BOOLEAN /\ network' = network
            /\ currentState' \in States
        BY <2>0, <3>1, StartTypes
      <4> QED BY <2>1, <4>1, <4>2 DEF Boot, WiFiTypeOK, params
    <3>2. CASE ~configured.onBoot
      BY <2>0, <2>1, <3>2, BootTypes DEF Boot, WiFiTypeOK, params, radio
    <3> QED BY <2>1, <3>1, <3>2 DEF Boot
  <2>2. CASE Connecting
    <3>1. <<SetStatus("Connect-Timeout-Retrying")>> \in Seq(Write)
      BY WriteTypes, Lists DEF StatusValues
    <3> QED BY <2>2, <3>1 DEF Connecting, WiFiTypeOK, params, radio, States
  <2>3. CASE Retry
    <3>1. CASE retries > 0 /\ retries' = Spend /\ AttemptStationJoin(sinceAttempt, attempts)
      <4>1. sinceAttempt \in Age /\ attempts \in Nat
        BY DEF WiFiTypeOK
      <4>2. attempts' \in Nat /\ sinceAttempt' \in Age /\ joined' \in BOOLEAN /\ currentState' \in States
        BY <2>0, <3>1, <4>1, JoinTypes
      <4>3. retries' \in 0 .. Retries
        BY <3>1 DEF Spend, WiFiTypeOK
      <4> QED BY <2>3, <4>2, <4>3 DEF Retry, WiFiTypeOK, params
    <3>2. CASE /\ currentState' = "MOVE_TO_SAFE_MODE"
               /\ UNCHANGED <<retries, sinceAttempt, joined, attempts>>
      BY <2>3, <3>2 DEF Retry, WiFiTypeOK, params, States
    <3> QED BY <2>3, <3>1, <3>2 DEF Retry
  <2>4. CASE MoveToSafeMode
    <3>1. SafeModeWrites \in Seq(Write)
      BY WriteTypes, Lists DEF SafeModeWrites, Modes, StatusValues
    <3> QED BY <2>4, <3>1 DEF MoveToSafeMode, WiFiTypeOK, params, machine, radio
  <2>5. CASE Connected
    <3>1. <<SetStatus("Connected")>> \in Seq(Write)
      BY WriteTypes, Lists DEF StatusValues
    <3> QED BY <2>5, <3>1 DEF Connected, WiFiTypeOK, params, radio, States
  <2>6. CASE ConnectionCheck
    <3>1. CheckWrites \in Seq(Write)
      BY WriteTypes, Lists DEF StatusValues, CheckWrites
    <3> QED BY <2>6, <3>1 DEF ConnectionCheck, WiFiTypeOK, params, radio, States
  <2>7. CASE SetConfigString
    <3>1. pending \in Seq(Write) /\ pending # <<>>
      BY <2>7 DEF SetConfigString, WiFiTypeOK
    <3>2. Tail(pending) \in Seq(Write) /\ Head(pending) \in Write
      BY <3>1, TailOf
    <3>3. \/ Head(pending)[1] = "wifimode" /\ Head(pending)[2] \in Modes
          \/ Head(pending)[1] = "WSStatus" /\ Head(pending)[2] \in StatusValues
          \/ Head(pending)[1] = "WSBootStatus" /\ Head(pending)[2] \in StatusValues
      BY <2>7, <3>2, WriteIs DEF SetConfigString
    <3>4. mode' \in Modes /\ status' \in StatusValues /\ bootStatus' \in StatusValues
      BY <2>7, <3>3 DEF SetConfigString, WiFiTypeOK
    <3>5. reason' \in Reasons
      BY <2>7 DEF SetConfigString, WiFiTypeOK, Reasons
    <3> QED BY <2>7, <3>2, <3>4, <3>5 DEF SetConfigString, WiFiTypeOK, machine, radio
  <2>8. CASE SafeModeRestart
    <3>1. PowerDown
      BY <2>8 DEF SafeModeRestart
    <3> QED BY DownTypes, <2>8, <3>1 DEF SafeModeRestart, WiFiTypeOK, params, Reasons
  <2>9. ASSUME NEW m \in Modes, ManageWireless(m)
        PROVE  WiFiTypeOK'
    <3>1. pending' \in Seq(Write)
      BY <2>9, WriteTypes, Lists DEF ManageWireless, StatusValues
    <3> QED BY <2>9, <3>1 DEF ManageWireless, Changed, WiFiTypeOK, params, machine, radio
  <2>10. CASE WirelessOn
    <3>1. Start(<<>>, sinceAttempt, attempts) /\ sinceAttempt \in Age /\ attempts \in Nat
      BY <2>10 DEF WirelessOn, WiFiTypeOK
    <3>2. pending' \in Seq(Write)
      BY <2>0, <3>1, StartTypes, WriteTypes, Lists
    <3>3. attempts' \in Nat /\ sinceAttempt' \in Age /\ joined' \in BOOLEAN /\ network' = network
            /\ currentState' \in States
      BY <2>0, <3>1, StartTypes
    <3> QED BY <2>10, <3>2, <3>3 DEF WirelessOn, Changed, WiFiTypeOK, params
  <2>11. CASE PowerLoss
    <3>1. PowerDown /\ Changed
      BY <2>11 DEF PowerLoss
    <3>2. changes' \in 0 .. MaxChanges
      BY <3>1 DEF Changed, WiFiTypeOK
    <3> QED BY <2>11, DownTypes, <3>1, <3>2 DEF PowerLoss, WiFiTypeOK, params, Reasons
  <2>12. CASE NetworkChanges \/ Joins \/ Leaves \/ Tick
    BY <2>12 DEF NetworkChanges, Joins, Leaves, Tick, WiFiTypeOK, params, machine, radio
  <2>13. CASE UNCHANGED vars
    BY <2>13 DEF vars, WiFiTypeOK
  <2> QED
    BY <2>1, <2>2, <2>3, <2>4, <2>5, <2>6, <2>7, <2>8, <2>9, <2>10, <2>11, <2>12, <2>13
       DEF Next, StepState
<1> QED BY <1>1, <1>2, PTL DEF Spec
-----------------------------------------------------------------------------
(* All joins are tried. *)

Joining == {"STATION_CONNECTING", "STATION_CONNECTED", "STATION_RETRY", "MOVE_TO_SAFE_MODE",
            "CONNECTION_CHECK"}

\* A retry that is spent was begun as a join, and a machine that is joining has
\* begun one more than that; it gives up only once nothing is left to spend.
JoinInv ==
  /\ power /\ configured.ssid => attempts + retries >= Retries
  /\ currentState \in Joining => power
  /\ currentState \in Joining /\ configured.ssid => attempts + retries > Retries
  /\ currentState = "MOVE_TO_SAFE_MODE" => retries = 0

LEMMA JoinStep == WiFiTypeOK /\ JoinInv /\ [Next]_vars => JoinInv'
<1> SUFFICES ASSUME WiFiTypeOK, JoinInv, [Next]_vars
             PROVE  JoinInv'
  OBVIOUS
<1>0. /\ retries \in 0 .. Retries /\ Retries \in Nat /\ attempts \in Nat /\ sinceAttempt \in Age
      /\ 0 \in Age /\ 0 \in Nat
  BY WiFiConstants, AgeTypes DEF WiFiTypeOK
<1>1. CASE Boot
  <2>1. CASE configured.onBoot
    <3>1. Start(BootWrites, 0, 0)
      BY <1>1, <2>1 DEF Boot
    <3>2. retries' = Retries /\ power' = TRUE /\ configured' = configured
      BY <1>1 DEF Boot
    <3>3. \/ currentState' = "AP_MODE" /\ attempts' = 0
          \/ /\ currentState' \in {"STATION_CONNECTED", "STATION_CONNECTING"}
             /\ attempts' = IF configured.ssid THEN 0 + 1 ELSE 0
      BY <1>0, <3>1, StartTypes
    <3> QED BY <1>0, <3>2, <3>3 DEF JoinInv, Joining
  <2>2. CASE ~configured.onBoot
    <3>1. /\ currentState' = "STOPPED" /\ attempts' = 0 /\ retries' = Retries
      BY <1>1, <2>2 DEF Boot
    <3> QED BY <1>0, <3>1 DEF JoinInv, Joining
  <2> QED BY <2>1, <2>2
<1>2. CASE Retry
  <2>1. CASE retries > 0 /\ retries' = Spend /\ AttemptStationJoin(sinceAttempt, attempts)
    <3>1. /\ currentState' \in {"STATION_CONNECTED", "STATION_CONNECTING"}
          /\ attempts' = IF configured.ssid THEN attempts + 1 ELSE attempts
      BY <1>0, <2>1, JoinTypes
    <3>2. retries' = retries - 1 /\ UNCHANGED <<power, configured>> /\ currentState \in Joining
      BY <1>2, <2>1 DEF Retry, Spend, Joining
    <3> QED BY <1>0, <3>1, <3>2 DEF JoinInv, Joining
  <2>2. CASE retries <= 0 /\ currentState' = "MOVE_TO_SAFE_MODE" /\ UNCHANGED <<retries, attempts>>
    <3>1. UNCHANGED <<power, configured>> /\ currentState \in Joining
      BY <1>2 DEF Retry, Joining
    <3> QED BY <1>0, <2>2, <3>1 DEF JoinInv, Joining
  <2> QED BY <1>2, <2>1, <2>2 DEF Retry
<1>3. CASE Connecting \/ Connected \/ ConnectionCheck \/ MoveToSafeMode
  <2>1. UNCHANGED <<power, configured, attempts, retries>>
    BY <1>3 DEF Connecting, Connected, ConnectionCheck, MoveToSafeMode, machine
  <2>2. currentState \in Joining
    BY <1>3 DEF Connecting, Connected, ConnectionCheck, MoveToSafeMode, Joining
  <2>3. currentState' = currentState \/ currentState' # "MOVE_TO_SAFE_MODE"
    BY <1>3 DEF Connecting, Connected, ConnectionCheck, MoveToSafeMode, machine
  <2> QED BY <2>1, <2>2, <2>3 DEF JoinInv
<1>4. CASE SafeModeRestart \/ PowerLoss
  <2>1. power' = FALSE /\ currentState' = "STOPPED"
    BY <1>4, DownTypes DEF SafeModeRestart, PowerLoss
  <2> QED BY <2>1 DEF JoinInv, Joining
<1>5. CASE WirelessOn
  <2>1. Start(<<>>, sinceAttempt, attempts) /\ power /\ UNCHANGED <<power, configured, retries>>
    BY <1>5 DEF WirelessOn, Ready
  <2>2. \/ currentState' = "AP_MODE" /\ attempts' = attempts
        \/ /\ currentState' \in {"STATION_CONNECTED", "STATION_CONNECTING"}
           /\ attempts' = IF configured.ssid THEN attempts + 1 ELSE attempts
    BY <1>0, <2>1, StartTypes
  <2> QED BY <1>0, <2>1, <2>2 DEF JoinInv, Joining
<1>6. CASE UNCHANGED <<power, configured, attempts, retries, currentState>>
  BY <1>6 DEF JoinInv
<1>7. ASSUME \/ SetConfigString \/ NetworkChanges \/ Joins \/ Leaves \/ Tick \/ UNCHANGED vars
             \/ \E m \in Modes : ManageWireless(m)
      PROVE  UNCHANGED <<power, configured, attempts, retries, currentState>>
  BY <1>7 DEF SetConfigString, NetworkChanges, Joins, Leaves, Tick, vars, ManageWireless, machine
<1> QED BY <1>1, <1>2, <1>3, <1>4, <1>5, <1>6, <1>7 DEF Next, StepState

\* The machine gives up joining only after the first join and all retries
\* (AllJoinsTried), however often the commands start it over.
THEOREM JoinsCorrect == Spec => []AllJoinsTried
<1>1. Init => JoinInv
  BY DEF Init, JoinInv, Joining
<1>2. WiFiTypeOK /\ JoinInv => AllJoinsTried
  BY WiFiConstants DEF WiFiTypeOK, JoinInv, AllJoinsTried, Joining
<1> QED BY <1>1, <1>2, JoinStep, WiFiTypeCorrect, PTL DEF Spec
-----------------------------------------------------------------------------
(* The status is true. *)

JoinFailed == "Station-Join-Failed"

\* What the status may say between two steps of a machine in this state.
Told(st) == (Truthful[st] \ {JoinFailed}) \cup {"AP-Enabled", "Station-Enabled"}

Last == pending[Len(pending)]

\* The status is true once the writes in progress are done, unless a restart is
\* the last of them.
StatusInv ==
  /\ power /\ pending = <<>> => status \in Told(currentState)
  /\ power /\ pending # <<>> => Last = Restart \/ \E s \in Told(currentState) : Last = SetStatus(s)

LEMMA Truths ==
  /\ {"AP-Enabled", "Station-Enabled"} \subseteq Told("AP_MODE")
  /\ {"AP-Stopped", "Station-Stopped"} \subseteq Told("STOPPED")
  /\ Told("STATION_CONNECTING") = Told("STATION_CONNECTED")
  /\ "Connecting" \in Told("STATION_CONNECTING")
  /\ "Connect-Timeout-Retrying" \in Told("STATION_RETRY")
  /\ "Disconnected-Retrying" \in Told("STATION_RETRY")
  /\ Told("STATION_RETRY") \subseteq Told("STATION_CONNECTING")
  /\ Told("STATION_RETRY") \subseteq Told("MOVE_TO_SAFE_MODE")
  /\ "Connected" \in Told("CONNECTION_CHECK")
BY DEF Told, Truthful, JoinFailed

\* The last write of a list.
LEMMA LastOf ==
  ASSUME NEW a, NEW b, NEW c
  PROVE  /\ <<a>> # <<>> /\ <<a>>[Len(<<a>>)] = a
         /\ <<a, b>> # <<>> /\ <<a, b>>[Len(<<a, b>>)] = b
         /\ <<a, b, c>> # <<>> /\ <<a, b, c>>[Len(<<a, b, c>>)] = c
OBVIOUS

\* Start leaves a status that is true of where the machine is afterwards.
LEMMA StartTold ==
  ASSUME WiFiTypeOK, NEW age \in Age, NEW n \in Nat, NEW first, Start(first, age, n),
         first \in {<<>>, BootWrites}
  PROVE  /\ pending' # <<>>
         /\ \E s \in Told(currentState') : Last' = SetStatus(s)
<1>1. PICK s \in StatusValues : s \in Told(currentState') /\ pending' = first \o <<SetStatus(s)>>
  <2>1. "AP-Enabled" \in StatusValues /\ "Connecting" \in StatusValues
    BY DEF StatusValues
  <2> QED BY <2>1, StartTypes, Truths
<1>2. CASE first = <<>>
  <2>1. pending' = <<SetStatus(s)>>
    BY <1>1, <1>2, WriteTypes, Lists
  <2> QED BY <1>1, <2>1, LastOf DEF Last
<1>3. CASE first = BootWrites
  <2>1. pending' = <<SetBoot(status), SetStatus(Stopped(mode)), SetStatus(s)>>
    BY <1>1, <1>3, BootTypes
  <2> QED BY <1>1, <2>1, LastOf DEF Last
<1> QED BY <1>2, <1>3

LEMMA StatusStep == WiFiTypeOK /\ StatusInv /\ [Next]_vars => StatusInv'
<1> SUFFICES ASSUME WiFiTypeOK, StatusInv, [Next]_vars
             PROVE  StatusInv'
  OBVIOUS
<1>0. 0 \in Age /\ 0 \in Nat /\ sinceAttempt \in Age /\ attempts \in Nat /\ pending \in Seq(Write)
  BY AgeTypes DEF WiFiTypeOK
<1>1. ASSUME \E s \in Told(currentState') : Last' = SetStatus(s), pending' # <<>>
      PROVE  StatusInv'
  BY <1>1 DEF StatusInv
<1>2. ASSUME NEW s \in Told(currentState'), pending' = <<SetStatus(s)>>
      PROVE  StatusInv'
  BY <1>1, <1>2, LastOf DEF Last
<1>3. CASE Boot
  <2>1. CASE configured.onBoot
    BY <1>0, <1>1, <1>3, <2>1, StartTold DEF Boot
  <2>2. CASE ~configured.onBoot
    <3>1. pending' = <<SetBoot(status), SetStatus(Stopped(mode))>> /\ currentState' = "STOPPED"
      BY <1>3, <2>2, BootTypes DEF Boot
    <3>2. Stopped(mode) \in Told(currentState')
      BY <3>1, BootTypes, Truths
    <3> QED BY <1>1, <3>1, <3>2, LastOf DEF Last
  <2> QED BY <2>1, <2>2
<1>4. CASE Connecting
  <2>1. power /\ pending = <<>> /\ currentState = "STATION_CONNECTING" /\ UNCHANGED <<power, status>>
    BY <1>4 DEF Connecting, Ready, params
  <2>2. CASE currentState' = "STATION_CONNECTED" /\ UNCHANGED pending
    BY <2>1, <2>2, Truths DEF StatusInv
  <2>3. CASE currentState' = "STATION_RETRY" /\ pending' = <<SetStatus("Connect-Timeout-Retrying")>>
    BY <1>2, <2>3, Truths
  <2>4. CASE UNCHANGED <<currentState, pending>>
    BY <2>1, <2>4 DEF StatusInv
  <2> QED BY <1>4, <2>2, <2>3, <2>4 DEF Connecting
<1>5. CASE Retry
  <2>1. /\ power /\ pending = <<>> /\ currentState = "STATION_RETRY"
        /\ UNCHANGED <<power, status, pending>>
    BY <1>5 DEF Retry, Ready, params
  <2>2. currentState' \in {"STATION_CONNECTED", "STATION_CONNECTING", "MOVE_TO_SAFE_MODE"}
    BY <1>0, <1>5, JoinTypes DEF Retry
  <2> QED BY <2>1, <2>2, Truths DEF StatusInv
<1>6. CASE MoveToSafeMode
  <2>1. pending' = <<SetMode("AP"), SetStatus("Station-Join-Failed"), Restart>>
    BY <1>6 DEF MoveToSafeMode, SafeModeWrites
  <2> QED BY <2>1, LastOf DEF StatusInv, Last
<1>7. CASE Connected
  BY <1>2, <1>7, Truths DEF Connected
<1>8. CASE ConnectionCheck
  <2>1. power /\ pending = <<>> /\ UNCHANGED <<power, status>>
    BY <1>8 DEF ConnectionCheck, Ready, params
  <2>2. CASE UNCHANGED <<currentState, pending>>
    BY <2>1, <2>2 DEF StatusInv
  <2>3. CASE currentState' = "STATION_RETRY" /\ pending' = <<SetStatus("Disconnected-Retrying")>>
    BY <1>2, <2>3, Truths
  <2> QED BY <1>8, <2>2, <2>3 DEF ConnectionCheck, CheckWrites
<1>9. CASE SetConfigString
  <2>1. /\ power /\ pending # <<>> /\ Head(pending) # Restart /\ pending' = Tail(pending)
        /\ UNCHANGED <<power, currentState>>
    BY <1>9 DEF SetConfigString, machine
  <2>2. CASE Len(pending) = 1
    <3>1. PICK s \in Told(currentState) : Head(pending) = SetStatus(s)
      BY <1>0, <2>1, <2>2, TailOf DEF StatusInv, Last
    <3>2. status' = s
      BY <1>9, <3>1 DEF SetConfigString, SetStatus
    <3>3. pending' = <<>>
      BY <1>0, <2>1, <2>2, TailOf
    <3> QED BY <2>1, <3>2, <3>3 DEF StatusInv
  <2>3. CASE Len(pending) # 1
    <3>1. /\ Len(pending) \in Nat \ {0} /\ Len(pending') = Len(pending) - 1 /\ pending' # <<>>
          /\ pending'[Len(pending) - 1] = pending[Len(pending) - 1 + 1]
      BY <1>0, <2>1, <2>3, TailOf
    <3>2. Last' = Last
      BY <3>1 DEF Last
    <3> QED BY <2>1, <3>1, <3>2 DEF StatusInv
  <2> QED BY <2>2, <2>3
<1>10. CASE SafeModeRestart \/ PowerLoss
  BY <1>10, DownTypes DEF SafeModeRestart, PowerLoss, StatusInv
<1>11. ASSUME NEW m \in Modes, ManageWireless(m)
       PROVE  StatusInv'
  <2>1. PICK s \in {"AP-Enabled", "Station-Enabled"} : pending' = <<SetMode(m), SetStatus(s)>>
    BY <1>11 DEF ManageWireless
  <2>2. s \in Told(currentState')
    BY DEF Told
  <2> QED BY <1>1, <2>1, <2>2, LastOf DEF Last
<1>12. CASE WirelessOn
  BY <1>0, <1>1, <1>12, StartTold DEF WirelessOn
<1>13. CASE NetworkChanges \/ Joins \/ Leaves \/ Tick \/ UNCHANGED vars
  <2>1. UNCHANGED <<power, pending, status, currentState>>
    BY <1>13 DEF NetworkChanges, Joins, Leaves, Tick, vars, params, machine
  <2> QED BY <2>1 DEF StatusInv, Last
<1> QED
  BY <1>3, <1>4, <1>5, <1>6, <1>7, <1>8, <1>9, <1>10, <1>11, <1>12, <1>13 DEF Next, StepState

\* The status the user reads is that of the machine, or announces the mode of
\* the next boot (StatusTruthful).
THEOREM StatusCorrect == Spec => []StatusTruthful
<1>1. Init => StatusInv
  BY DEF Init, StatusInv
<1>2. StatusInv => StatusTruthful
  BY DEF StatusInv, StatusTruthful, Ready, Told
<1> QED BY <1>1, <1>2, StatusStep, WiFiTypeCorrect, PTL DEF Spec
-----------------------------------------------------------------------------
(* The reason for reverting is passed on. *)

\* Nothing in progress makes the next boot one of a station.
StaysAP == \A i \in DOMAIN pending : pending[i] # SetMode("Station")

\* The status tells of a failed join only after the mode is set and before the
\* restart.
FailureInv ==
  /\ ~power => pending = <<>>
  /\ status = JoinFailed => mode = "AP" /\ StaysAP
  /\ \A i \in DOMAIN pending : pending[i] = SetStatus(JoinFailed) =>
       /\ StaysAP
       /\ i + 1 \in DOMAIN pending /\ pending[i + 1] = Restart
       /\ \/ i = 1 /\ mode = "AP"
          \/ i = 2 /\ pending[1] = SetMode("AP")
  /\ \A i \in DOMAIN pending : pending[i] = Restart =>
       \/ i = 1 /\ status = JoinFailed
       \/ i > 1 /\ pending[i - 1] = SetStatus(JoinFailed)

BootTold(i) == pending[i][1] = "WSBootStatus"

\* A reason that was given is in the status until a boot has passed it on: the
\* restart is to come, or the boot is about to write it; and the boot that has
\* does not write its status again.
RevertedInv ==
  /\ reason = "given" =>
       /\ status = JoinFailed
       /\ power =>
            /\ pending # <<>>
            /\ \/ pending[1] = Restart
               \/ /\ pending[1] = SetBoot(JoinFailed)
                  /\ \A i \in DOMAIN pending : i # 1 => ~BootTold(i)
  /\ reason = "told" =>
       power /\ bootStatus = JoinFailed /\ \A i \in DOMAIN pending : ~BootTold(i)

\* Writes of different kinds, and of different values, differ.
LEMMA Distinct ==
  /\ \A s : /\ SetStatus(s) # Restart /\ SetBoot(s) # Restart
           /\ SetStatus(s) # SetMode("Station") /\ SetBoot(s) # SetMode("Station")
           /\ SetBoot(s) # SetStatus(JoinFailed)
           /\ SetMode(s) # Restart /\ SetMode(s) # SetStatus(JoinFailed)
  /\ \A s : s # JoinFailed => SetStatus(s) # SetStatus(JoinFailed)
  /\ Restart # SetStatus(JoinFailed) /\ Restart # SetMode("Station")
  /\ SetMode("AP") # SetMode("Station")
<1>1. /\ \A s : SetStatus(s)[1] = "WSStatus" /\ SetStatus(s)[2] = s
      /\ \A s : SetBoot(s)[1] = "WSBootStatus" /\ SetBoot(s)[2] = s
      /\ \A s : SetMode(s)[1] = "wifimode" /\ SetMode(s)[2] = s
      /\ Restart[1] = "restart"
  BY DEF SetStatus, SetBoot, SetMode, Restart
<1> QED BY <1>1

\* A list of statuses other than that of a failed join says nothing of failures.
LEMMA OtherWrites ==
  ASSUME WiFiTypeOK, FailureInv, status' = status, mode' = mode, power' = TRUE,
         \A i \in DOMAIN pending' :
           \/ \E s \in StatusValues \ {JoinFailed} : pending'[i] = SetStatus(s)
           \/ \E s \in StatusValues : pending'[i] = SetBoot(s)
  PROVE  FailureInv'
<1>1. \A i \in DOMAIN pending' :
        /\ pending'[i] # Restart /\ pending'[i] # SetStatus(JoinFailed)
        /\ pending'[i] # SetMode("Station")
  BY Distinct
<1>2. StaysAP'
  BY <1>1 DEF StaysAP
<1> QED BY <1>1, <1>2 DEF FailureInv

\* Elements and places of short lists.
LEMMA Places ==
  ASSUME NEW a, NEW b, NEW c
  PROVE  /\ DOMAIN <<a>> = {1} /\ <<a>>[1] = a
         /\ DOMAIN <<a, b>> = {1, 2} /\ <<a, b>>[1] = a /\ <<a, b>>[2] = b
         /\ DOMAIN <<a, b, c>> = {1, 2, 3}
         /\ <<a, b, c>>[1] = a /\ <<a, b, c>>[2] = b /\ <<a, b, c>>[3] = c
OBVIOUS

LEMMA StartHarmless ==
  ASSUME WiFiTypeOK, NEW age \in Age, NEW n \in Nat, NEW first, Start(first, age, n),
         first \in {<<>>, BootWrites}
  PROVE  /\ \A i \in DOMAIN pending' :
              \/ \E s \in StatusValues \ {JoinFailed} : pending'[i] = SetStatus(s)
              \/ i = 1 /\ first = BootWrites /\ pending'[i] = SetBoot(status)
         /\ first = BootWrites => pending' # <<>> /\ pending'[1] = SetBoot(status)
<1>1. PICK s \in StatusValues \ {JoinFailed} : pending' = first \o <<SetStatus(s)>>
  <2>1. "AP-Enabled" \in StatusValues \ {JoinFailed} /\ "Connecting" \in StatusValues \ {JoinFailed}
    BY DEF StatusValues, JoinFailed
  <2> QED BY <2>1, StartTypes
<1>2. CASE first = <<>>
  <2>1. pending' = <<SetStatus(s)>>
    BY <1>1, <1>2, WriteTypes, Lists
  <2>2. DOMAIN pending' = {1} /\ pending'[1] = SetStatus(s)
    BY <2>1, Places
  <2>3. first # BootWrites
    BY <1>2, BootTypes, LastOf
  <2> QED BY <1>1, <2>2, <2>3
<1>3. CASE first = BootWrites
  <2>1. pending' = <<SetBoot(status), SetStatus(Stopped(mode)), SetStatus(s)>>
    BY <1>1, <1>3, BootTypes
  <2>2. /\ DOMAIN pending' = {1, 2, 3} /\ pending' # <<>> /\ pending'[1] = SetBoot(status)
        /\ pending'[2] = SetStatus(Stopped(mode)) /\ pending'[3] = SetStatus(s)
    BY <2>1, Places, LastOf
  <2>3. Stopped(mode) \in StatusValues \ {JoinFailed}
    BY BootTypes DEF StatusValues, JoinFailed
  <2> QED BY <1>1, <1>3, <2>2, <2>3
<1> QED BY <1>2, <1>3

\* Both invariants as the firmware starts.
LEMMA BootReports ==
  ASSUME WiFiTypeOK, FailureInv, RevertedInv, Boot
  PROVE  FailureInv' /\ RevertedInv'
<1>1. 0 \in Age /\ 0 \in Nat /\ status \in StatusValues
  BY AgeTypes DEF WiFiTypeOK
<1>2. /\ ~power /\ power' = TRUE /\ UNCHANGED <<status, mode, reason>>
  BY DEF Boot, params
<1>3. /\ \A i \in DOMAIN pending' :
           \/ \E s \in StatusValues \ {JoinFailed} : pending'[i] = SetStatus(s)
           \/ i = 1 /\ pending'[i] = SetBoot(status)
      /\ pending' # <<>> /\ pending'[1] = SetBoot(status)
  <2>1. CASE configured.onBoot
    BY <1>1, <2>1, StartHarmless DEF Boot
  <2>2. CASE ~configured.onBoot
    <3>1. pending' = <<SetBoot(status), SetStatus(Stopped(mode))>>
      BY <2>2, BootTypes DEF Boot
    <3>2. /\ DOMAIN pending' = {1, 2} /\ pending' # <<>> /\ pending'[1] = SetBoot(status)
          /\ pending'[2] = SetStatus(Stopped(mode))
      BY <3>1, Places, LastOf
    <3>3. Stopped(mode) \in StatusValues \ {JoinFailed}
      BY BootTypes DEF StatusValues, JoinFailed
    <3> QED BY <3>2, <3>3
  <2> QED BY <2>1, <2>2
<1>4. FailureInv'
  BY <1>1, <1>2, <1>3, OtherWrites
<1>5. ASSUME reason' = "given"
      PROVE  /\ status' = JoinFailed
             /\ pending' # <<>> /\ pending'[1] = SetBoot(JoinFailed)
             /\ \A i \in DOMAIN pending' : i # 1 => pending'[i][1] # "WSBootStatus"
  <2>1. status = JoinFailed
    BY <1>2, <1>5 DEF RevertedInv
  <2> QED BY <1>2, <1>3, <2>1 DEF SetStatus
<1>6. reason' # "told"
  BY <1>2 DEF RevertedInv
<1> QED BY <1>2, <1>4, <1>5, <1>6 DEF RevertedInv, BootTold

\* Both invariants as the next of the pending writes is done.
LEMMA WriteReports ==
  ASSUME WiFiTypeOK, StatusInv, FailureInv, RevertedInv, SetConfigString
  PROVE  FailureInv' /\ RevertedInv'
<1>1. /\ power /\ power' = power /\ pending # <<>> /\ pending \in Seq(Write)
      /\ Head(pending) # Restart /\ pending' = Tail(pending)
  BY DEF SetConfigString, WiFiTypeOK
<1>2. /\ Len(pending) \in Nat \ {0} /\ DOMAIN pending = 1 .. Len(pending)
      /\ Head(pending) = pending[1] /\ pending[1] \in Write
      /\ DOMAIN pending' = 1 .. Len(pending) - 1
      /\ \A i \in 1 .. Len(pending) - 1 : pending'[i] = pending[i + 1] /\ i + 1 \in 1 .. Len(pending)
  BY <1>1, TailOf
<1>3. 1 \in DOMAIN pending
  BY <1>2
<1>4. /\ mode'       = IF pending[1][1] = "wifimode" THEN pending[1][2] ELSE mode
      /\ status'     = IF pending[1][1] = "WSStatus" THEN pending[1][2] ELSE status
      /\ bootStatus' = IF pending[1][1] = "WSBootStatus" THEN pending[1][2] ELSE bootStatus
  BY <1>2 DEF SetConfigString
<1>5. \/ pending[1][1] = "wifimode" /\ pending[1] = SetMode(pending[1][2]) /\ pending[1][2] \in Modes
      \/ pending[1][1] = "WSStatus" /\ pending[1] = SetStatus(pending[1][2])
      \/ pending[1][1] = "WSBootStatus" /\ pending[1] = SetBoot(pending[1][2])
  BY <1>1, <1>2, WriteIs
<1>6. StaysAP => StaysAP'
  BY <1>2 DEF StaysAP
<1>7. status' = JoinFailed => mode' = "AP" /\ StaysAP'
  <2> SUFFICES ASSUME status' = JoinFailed
               PROVE  mode' = "AP" /\ StaysAP'
    OBVIOUS
  <2>1. CASE pending[1][1] = "WSStatus"
    <3>1. pending[1] = SetStatus(JoinFailed)
      BY <1>4, <1>5, <2>1
    <3>2. StaysAP /\ mode = "AP"
      BY <1>3, <3>1 DEF FailureInv
    <3> QED BY <1>4, <1>6, <2>1, <3>2
  <2>2. CASE pending[1][1] # "WSStatus"
    <3>1. mode = "AP" /\ StaysAP
      BY <1>4, <2>2 DEF FailureInv
    <3>2. pending[1][1] = "wifimode" => pending[1][2] = "AP"
      BY <1>3, <1>5, <3>1 DEF StaysAP, Modes
    <3> QED BY <1>4, <1>6, <3>1, <3>2
  <2> QED BY <2>1, <2>2
<1>8. ASSUME NEW i \in DOMAIN pending', pending'[i] = SetStatus(JoinFailed)
      PROVE  /\ StaysAP' /\ i = 1 /\ mode' = "AP"
             /\ i + 1 \in DOMAIN pending' /\ pending'[i + 1] = Restart
  <2>1. /\ i + 1 \in DOMAIN pending /\ pending[i + 1] = SetStatus(JoinFailed) /\ i + 1 # 1
        /\ i \in Nat
    BY <1>2, <1>8
  <2>2. StaysAP /\ i + 1 = 2 /\ pending[1] = SetMode("AP")
    BY <2>1 DEF FailureInv
  <2>3. 2 \in DOMAIN pending /\ 2 + 1 \in DOMAIN pending /\ pending[2 + 1] = Restart
    BY <2>1, <2>2 DEF FailureInv
  <2>4. i = 1 /\ 2 \in 1 .. Len(pending) - 1
    BY <1>2, <2>1, <2>2, <2>3
  <2>5. pending'[2] = Restart
    BY <1>2, <2>3, <2>4
  <2>6. StaysAP' /\ mode' = "AP"
    BY <1>4, <1>6, <2>2 DEF SetMode
  <2> QED BY <1>2, <2>4, <2>5, <2>6
<1>9. ASSUME NEW i \in DOMAIN pending', pending'[i] = Restart
      PROVE  \/ i = 1 /\ status' = JoinFailed
             \/ i > 1 /\ pending'[i - 1] = SetStatus(JoinFailed)
  <2>1. i + 1 \in DOMAIN pending /\ pending[i + 1] = Restart /\ i \in Nat /\ i >= 1 /\ i <= Len(pending) - 1
    BY <1>2, <1>9
  <2>2. pending[i] = SetStatus(JoinFailed)
    <3>1. PICK j \in DOMAIN pending : j = i + 1 /\ pending[j] = Restart
      BY <2>1
    <3>2. \/ j = 1 /\ status = JoinFailed
          \/ j > 1 /\ pending[j - 1] = SetStatus(JoinFailed)
      BY <3>1 DEF FailureInv
    <3>3. j # 1 /\ j - 1 = i
      BY <2>1, <3>1
    <3> QED BY <3>2, <3>3
  <2>3. CASE i = 1
    BY <1>4, <2>2, <2>3 DEF SetStatus
  <2>4. CASE i > 1
    <3>1. i - 1 \in 1 .. Len(pending) - 1
      BY <1>2, <2>1, <2>4
    <3>2. pending'[i - 1] = pending[i - 1 + 1]
      BY <1>2, <3>1
    <3> QED BY <2>1, <2>2, <2>4, <3>2
  <2> QED BY <2>1, <2>3, <2>4
<1>10. FailureInv'
  BY <1>1, <1>7, <1>8, <1>9 DEF FailureInv
<1>11. CASE pending[1] = SetStatus(JoinFailed)
  <2>1. reason' = "given" /\ status' = JoinFailed
    BY <1>2, <1>4, <1>11 DEF SetConfigString, SetStatus, JoinFailed
  <2>2. 1 + 1 \in DOMAIN pending /\ pending[1 + 1] = Restart
    BY <1>3, <1>11 DEF FailureInv
  <2>3. 1 \in DOMAIN pending' /\ pending'[1] = Restart
    BY <1>2, <2>2
  <2>4. pending' # <<>>
    BY <2>3
  <2> QED BY <1>1, <1>10, <2>1, <2>3, <2>4 DEF RevertedInv
<1>12. CASE pending[1] # SetStatus(JoinFailed) /\ reason = "given"
  <2>1. /\ pending[1] = SetBoot(JoinFailed) /\ status = JoinFailed
        /\ \A i \in DOMAIN pending : i # 1 => ~BootTold(i)
    BY <1>1, <1>2, <1>12 DEF RevertedInv
  <2>2. pending[1][1] = "WSBootStatus" /\ pending[1][2] = JoinFailed
    BY <2>1 DEF SetBoot
  <2>3. reason' = "told" /\ bootStatus' = JoinFailed
    BY <1>2, <1>4, <1>12, <2>2 DEF SetConfigString, JoinFailed
  <2>4. ASSUME NEW i \in DOMAIN pending' PROVE pending'[i][1] # "WSBootStatus"
    <3>1. i + 1 \in DOMAIN pending /\ i + 1 # 1 /\ pending'[i] = pending[i + 1]
      BY <1>2
    <3> QED BY <2>1, <3>1 DEF BootTold
  <2> QED BY <1>1, <1>10, <2>3, <2>4 DEF RevertedInv, BootTold
<1>13. CASE pending[1] # SetStatus(JoinFailed) /\ reason = "told"
  <2>1. bootStatus = JoinFailed /\ \A i \in DOMAIN pending : pending[i][1] # "WSBootStatus"
    BY <1>13 DEF RevertedInv, BootTold
  <2>2. reason' = "told" /\ bootStatus' = JoinFailed
    BY <1>2, <1>3, <1>4, <1>13, <2>1 DEF SetConfigString, JoinFailed
  <2>3. \A i \in DOMAIN pending' : pending'[i][1] # "WSBootStatus"
    BY <1>2, <2>1
  <2> QED BY <1>1, <1>10, <2>2, <2>3 DEF RevertedInv, BootTold
<1>14. CASE pending[1] # SetStatus(JoinFailed) /\ reason \notin {"given", "told"}
  <2>1. reason' = reason
    BY <1>2, <1>14 DEF SetConfigString, JoinFailed
  <2> QED BY <1>10, <1>14, <2>1 DEF RevertedInv
<1> QED BY <1>10, <1>11, <1>12, <1>13, <1>14

LEMMA ReportsStep ==
  WiFiTypeOK /\ StatusInv /\ FailureInv /\ RevertedInv /\ [Next]_vars => FailureInv' /\ RevertedInv'
<1> SUFFICES ASSUME WiFiTypeOK, StatusInv, FailureInv, RevertedInv, [Next]_vars
             PROVE  FailureInv' /\ RevertedInv'
  OBVIOUS
<1>0. /\ 0 \in Age /\ 0 \in Nat /\ sinceAttempt \in Age /\ attempts \in Nat
      /\ pending \in Seq(Write) /\ status \in StatusValues
  BY AgeTypes DEF WiFiTypeOK
<1>1. Ready => /\ power /\ pending = <<>> /\ status # JoinFailed
               /\ reason # "given"
               /\ reason = "told" => bootStatus = JoinFailed
  <2>1. \A st : JoinFailed \notin Told(st)
    BY DEF Told, JoinFailed
  <2> QED BY <2>1 DEF Ready, StatusInv, RevertedInv
<1>2. UNCHANGED <<power, pending, mode, status, bootStatus, reason>> => FailureInv' /\ RevertedInv'
  BY DEF FailureInv, RevertedInv, StaysAP, BootTold
\* A list of statuses, written by a machine that is ready.
<1>3. ASSUME Ready, UNCHANGED <<power, mode, status, bootStatus, reason>>,
             \A i \in DOMAIN pending' : \E s \in StatusValues \ {JoinFailed} : pending'[i] = SetStatus(s)
      PROVE  FailureInv' /\ RevertedInv'
  <2>1. FailureInv'
    BY <1>1, <1>3, OtherWrites DEF WiFiTypeOK
  <2>2. \A i \in DOMAIN pending' : pending'[i][1] # "WSBootStatus"
    BY <1>3 DEF SetStatus
  <2> QED BY <1>1, <1>3, <2>1, <2>2 DEF RevertedInv, BootTold
<1>4. ASSUME Ready, UNCHANGED <<power, mode, status, bootStatus, reason>>,
             NEW s \in StatusValues \ {JoinFailed}, pending' = <<SetStatus(s)>>
      PROVE  FailureInv' /\ RevertedInv'
  <2>1. DOMAIN pending' = {1} /\ pending'[1] = SetStatus(s)
    BY <1>4, Places
  <2> QED BY <1>3, <1>4, <2>1
<1>5. {"Connect-Timeout-Retrying", "Connected", "Disconnected-Retrying", "AP-Enabled",
       "Station-Enabled"} \subseteq StatusValues \ {JoinFailed}
  BY DEF StatusValues, JoinFailed
<1>6. CASE Boot
  BY <1>6, BootReports
<1>7. CASE Connecting \/ Connected \/ ConnectionCheck
  <2>1. Ready /\ UNCHANGED <<power, mode, status, bootStatus, reason>>
    BY <1>7 DEF Connecting, Connected, ConnectionCheck, params
  <2>2. \/ pending' = pending
        \/ \E s \in StatusValues \ {JoinFailed} : pending' = <<SetStatus(s)>>
    BY <1>5, <1>7 DEF Connecting, Connected, ConnectionCheck, CheckWrites
  <2> QED BY <1>2, <1>4, <2>1, <2>2
<1>8. CASE MoveToSafeMode
  <2>1. /\ Ready /\ UNCHANGED <<power, mode, status, bootStatus, reason>>
        /\ pending' = <<SetMode("AP"), SetStatus(JoinFailed), Restart>>
    BY <1>8 DEF MoveToSafeMode, SafeModeWrites, params, JoinFailed
  <2>2. /\ DOMAIN pending' = {1, 2, 3} /\ pending'[1] = SetMode("AP")
        /\ pending'[2] = SetStatus(JoinFailed) /\ pending'[3] = Restart
    BY <2>1, Places
  <2>3. \A i \in DOMAIN pending' : pending'[i] # SetMode("Station") /\ pending'[i][1] # "WSBootStatus"
    <3>1. SetMode("AP")[1] = "wifimode" /\ SetStatus(JoinFailed)[1] = "WSStatus" /\ Restart[1] = "restart"
      BY DEF SetMode, SetStatus, Restart
    <3> QED BY <2>2, <3>1, Distinct
  <2>4. StaysAP'
    BY <2>3 DEF StaysAP
  <2>5. \A i \in DOMAIN pending' :
          /\ pending'[i] = SetStatus(JoinFailed) => i = 2
          /\ pending'[i] = Restart => i = 3
    BY <2>2, Distinct
  <2>6. 3 - 1 = 2 /\ 3 > 1
    OBVIOUS
  <2>7. FailureInv'
    BY <1>1, <2>1, <2>2, <2>4, <2>5, <2>6 DEF FailureInv
  <2> QED BY <1>1, <2>1, <2>3, <2>7 DEF RevertedInv, BootTold
<1>9. CASE SetConfigString
  BY <1>9, WriteReports
<1>10. CASE SafeModeRestart \/ PowerLoss
  <2>1. PowerDown /\ power /\ UNCHANGED <<mode, status, bootStatus>>
    BY <1>10 DEF SafeModeRestart, PowerLoss, params
  <2>2. power' = FALSE /\ pending' = <<>>
    BY <2>1, DownTypes
  <2>3. DOMAIN pending' = {}
    BY <2>2
  <2>4. FailureInv'
    BY <2>1, <2>2, <2>3 DEF FailureInv, StaysAP
  <2>5. reason' = IF reason = "told" THEN "none" ELSE reason
    BY <2>1, DownTypes
  <2>6. reason' = "given" => status' = JoinFailed
    BY <2>1, <2>5 DEF RevertedInv
  <2> QED BY <2>2, <2>4, <2>5, <2>6 DEF RevertedInv
<1>11. ASSUME NEW m \in Modes, ManageWireless(m)
       PROVE  FailureInv' /\ RevertedInv'
  <2>1. Ready /\ UNCHANGED <<power, mode, status, bootStatus, reason>>
    BY <1>11 DEF ManageWireless, params
  <2>2. PICK s \in StatusValues \ {JoinFailed} : pending' = <<SetMode(m), SetStatus(s)>>
    BY <1>5, <1>11 DEF ManageWireless
  <2>3. DOMAIN pending' = {1, 2} /\ pending'[1] = SetMode(m) /\ pending'[2] = SetStatus(s)
    BY <2>2, Places
  <2>4. \A i \in DOMAIN pending' :
          /\ pending'[i] # SetStatus(JoinFailed) /\ pending'[i] # Restart
          /\ pending'[i][1] # "WSBootStatus"
    BY <2>3, Distinct DEF SetMode, SetStatus
  <2> QED BY <1>1, <2>1, <2>4 DEF FailureInv, RevertedInv, BootTold
<1>12. CASE WirelessOn
  <2>1. /\ Ready /\ UNCHANGED <<power, mode, status, bootStatus, reason>>
        /\ Start(<<>>, sinceAttempt, attempts)
    BY <1>12 DEF WirelessOn, params
  <2>2. <<>> # BootWrites
    <3>1. BootWrites = <<SetBoot(status), SetStatus(Stopped(mode))>>
      BY BootTypes
    <3> QED BY <3>1, LastOf
  <2>3. PICK first : first = <<>>
    OBVIOUS
  <2>4. Start(first, sinceAttempt, attempts) /\ first # BootWrites
    BY <2>1, <2>2, <2>3
  <2>5. \A i \in DOMAIN pending' : \E s \in StatusValues \ {JoinFailed} : pending'[i] = SetStatus(s)
    <3>1. first \in {<<>>, BootWrites} /\ sinceAttempt \in Age /\ attempts \in Nat
      BY <1>0, <2>3
    <3>2. \A i \in DOMAIN pending' :
            \/ \E s \in StatusValues \ {JoinFailed} : pending'[i] = SetStatus(s)
            \/ i = 1 /\ first = BootWrites /\ pending'[i] = SetBoot(status)
      BY <2>4, <3>1, StartHarmless
    <3> QED BY <2>4, <3>2
  <2> QED BY <1>3, <2>1, <2>5
<1>13. CASE Retry
  BY <1>2, <1>13 DEF Retry, params
<1>14. CASE NetworkChanges \/ Joins \/ Leaves \/ Tick \/ UNCHANGED vars
  BY <1>2, <1>14 DEF NetworkChanges, Joins, Leaves, Tick, vars, params
<1> QED
  BY <1>6, <1>7, <1>8, <1>9, <1>10, <1>11, <1>12, <1>13, <1>14 DEF Next, StepState

\* A failed join is told only when the next boot is one of an access point; and
\* once the reason is in the status, the first boot that passes a status on passes
\* on this one, however often the power goes before (ReversionReported).  Nothing
\* is said of a loss of power before the reason is written, or after it was
\* passed on.
THEOREM ReversionCorrect == Spec => []ReversionReported
<1>1. Init => StatusInv /\ FailureInv /\ RevertedInv
  <2> SUFFICES ASSUME Init PROVE StatusInv /\ FailureInv /\ RevertedInv
    OBVIOUS
  <2>1. power = FALSE /\ pending = <<>> /\ status = "" /\ reason = "none"
    BY DEF Init
  <2>2. DOMAIN pending = {}
    <3>1. pending = <<>>
      BY <2>1
    <3>2. pending \in Seq(Write) /\ Len(pending) = 0
      BY <3>1, EmptySeq
    <3> QED BY <3>2
  <2> QED BY <2>1, <2>2 DEF StatusInv, FailureInv, RevertedInv, JoinFailed
<1>2. StatusInv /\ FailureInv /\ RevertedInv => ReversionReported
  BY DEF StatusInv, FailureInv, RevertedInv, ReversionReported, Ready, JoinFailed
<1> QED BY <1>1, <1>2, StatusStep, ReportsStep, WiFiTypeCorrect, PTL DEF Spec

-----------------------------------------------------------------------------
(* Points of the ring. *)

\* Quotient and remainder, with any number and any length.
LEMMA Remainder ==
  ASSUME NEW a \in Int, NEW b \in Nat \ {0}
  PROVE  a % b \in 0 .. b - 1 /\ \E q \in Int : a = q * b + (a % b)
<1>1. a \div b \in Int /\ a % b \in 0 .. b - 1 /\ a = b * (a \div b) + (a % b)
  BY SMT
<1>2. PICK q \in Int : q = a \div b
  BY <1>1
<1>3. b * q = q * b
  BY SMT
<1> QED BY <1>1, <1>2, <1>3

\* Nothing but zero is a multiple and smaller.
LEMMA SmallMultiple ==
  ASSUME NEW q \in Int, NEW b \in Nat \ {0}, q * b > -b, q * b < b
  PROVE  q = 0
<1>1. q >= 1 => q * b >= b
  BY SMT
<1>2. q <= -1 => q * b <= -b
  BY SMT
<1> QED BY <1>1, <1>2, SMT

LEMMA Distributes == \A q, p, b \in Int : (q - p) * b = q * b - p * b /\ (q + p) * b = q * b + p * b
BY SMT

LEMMA PlaceIs ==
  ASSUME NEW a \in Int
  PROVE  /\ Place(a) \in 0 .. RingBufferLength - 1
         /\ \E q \in Int : a = q * RingBufferLength + Place(a)
BY AssemblerConstants, Remainder DEF Place

\* The place is the only remainder.
LEMMA PlaceEquals ==
  ASSUME NEW a \in Int, NEW r \in 0 .. RingBufferLength - 1, NEW q \in Int, a = q * RingBufferLength + r
  PROVE  Place(a) = r
<1>1. PICK p \in Int, m \in 0 .. RingBufferLength - 1 : m = Place(a) /\ a = p * RingBufferLength + m
  BY PlaceIs
<1>2. PICK b \in Nat \ {0} : b = RingBufferLength
  BY AssemblerConstants
<1>3. PICK x \in Int, y \in Int : x = q * b /\ y = p * b /\ a = x + r /\ a = y + m
  BY <1>1, <1>2
<1>4. q * b - p * b = m - r
  BY <1>2, <1>3
<1>5. PICK d \in Int : d = q - p
  OBVIOUS
<1>6. d * b = m - r
  BY <1>4, <1>5, Distributes
<1>7. m - r > -b /\ m - r < b
  BY <1>2
<1>8. d = 0
  BY <1>6, <1>7, SmallMultiple
<1>9. x = y
  <2>1. q = p
    BY <1>5, <1>8
  <2> QED BY <1>3, <2>1
<1>10. m = r
  BY <1>3, <1>9
<1> QED BY <1>1, <1>10

LEMMA SamePlace ==
  ASSUME NEW a \in Int, NEW b \in Int, NEW q \in Int, a = q * RingBufferLength + b
  PROVE  Place(a) = Place(b)
<1>1. PICK p \in Int, r \in 0 .. RingBufferLength - 1 : r = Place(b) /\ b = p * RingBufferLength + r
  BY PlaceIs
<1>2. PICK n \in Int : n = q + p
  OBVIOUS
<1>3. n * RingBufferLength = q * RingBufferLength + p * RingBufferLength
  BY <1>2, Distributes, AssemblerConstants
<1>4. a = n * RingBufferLength + r
  <2>1. PICK x \in Int, y \in Int, z \in Int :
          x = n * RingBufferLength /\ y = q * RingBufferLength /\ z = p * RingBufferLength
    BY AssemblerConstants
  <2>2. x = y + z /\ b = z + r /\ a = y + b
    BY <1>1, <1>3, <2>1, Zenon
  <2>3. a = x + r
    BY <2>2
  <2> QED BY <2>1, <2>3, Zenon
<1> QED BY <1>1, <1>4, PlaceEquals

LEMMA PlaceOfPlace ==
  ASSUME NEW a \in Int, NEW b \in Int
  PROVE  Place(Place(a) + b) = Place(a + b)
<1>1. PICK q \in Int : a = q * RingBufferLength + Place(a) /\ Place(a) \in 0 .. RingBufferLength - 1
  BY PlaceIs
<1>2. a + b = q * RingBufferLength + (Place(a) + b) /\ Place(a) + b \in Int /\ a + b \in Int
  BY <1>1, AssemblerConstants, SMT
<1> QED BY <1>2, SamePlace

LEMMA PlaceWithin == \A n \in 0 .. RingBufferLength - 1 : Place(n) = n
<1> SUFFICES ASSUME NEW n \in 0 .. RingBufferLength - 1 PROVE Place(n) = n
  OBVIOUS
<1>1. n = 0 * RingBufferLength + n /\ n \in Int /\ RingBufferLength \in Nat \ {0}
  BY AssemblerConstants, SMT
<1> QED BY <1>1, PlaceEquals

\* Numbers less than the length apart have places of their own.
LEMMA PlacesDiffer ==
  ASSUME NEW a \in Int, NEW b \in Int, a < b, b < a + RingBufferLength
  PROVE  Place(a) # Place(b)
<1> SUFFICES ASSUME Place(a) = Place(b) PROVE FALSE
  OBVIOUS
<1>1. PICK p \in Int : a = p * RingBufferLength + Place(a)
  BY PlaceIs
<1>2. PICK q \in Int : b = q * RingBufferLength + Place(a)
  BY PlaceIs
<1>3. Place(a) \in Int /\ RingBufferLength \in Nat \ {0}
  BY PlaceIs, AssemblerConstants
<1>4. b - a = (q - p) * RingBufferLength /\ q - p \in Int
  BY <1>1, <1>2, <1>3, SMT
<1>5. (q - p) * RingBufferLength > -RingBufferLength /\ (q - p) * RingBufferLength < RingBufferLength
  BY <1>3, <1>4, SMT
<1>6. q - p = 0
  BY <1>3, <1>4, <1>5, SmallMultiple
<1> QED BY <1>3, <1>4, <1>6, SMT

-----------------------------------------------------------------------------
(* The ring. *)

\* The points are as far apart as what is held, around the ring, and what was put
\* in last is still there.
RingInv ==
  /\ writePoint = Place(readPoint + Len(held))
  /\ \A j \in 1 .. Len(held) :
       Len(held) - j < RingBufferLength => ring[Place(readPoint + j - 1)].time = held[j]

\* What waits is the last of what is held: the rest went with each turn of the
\* ring.
LEMMA WaitingIs ==
  ASSUME AssemblerTypeOK, RingInv
  PROVE  \E gone \in Nat :
           /\ Place(writePoint - readPoint) = Len(held) - gone
           /\ gone <= Len(held)
           /\ \A k \in 1 .. Len(held) - gone : Waiting[k].time = held[gone + k]
           /\ Len(held) < RingBufferLength => gone = 0
<1>0. /\ readPoint \in 0 .. RingBufferLength - 1 /\ Len(held) \in Nat
      /\ RingBufferLength \in Nat \ {0}
  BY AssemblerConstants DEF AssemblerTypeOK
<1> DEFINE n == Place(Len(held))
<1>1. n \in 0 .. RingBufferLength - 1 /\ Len(held) \in Int /\ readPoint \in Int
  BY <1>0, PlaceIs
<1>2. PICK q \in Int : Len(held) = q * RingBufferLength + n
  BY <1>1, PlaceIs, Zenon
<1>3. Place(writePoint - readPoint) = n
  <2>1. Place(Place(readPoint + Len(held)) + (-readPoint)) = Place(readPoint + Len(held) + (-readPoint))
    BY <1>1, PlaceOfPlace
  <2>2. readPoint + Len(held) + (-readPoint) = Len(held)
    BY <1>1
  <2>3. writePoint - readPoint = writePoint + (-readPoint)
    BY <1>1 DEF AssemblerTypeOK
  <2> QED BY <2>1, <2>2, <2>3 DEF RingInv
<1> DEFINE gone == q * RingBufferLength
<1>4. gone \in Int /\ Len(held) = gone + n
  BY <1>0, <1>2
<1>5. gone >= 0
  <2>1. gone > -RingBufferLength
    BY <1>0, <1>1, <1>4
  <2>2. q <= -1 => gone <= -RingBufferLength
    BY <1>0, SMT
  <2>3. q >= 0
    BY <2>1, <2>2, <1>0, <1>4, SMT
  <2> QED BY <1>0, <2>3, SMT
<1>6. ASSUME NEW k \in 1 .. n
      PROVE  Waiting[k].time = held[gone + k]
  <2>1. Waiting[k] = ring[Place(readPoint + k - 1)]
    BY <1>3 DEF Waiting
  <2>2. gone + k \in 1 .. Len(held) /\ Len(held) - (gone + k) < RingBufferLength
    BY <1>0, <1>1, <1>4, <1>5
  <2>3. ring[Place(readPoint + (gone + k) - 1)].time = held[gone + k]
    BY <2>2 DEF RingInv
  <2>4. readPoint + (gone + k) - 1 = q * RingBufferLength + (readPoint + k - 1)
    BY <1>0, <1>1, <1>4
  <2>5. readPoint + (gone + k) - 1 \in Int /\ readPoint + k - 1 \in Int
    BY <1>0, <1>4
  <2>6. Place(readPoint + (gone + k) - 1) = Place(readPoint + k - 1)
    BY <2>4, <2>5, SamePlace
  <2> QED BY <2>1, <2>3, <2>6
<1>7. Len(held) < RingBufferLength => gone = 0
  <2>1. Len(held) < RingBufferLength => n = Len(held)
    BY <1>0, PlaceWithin
  <2> QED BY <1>1, <1>4, <2>1
<1>8. Len(held) - gone = n /\ gone <= Len(held) /\ gone \in Nat
  BY <1>1, <1>4, <1>5
<1> HIDE DEF gone, n
<1> QED BY <1>3, <1>6, <1>7, <1>8

LEMMA AppendIs ==
  ASSUME NEW S, NEW q \in Seq(S), NEW e \in S
  PROVE  /\ Append(q, e) \in Seq(S) /\ Len(Append(q, e)) = Len(q) + 1
         /\ \A i \in 1 .. Len(q) : Append(q, e)[i] = q[i]
         /\ Append(q, e)[Len(q) + 1] = e
OBVIOUS

LEMMA EmptyIs == \A S : <<>> \in Seq(S) /\ Len(<<>>) = 0
OBVIOUS

\* Putting a sentence in the ring.
LEMMA PutIn ==
  ASSUME AssemblerTypeOK, RingInv, EndSentence
  PROVE  RingInv'
<1>0. /\ readPoint \in 0 .. RingBufferLength - 1 /\ Len(held) \in Nat
      /\ writePoint \in 0 .. RingBufferLength - 1
      /\ RingBufferLength \in Nat \ {0} /\ held \in Seq(Number) /\ current.time \in Number
      /\ ring \in [0 .. RingBufferLength - 1 -> Sentence]
  BY AssemblerConstants DEF AssemblerTypeOK, Sentence
<1>1. /\ readPoint' = readPoint /\ writePoint' = Place(writePoint + 1)
      /\ held' = Append(held, current.time) /\ ring' = [ring EXCEPT ![writePoint] = current]
  BY DEF EndSentence
<1>2. /\ Len(held') = Len(held) + 1 /\ held'[Len(held) + 1] = current.time
      /\ \A j \in 1 .. Len(held) : held'[j] = held[j]
  BY <1>0, <1>1, AppendIs
<1>3. writePoint = Place(readPoint + Len(held))
  BY DEF RingInv
<1>4. writePoint' = Place(readPoint + Len(held'))
  <2>1. Place(Place(readPoint + Len(held)) + 1) = Place(readPoint + Len(held) + 1)
    BY <1>0, PlaceOfPlace
  <2>2. readPoint + Len(held) + 1 = readPoint + Len(held')
    BY <1>0, <1>2
  <2> QED BY <1>1, <1>3, <2>1, <2>2
<1>5. ASSUME NEW j \in 1 .. Len(held'), Len(held') - j < RingBufferLength
      PROVE  ring'[Place(readPoint + j - 1)].time = held'[j]
  <2>1. CASE j = Len(held) + 1
    <3>1. readPoint + j - 1 = readPoint + Len(held)
      BY <1>0, <2>1
    <3> QED BY <1>0, <1>1, <1>2, <1>3, <2>1, <3>1
  <2>2. CASE j # Len(held) + 1
    <3>1. j \in 1 .. Len(held) /\ Len(held) - j < RingBufferLength
      BY <1>0, <1>2, <1>5, <2>2
    <3>2. ring[Place(readPoint + j - 1)].time = held[j]
      BY <3>1 DEF RingInv
    <3>3. /\ readPoint + j - 1 \in Int /\ readPoint + Len(held) \in Int
          /\ readPoint + j - 1 < readPoint + Len(held)
          /\ readPoint + Len(held) < readPoint + j - 1 + RingBufferLength
      BY <1>0, <1>2, <1>5, <3>1
    <3>4. Place(readPoint + j - 1) # writePoint
      BY <1>3, <3>3, PlacesDiffer
    <3>5. Place(readPoint + j - 1) \in 0 .. RingBufferLength - 1
      BY <3>3, PlaceIs
    <3> QED BY <1>0, <1>1, <1>2, <3>1, <3>2, <3>4, <3>5
  <2> QED BY <2>1, <2>2
<1> QED BY <1>1, <1>4, <1>5 DEF RingInv

\* The ring as it was.
LEMMA RingAsIs ==
  ASSUME RingInv, UNCHANGED <<ring, readPoint, writePoint, held>>
  PROVE  RingInv'
BY DEF RingInv

LEMMA RingStep == AssemblerTypeOK /\ RingInv /\ [AssemblerNext]_assemblerVars => RingInv'
<1> SUFFICES ASSUME AssemblerTypeOK, RingInv, [AssemblerNext]_assemblerVars
             PROVE  RingInv'
  OBVIOUS
<1>1. CASE ProcessMessages
  <2>1. readPoint' = writePoint /\ writePoint' = writePoint /\ held' = <<>>
    BY <1>1 DEF ProcessMessages
  <2>2. Len(held') = 0
    BY <2>1
  <2>3. writePoint \in 0 .. RingBufferLength - 1 /\ writePoint + 0 = writePoint
    BY DEF AssemblerTypeOK
  <2>4. Place(writePoint) = writePoint
    BY <2>3, PlaceWithin
  <2> QED BY <2>1, <2>2, <2>3, <2>4 DEF RingInv
<1>2. CASE EndSentence
  BY <1>2, PutIn
<1>3. ASSUME \/ StartSentence \/ Noise \/ \E b \in BOOLEAN : AddCharacter(b) \/ SetRxInvert(b)
             \/ UNCHANGED assemblerVars
      PROVE  UNCHANGED <<ring, readPoint, writePoint, held>>
  BY <1>3 DEF StartSentence, Noise, AddCharacter, SetRxInvert, assemblerVars, points, history
<1> QED BY <1>1, <1>2, <1>3, RingAsIs DEF AssemblerNext

-----------------------------------------------------------------------------
(* Types. *)

\* The sentence being assembled has as many characters as are counted for it.
LengthInv == current.length = chars.length

\* What is recorded of the sentences that wait, in the order in which they wait.
LEMMA RecordedIs ==
  ASSUME ProcessMessages, AssemblerTypeOK
  PROVE  \E n \in Nat : \E order \in [1 .. n -> Kept] :
           /\ n = Cardinality(Kept)
           /\ \A i, j \in 1 .. n : i < j => order[i] < order[j]
           /\ recorded' = recorded \o [k \in 1 .. n |-> Shown(Waiting[order[k]])]
<1>1. IsFiniteSet(Kept)
  <2>1. Place(writePoint - readPoint) \in Int
    BY PlaceIs DEF AssemblerTypeOK
  <2>2. Kept \subseteq 1 .. Place(writePoint - readPoint)
    BY DEF Kept, Waiting
  <2>3. PICK m \in Int : m = Place(writePoint - readPoint)
    BY <2>1
  <2>4. IsFiniteSet(1 .. m) /\ Kept \in SUBSET (1 .. m)
    BY <2>2, <2>3, FS_Interval
  <2> QED BY <2>4, FS_Subset
<1>2. Cardinality(Kept) \in Nat
  BY <1>1, FS_CardinalityType
<1> QED BY <1>2 DEF ProcessMessages

\* What is recorded of a sentence that waits is a time and a number.
LEMMA ShownIs ==
  ASSUME AssemblerTypeOK
  PROVE  \A k \in Kept : Shown(Waiting[k]) \in [time : Number, of : Number]
<1>1. ASSUME NEW k \in 1 .. Place(writePoint - readPoint)
      PROVE  Waiting[k] \in Sentence
  <2>1. readPoint + k - 1 \in Int
    BY DEF AssemblerTypeOK
  <2>2. Place(readPoint + k - 1) \in 0 .. RingBufferLength - 1
    BY <2>1, PlaceIs
  <2> QED BY <2>2 DEF Waiting, AssemblerTypeOK
<1>2. Kept \subseteq 1 .. Place(writePoint - readPoint)
  BY DEF Kept, Waiting
<1> QED BY <1>1, <1>2 DEF Shown, AssemblerTypeOK, Sentence, Chars

LEMMA TypeStep ==
  AssemblerTypeOK /\ LengthInv /\ [AssemblerNext]_assemblerVars => AssemblerTypeOK' /\ LengthInv'
<1> SUFFICES ASSUME AssemblerTypeOK, LengthInv, [AssemblerNext]_assemblerVars
             PROVE  AssemblerTypeOK' /\ LengthInv'
  OBVIOUS
<1> USE AssemblerConstants
<1>1. CASE StartSentence
  <2>1. /\ started' \in Number /\ current' = [time |-> started + 1, length |-> 1]
        /\ started + 1 \in Number /\ 1 \in 0 .. MaxLength /\ 0 \in 0 .. MaxLength
    BY <1>1 DEF StartSentence, AssemblerTypeOK, Number
  <2>2. PICK wanted \in BOOLEAN :
          chars' = [of |-> started + 1, length |-> 1, checked |-> FALSE, wanted |-> wanted]
    BY <1>1 DEF StartSentence
  <2>3. chars' \in Chars /\ current' \in Sentence /\ LengthInv'
    BY <2>1, <2>2 DEF Chars, Sentence, LengthInv
  <2>4. prompt' \in BOOLEAN
    BY <1>1 DEF StartSentence, AssemblerTypeOK
  <2> QED BY <1>1, <2>1, <2>3, <2>4 DEF StartSentence, AssemblerTypeOK, wires, points
<1>2. ASSUME NEW checked \in BOOLEAN, AddCharacter(checked)
      PROVE  AssemblerTypeOK' /\ LengthInv'
  <2>1. CASE chars.length < MaxLength
    <3>1. /\ chars' = [chars EXCEPT !.length = @ + 1, !.checked = checked]
          /\ current' = [current EXCEPT !.length = @ + 1] /\ state' = state
      BY <1>2, <2>1 DEF AddCharacter
    <3>2. chars.length + 1 \in 0 .. MaxLength /\ current.length = chars.length
      BY <2>1 DEF AssemblerTypeOK, Chars, LengthInv
    <3>3. chars' \in Chars /\ chars'.length = chars.length + 1
      BY <3>1, <3>2 DEF AssemblerTypeOK, Chars
    <3>4. current' \in Sentence /\ current'.length = current.length + 1
      BY <3>1, <3>2 DEF AssemblerTypeOK, Sentence
    <3>5. LengthInv'
      BY <3>2, <3>3, <3>4 DEF LengthInv
    <3> QED BY <1>2, <3>1, <3>3, <3>4, <3>5 DEF AddCharacter, AssemblerTypeOK, wires, points, history
  <2>2. CASE ~(chars.length < MaxLength)
    BY <1>2, <2>2 DEF AddCharacter, AssemblerTypeOK, LengthInv, wires, points, history
  <2> QED BY <2>1, <2>2
<1>3. CASE EndSentence
  <2>1. held' \in Seq(Number) /\ finished' \in Seq(Number)
    BY <1>3, AppendIs DEF EndSentence, AssemblerTypeOK, Sentence, Chars
  <2>2. writePoint' \in 0 .. RingBufferLength - 1
    BY <1>3, PlaceIs DEF EndSentence, AssemblerTypeOK
  <2>3. ring' \in [0 .. RingBufferLength - 1 -> Sentence]
    BY <1>3 DEF EndSentence, AssemblerTypeOK
  <2> QED BY <1>3, <2>1, <2>2, <2>3 DEF EndSentence, AssemblerTypeOK, LengthInv, wires
<1>4. CASE ProcessMessages
  <2>0. PICK n \in Nat : \E order \in [1 .. n -> Kept] :
          recorded' = recorded \o [k \in 1 .. n |-> Shown(Waiting[order[k]])]
    BY <1>4, RecordedIs
  <2>1. PICK order \in [1 .. n -> Kept] :
          recorded' = recorded \o [k \in 1 .. n |-> Shown(Waiting[order[k]])]
    BY <2>0
  <2>2. \A k \in Kept : Shown(Waiting[k]) \in [time : Number, of : Number]
    BY ShownIs
  <2> DEFINE more == [k \in 1 .. n |-> Shown(Waiting[order[k]])]
  <2>3. more \in Seq([time : Number, of : Number])
    BY <2>1, <2>2
  <2> HIDE DEF more
  <2>4. recorded \o more \in Seq([time : Number, of : Number])
    BY <2>3, ConcatProperties DEF AssemblerTypeOK
  <2>5. held' \in Seq(Number)
    BY <1>4, EmptyIs DEF ProcessMessages
  <2>6. recorded' \in Seq([time : Number, of : Number])
    BY <2>1, <2>4 DEF more
  <2> QED BY <1>4, <2>5, <2>6 DEF ProcessMessages, AssemblerTypeOK, LengthInv, wires
<1>5. CASE Noise \/ \E b \in BOOLEAN : SetRxInvert(b)
  BY <1>5 DEF Noise, SetRxInvert, AssemblerTypeOK, LengthInv, points, history
<1>6. CASE UNCHANGED assemblerVars
  BY <1>6 DEF assemblerVars, AssemblerTypeOK, LengthInv
<1> QED BY <1>1, <1>2, <1>3, <1>4, <1>5, <1>6 DEF AssemblerNext

LEMMA Starts == AssemblerInit => AssemblerTypeOK /\ LengthInv /\ RingInv
<1> SUFFICES ASSUME AssemblerInit PROVE AssemblerTypeOK /\ LengthInv /\ RingInv
  OBVIOUS
<1>1. /\ miswired \in BOOLEAN /\ inverted = FALSE /\ state = "searching" /\ chars = NoChars
      /\ current = NoSentence /\ ring = [n \in 0 .. RingBufferLength - 1 |-> NoSentence]
      /\ readPoint = 0 /\ writePoint = 0 /\ started = 0 /\ prompt = TRUE
  BY DEF AssemblerInit
<1>2. recorded = <<>> /\ finished = <<>> /\ held = <<>>
  BY DEF AssemblerInit
<1>3. /\ recorded \in Seq([time : Number, of : Number]) /\ finished \in Seq(Number)
      /\ held \in Seq(Number) /\ Len(held) = 0
  BY <1>2, EmptyIs
<1>4. 0 \in Number /\ 0 \in 0 .. MaxLength /\ 0 \in 0 .. RingBufferLength - 1
  BY AssemblerConstants DEF Number
<1>5. NoChars \in Chars /\ NoSentence \in Sentence /\ LengthInv
  BY <1>1, <1>4 DEF NoChars, NoSentence, Chars, Sentence, LengthInv
<1>6. AssemblerTypeOK
  BY <1>1, <1>3, <1>4, <1>5 DEF AssemblerTypeOK
<1>7. Place(0 + 0) = 0
  BY <1>4, PlaceWithin
<1> QED BY <1>1, <1>3, <1>5, <1>6, <1>7 DEF RingInv

\* Types are right in every state (AssemblerTypeOK).
THEOREM AssemblerTypeCorrect == AssemblerSpec => []AssemblerTypeOK
BY Starts, TypeStep, PTL DEF AssemblerSpec

\* The ring holds what was put in it since it was read, in order, as long as
\* that is less than its length (RingKeeps).
THEOREM RingCorrect == AssemblerSpec => []RingKeeps
<1>1. AssemblerTypeOK /\ RingInv => RingKeeps
  <2> SUFFICES ASSUME AssemblerTypeOK, RingInv, Len(held) < RingBufferLength
               PROVE  /\ Len(Waiting) = Len(held)
                      /\ \A k \in 1 .. Len(held) : Waiting[k].time = held[k]
    BY DEF RingKeeps
  <2>1. PICK gone \in Nat :
          /\ Place(writePoint - readPoint) = Len(held) - gone
          /\ \A k \in 1 .. Len(held) - gone : Waiting[k].time = held[gone + k]
          /\ gone = 0
    BY WaitingIs
  <2>2. Len(held) \in Nat
    BY DEF AssemblerTypeOK
  <2>3. /\ Place(writePoint - readPoint) = Len(held)
        /\ \A k \in 1 .. Len(held) : Waiting[k].time = held[k]
    BY <2>1, <2>2
  <2>4. Len(Waiting) = Len(held)
    BY <2>2, <2>3 DEF Waiting
  <2> QED BY <2>3, <2>4
<1> QED BY <1>1, Starts, TypeStep, RingStep, PTL DEF AssemblerSpec

-----------------------------------------------------------------------------
(* Times. *)

\* Times of what is held are in order and later than those recorded; none is later
\* than the sentence being assembled.
TimesInv ==
  /\ TimesInOrder
  /\ \A i, j \in 1 .. Len(held) : i < j => held[i] < held[j]
  /\ \A i \in 1 .. Len(recorded), j \in 1 .. Len(held) : recorded[i].time < held[j]
  /\ \A i \in 1 .. Len(recorded) : recorded[i].time <= started
  /\ \A j \in 1 .. Len(held) : held[j] <= started
  /\ state = "capturing" =>
       /\ current.time = started
       /\ \A i \in 1 .. Len(recorded) : recorded[i].time < started
       /\ \A j \in 1 .. Len(held) : held[j] < started

LEMMA ElementIs ==
  ASSUME NEW S, NEW s \in Seq(S)
  PROVE  Len(s) \in Nat /\ \A i \in 1 .. Len(s) : s[i] \in S
OBVIOUS

LEMMA TogetherIs ==
  ASSUME NEW S, NEW s \in Seq(S), NEW t \in Seq(S)
  PROVE  /\ Len(s \o t) = Len(s) + Len(t)
         /\ \A i \in 1 .. Len(s) : (s \o t)[i] = s[i]
         /\ \A k \in 1 .. Len(t) : (s \o t)[Len(s) + k] = t[k]
<1>1. /\ Len(s \o t) = Len(s) + Len(t)
      /\ \A i \in 1 .. Len(s) + Len(t) :
           (s \o t)[i] = IF i <= Len(s) THEN s[i] ELSE t[i - Len(s)]
  BY ConcatProperties
<1>2. PICK m \in Nat, n \in Nat : m = Len(s) /\ n = Len(t)
  OBVIOUS
<1>3. ASSUME NEW k \in 1 .. n
      PROVE  (s \o t)[m + k] = t[k]
  <2>1. m + k \in 1 .. m + n /\ ~(m + k <= m) /\ (m + k) - m = k
    BY <1>2, <1>3
  <2> QED BY <1>1, <1>2, <2>1
<1>4. \A i \in 1 .. m : i \in 1 .. m + n /\ i <= m
  BY <1>2
<1> QED BY <1>1, <1>2, <1>3, <1>4

\* What ProcessMessages records, one by one.
LEMMA RecordedAre ==
  ASSUME AssemblerTypeOK, ProcessMessages
  PROVE  \E n \in Nat : \E order \in [1 .. n -> Kept] :
           /\ n = Cardinality(Kept)
           /\ \A i, j \in 1 .. n : i < j => order[i] < order[j]
           /\ Len(recorded') = Len(recorded) + n
           /\ \A i \in 1 .. Len(recorded) : recorded'[i] = recorded[i]
           /\ \A k \in 1 .. n : recorded'[Len(recorded) + k] = Shown(Waiting[order[k]])
<1>1. PICK n \in Nat : \E order \in [1 .. n -> Kept] :
        /\ n = Cardinality(Kept)
        /\ \A i, j \in 1 .. n : i < j => order[i] < order[j]
        /\ recorded' = recorded \o [k \in 1 .. n |-> Shown(Waiting[order[k]])]
  BY RecordedIs
<1>2. PICK order \in [1 .. n -> Kept] :
        /\ n = Cardinality(Kept)
        /\ \A i, j \in 1 .. n : i < j => order[i] < order[j]
        /\ recorded' = recorded \o [k \in 1 .. n |-> Shown(Waiting[order[k]])]
  BY <1>1
<1> DEFINE more == [k \in 1 .. n |-> Shown(Waiting[order[k]])]
           Record == [time : Number, of : Number]
<1>3. recorded \in Seq(Record) /\ more \in Seq(Record) /\ Len(more) = n
  <2>1. \A k \in 1 .. n : more[k] \in Record
    BY <1>2, ShownIs
  <2> QED BY <2>1 DEF AssemblerTypeOK
<1>4. \A k \in 1 .. n : more[k] = Shown(Waiting[order[k]])
  OBVIOUS
<1>5. recorded' = recorded \o more
  BY <1>2
<1> HIDE DEF more, Record
<1>6. /\ Len(recorded \o more) = Len(recorded) + Len(more)
      /\ \A i \in 1 .. Len(recorded) : (recorded \o more)[i] = recorded[i]
      /\ \A k \in 1 .. Len(more) : (recorded \o more)[Len(recorded) + k] = more[k]
  <2>1. recorded \in Seq(Record) /\ more \in Seq(Record)
    BY <1>3
  <2> QED BY <2>1, TogetherIs
<1>7. /\ Len(recorded') = Len(recorded) + n
      /\ \A i \in 1 .. Len(recorded) : recorded'[i] = recorded[i]
      /\ \A k \in 1 .. n : recorded'[Len(recorded) + k] = Shown(Waiting[order[k]])
  BY <1>3, <1>4, <1>5, <1>6
<1> QED BY <1>2, <1>7

\* They were held, and later ones are recorded later.
LEMMA Added ==
  ASSUME AssemblerTypeOK, RingInv, ProcessMessages
  PROVE  \E n \in Nat : \E place \in [1 .. n -> 1 .. Len(held)] :
           /\ \A i, j \in 1 .. n : i < j => place[i] < place[j]
           /\ Len(recorded') = Len(recorded) + n
           /\ \A i \in 1 .. Len(recorded) : recorded'[i] = recorded[i]
           /\ \A k \in 1 .. n : recorded'[Len(recorded) + k].time = held[place[k]]
<1>1. PICK n \in Nat : \E order \in [1 .. n -> Kept] :
        /\ \A i, j \in 1 .. n : i < j => order[i] < order[j]
        /\ Len(recorded') = Len(recorded) + n
        /\ \A i \in 1 .. Len(recorded) : recorded'[i] = recorded[i]
        /\ \A k \in 1 .. n : recorded'[Len(recorded) + k] = Shown(Waiting[order[k]])
  BY RecordedAre
<1>2. PICK order \in [1 .. n -> Kept] :
        /\ \A i, j \in 1 .. n : i < j => order[i] < order[j]
        /\ Len(recorded') = Len(recorded) + n
        /\ \A i \in 1 .. Len(recorded) : recorded'[i] = recorded[i]
        /\ \A k \in 1 .. n : recorded'[Len(recorded) + k] = Shown(Waiting[order[k]])
  BY <1>1
<1>3. PICK gone \in Nat :
        /\ Place(writePoint - readPoint) = Len(held) - gone
        /\ gone <= Len(held)
        /\ \A k \in 1 .. Len(held) - gone : Waiting[k].time = held[gone + k]
  BY WaitingIs
<1>4. Kept \subseteq 1 .. Len(held) - gone /\ Len(held) \in Nat
  BY <1>3 DEF Kept, Waiting, AssemblerTypeOK
<1> DEFINE place == [k \in 1 .. n |-> gone + order[k]]
<1>5. \A k \in 1 .. n : order[k] \in 1 .. Len(held) - gone
  BY <1>4
<1>6. place \in [1 .. n -> 1 .. Len(held)]
  BY <1>3, <1>4, <1>5
<1>7. \A i, j \in 1 .. n : i < j => place[i] < place[j]
  BY <1>2, <1>4, <1>5
<1>8. \A k \in 1 .. n : recorded'[Len(recorded) + k].time = held[place[k]]
  <2>1. ASSUME NEW k \in 1 .. n
        PROVE  recorded'[Len(recorded) + k].time = held[place[k]]
    <3>1. recorded'[Len(recorded) + k] = Shown(Waiting[order[k]])
      BY <1>2
    <3>2. Waiting[order[k]].time = held[gone + order[k]]
      BY <1>3, <1>5
    <3>3. place[k] = gone + order[k]
      OBVIOUS
    <3>4. Shown(Waiting[order[k]]).time = Waiting[order[k]].time
      BY DEF Shown
    <3> QED BY <3>1, <3>2, <3>3, <3>4
  <2> QED BY <2>1
<1> HIDE DEF place
<1> QED BY <1>2, <1>6, <1>7, <1>8

LEMMA TimesStep ==
  AssemblerTypeOK /\ RingInv /\ TimesInv /\ [AssemblerNext]_assemblerVars => TimesInv'
<1> SUFFICES ASSUME AssemblerTypeOK, RingInv, TimesInv, [AssemblerNext]_assemblerVars
             PROVE  TimesInv'
  OBVIOUS
<1>0. /\ started \in Nat /\ held \in Seq(Number) /\ Len(held) \in Nat /\ Len(recorded) \in Nat
      /\ \A i \in 1 .. Len(recorded) : recorded[i].time \in Nat
      /\ \A j \in 1 .. Len(held) : held[j] \in Nat
  <2>1. Number \subseteq Nat
    BY AssemblerConstants DEF Number
  <2>2. /\ started \in Number /\ held \in Seq(Number)
        /\ recorded \in Seq([time : Number, of : Number])
    BY DEF AssemblerTypeOK
  <2>3. \A i \in 1 .. Len(recorded) : recorded[i] \in [time : Number, of : Number]
    BY <2>2, ElementIs
  <2>4. \A j \in 1 .. Len(held) : held[j] \in Number
    BY <2>2, ElementIs
  <2>5. Len(held) \in Nat /\ Len(recorded) \in Nat
    BY <2>2, ElementIs
  <2> QED BY <2>1, <2>2, <2>3, <2>4, <2>5
<1>1. CASE StartSentence
  <2>1. /\ state' = "capturing" /\ started' = started + 1 /\ current'.time = started + 1
        /\ recorded' = recorded /\ held' = held
    BY <1>1 DEF StartSentence
  <2>2. /\ \A i \in 1 .. Len(recorded') : recorded'[i].time < started'
        /\ \A j \in 1 .. Len(held') : held'[j] < started'
    <3>1. /\ \A i \in 1 .. Len(recorded) : recorded[i].time <= started
          /\ \A j \in 1 .. Len(held) : held[j] <= started
      BY DEF TimesInv
    <3> QED BY <1>0, <2>1, <3>1
  <2>3. TimesInOrder'
    BY <2>1 DEF TimesInv, TimesInOrder
  <2>4. \A i \in 1 .. Len(recorded') : recorded'[i].time <= started'
    <3>1. \A i \in 1 .. Len(recorded) : recorded[i].time < started + 1
      BY <2>1, <2>2
    <3>2. \A i \in 1 .. Len(recorded) : recorded[i].time <= started + 1
      BY <1>0, <3>1
    <3> QED BY <2>1, <3>2
  <2>5. \A j \in 1 .. Len(held') : held'[j] <= started'
    <3>1. \A j \in 1 .. Len(held) : held[j] < started + 1
      BY <2>1, <2>2
    <3>2. \A j \in 1 .. Len(held) : held[j] <= started + 1
      BY <1>0, <3>1
    <3> QED BY <2>1, <3>2
  <2> QED BY <2>1, <2>2, <2>3, <2>4, <2>5 DEF TimesInv
<1>2. ASSUME NEW checked \in BOOLEAN, AddCharacter(checked)
      PROVE  TimesInv'
  <2>1. /\ UNCHANGED <<started, held, recorded>> /\ state = "capturing"
        /\ state' = "capturing" => current'.time = current.time
    BY <1>2 DEF AddCharacter, AssemblerTypeOK, Sentence, history
  <2> QED BY <2>1 DEF TimesInv, TimesInOrder
<1>3. CASE EndSentence
  <2>1. /\ state = "capturing" /\ state' = "searching" /\ held' = Append(held, current.time)
        /\ UNCHANGED <<started, recorded>>
    BY <1>3 DEF EndSentence
  <2>2. current.time = started /\ current.time \in Number
    BY <2>1 DEF TimesInv, AssemblerTypeOK, Sentence
  <2>3. /\ Len(held') = Len(held) + 1 /\ held'[Len(held) + 1] = started
        /\ \A j \in 1 .. Len(held) : held'[j] = held[j]
    BY <1>0, <2>1, <2>2, AppendIs
  <2>4. \A j \in 1 .. Len(held') : j \in 1 .. Len(held) \/ j = Len(held) + 1
    BY <1>0, <2>3
  <2>5. \A i, j \in 1 .. Len(held') : i < j => held'[i] < held'[j]
    <3>1. \A i, j \in 1 .. Len(held') : i < j => i \in 1 .. Len(held)
      BY <1>0, <2>3
    <3> QED BY <2>1, <2>3, <2>4, <3>1 DEF TimesInv
  <2>6. \A i \in 1 .. Len(recorded), j \in 1 .. Len(held') : recorded[i].time < held'[j]
    BY <2>1, <2>3, <2>4 DEF TimesInv
  <2>7. \A j \in 1 .. Len(held') : held'[j] <= started
    BY <1>0, <2>3, <2>4 DEF TimesInv
  <2> QED BY <2>1, <2>5, <2>6, <2>7 DEF TimesInv, TimesInOrder
<1>4. CASE ProcessMessages
  <2>0. PICK n \in Nat : \E place \in [1 .. n -> 1 .. Len(held)] :
          /\ \A i, j \in 1 .. n : i < j => place[i] < place[j]
          /\ Len(recorded') = Len(recorded) + n
          /\ \A i \in 1 .. Len(recorded) : recorded'[i] = recorded[i]
          /\ \A k \in 1 .. n : recorded'[Len(recorded) + k].time = held[place[k]]
    BY <1>4, Added
  <2>1. PICK place \in [1 .. n -> 1 .. Len(held)] :
          /\ \A i, j \in 1 .. n : i < j => place[i] < place[j]
          /\ Len(recorded') = Len(recorded) + n
          /\ \A i \in 1 .. Len(recorded) : recorded'[i] = recorded[i]
          /\ \A k \in 1 .. n : recorded'[Len(recorded) + k].time = held[place[k]]
    BY <2>0
  <2>2. /\ Len(held') = 0 /\ UNCHANGED <<state, current, started>>
    BY <1>4 DEF ProcessMessages
  <2>3. ASSUME NEW i \in 1 .. Len(recorded'), ~(i \in 1 .. Len(recorded))
        PROVE  \E k \in 1 .. n : i = Len(recorded) + k
    <3>1. i - Len(recorded) \in 1 .. n /\ i = Len(recorded) + (i - Len(recorded))
      BY <1>0, <2>1, <2>3
    <3> QED BY <3>1
  <2>4. \A k \in 1 .. n : place[k] \in 1 .. Len(held)
    OBVIOUS
  <2>5. ASSUME NEW i \in 1 .. Len(recorded'), NEW j \in 1 .. Len(recorded'), i < j
        PROVE  recorded'[i].time < recorded'[j].time
    <3>1. CASE j \in 1 .. Len(recorded)
      <4>1. i \in 1 .. Len(recorded)
        BY <1>0, <2>5, <3>1
      <4> QED BY <2>1, <2>5, <3>1, <4>1 DEF TimesInv, TimesInOrder
    <3>2. CASE ~(j \in 1 .. Len(recorded))
      <4>1. PICK l \in 1 .. n : j = Len(recorded) + l
        BY <2>3, <3>2
      <4>2. CASE i \in 1 .. Len(recorded)
        BY <2>1, <2>4, <4>1, <4>2 DEF TimesInv
      <4>3. CASE ~(i \in 1 .. Len(recorded))
        <5>1. PICK k \in 1 .. n : i = Len(recorded) + k
          BY <2>3, <4>3
        <5>2. k < l
          BY <1>0, <2>5, <4>1, <5>1
        <5> QED BY <2>1, <2>4, <4>1, <5>1, <5>2 DEF TimesInv
      <4> QED BY <4>2, <4>3
    <3> QED BY <3>1, <3>2
  <2>6. ASSUME NEW i \in 1 .. Len(recorded')
        PROVE  \/ i \in 1 .. Len(recorded) /\ recorded'[i].time = recorded[i].time
               \/ \E j \in 1 .. Len(held) : recorded'[i].time = held[j]
    <3>1. CASE i \in 1 .. Len(recorded)
      BY <2>1, <3>1
    <3>2. CASE ~(i \in 1 .. Len(recorded))
      <4>1. PICK k \in 1 .. n : i = Len(recorded) + k
        BY <2>3, <3>2
      <4>2. recorded'[i].time = held[place[k]] /\ place[k] \in 1 .. Len(held)
        BY <2>1, <2>4, <4>1
      <4> QED BY <4>2
    <3> QED BY <3>1, <3>2
  <2>7. \A i \in 1 .. Len(recorded') :
          /\ recorded'[i].time <= started
          /\ state = "capturing" => recorded'[i].time < started
    BY <2>6 DEF TimesInv
  <2> QED BY <2>2, <2>5, <2>7 DEF TimesInv, TimesInOrder
<1>5. CASE Noise \/ (\E b \in BOOLEAN : SetRxInvert(b)) \/ UNCHANGED assemblerVars
  <2>1. UNCHANGED <<state, current, started, recorded, held>>
    BY <1>5 DEF Noise, SetRxInvert, assemblerVars, history
  <2> QED BY <2>1 DEF TimesInv, TimesInOrder
<1> QED BY <1>1, <1>2, <1>3, <1>4, <1>5 DEF AssemblerNext

\* Each time is recorded at most once, and later ones later (TimesInOrder).
THEOREM TimesCorrect == AssemblerSpec => []TimesInOrder
<1>1. AssemblerInit => TimesInv
  <2> SUFFICES ASSUME AssemblerInit PROVE TimesInv
    OBVIOUS
  <2>1. state = "searching" /\ recorded = <<>> /\ held = <<>>
    BY DEF AssemblerInit
  <2>2. Len(recorded) = 0 /\ Len(held) = 0
    BY <2>1, EmptyIs
  <2> QED BY <2>1, <2>2 DEF TimesInv, TimesInOrder
<1>2. TimesInv => TimesInOrder
  BY DEF TimesInv
<1> QED BY <1>1, <1>2, Starts, TypeStep, RingStep, TimesStep, PTL DEF AssemblerSpec

-----------------------------------------------------------------------------
(* Sentences recorded as they came in. *)

\* What is recorded are those sentences, each with its own time.
Exact(times) ==
  /\ Len(recorded) = Len(times)
  /\ \A k \in 1 .. Len(recorded) : recorded[k] = [time |-> times[k], of |-> times[k]]

\* While the ring is read before each sentence starts it holds one at most, whose
\* characters are still those of that sentence; the rest is recorded.
PromptInv ==
  prompt =>
    /\ state = "capturing" => Len(held) = 0 /\ current.time = chars.of
    /\ \/ Len(held) = 0 /\ Exact(finished)
       \/ /\ Len(held) = 1 /\ current.time = chars.of /\ ring[readPoint] = current
          /\ \/ /\ chars.checked /\ chars.wanted
                /\ \E times \in Seq(Number) : finished = Append(times, chars.of) /\ Exact(times)
             \/ ~(chars.checked /\ chars.wanted) /\ Exact(finished)

\* With one sentence in the ring, that one is recorded if it is to be logged.
LEMMA OneRecorded ==
  ASSUME RingBufferLength > 1, AssemblerTypeOK, LengthInv, RingInv, ProcessMessages,
         Len(held) = 1, ring[readPoint] = current, current.time = chars.of
  PROVE  /\ \A i \in 1 .. Len(recorded) : recorded'[i] = recorded[i]
         /\ IF chars.checked /\ chars.wanted
              THEN /\ Len(recorded') = Len(recorded) + 1
                   /\ recorded'[Len(recorded) + 1] = [time |-> chars.of, of |-> chars.of]
              ELSE Len(recorded') = Len(recorded)
<1>1. Place(writePoint - readPoint) = 1
  <2>1. PICK gone \in Nat : /\ Place(writePoint - readPoint) = Len(held) - gone
                            /\ Len(held) < RingBufferLength => gone = 0
    BY WaitingIs
  <2> QED BY <2>1
<1>2. DOMAIN Waiting = 1 .. 1
  BY <1>1 DEF Waiting
<1>3. Waiting[1] = current
  <2>1. readPoint + 1 - 1 = readPoint /\ readPoint \in 0 .. RingBufferLength - 1
    BY DEF AssemblerTypeOK
  <2>2. Place(readPoint + 1 - 1) = readPoint
    BY <2>1, PlaceWithin
  <2>3. Waiting[1] = ring[Place(readPoint + 1 - 1)]
    BY <1>1 DEF Waiting
  <2> QED BY <2>2, <2>3
<1>4. Logged(Waiting[1]) <=> chars.checked /\ chars.wanted
  BY <1>3 DEF Logged, Valid, LengthInv, AssemblerTypeOK, Chars
<1>5. PICK n \in Nat : \E order \in [1 .. n -> Kept] :
        /\ n = Cardinality(Kept)
        /\ Len(recorded') = Len(recorded) + n
        /\ \A i \in 1 .. Len(recorded) : recorded'[i] = recorded[i]
        /\ \A k \in 1 .. n : recorded'[Len(recorded) + k] = Shown(Waiting[order[k]])
  BY RecordedAre
<1>6. PICK order \in [1 .. n -> Kept] :
        /\ n = Cardinality(Kept)
        /\ Len(recorded') = Len(recorded) + n
        /\ \A i \in 1 .. Len(recorded) : recorded'[i] = recorded[i]
        /\ \A k \in 1 .. n : recorded'[Len(recorded) + k] = Shown(Waiting[order[k]])
  BY <1>5
<1>7. Len(recorded) \in Nat
  BY DEF AssemblerTypeOK
<1>8. CASE chars.checked /\ chars.wanted
  <2>1. Kept = {1}
    BY <1>2, <1>4, <1>8 DEF Kept
  <2>2. Cardinality({1}) = 1
    BY FS_Singleton
  <2>3. n = 1
    BY <1>6, <2>1, <2>2
  <2>4. order[1] = 1
    BY <2>1, <2>3
  <2>5. recorded'[Len(recorded) + 1] = Shown(Waiting[1])
    BY <1>6, <2>3, <2>4
  <2>6. Shown(Waiting[1]) = [time |-> chars.of, of |-> chars.of]
    BY <1>3 DEF Shown
  <2> QED BY <1>6, <1>8, <2>3, <2>5, <2>6
<1>9. CASE ~(chars.checked /\ chars.wanted)
  <2>1. Kept = {}
    BY <1>2, <1>4, <1>9 DEF Kept
  <2>2. n = 0
    BY <1>6, <2>1, FS_EmptySet
  <2> QED BY <1>6, <1>7, <1>9, <2>2
<1> QED BY <1>8, <1>9

LEMMA PromptStep ==
  ASSUME RingBufferLength > 1, AssemblerTypeOK, LengthInv, RingInv, PromptInv,
         [AssemblerNext]_assemblerVars
  PROVE  PromptInv'
<1> SUFFICES ASSUME prompt' PROVE PromptInv'
  BY DEF PromptInv
<1>1. CASE StartSentence
  <2>1. prompt /\ held = <<>> /\ UNCHANGED <<recorded, finished, held>>
    BY <1>1 DEF StartSentence
  <2>2. current'.time = started + 1 /\ chars'.of = started + 1
    BY <1>1 DEF StartSentence
  <2>3. Len(held) = 0
    BY <2>1, EmptyIs
  <2> QED BY <2>1, <2>2, <2>3 DEF PromptInv, Exact
<1>2. ASSUME NEW checked \in BOOLEAN, AddCharacter(checked)
      PROVE  PromptInv'
  <2>1. prompt /\ state = "capturing" /\ UNCHANGED <<recorded, finished, held>>
    BY <1>2 DEF AddCharacter, history
  <2>2. Len(held) = 0 /\ current.time = chars.of /\ Exact(finished)
    BY <2>1 DEF PromptInv
  <2>3. current'.time = current.time
    BY <1>2 DEF AddCharacter, AssemblerTypeOK, Sentence
  <2>4. chars'.of = chars.of
    <3>1. \/ chars' = [chars EXCEPT !.length = @ + 1, !.checked = checked]
          \/ chars' = chars
      BY <1>2 DEF AddCharacter
    <3>2. chars \in Chars
      BY DEF AssemblerTypeOK
    <3> QED BY <3>1, <3>2 DEF Chars
  <2> QED BY <2>1, <2>2, <2>3, <2>4 DEF PromptInv, Exact
<1>3. CASE EndSentence
  <2>1. /\ prompt /\ state = "capturing" /\ state' = "searching" /\ recorded' = recorded
        /\ held' = Append(held, current.time)
        /\ UNCHANGED <<chars, current, readPoint>> /\ ring' = [ring EXCEPT ![writePoint] = current]
        /\ finished' = IF chars.checked /\ chars.wanted THEN Append(finished, chars.of)
                                                        ELSE finished
    BY <1>3 DEF EndSentence
  <2>2. Len(held) = 0 /\ current.time = chars.of /\ Exact(finished)
    BY <2>1 DEF PromptInv
  <2>3. Len(held') = 1
    <3>1. held \in Seq(Number) /\ current.time \in Number
      BY DEF AssemblerTypeOK, Sentence
    <3> QED BY <2>1, <2>2, <3>1, AppendIs
  <2>4. writePoint = readPoint
    <3>1. readPoint + 0 = readPoint /\ readPoint \in 0 .. RingBufferLength - 1
      BY DEF AssemblerTypeOK
    <3> QED BY <2>2, <3>1, PlaceWithin DEF RingInv
  <2>5. ring'[readPoint'] = current'
    BY <2>1, <2>4 DEF AssemblerTypeOK
  <2>6. finished \in Seq(Number)
    BY DEF AssemblerTypeOK
  <2>7. CASE chars.checked /\ chars.wanted
    <3>1. finished' = Append(finished, chars'.of) /\ chars'.checked /\ chars'.wanted
      BY <2>1, <2>7
    <3>2. Len(recorded') = Len(finished)
      BY <2>1, <2>2 DEF Exact
    <3>3. \A k \in 1 .. Len(recorded') : recorded'[k] = [time |-> finished[k], of |-> finished[k]]
      BY <2>1, <2>2 DEF Exact
    <3>4. \E times \in Seq(Number) :
            /\ finished' = Append(times, chars'.of)
            /\ Len(recorded') = Len(times)
            /\ \A k \in 1 .. Len(recorded') : recorded'[k] = [time |-> times[k], of |-> times[k]]
      BY <2>6, <3>1, <3>2, <3>3
    <3> QED BY <2>1, <2>2, <2>3, <2>5, <3>1, <3>4 DEF PromptInv, Exact
  <2>8. CASE ~(chars.checked /\ chars.wanted)
    BY <2>1, <2>2, <2>3, <2>5, <2>8 DEF PromptInv, Exact
  <2> QED BY <2>7, <2>8
<1>4. CASE ProcessMessages
  <2>1. /\ prompt /\ readPoint # writePoint
        /\ UNCHANGED <<state, chars, current, finished>>
    BY <1>4 DEF ProcessMessages
  <2>2. Len(held') = 0
    <3>1. held' = <<>>
      BY <1>4 DEF ProcessMessages
    <3> QED BY <3>1, EmptyIs
  <2>3. Len(held) # 0
    <3>1. readPoint + 0 = readPoint /\ readPoint \in 0 .. RingBufferLength - 1
      BY DEF AssemblerTypeOK
    <3> QED BY <2>1, <3>1, PlaceWithin DEF RingInv
  <2>4. /\ state # "capturing" /\ Len(held) = 1 /\ current.time = chars.of
        /\ ring[readPoint] = current
        /\ \/ /\ chars.checked /\ chars.wanted
              /\ \E times \in Seq(Number) : finished = Append(times, chars.of) /\ Exact(times)
           \/ ~(chars.checked /\ chars.wanted) /\ Exact(finished)
    BY <2>1, <2>3 DEF PromptInv
  <2>5. /\ \A i \in 1 .. Len(recorded) : recorded'[i] = recorded[i]
        /\ IF chars.checked /\ chars.wanted
             THEN /\ Len(recorded') = Len(recorded) + 1
                  /\ recorded'[Len(recorded) + 1] = [time |-> chars.of, of |-> chars.of]
             ELSE Len(recorded') = Len(recorded)
    BY <1>4, <2>4, OneRecorded
  <2>6. Len(recorded) \in Nat
    BY DEF AssemblerTypeOK
  <2>7. /\ Len(recorded') = Len(finished')
        /\ \A k \in 1 .. Len(recorded') : recorded'[k] = [time |-> finished'[k], of |-> finished'[k]]
    <3>1. CASE chars.checked /\ chars.wanted
      <4>1. PICK times \in Seq(Number) : finished = Append(times, chars.of) /\ Exact(times)
        BY <2>4, <3>1
      <4>2. chars.of \in Number
        BY DEF AssemblerTypeOK, Chars
      <4>3. /\ Len(finished) = Len(times) + 1 /\ finished[Len(times) + 1] = chars.of
            /\ \A k \in 1 .. Len(times) : finished[k] = times[k]
        BY <4>1, <4>2, AppendIs
      <4>4. /\ Len(recorded) = Len(times)
            /\ \A k \in 1 .. Len(recorded) : recorded[k] = [time |-> times[k], of |-> times[k]]
        BY <4>1 DEF Exact
      <4>5. Len(recorded') = Len(recorded) + 1
        BY <2>5, <3>1
      <4>6. recorded'[Len(recorded) + 1] = [time |-> chars.of, of |-> chars.of]
        BY <2>5, <3>1
      <4>7. \A k \in 1 .. Len(recorded) : recorded'[k] = [time |-> finished[k], of |-> finished[k]]
        BY <2>5, <4>3, <4>4
      <4>8. \A k \in 1 .. Len(recorded') : k \in 1 .. Len(recorded) \/ k = Len(recorded) + 1
        BY <2>6, <4>5
      <4> QED BY <2>1, <4>3, <4>4, <4>5, <4>6, <4>7, <4>8
    <3>2. CASE ~(chars.checked /\ chars.wanted)
      <4>1. Exact(finished)
        BY <2>4, <3>2
      <4>2. Len(recorded') = Len(recorded)
        BY <2>5, <3>2
      <4> QED BY <2>1, <2>5, <4>1, <4>2 DEF Exact
    <3> QED BY <3>1, <3>2
  <2> QED BY <2>1, <2>2, <2>4, <2>7 DEF PromptInv, Exact
<1>5. CASE Noise \/ (\E b \in BOOLEAN : SetRxInvert(b)) \/ UNCHANGED assemblerVars
  <2>1. UNCHANGED <<state, chars, current, ring, readPoint, recorded, finished, held, prompt>>
    BY <1>5 DEF Noise, SetRxInvert, assemblerVars, points, history
  <2> QED BY <2>1 DEF PromptInv, Exact
<1> QED BY <1>1, <1>2, <1>3, <1>4, <1>5 DEF AssemblerNext

\* As long as the ring is read before each sentence starts, exactly the wanted
\* sentences that came in whole are recorded, each with its own time
\* (PromptIsExact).  A ring of one place always reads as empty.
THEOREM PromptCorrect ==
  ASSUME RingBufferLength > 1
  PROVE  AssemblerSpec => []PromptIsExact
<1>1. AssemblerInit => PromptInv
  <2> SUFFICES ASSUME AssemblerInit PROVE PromptInv
    OBVIOUS
  <2>1. state = "searching" /\ recorded = <<>> /\ finished = <<>> /\ held = <<>>
    BY DEF AssemblerInit
  <2>2. Len(recorded) = 0 /\ Len(finished) = 0 /\ Len(held) = 0
    BY <2>1, EmptyIs
  <2> QED BY <2>1, <2>2 DEF PromptInv, Exact
<1>2. AssemblerTypeOK /\ RingInv /\ PromptInv => PromptIsExact
  <2> SUFFICES ASSUME AssemblerTypeOK, RingInv, PromptInv, prompt, readPoint = writePoint
               PROVE  Exact(finished)
    BY DEF PromptIsExact, Exact
  <2>1. Len(held) # 1
    <3>1. readPoint \in 0 .. RingBufferLength - 1 /\ RingBufferLength \in Nat
      BY AssemblerConstants DEF AssemblerTypeOK
    <3>2. Place(readPoint) = readPoint
      BY <3>1, PlaceWithin
    <3>3. Place(readPoint) # Place(readPoint + 1)
      BY <3>1, PlacesDiffer
    <3> QED BY <3>2, <3>3 DEF RingInv
  <2> QED BY <2>1 DEF PromptInv
<1>3. AssemblerTypeOK /\ LengthInv /\ RingInv /\ PromptInv /\ [AssemblerNext]_assemblerVars
        => PromptInv'
  BY PromptStep
<1> QED BY <1>1, <1>2, <1>3, Starts, TypeStep, RingStep, PTL DEF AssemblerSpec
==============================================================================
