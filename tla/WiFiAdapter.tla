----------------------------- MODULE WiFiAdapter -----------------------------
(***************************************************************************)
(* The logger's WiFi (LoggerFirmware/src/WiFiAdapter.cpp): the state       *)
(* machine that joins a network as a station or sets up an access point,   *)
(* the mode and status it keeps in the parameter store, and the resets it  *)
(* causes itself when it gives up joining and reverts to the access point. *)
(*                                                                         *)
(* Each parameter is a file of its own, written whole or not at all; the   *)
(* power may go between two of them.  "pending" holds what the statement   *)
(* list in progress has yet to write, the restart included; the rest of    *)
(* loop() waits for it.  Clocks are kept as ages, in units of time.        *)
(***************************************************************************)
EXTENDS Integers, Sequences

CONSTANTS
  Retries,       \* StationRetries: joins to be tried again
  RetryDelay,    \* StationDelay
  ConnectDelay,  \* StationTimeout
  StatusDelay,   \* m_statusDelay
  MaxChanges     \* bound: commands and power losses in a behaviour

ASSUME WiFiConstants ==
  /\ Retries \in Nat
  /\ RetryDelay \in Nat /\ ConnectDelay \in Nat /\ StatusDelay \in Nat
  /\ MaxChanges \in Nat

VARIABLES
  mode,          \* parameter "wifimode"
  status,        \* parameter "WSStatus"
  bootStatus,    \* parameter "WSBootStatus"
  configured,    \* the parameters that stay: is a station SSID set, does WiFi start on boot?
  power,         \* is the firmware running?
  pending,       \* what is still to be written, or done, by the statements in progress
  currentState,  \* m_currentState
  retries,       \* m_connectionRetries
  sinceAttempt,  \* now - m_lastConnectAttempt
  sinceCheck,    \* now - m_lastStatusCheck
  network,       \* is the network there?
  joined,        \* WiFi.status() = WL_CONNECTED
  attempts,      \* history: joins begun since the firmware started
  reason,        \* history: what became of the reason of the last reversion: see Reasons
  changes        \* commands and power losses so far

vars == <<mode, status, bootStatus, configured, power, pending, currentState, retries, sinceAttempt,
          sinceCheck, network, joined, attempts, reason, changes>>

params  == <<mode, status, bootStatus>>
machine == <<currentState, retries, sinceAttempt, sinceCheck, attempts>>
radio   == <<network, joined>>

Modes  == {"AP", "Station"}
States == {"STOPPED", "AP_MODE", "STATION_CONNECTING", "STATION_CONNECTED", "STATION_RETRY",
           "MOVE_TO_SAFE_MODE", "CONNECTION_CHECK"}

\* The strings of "WSStatus"; the empty one is that of a new module.
StatusValues ==
  {"", "AP-Stopped", "Station-Stopped", "AP-Enabled", "Station-Enabled", "Connecting", "Connected",
   "Connect-Timeout-Retrying", "Disconnected-Retrying", "Station-Join-Failed"}

\* The reason why the machine reverted to the access point: there is "none" that
\* anyone is to be told, it was "given" in the status, or the boot that runs now
\* has been "told" of it.
Reasons == {"none", "given", "told"}

\* Ages are told apart up to the longest delay.
Later(a, b) == IF a > b THEN a ELSE b
MaxAge  == Later(StatusDelay, Later(RetryDelay, ConnectDelay)) + 1
Age     == 0 .. MaxAge
Older(age) == IF age < MaxAge THEN age + 1 ELSE age

SetMode(m)   == <<"wifimode", m>>
SetStatus(s) == <<"WSStatus", s>>
SetBoot(s)   == <<"WSBootStatus", s>>
Restart      == <<"restart", "">>
Write == {SetMode(m) : m \in Modes} \cup {SetStatus(s) : s \in StatusValues}
           \cup {SetBoot(s) : s \in StatusValues} \cup {Restart}

Stopped(m) == IF m = "AP" THEN "AP-Stopped" ELSE "Station-Stopped"

\* No statement list is in progress.
Ready == power /\ pending = <<>>

-----------------------------------------------------------------------------
(* Joining. *)

\* attemptStationJoin: nothing, without an SSID; else WiFi.begin, which may come
\* back connected, and the clock is set.
AttemptStationJoin(age, n) ==
  IF configured.ssid
    THEN /\ joined' \in IF network THEN BOOLEAN ELSE {FALSE}
         /\ sinceAttempt' = 0
         /\ attempts' = n + 1
         /\ currentState' = IF joined' THEN "STATION_CONNECTED" ELSE "STATION_CONNECTING"
    ELSE /\ sinceAttempt' = age
         /\ attempts' = n
         /\ currentState' = "STATION_CONNECTING"
         /\ UNCHANGED joined

\* ConnectionStateMachine::Start; first is what is to be written before.
Start(first, age, n) ==
  /\ IF mode = "AP"
       THEN /\ currentState' = "AP_MODE"
            /\ pending' = first \o <<SetStatus("AP-Enabled")>>
            /\ sinceAttempt' = age
            /\ attempts' = n
            /\ UNCHANGED joined
       ELSE /\ AttemptStationJoin(age, n)
            /\ pending' = first \o <<SetStatus("Connecting")>>
  /\ UNCHANGED network

\* Mutant of BootWrites: the status is overwritten before its copy is written.
BootWritesSwapped == <<SetStatus(Stopped(mode)), SetBoot(status)>>

\* The constructor: the status of the last session becomes that of the boot.
BootWrites == <<SetBoot(status), SetStatus(Stopped(mode))>>

\* The firmware starts, and the web server with it if it is to.
Boot ==
  /\ ~power
  /\ power' = TRUE
  /\ retries' = Retries
  /\ sinceCheck' = 0
  /\ IF configured.onBoot
       THEN Start(BootWrites, 0, 0)
       ELSE /\ currentState' = "STOPPED"
            /\ pending' = BootWrites
            /\ sinceAttempt' = 0
            /\ attempts' = 0
            /\ UNCHANGED radio
  /\ UNCHANGED <<params, configured, reason, changes>>

-----------------------------------------------------------------------------
(* StepState. *)

\* The status is checked: nothing, or the machine goes on.
Connecting ==
  /\ Ready
  /\ currentState = "STATION_CONNECTING"
  /\ sinceCheck > StatusDelay
  /\ sinceCheck' = 0
  /\ \/ /\ joined
        /\ currentState' = "STATION_CONNECTED"
        /\ UNCHANGED pending
     \/ /\ ~joined /\ sinceAttempt > ConnectDelay
        /\ currentState' = "STATION_RETRY"
        /\ pending' = <<SetStatus("Connect-Timeout-Retrying")>>
     \/ /\ ~joined /\ sinceAttempt <= ConnectDelay
        /\ UNCHANGED <<currentState, pending>>
  /\ UNCHANGED <<params, configured, power, retries, sinceAttempt, radio, attempts, reason, changes>>

\* Mutant of Spend: the budget is not spent.
SpendNot == retries

\* Mutant of Spend: each attempt costs two.
SpendTwo == IF retries > 1 THEN retries - 2 ELSE 0

\* --m_connectionRetries; the budget is never refilled.
Spend == retries - 1

\* Mutant of Retry: one attempt more than there are.
RetryOnceMore ==
  /\ Ready
  /\ currentState = "STATION_RETRY"
  /\ sinceAttempt > RetryDelay
  /\ \/ /\ retries >= 0
        /\ retries' = Spend
        /\ AttemptStationJoin(sinceAttempt, attempts)
     \/ /\ retries < 0
        /\ currentState' = "MOVE_TO_SAFE_MODE"
        /\ UNCHANGED <<retries, sinceAttempt, joined, attempts>>
  /\ UNCHANGED <<params, configured, power, pending, sinceCheck, network, reason, changes>>

Retry ==
  /\ Ready
  /\ currentState = "STATION_RETRY"
  /\ sinceAttempt > RetryDelay
  /\ \/ /\ retries > 0
        /\ retries' = Spend
        /\ AttemptStationJoin(sinceAttempt, attempts)
     \/ /\ retries <= 0
        /\ currentState' = "MOVE_TO_SAFE_MODE"
        /\ UNCHANGED <<retries, sinceAttempt, joined, attempts>>
  /\ UNCHANGED <<params, configured, power, pending, sinceCheck, network, reason, changes>>

SafeModeWrites == <<SetMode("AP"), SetStatus("Station-Join-Failed"), Restart>>

MoveToSafeMode ==
  /\ Ready
  /\ currentState = "MOVE_TO_SAFE_MODE"
  /\ pending' = SafeModeWrites
  /\ UNCHANGED <<params, configured, power, machine, radio, reason, changes>>

Connected ==
  /\ Ready
  /\ currentState = "STATION_CONNECTED"
  /\ currentState' = "CONNECTION_CHECK"
  /\ pending' = <<SetStatus("Connected")>>
  /\ UNCHANGED <<params, configured, power, retries, sinceAttempt, sinceCheck, attempts, radio, reason, changes>>

\* Mutant of CheckWrites: the status stays as it was.
CheckWritesNothing == <<>>

CheckWrites == <<SetStatus("Disconnected-Retrying")>>

ConnectionCheck ==
  /\ Ready
  /\ currentState = "CONNECTION_CHECK"
  /\ sinceCheck > RetryDelay
  /\ sinceCheck' = 0
  /\ \/ joined /\ UNCHANGED <<currentState, pending>>
     \/ /\ ~joined
        /\ currentState' = "STATION_RETRY"
        /\ pending' = CheckWrites
  /\ UNCHANGED <<params, configured, power, retries, sinceAttempt, attempts, radio, reason, changes>>

StepState == Connecting \/ Retry \/ MoveToSafeMode \/ Connected \/ ConnectionCheck

-----------------------------------------------------------------------------
(* The parameter store, and the restart. *)

\* A restart, asked for or not: what is not in the parameter store is gone.
PowerDown ==
  /\ power' = FALSE
  /\ pending' = <<>>
  /\ currentState' = "STOPPED"
  /\ retries' = 0
  /\ sinceAttempt' = 0
  /\ sinceCheck' = 0
  /\ joined' = FALSE
  /\ attempts' = 0
  /\ reason' = IF reason = "told" THEN "none" ELSE reason

\* The next of the pending writes.
SetConfigString ==
  /\ power
  /\ pending # <<>>
  /\ Head(pending) # Restart
  /\ pending' = Tail(pending)
  /\ LET key == Head(pending)[1]
         value == Head(pending)[2]
     IN  /\ mode'       = IF key = "wifimode" THEN value ELSE mode
         /\ status'     = IF key = "WSStatus" THEN value ELSE status
         /\ bootStatus' = IF key = "WSBootStatus" THEN value ELSE bootStatus
         /\ reason'     = IF Head(pending) = SetStatus("Station-Join-Failed") THEN "given"
                          ELSE IF key = "WSBootStatus" /\ reason = "given" THEN "told"
                          ELSE reason
  /\ UNCHANGED <<configured, power, machine, radio, changes>>

\* ESP.restart.
SafeModeRestart ==
  /\ power
  /\ pending # <<>>
  /\ Head(pending) = Restart
  /\ PowerDown
  /\ UNCHANGED <<params, configured, network, changes>>

-----------------------------------------------------------------------------
(* Commands, the power, the network and the time. *)

Changed == changes < MaxChanges /\ changes' = changes + 1

\* "wireless accesspoint" and "wireless station": for the next boot.
ManageWireless(m) ==
  /\ Ready
  /\ Changed
  /\ pending' = <<SetMode(m), SetStatus(IF m = "AP" THEN "AP-Enabled" ELSE "Station-Enabled")>>
  /\ UNCHANGED <<params, configured, power, machine, radio, reason>>

\* "wireless on": the machine starts over, with what is left of its budget.
WirelessOn ==
  /\ Ready
  /\ Changed
  /\ Start(<<>>, sinceAttempt, attempts)
  /\ UNCHANGED <<params, configured, power, retries, sinceCheck, reason>>

PowerLoss ==
  /\ power
  /\ Changed
  /\ PowerDown
  /\ UNCHANGED <<params, configured, network>>

\* The network comes and goes; a join that was begun, or lost, may succeed at
\* any later time.
NetworkChanges ==
  /\ network' = ~network
  /\ UNCHANGED <<params, configured, power, pending, machine, joined, reason, changes>>

Joins ==
  /\ network /\ attempts > 0
  /\ joined' = TRUE
  /\ UNCHANGED <<params, configured, power, pending, machine, network, reason, changes>>

Leaves ==
  /\ joined' = FALSE
  /\ UNCHANGED <<params, configured, power, pending, machine, network, reason, changes>>

Tick ==
  /\ power
  /\ sinceAttempt' = Older(sinceAttempt)
  /\ sinceCheck' = Older(sinceCheck)
  /\ UNCHANGED <<params, configured, power, pending, currentState, retries, attempts, radio, reason, changes>>

Init ==
  /\ mode \in Modes
  /\ status = "" /\ bootStatus = ""
  /\ configured \in [ssid : BOOLEAN, onBoot : BOOLEAN]
  /\ power = FALSE
  /\ pending = <<>>
  /\ currentState = "STOPPED"
  /\ retries = 0
  /\ sinceAttempt = 0 /\ sinceCheck = 0
  /\ network \in BOOLEAN
  /\ joined = FALSE
  /\ attempts = 0
  /\ reason = "none"
  /\ changes = 0

Next ==
  \/ Boot
  \/ StepState
  \/ SetConfigString \/ SafeModeRestart
  \/ \E m \in Modes : ManageWireless(m)
  \/ WirelessOn
  \/ PowerLoss
  \/ NetworkChanges \/ Joins \/ Leaves
  \/ Tick

\* The processor runs loop(), time passes, and a station that has lost its
\* network learns of it.
Fairness ==
  /\ WF_vars(Boot) /\ WF_vars(StepState) /\ WF_vars(SetConfigString) /\ WF_vars(SafeModeRestart)
  /\ WF_vars(Tick)
  /\ WF_vars(~network /\ Leaves)

Spec == Init /\ [][Next]_vars /\ Fairness

-----------------------------------------------------------------------------
(* Properties. *)

\* Types.
WiFiTypeOK ==
  /\ mode \in Modes
  /\ status \in StatusValues /\ bootStatus \in StatusValues
  /\ configured \in [ssid : BOOLEAN, onBoot : BOOLEAN]
  /\ power \in BOOLEAN
  /\ pending \in Seq(Write)
  /\ currentState \in States
  /\ retries \in 0 .. Retries
  /\ sinceAttempt \in Age /\ sinceCheck \in Age
  /\ network \in BOOLEAN /\ joined \in BOOLEAN
  /\ attempts \in Nat
  /\ reason \in Reasons
  /\ changes \in 0 .. MaxChanges

\* The machine gives up joining only after the first join and all retries were
\* begun: "number of join attempts before the webserver reverts to safe mode".
AllJoinsTried == currentState = "MOVE_TO_SAFE_MODE" /\ configured.ssid => attempts > Retries

\* The status the user reads is that of the machine, except that the commands
\* that choose the mode of the next boot write what will be.
Truthful ==
  [STOPPED            |-> {"AP-Stopped", "Station-Stopped"},
   AP_MODE            |-> {},
   STATION_CONNECTING |-> {"Connecting", "Connect-Timeout-Retrying", "Disconnected-Retrying"},
   STATION_CONNECTED  |-> {"Connecting", "Connect-Timeout-Retrying", "Disconnected-Retrying"},
   STATION_RETRY      |-> {"Connect-Timeout-Retrying", "Disconnected-Retrying"},
   MOVE_TO_SAFE_MODE  |-> {"Connect-Timeout-Retrying", "Disconnected-Retrying", "Station-Join-Failed"},
   CONNECTION_CHECK   |-> {"Connected"}]

StatusTruthful == Ready => status \in Truthful[currentState] \cup {"AP-Enabled", "Station-Enabled"}

\* A join that was given up is told as such only when the next boot really is
\* one of an access point.  Once the reason is in the status, the first boot that
\* passes a status on passes on this one, however often the power goes on the way,
\* and no boot ends without doing so.  (If the power goes after the mode is set and
\* before the reason is, there is none; and a boot that is cut short after it has
\* passed the reason on leaves none for the next.)
ReversionReported ==
  /\ status = "Station-Join-Failed" => mode = "AP"
  /\ reason = "given" => ~Ready
  /\ reason = "told" => bootStatus = "Station-Join-Failed"

\* If the network is gone for good the logger ends as an access point, where
\* its user can reach it, or was told not to start its WiFi.
EndsReachable ==
  <>[]~network => <>[](currentState \in IF configured.onBoot THEN {"AP_MODE"} ELSE {"AP_MODE", "STOPPED"})

=============================================================================
