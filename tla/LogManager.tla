------------------------------ MODULE LogManager ------------------------------
(***************************************************************************)
(* The logger's file manager (LoggerFirmware/src/LogManager.cpp): the log  *)
(* files "/logs/wibl-raw.N" on the SD card, the Inventory that caches      *)
(* their sizes and MD5 hashes, the file being written, and the commands    *)
(* and handlers of the firmware's single loop() that change them.          *)
(*                                                                         *)
(* A file is what its readers can tell apart: which call of StartNewLog    *)
(* made it ("log") and how many units were appended to it ("size": the     *)
(* header that Serialiser writes is one unit, each packet one more), plus  *)
(* what the no-data algorithm promises about it.  The MD5 hash of a file   *)
(* is a function of its log and its size, and the first k units of two     *)
(* files agree exactly when they are the same log.                         *)
(***************************************************************************)
EXTENDS Naturals

CONSTANTS
  MaxLogFiles,      \* log numbers in use (include/LogManager.h: 1,000)
  MaxLogSize,       \* units after which Record cycles the log (MAX_LOG_FILE_SIZE)
  MaxLogs,          \* bound: logs started in a behaviour
  Packets,          \* has a packet undefined values?  the cases that occur
  Writes,           \* does a write to the card succeed?  the cases that occur
  TransferUnlisted  \* may a user "transfer" a number that is not in the inventory?

ASSUME LogConstants ==
  /\ MaxLogFiles \in Nat \ {0}
  /\ MaxLogSize \in Nat \ {0}
  /\ MaxLogs \in Nat
  /\ Packets \subseteq BOOLEAN
  /\ Writes \subseteq BOOLEAN
  /\ TransferUnlisted \in BOOLEAN

VARIABLES
  power,             \* "off", "running" in loop(), or "stopped" in Shutdown
  card,              \* the log files on the SD card
  inventory,         \* Inventory: cached size and hash of each log number
  currentFile,       \* m_currentFile
  serialiser,        \* m_serialiser # nullptr, i.e. m_outputLog is open
  noDataAlgEmitted,  \* m_noDataAlgEmitted
  logs,              \* history: logs started so far
  erased             \* history: the logs whose removal was asked for and done

logVars == <<power, card, inventory, currentFile, serialiser, noDataAlgEmitted, logs, erased>>

LogNumbers == 0 .. MaxLogFiles - 1

\* On the card: alg counts the no-data algorithm's packets; the marks say that a
\* packet with an undefined value is in the file, and that some write failed.
Marks  == {"nodata", "lost"}
File   == [log : 0 .. MaxLogs, size : Nat, alg : Nat, marks : SUBSET Marks]
NoFile == [log |-> 0, size |-> 0, alg |-> 0, marks |-> {}]

\* In the inventory: a size and the hash of that many units of a log.
Entry   == [log : 0 .. MaxLogs, size : Nat]
NoEntry == [log |-> 0, size |-> 0]

-----------------------------------------------------------------------------
(* The Inventory. *)

\* enumerate and hash: what the card says of a file.  A number whose cached
\* size is zero reads as "no such file" everywhere (Lookup, CountLogFiles).
Enumerated(file) == IF file.size = 0 THEN NoEntry ELSE [log |-> file.log, size |-> file.size]

Update(inv, c, n) == [inv EXCEPT ![n] = Enumerated(c[n])]

Reinitialise(c) == [n \in LogNumbers |-> Enumerated(c[n])]

\* CountLogFiles: the numbers the rest of the firmware gets to see.
Listed(inv) == {n \in LogNumbers : inv[n].size # 0}

\* Mutant of IsNextLogNumber: the count is not brought back to 0.
IsNextLogNumberPastEnd(inv, n) ==
  /\ n \notin Listed(inv)
  /\ \A m \in LogNumbers : m < n => m \in Listed(inv)

\* GetNextLogNumber: the first number with no file, or 0 when there is none.
IsNextLogNumber(inv, n) ==
  IF Listed(inv) = LogNumbers
    THEN n = 0
    ELSE /\ n \in LogNumbers \ Listed(inv)
         /\ \A m \in LogNumbers : m < n => m \in Listed(inv)

-----------------------------------------------------------------------------
(* Operations of Manager.  Each takes the card and the inventory it starts *)
(* from, since the callers run several of them in one go.                  *)

\* The log that Serialiser's constructor and the stores put their packets in;
\* rawProcess ignores the result of each write, so the header may be missing.
Header(ok) ==
  [log |-> logs + 1, size |-> IF ok THEN 1 ELSE 0, alg |-> 0, marks |-> IF ok THEN {} ELSE {"lost"}]

\* Mutant of StartNewLog: the inventory is given the new file at once.
StartNewLogListed(c, inv) ==
  /\ noDataAlgEmitted' = FALSE
  /\ serialiser' = TRUE
  /\ logs < MaxLogs
  /\ logs' = logs + 1
  /\ \E n \in LogNumbers :
       /\ IsNextLogNumber(inv, n)
       /\ currentFile' = n
       /\ card' = [c EXCEPT ![n] = Header(TRUE)]
       /\ inventory' = [inv EXCEPT ![n] = [log |-> logs + 1, size |-> 1]]

\* StartNewLog: the open truncates, and may fail.  The number is not entered
\* in the inventory until the log is closed.
StartNewLog(c, inv) ==
  /\ inventory' = inv
  /\ noDataAlgEmitted' = FALSE
  /\ \E n \in 0 .. MaxLogFiles :
       /\ IsNextLogNumber(inv, n)
       /\ currentFile' = n
       /\ \/ /\ logs < MaxLogs
             /\ \E ok \in Writes : card' = [c EXCEPT ![n] = Header(ok)]
             /\ serialiser' = TRUE
             /\ logs' = logs + 1
          \/ /\ card' = c
             /\ serialiser' = FALSE
             /\ UNCHANGED logs

\* Mutant of CloseLogfile: the inventory is not told.
CloseLogfileUntold(c) == inventory

\* CloseLogfile: the inventory learns what became of the file.
CloseLogfile(c) == Update(inventory, c, currentFile)

\* RemoveLogFile: a file that is open may be refused or unlinked, depending on
\* the file system's build.
Removable(c) == {n \in LogNumbers : c[n].log # 0}

Without(c, removed)          == [n \in LogNumbers |-> IF n \in removed THEN NoFile ELSE c[n]]
WithoutEntries(inv, removed) == [n \in LogNumbers |-> IF n \in removed THEN NoEntry ELSE inv[n]]

\* Serialiser::Process: the write may fail, unnoticed.
Appended(file, ok) ==
  IF ok THEN [file EXCEPT !.size = @ + 1]
        ELSE [file EXCEPT !.marks = @ \cup {"lost"}]

\* Mutant of WithAlgorithm: the flag is not tested.
WithAlgorithmAlways(file, ok) ==
  [Appended(file, ok) EXCEPT !.alg = IF ok THEN @ + 1 ELSE @]

\* EmitNoDataReject: at most once per log.
WithAlgorithm(file, ok) ==
  IF noDataAlgEmitted THEN file
  ELSE [Appended(file, ok) EXCEPT !.alg = IF ok THEN @ + 1 ELSE @]

\* A handler's packet as it lands in the file: the algorithm first, when some
\* value is undefined, then the packet itself.  Nothing lands on a file that
\* was unlinked underneath.
Recorded(file, nodata, algOk, ok) ==
  IF file.log = 0 THEN file
  ELSE IF ~nodata THEN Appended(file, ok)
  ELSE LET f == Appended(WithAlgorithm(file, algOk), ok)
       IN  IF ok THEN [f EXCEPT !.marks = @ \cup {"nodata"}] ELSE f

-----------------------------------------------------------------------------
(* The steps of setup() and loop(). *)

\* setup: the inventory is rebuilt from the card, then logging starts.
Boot ==
  /\ power = "off"
  /\ power' = "running"
  /\ StartNewLog(card, Reinitialise(card))
  /\ UNCHANGED erased

\* A message handler logs its packet: EmitNoDataReject when a value is
\* undefined, then Record, which cycles the log when it has grown too large.
\* The size of a file that was unlinked is whatever the file system says.
LogPacket(nodata) ==
  /\ power = "running"
  /\ serialiser
  /\ \E algOk, ok \in Writes :
       LET file == Recorded(card[currentFile], nodata, algOk, ok)
           c    == [card EXCEPT ![currentFile] = file]
       IN \/ /\ file.size <= MaxLogSize
             /\ card' = c
             /\ noDataAlgEmitted' = (noDataAlgEmitted \/ nodata)
             /\ UNCHANGED <<inventory, currentFile, serialiser, logs>>
          \/ /\ file.size > MaxLogSize \/ file.log = 0
             /\ StartNewLog(c, CloseLogfile(c))
  /\ UNCHANGED <<power, erased>>

\* What a reset leaves: the card.
Reset ==
  /\ power' = "off"
  /\ inventory' = [n \in LogNumbers |-> NoEntry]
  /\ currentFile' = 0
  /\ serialiser' = FALSE
  /\ noDataAlgEmitted' = FALSE
  /\ UNCHANGED <<card, logs, erased>>

\* The same with no log open: m_serialiser is dereferenced unchecked, and the
\* processor's exception handler resets the board.
NullSerialiser ==
  /\ power = "running"
  /\ ~serialiser
  /\ Reset

\* Command "steplog".
StepLog ==
  /\ power = "running"
  /\ StartNewLog(card, CloseLogfile(card))
  /\ UNCHANGED <<power, erased>>

\* RemoveLogFile for one number: the file and its inventory entry go together,
\* or both stay.
RemoveLogFile(n) ==
  /\ n \in Removable(card)
  /\ card' = Without(card, {n})
  /\ inventory' = WithoutEntries(inventory, {n})
  /\ erased' = erased \cup {card[n].log}
  /\ UNCHANGED <<power, currentFile, serialiser, noDataAlgEmitted, logs>>

\* Command "erase N" (when the removal fails nothing changes).
EraseLogfile(n) ==
  /\ power = "running"
  /\ RemoveLogFile(n)

\* Command "erase all": every listed file, the one being written included,
\* each removal failing on its own.
RemoveAllLogfiles ==
  /\ power = "running"
  /\ \E removed \in SUBSET (Listed(CloseLogfile(card)) \cap Removable(card)) :
       /\ StartNewLog(Without(card, removed), WithoutEntries(CloseLogfile(card), removed))
       /\ erased' = erased \cup {card[n].log : n \in removed}
  /\ UNCHANGED power

\* Command "transfer N" of a number that is not listed: EnumerateLogFile leaves
\* filesize as it was on the stack, and any value but zero leads to HashFile,
\* which enters the number in the inventory.  (For a listed number nothing
\* changes, and with a zero filesize the command is refused.)
TransferLogFile(n) ==
  /\ TransferUnlisted
  /\ power = "running"
  /\ n \notin Listed(inventory)
  /\ inventory' = Update(inventory, card, n)
  /\ UNCHANGED <<power, card, currentFile, serialiser, noDataAlgEmitted, logs, erased>>

\* Command "stop", or the supply monitor's EmergencyStop.
Shutdown ==
  /\ power = "running"
  /\ power' = "stopped"
  /\ inventory' = CloseLogfile(card)
  /\ serialiser' = FALSE
  /\ UNCHANGED <<card, currentFile, noDataAlgEmitted, logs, erased>>

\* The supply goes, or the board is reset; every write was flushed.
PowerLoss ==
  /\ power # "off"
  /\ Reset

LogInit ==
  /\ power = "off"
  /\ card = [n \in LogNumbers |-> NoFile]
  /\ inventory = [n \in LogNumbers |-> NoEntry]
  /\ currentFile = 0
  /\ serialiser = FALSE
  /\ noDataAlgEmitted = FALSE
  /\ logs = 0
  /\ erased = {}

LogNext ==
  \/ Boot
  \/ \E nodata \in Packets : LogPacket(nodata)
  \/ NullSerialiser
  \/ StepLog
  \/ \E n \in LogNumbers : EraseLogfile(n) \/ TransferLogFile(n)
  \/ RemoveAllLogfiles
  \/ Shutdown
  \/ PowerLoss

LogSpec == LogInit /\ [][LogNext]_logVars

-----------------------------------------------------------------------------
(* Properties. *)

\* Types.  A number is always one of the card's, whatever became of the file.
LogTypeOK ==
  /\ power \in {"off", "running", "stopped"}
  /\ card \in [LogNumbers -> File]
  /\ inventory \in [LogNumbers -> Entry]
  /\ currentFile \in LogNumbers
  /\ serialiser \in BOOLEAN
  /\ noDataAlgEmitted \in BOOLEAN
  /\ logs \in 0 .. MaxLogs
  /\ erased \subseteq 1 .. MaxLogs

\* Is number n being written?
Open(n) == serialiser /\ n = currentFile

\* The cached inventory agrees with the card for every file that is not being
\* written: what is listed, offered for upload and skipped by GetNextLogNumber
\* is what is there, after any mix of cycling, erasing, failing and rebooting.
InventoryMatchesCard ==
  power # "off" =>
    \A n \in LogNumbers : ~Open(n) => inventory[n] = Enumerated(card[n])

\* Recorded data leaves the card only when its removal was asked for, or, for
\* the start of a new log, when every number is in use: no new log truncates an
\* old one while a number is free, whatever the inventory went through.
OverwritesOnlyWhenFull ==
  [][\A n \in LogNumbers :
       card[n].size > 0 /\ card'[n].log # card[n].log /\ card[n].log \notin erased'
         => \A m \in LogNumbers : card'[m].size > 0 \/ m = n]_logVars

\* The log being written is never offered under its own content: its number is
\* unlisted, or listed with the size and hash of the log it is overwriting.
OpenLogNotListed ==
  power = "running" /\ serialiser =>
    inventory[currentFile] = NoEntry \/ inventory[currentFile].log # card[currentFile].log

\* A file holding a packet with undefined values names the algorithm that
\* rejects them, once, unless the card refused a write: the flag that makes it
\* once is reset by every way a log is started, and the packet that cycles the
\* log is announced in the log it is in.
NoDataAnnounced ==
  \A n \in LogNumbers :
    /\ card[n].alg <= 1
    /\ card[n].log # 0 /\ card[n].marks = {"nodata"} => card[n].alg = 1

\* Does the cached manager behave as the documented one, which looks at the
\* card each time a number is chosen?
Store == INSTANCE LogStore WITH
           files   <- [n \in LogNumbers |-> Enumerated(card[n])],
           writing <- IF serialiser THEN currentFile ELSE MaxLogFiles,
           started <- logs,
           removed <- erased

\* Every behaviour of the manager, cached inventory and all, is one of the
\* documented manager: the cache never makes a difference to which number is
\* chosen or what is overwritten.
ImplementsLogStore == Store!StoreSpec

=============================================================================
