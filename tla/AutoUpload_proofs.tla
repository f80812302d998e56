--------------------------- MODULE AutoUpload_proofs ---------------------------
(***************************************************************************)
(* The file manager and the upload of its logs, for every number and size  *)
(* of log files and every length of cycle: first what holds of the manager *)
(* on its own (LogSpec), then of the logger and the upload server (Spec),  *)
(* whose steps are the manager's or leave it alone.                        *)
(***************************************************************************)
EXTENDS AutoUpload, TLAPS

\* What each packet makes of a file is a file, and a file of the same log.
LEMMA RecordedFile ==
  ASSUME NEW file \in File, NEW nodata \in BOOLEAN, NEW algOk \in BOOLEAN, NEW ok \in BOOLEAN
  PROVE  /\ Recorded(file, nodata, algOk, ok) \in File
         /\ Recorded(file, nodata, algOk, ok).log = file.log
         /\ Recorded(file, nodata, algOk, ok).size >= file.size
<1>1. ASSUME NEW g \in File, NEW b \in BOOLEAN
      PROVE  /\ Appended(g, b) \in File
             /\ Appended(g, b).log = g.log
             /\ Appended(g, b).size >= g.size
  BY DEF File, Appended, Marks
<1>2. /\ WithAlgorithm(file, algOk) \in File
      /\ WithAlgorithm(file, algOk).log = file.log
      /\ WithAlgorithm(file, algOk).size >= file.size
  BY <1>1 DEF File, WithAlgorithm
<1>3. ASSUME NEW g \in File
      PROVE  /\ [g EXCEPT !.marks = @ \cup {"nodata"}] \in File
             /\ [g EXCEPT !.marks = @ \cup {"nodata"}].log = g.log
             /\ [g EXCEPT !.marks = @ \cup {"nodata"}].size = g.size
  BY DEF File, Marks
<1> QED
  <2> DEFINE f == Appended(WithAlgorithm(file, algOk), ok)
  <2>1. f \in File /\ f.log = file.log /\ f.size >= file.size
    BY <1>1, <1>2 DEF File
  <2>2. file.size \in Nat
    BY DEF File
  <2>3. Recorded(file, nodata, algOk, ok) =
          IF file.log = 0 THEN file
          ELSE IF ~nodata THEN Appended(file, ok)
          ELSE IF ok THEN [f EXCEPT !.marks = @ \cup {"nodata"}] ELSE f
    BY DEF Recorded
  <2> DEFINE marked == [f EXCEPT !.marks = @ \cup {"nodata"}]
  <2>4. marked \in File /\ marked.log = file.log /\ marked.size >= file.size
    BY <1>3, <2>1
  <2>5. Appended(file, ok) \in File /\ Appended(file, ok).log = file.log
        /\ Appended(file, ok).size >= file.size
    BY <1>1
  <2>6. Recorded(file, nodata, algOk, ok) \in {file, Appended(file, ok), marked, f}
    BY <2>3
  <2> HIDE DEF f, marked
  <2> QED
    BY <2>1, <2>2, <2>4, <2>5, <2>6

\* The inventory's view of a file.
LEMMA EnumeratedEntry ==
  ASSUME NEW file \in File
  PROVE  Enumerated(file) \in Entry
  BY LogConstants DEF File, Entry, Enumerated, NoEntry

\* What a reset leaves in place of a number, a file and an entry.
LEMMA Defaults == 0 \in LogNumbers /\ NoFile \in File /\ NoEntry \in Entry
<1>1. 0 \in LogNumbers
  BY LogConstants DEF LogNumbers
<1>2. NoFile \in File
  BY LogConstants DEF NoFile, File
<1>3. NoEntry \in Entry
  BY LogConstants DEF NoEntry, Entry
<1> QED
  BY <1>1, <1>2, <1>3

\* The number chosen for a new log is one of the card's.
LEMMA NextIsLogNumber ==
  ASSUME NEW inv, NEW n \in 0 .. MaxLogFiles, IsNextLogNumber(inv, n)
  PROVE  n \in LogNumbers
  BY LogConstants DEF IsNextLogNumber, LogNumbers, Listed

\* StartNewLog keeps the types of all it touches.
LEMMA StartNewLogTypes ==
  ASSUME LogTypeOK,
         NEW c \in [LogNumbers -> File], NEW inv \in [LogNumbers -> Entry],
         StartNewLog(c, inv)
  PROVE  /\ card' \in [LogNumbers -> File]
         /\ inventory' \in [LogNumbers -> Entry]
         /\ currentFile' \in LogNumbers
         /\ serialiser' \in BOOLEAN
         /\ noDataAlgEmitted' \in BOOLEAN
         /\ logs' \in 0 .. MaxLogs
<1>1. PICK n \in 0 .. MaxLogFiles :
        /\ IsNextLogNumber(inv, n)
        /\ currentFile' = n
        /\ \/ /\ logs < MaxLogs
              /\ \E ok \in Writes : card' = [c EXCEPT ![n] = Header(ok)]
              /\ serialiser' = TRUE
              /\ logs' = logs + 1
           \/ /\ card' = c
              /\ serialiser' = FALSE
              /\ UNCHANGED logs
  BY DEF StartNewLog
<1>2. n \in LogNumbers
  BY <1>1, NextIsLogNumber
<1>3. inventory' = inv /\ noDataAlgEmitted' = FALSE
  BY DEF StartNewLog
<1>4. CASE logs < MaxLogs /\ logs' = logs + 1 /\ serialiser' = TRUE
           /\ \E ok \in Writes : card' = [c EXCEPT ![n] = Header(ok)]
  <2>1. \A ok \in Writes : Header(ok) \in File
    BY <1>4, LogConstants DEF Header, File, Marks, LogTypeOK
  <2>2. logs' \in 0 .. MaxLogs
    BY <1>4, LogConstants DEF LogTypeOK
  <2> QED
    BY <1>1, <1>2, <1>3, <1>4, <2>1, <2>2
<1>5. CASE card' = c /\ serialiser' = FALSE /\ UNCHANGED logs
  BY <1>1, <1>2, <1>3, <1>5 DEF LogTypeOK
<1> QED
  BY <1>1, <1>4, <1>5

\* The inventories that the operations pass on.
LEMMA InventoryTypes ==
  ASSUME NEW inv \in [LogNumbers -> Entry], NEW c \in [LogNumbers -> File]
  PROVE  /\ \A n : Update(inv, c, n) \in [LogNumbers -> Entry]
         /\ Reinitialise(c) \in [LogNumbers -> Entry]
         /\ \A r : WithoutEntries(inv, r) \in [LogNumbers -> Entry]
         /\ \A r : Without(c, r) \in [LogNumbers -> File]
<1>1. \A n \in LogNumbers : Enumerated(c[n]) \in Entry
  BY EnumeratedEntry
<1> QED
  BY <1>1, Defaults DEF Update, Reinitialise, WithoutEntries, Without

\* The file a packet leads to, as the steps see it.
LEMMA LogPacketFile ==
  ASSUME LogTypeOK, NEW nodata \in Packets, NEW algOk \in Writes, NEW ok \in Writes
  PROVE  LET file == Recorded(card[currentFile], nodata, algOk, ok)
         IN  /\ file \in File
             /\ file.log = card[currentFile].log
             /\ file.size >= card[currentFile].size
             /\ [card EXCEPT ![currentFile] = file] \in [LogNumbers -> File]
  BY RecordedFile, LogConstants DEF LogTypeOK

\* Every step of the manager keeps the types.
LEMMA LogTypeStep == LogTypeOK /\ [LogNext]_logVars => LogTypeOK'
<1> SUFFICES ASSUME LogTypeOK, [LogNext]_logVars
             PROVE  LogTypeOK'
  OBVIOUS
<1> USE DEF LogTypeOK
<1>1. CASE Boot
  BY <1>1, StartNewLogTypes, InventoryTypes DEF Boot
<1>2. ASSUME NEW nodata \in Packets, LogPacket(nodata)
      PROVE  LogTypeOK'
  <2>1. PICK algOk \in Writes, ok \in Writes :
          LET file == Recorded(card[currentFile], nodata, algOk, ok)
              c    == [card EXCEPT ![currentFile] = file]
          IN \/ /\ file.size <= MaxLogSize
                /\ card' = c
                /\ noDataAlgEmitted' = (noDataAlgEmitted \/ nodata)
                /\ UNCHANGED <<inventory, currentFile, serialiser, logs>>
             \/ /\ file.size > MaxLogSize \/ file.log = 0
                /\ StartNewLog(c, CloseLogfile(c))
    BY <1>2 DEF LogPacket
  <2> DEFINE c == [card EXCEPT ![currentFile] =
                     Recorded(card[currentFile], nodata, algOk, ok)]
  <2>2. c \in [LogNumbers -> File]
    BY LogPacketFile
  <2>3. UNCHANGED <<power, erased>>
    BY <1>2 DEF LogPacket
  <2>4. CASE StartNewLog(c, CloseLogfile(c))
    BY <2>2, <2>3, <2>4, StartNewLogTypes, InventoryTypes DEF CloseLogfile
  <2>5. CASE /\ card' = c
             /\ noDataAlgEmitted' = (noDataAlgEmitted \/ nodata)
             /\ UNCHANGED <<inventory, currentFile, serialiser, logs>>
    BY <2>2, <2>3, <2>5, LogConstants
  <2> QED
    BY <2>1, <2>4, <2>5
<1>3. CASE NullSerialiser \/ PowerLoss
  BY <1>3, Defaults DEF NullSerialiser, PowerLoss, Reset
<1>4. CASE StepLog
  BY <1>4, StartNewLogTypes, InventoryTypes DEF StepLog, CloseLogfile
<1>5. ASSUME NEW n \in LogNumbers, EraseLogfile(n)
      PROVE  LogTypeOK'
  <2>1. card[n].log \in 1 .. MaxLogs
    BY <1>5, LogConstants DEF EraseLogfile, RemoveLogFile, Removable, File
  <2> QED
    BY <1>5, <2>1, InventoryTypes DEF EraseLogfile, RemoveLogFile
<1>6. ASSUME NEW n \in LogNumbers, TransferLogFile(n)
      PROVE  LogTypeOK'
  BY <1>6, InventoryTypes DEF TransferLogFile
<1>7. CASE RemoveAllLogfiles
  <2>1. PICK removed \in SUBSET (Listed(CloseLogfile(card)) \cap Removable(card)) :
          /\ StartNewLog(Without(card, removed), WithoutEntries(CloseLogfile(card), removed))
          /\ erased' = erased \cup {card[n].log : n \in removed}
    BY <1>7 DEF RemoveAllLogfiles
  <2>2. \A n \in removed : card[n].log \in 1 .. MaxLogs
    BY LogConstants DEF Removable, File
  <2>3. CloseLogfile(card) \in [LogNumbers -> Entry]
    BY InventoryTypes DEF CloseLogfile
  <2>4. Without(card, removed) \in [LogNumbers -> File]
    BY InventoryTypes
  <2>5. WithoutEntries(CloseLogfile(card), removed) \in [LogNumbers -> Entry]
    BY <2>3, InventoryTypes
  <2>6. UNCHANGED power
    BY <1>7 DEF RemoveAllLogfiles
  <2> QED
    BY <2>1, <2>2, <2>4, <2>5, <2>6, StartNewLogTypes
<1>8. CASE Shutdown
  BY <1>8, InventoryTypes DEF Shutdown, CloseLogfile
<1>9. CASE UNCHANGED logVars
  BY <1>9 DEF logVars
<1> QED
  BY <1>1, <1>2, <1>3, <1>4, <1>5, <1>6, <1>7, <1>8, <1>9 DEF LogNext

LEMMA LogTypeStart == LogInit => LogTypeOK
<1> SUFFICES ASSUME LogInit PROVE LogTypeOK
  OBVIOUS
<1>1. card \in [LogNumbers -> File] /\ inventory \in [LogNumbers -> Entry]
  BY Defaults DEF LogInit
<1>2. logs \in 0 .. MaxLogs
  BY LogConstants DEF LogInit
<1> QED
  BY <1>1, <1>2, Defaults DEF LogInit, LogTypeOK

\* Types are right in every state (LogTypeOK).
THEOREM LogTypeCorrect == LogSpec => []LogTypeOK
BY LogTypeStart, LogTypeStep, PTL DEF LogSpec

-----------------------------------------------------------------------------
(* The inventory and the card.                                             *)

\* Does inventory inv tell what is on card c, for every number?
Agree(inv, c) == \A m \in LogNumbers : inv[m] = Enumerated(c[m])

\* After CloseLogfile the inventory tells what is on the card, the file that was
\* being written included.
LEMMA CloseLogfileAgrees ==
  ASSUME LogTypeOK, InventoryMatchesCard, power # "off",
         NEW file \in File
  PROVE  LET c == [card EXCEPT ![currentFile] = file]
         IN  Agree(CloseLogfile(c), c)
  BY DEF LogTypeOK, InventoryMatchesCard, Open, Agree, CloseLogfile, Update

\* The same when the card is as it was.
LEMMA CloseLogfileAgreesAsIs ==
  ASSUME LogTypeOK, InventoryMatchesCard, power # "off"
  PROVE  Agree(CloseLogfile(card), card)
  BY DEF LogTypeOK, InventoryMatchesCard, Open, Agree, CloseLogfile, Update

\* A new log started from an inventory that tells what is on the card leaves one
\* that does, but for the file being written.
LEMMA StartNewLogAgrees ==
  ASSUME NEW c \in [LogNumbers -> File], NEW inv \in [LogNumbers -> Entry],
         Agree(inv, c), StartNewLog(c, inv)
  PROVE  \A m \in LogNumbers : ~Open(m)' => inventory'[m] = Enumerated(card'[m])
<1>1. inventory' = inv
  BY DEF StartNewLog
<1>2. \A m \in LogNumbers : ~Open(m)' => card'[m] = c[m]
  BY DEF StartNewLog, Open
<1> QED
  BY <1>1, <1>2 DEF Agree

\* And it overwrites data only if there is a file under every number.
LEMMA StartNewLogOverwrites ==
  ASSUME NEW c \in [LogNumbers -> File], NEW inv \in [LogNumbers -> Entry],
         Agree(inv, c), StartNewLog(c, inv),
         NEW n \in LogNumbers, c[n].size > 0, card'[n].log # c[n].log
  PROVE  \A m \in LogNumbers : card'[m].size > 0 \/ m = n
<1>1. IsNextLogNumber(inv, n) /\ \A m \in LogNumbers : m # n => card'[m] = c[m]
  BY DEF StartNewLog
<1>2. \A m \in LogNumbers : m \in Listed(inv) <=> c[m].size # 0
  BY DEF Agree, Listed, Enumerated, File, NoEntry
<1>3. n \in Listed(inv)
  BY <1>2
<1>4. Listed(inv) = LogNumbers
  BY <1>1, <1>3 DEF IsNextLogNumber
<1>5. \A m \in LogNumbers : c[m].size \in Nat
  BY DEF File
<1> QED
  BY <1>1, <1>2, <1>4, <1>5

\* The cached inventory is right for every file that is not being written
\* (InventoryMatchesCard), with any number of files, failures and resets.
LEMMA InventoryStep ==
  LogTypeOK /\ InventoryMatchesCard /\ [LogNext]_logVars => InventoryMatchesCard'
<1> SUFFICES ASSUME LogTypeOK, InventoryMatchesCard, [LogNext]_logVars
             PROVE  InventoryMatchesCard'
  OBVIOUS
<1>0. card \in [LogNumbers -> File] /\ inventory \in [LogNumbers -> Entry]
  BY DEF LogTypeOK
<1>1. CASE Boot
  <2>1. Agree(Reinitialise(card), card)
    BY DEF Agree, Reinitialise
  <2>2. StartNewLog(card, Reinitialise(card))
    BY <1>1 DEF Boot
  <2>3. \A m \in LogNumbers : ~Open(m)' => inventory'[m] = Enumerated(card'[m])
    BY <1>0, <2>1, <2>2, InventoryTypes, StartNewLogAgrees
  <2> QED
    BY <2>3 DEF InventoryMatchesCard, Open
<1>2. ASSUME NEW nodata \in Packets, LogPacket(nodata)
      PROVE  InventoryMatchesCard'
  <2>1. PICK algOk \in Writes, ok \in Writes :
          LET file == Recorded(card[currentFile], nodata, algOk, ok)
              c    == [card EXCEPT ![currentFile] = file]
          IN \/ /\ file.size <= MaxLogSize
                /\ card' = c
                /\ noDataAlgEmitted' = (noDataAlgEmitted \/ nodata)
                /\ UNCHANGED <<inventory, currentFile, serialiser, logs>>
             \/ /\ file.size > MaxLogSize \/ file.log = 0
                /\ StartNewLog(c, CloseLogfile(c))
    BY <1>2 DEF LogPacket
  <2> DEFINE file == Recorded(card[currentFile], nodata, algOk, ok)
             c    == [card EXCEPT ![currentFile] = file]
  <2>2. file \in File /\ c \in [LogNumbers -> File]
    BY LogPacketFile
  <2>3. power = "running" /\ serialiser
    BY <1>2 DEF LogPacket
  <2>4. CASE card' = c /\ UNCHANGED <<inventory, currentFile, serialiser>>
    <3>1. \A m \in LogNumbers : m # currentFile => card'[m] = card[m]
      BY <1>0, <2>4
    <3> QED
      BY <2>3, <2>4, <3>1 DEF InventoryMatchesCard, Open
  <2>5. CASE StartNewLog(c, CloseLogfile(c))
    <3>1. Agree(CloseLogfile(c), c)
      BY <2>2, <2>3, CloseLogfileAgrees
    <3>2. CloseLogfile(c) \in [LogNumbers -> Entry]
      BY <1>0, <2>2, InventoryTypes DEF CloseLogfile
    <3>3. \A m \in LogNumbers : ~Open(m)' => inventory'[m] = Enumerated(card'[m])
      BY <2>2, <2>5, <3>1, <3>2, StartNewLogAgrees
    <3> QED
      BY <3>3 DEF InventoryMatchesCard, Open
  <2> QED
    BY <2>1, <2>4, <2>5
<1>3. CASE NullSerialiser \/ PowerLoss
  BY <1>3 DEF NullSerialiser, PowerLoss, Reset, InventoryMatchesCard
<1>4. CASE StepLog
  <2>1. StartNewLog(card, CloseLogfile(card)) /\ power = "running"
    BY <1>4 DEF StepLog
  <2>2. CloseLogfile(card) \in [LogNumbers -> Entry]
    BY <1>0, InventoryTypes DEF CloseLogfile
  <2>3. \A m \in LogNumbers : ~Open(m)' => inventory'[m] = Enumerated(card'[m])
    BY <1>0, <2>1, <2>2, CloseLogfileAgreesAsIs, StartNewLogAgrees
  <2> QED
    BY <2>3 DEF InventoryMatchesCard, Open
<1>5. ASSUME NEW n \in LogNumbers, EraseLogfile(n)
      PROVE  InventoryMatchesCard'
  <2>1. Enumerated(NoFile) = NoEntry
    BY DEF Enumerated, NoFile
  <2> QED
    BY <1>5, <2>1
    DEF EraseLogfile, RemoveLogFile, Without, WithoutEntries, InventoryMatchesCard, Open
<1>6. ASSUME NEW n \in LogNumbers, TransferLogFile(n)
      PROVE  InventoryMatchesCard'
  BY <1>0, <1>6 DEF TransferLogFile, Update, InventoryMatchesCard, Open
<1>7. CASE RemoveAllLogfiles
  <2>1. PICK removed \in SUBSET (Listed(CloseLogfile(card)) \cap Removable(card)) :
          StartNewLog(Without(card, removed), WithoutEntries(CloseLogfile(card), removed))
    BY <1>7 DEF RemoveAllLogfiles
  <2>2. Agree(CloseLogfile(card), card)
    BY <1>7, CloseLogfileAgreesAsIs DEF RemoveAllLogfiles
  <2>3. Agree(WithoutEntries(CloseLogfile(card), removed), Without(card, removed))
    BY <2>2 DEF Agree, WithoutEntries, Without, Enumerated, NoFile
  <2>4. CloseLogfile(card) \in [LogNumbers -> Entry]
    BY <1>0, InventoryTypes DEF CloseLogfile
  <2>5. /\ Without(card, removed) \in [LogNumbers -> File]
        /\ WithoutEntries(CloseLogfile(card), removed) \in [LogNumbers -> Entry]
    BY <1>0, <2>4, InventoryTypes
  <2>6. \A m \in LogNumbers : ~Open(m)' => inventory'[m] = Enumerated(card'[m])
    BY <2>1, <2>3, <2>5, StartNewLogAgrees
  <2> QED
    BY <2>6 DEF InventoryMatchesCard, Open
<1>8. CASE Shutdown
  <2>1. Agree(CloseLogfile(card), card)
    BY <1>8, CloseLogfileAgreesAsIs DEF Shutdown
  <2> QED
    BY <1>8, <2>1 DEF Shutdown, Agree, InventoryMatchesCard
<1>9. CASE UNCHANGED logVars
  BY <1>9 DEF logVars, InventoryMatchesCard, Open
<1> QED
  BY <1>1, <1>2, <1>3, <1>4, <1>5, <1>6, <1>7, <1>8, <1>9 DEF LogNext

\* The invariant as a property of the manager.
THEOREM InventoryCorrect == LogSpec => []InventoryMatchesCard
<1>1. LogInit => InventoryMatchesCard
  BY DEF LogInit, InventoryMatchesCard
<1> QED
  BY <1>1, InventoryStep, LogTypeCorrect, PTL DEF LogSpec

\* Recorded data leaves the card only when its removal was asked for, or when a
\* new log starts and every number is in use (OverwritesOnlyWhenFull).
THEOREM OverwriteCorrect == LogSpec => OverwritesOnlyWhenFull
<1> DEFINE Kept ==
      \A n \in LogNumbers :
        card[n].size > 0 /\ card'[n].log # card[n].log /\ card[n].log \notin erased'
          => \A m \in LogNumbers : card'[m].size > 0 \/ m = n
<1>1. ASSUME LogTypeOK, InventoryMatchesCard, [LogNext]_logVars
      PROVE  [Kept]_logVars
  <2> SUFFICES ASSUME NEW n \in LogNumbers, card[n].size > 0,
                      card'[n].log # card[n].log, card[n].log \notin erased'
               PROVE  \A m \in LogNumbers : card'[m].size > 0 \/ m = n
    BY <1>1
  <2>0. card \in [LogNumbers -> File] /\ inventory \in [LogNumbers -> Entry]
    BY <1>1 DEF LogTypeOK
  <2>1. CASE Boot
    <3>1. Agree(Reinitialise(card), card)
      BY DEF Agree, Reinitialise
    <3> QED
      BY <2>0, <2>1, <3>1, InventoryTypes, StartNewLogOverwrites DEF Boot
  <2>2. ASSUME NEW nodata \in Packets, LogPacket(nodata)
        PROVE  \A m \in LogNumbers : card'[m].size > 0 \/ m = n
    <3>1. PICK algOk \in Writes, ok \in Writes :
            LET file == Recorded(card[currentFile], nodata, algOk, ok)
                c    == [card EXCEPT ![currentFile] = file]
            IN \/ /\ file.size <= MaxLogSize
                  /\ card' = c
                  /\ noDataAlgEmitted' = (noDataAlgEmitted \/ nodata)
                  /\ UNCHANGED <<inventory, currentFile, serialiser, logs>>
               \/ /\ file.size > MaxLogSize \/ file.log = 0
                  /\ StartNewLog(c, CloseLogfile(c))
      BY <2>2 DEF LogPacket
    <3> DEFINE file == Recorded(card[currentFile], nodata, algOk, ok)
               c    == [card EXCEPT ![currentFile] = file]
    <3>2. /\ file \in File /\ c \in [LogNumbers -> File]
          /\ file.log = card[currentFile].log /\ file.size >= card[currentFile].size
      BY <1>1, LogPacketFile
    <3> HIDE DEF file
    <3>3. currentFile \in LogNumbers
      BY <1>1 DEF LogTypeOK
    <3>4. \A m \in LogNumbers : card[m].size \in Nat
      BY <2>0 DEF File
    <3>5. c[n].log = card[n].log /\ c[n].size > 0
      BY <2>0, <3>2, <3>3, <3>4 DEF File
    <3>6. ~(card' = c)
      BY <3>5
    <3>7. StartNewLog(c, CloseLogfile(c))
      BY <3>1, <3>6 DEF file
    <3>8. Agree(CloseLogfile(c), c)
      BY <1>1, <2>2, <3>2, CloseLogfileAgrees DEF LogPacket
    <3>9. CloseLogfile(c) \in [LogNumbers -> Entry]
      BY <2>0, <3>2, InventoryTypes DEF CloseLogfile
    <3> HIDE DEF c
    <3> QED
      BY <3>2, <3>5, <3>7, <3>8, <3>9, StartNewLogOverwrites
  <2>3. CASE NullSerialiser \/ PowerLoss \/ Shutdown
    BY <2>3 DEF NullSerialiser, PowerLoss, Reset, Shutdown
  <2>4. CASE StepLog
    <3>1. CloseLogfile(card) \in [LogNumbers -> Entry]
      BY <2>0, InventoryTypes DEF CloseLogfile
    <3> QED
      BY <1>1, <2>0, <2>4, <3>1, CloseLogfileAgreesAsIs, StartNewLogOverwrites DEF StepLog
  <2>5. ASSUME NEW k \in LogNumbers, EraseLogfile(k) \/ TransferLogFile(k)
        PROVE  FALSE
    BY <2>0, <2>5 DEF EraseLogfile, RemoveLogFile, TransferLogFile, Without
  <2>6. CASE RemoveAllLogfiles
    <3>1. PICK removed \in SUBSET (Listed(CloseLogfile(card)) \cap Removable(card)) :
            /\ StartNewLog(Without(card, removed), WithoutEntries(CloseLogfile(card), removed))
            /\ erased' = erased \cup {card[i].log : i \in removed}
      BY <2>6 DEF RemoveAllLogfiles
    <3> DEFINE c == Without(card, removed)
    <3>2. n \notin removed
      BY <3>1
    <3>3. c[n] = card[n]
      BY <3>2 DEF Without
    <3>4. Agree(CloseLogfile(card), card)
      BY <1>1, <2>6, CloseLogfileAgreesAsIs DEF RemoveAllLogfiles
    <3>5. Agree(WithoutEntries(CloseLogfile(card), removed), c)
      BY <3>4 DEF Agree, WithoutEntries, Without, Enumerated, NoFile
    <3>6. CloseLogfile(card) \in [LogNumbers -> Entry]
      BY <2>0, InventoryTypes DEF CloseLogfile
    <3>7. /\ c \in [LogNumbers -> File]
          /\ WithoutEntries(CloseLogfile(card), removed) \in [LogNumbers -> Entry]
      BY <2>0, <3>6, InventoryTypes
    <3> HIDE DEF c
    <3> QED
      BY <3>1, <3>3, <3>5, <3>7, StartNewLogOverwrites DEF c
  <2>7. CASE UNCHANGED logVars
    BY <2>7 DEF logVars
  <2> QED
    BY <1>1, <2>1, <2>2, <2>3, <2>4, <2>5, <2>6, <2>7 DEF LogNext
<1>2. LogTypeOK /\ InventoryMatchesCard /\ [LogNext]_logVars => [Kept]_logVars
  BY <1>1
<1>3. LogSpec => [][Kept]_logVars
  BY <1>2, LogTypeCorrect, InventoryCorrect, PTL DEF LogSpec
<1> QED
  BY <1>3 DEF OverwritesOnlyWhenFull

-----------------------------------------------------------------------------
(* The log being written.                                                  *)

\* Logs are numbered in the order they are started, and the inventory knows of
\* no log that has not been started.
LogsKnown ==
  \A n \in LogNumbers : card[n].log <= logs /\ inventory[n].log <= logs

LEMMA StartNewLogFresh ==
  ASSUME LogTypeOK, NEW c \in [LogNumbers -> File], NEW inv \in [LogNumbers -> Entry],
         \A m \in LogNumbers : c[m].log <= logs /\ inv[m].log <= logs,
         StartNewLog(c, inv)
  PROVE  LogsKnown' /\ (serialiser' => inventory'[currentFile'].log # card'[currentFile'].log)
<1>1. PICK n \in 0 .. MaxLogFiles :
        /\ IsNextLogNumber(inv, n)
        /\ currentFile' = n
        /\ \/ /\ \E ok \in Writes : card' = [c EXCEPT ![n] = Header(ok)]
              /\ logs' = logs + 1
           \/ /\ card' = c
              /\ serialiser' = FALSE
              /\ UNCHANGED logs
  BY DEF StartNewLog
<1>2. n \in LogNumbers /\ inventory' = inv
  BY <1>1, NextIsLogNumber DEF StartNewLog
<1>3. logs \in Nat /\ \A m \in LogNumbers : c[m].log \in Nat /\ inv[m].log \in Nat
  BY LogConstants DEF LogTypeOK, File, Entry
<1>4. CASE logs' = logs + 1 /\ \E ok \in Writes : card' = [c EXCEPT ![n] = Header(ok)]
  <2>1. card'[n].log = logs + 1 /\ \A m \in LogNumbers : m # n => card'[m] = c[m]
    BY <1>2, <1>4 DEF Header
  <2> QED
    BY <1>1, <1>2, <1>3, <1>4, <2>1 DEF LogsKnown
<1>5. CASE card' = c /\ serialiser' = FALSE /\ UNCHANGED logs
  BY <1>2, <1>5 DEF LogsKnown
<1> QED
  BY <1>1, <1>4, <1>5

\* The log being written is a new one to the inventory, unless a user could have
\* it entered there before its time.
OpenInv == LogsKnown /\ (TransferUnlisted \/ OpenLogNotListed)

LEMMA OpenStep ==
  LogTypeOK /\ OpenInv /\ [LogNext]_logVars => OpenInv'
<1> SUFFICES ASSUME LogTypeOK, OpenInv, [LogNext]_logVars
             PROVE  OpenInv'
  OBVIOUS
<1> USE DEF OpenInv, OpenLogNotListed
<1>0. /\ card \in [LogNumbers -> File] /\ inventory \in [LogNumbers -> Entry]
      /\ logs \in Nat /\ currentFile \in LogNumbers
  BY LogConstants DEF LogTypeOK
<1>1. ASSUME NEW c \in [LogNumbers -> File], \A m \in LogNumbers : c[m].log <= logs
      PROVE  \A m \in LogNumbers : Enumerated(c[m]).log <= logs
  BY <1>0, <1>1 DEF Enumerated, NoEntry
<1>2. ASSUME NEW c \in [LogNumbers -> File], \A m \in LogNumbers : c[m].log <= logs
      PROVE  /\ CloseLogfile(c) \in [LogNumbers -> Entry]
             /\ \A m \in LogNumbers : CloseLogfile(c)[m].log <= logs
  <2>1. CloseLogfile(c) \in [LogNumbers -> Entry]
    BY <1>0, InventoryTypes DEF CloseLogfile
  <2>2. \A m \in LogNumbers : CloseLogfile(c)[m] \in {inventory[m], Enumerated(c[m])}
    BY <1>0 DEF CloseLogfile, Update
  <2> QED
    BY <1>1, <1>2, <2>1, <2>2 DEF LogsKnown
<1>3. CASE Boot
  <2>1. /\ Reinitialise(card) \in [LogNumbers -> Entry]
        /\ \A m \in LogNumbers : Reinitialise(card)[m].log <= logs
    BY <1>0, <1>1, InventoryTypes DEF Reinitialise, LogsKnown
  <2> QED
    BY <1>0, <1>3, <2>1, StartNewLogFresh DEF Boot, LogsKnown
<1>4. ASSUME NEW nodata \in Packets, LogPacket(nodata)
      PROVE  OpenInv'
  <2>1. PICK algOk \in Writes, ok \in Writes :
          LET file == Recorded(card[currentFile], nodata, algOk, ok)
              c    == [card EXCEPT ![currentFile] = file]
          IN \/ /\ file.size <= MaxLogSize
                /\ card' = c
                /\ noDataAlgEmitted' = (noDataAlgEmitted \/ nodata)
                /\ UNCHANGED <<inventory, currentFile, serialiser, logs>>
             \/ /\ file.size > MaxLogSize \/ file.log = 0
                /\ StartNewLog(c, CloseLogfile(c))
    BY <1>4 DEF LogPacket
  <2> DEFINE file == Recorded(card[currentFile], nodata, algOk, ok)
             c    == [card EXCEPT ![currentFile] = file]
  <2>2. /\ file \in File /\ c \in [LogNumbers -> File]
        /\ file.log = card[currentFile].log
    BY LogPacketFile
  <2>3. \A m \in LogNumbers : c[m].log <= logs
    BY <1>0, <2>2 DEF LogsKnown
  <2>4. CASE card' = c /\ UNCHANGED <<inventory, currentFile, serialiser, logs>>
    <3>1. card'[currentFile].log = card[currentFile].log
      BY <1>0, <2>2, <2>4
    <3> HIDE DEF c, file
    <3> QED
      BY <1>4, <2>3, <2>4, <3>1 DEF LogPacket, LogsKnown
  <2>5. CASE StartNewLog(c, CloseLogfile(c))
    <3> HIDE DEF c
    <3> QED
      BY <1>2, <2>2, <2>3, <2>5, StartNewLogFresh
  <2> QED
    BY <2>1, <2>4, <2>5
<1>5. CASE NullSerialiser \/ PowerLoss
  BY <1>0, <1>5 DEF NullSerialiser, PowerLoss, Reset, LogsKnown, NoEntry
<1>6. CASE StepLog
  BY <1>0, <1>2, <1>6, StartNewLogFresh DEF StepLog, LogsKnown
<1>7. ASSUME NEW n \in LogNumbers, EraseLogfile(n)
      PROVE  OpenInv'
  BY <1>0, <1>7
  DEF EraseLogfile, RemoveLogFile, Without, WithoutEntries, NoFile, NoEntry, LogsKnown
<1>8. ASSUME NEW n \in LogNumbers, TransferLogFile(n)
      PROVE  OpenInv'
  <2>1. \A m \in LogNumbers : inventory'[m] \in {inventory[m], Enumerated(card[m])}
    BY <1>0, <1>8 DEF TransferLogFile, Update
  <2> QED
    BY <1>0, <1>1, <1>8, <2>1 DEF TransferLogFile, LogsKnown
<1>9. CASE RemoveAllLogfiles
  <2>1. PICK removed \in SUBSET (Listed(CloseLogfile(card)) \cap Removable(card)) :
          StartNewLog(Without(card, removed), WithoutEntries(CloseLogfile(card), removed))
    BY <1>9 DEF RemoveAllLogfiles
  <2>2. /\ CloseLogfile(card) \in [LogNumbers -> Entry]
        /\ \A m \in LogNumbers : CloseLogfile(card)[m].log <= logs
    BY <1>0, <1>2 DEF LogsKnown
  <2>3. /\ Without(card, removed) \in [LogNumbers -> File]
        /\ WithoutEntries(CloseLogfile(card), removed) \in [LogNumbers -> Entry]
    BY <1>0, <2>2, InventoryTypes
  <2>4. \A m \in LogNumbers : /\ Without(card, removed)[m].log <= logs
                              /\ WithoutEntries(CloseLogfile(card), removed)[m].log <= logs
    BY <1>0, <2>2 DEF Without, WithoutEntries, NoFile, NoEntry, LogsKnown
  <2> QED
    BY <2>1, <2>3, <2>4, StartNewLogFresh
<1>10. CASE Shutdown
  BY <1>0, <1>2, <1>10 DEF Shutdown, LogsKnown
<1>11. CASE UNCHANGED logVars
  BY <1>11 DEF logVars, LogsKnown
<1> QED
  BY <1>3, <1>4, <1>5, <1>6, <1>7, <1>8, <1>9, <1>10, <1>11 DEF LogNext

LEMMA OpenAlways == LogSpec => []OpenInv
<1>1. LogInit => OpenInv
  BY DEF LogInit, OpenInv, LogsKnown, OpenLogNotListed, NoFile, NoEntry
<1> QED
  BY <1>1, OpenStep, LogTypeCorrect, PTL DEF LogSpec

\* The log being written is never listed under its own content, as long as users
\* transfer only what is listed (OpenLogNotListed).
THEOREM OpenLogCorrect == ASSUME ~TransferUnlisted PROVE LogSpec => []OpenLogNotListed
<1>1. OpenInv => OpenLogNotListed
  BY DEF OpenInv
<1> QED
  BY <1>1, OpenAlways, PTL

-----------------------------------------------------------------------------
(* The announcement of the no-data algorithm.                              *)

\* A file that holds undefined values names the algorithm once, unless the card
\* refused a write.
Announced(file) ==
  /\ file.alg <= 1
  /\ file.log # 0 /\ file.marks = {"nodata"} => file.alg = 1

\* The flag tells whether the algorithm was written to the file being written.
FlagTells(file, emitted) ==
  /\ ~emitted => file.alg = 0 /\ "nodata" \notin file.marks
  /\ emitted /\ file.log # 0 => file.alg = 1 \/ "lost" \in file.marks

AnnounceInv ==
  /\ \A n \in LogNumbers : Announced(card[n])
  /\ serialiser => FlagTells(card[currentFile], noDataAlgEmitted)

\* A packet keeps both, whichever writes fail.
LEMMA RecordedAnnounced ==
  ASSUME NEW file \in File, NEW nodata \in BOOLEAN, NEW algOk \in BOOLEAN, NEW ok \in BOOLEAN,
         noDataAlgEmitted \in BOOLEAN, Announced(file), FlagTells(file, noDataAlgEmitted)
  PROVE  /\ Announced(Recorded(file, nodata, algOk, ok))
         /\ FlagTells(Recorded(file, nodata, algOk, ok), noDataAlgEmitted \/ nodata)
<1>1. ASSUME NEW g \in File, NEW b \in BOOLEAN
      PROVE  /\ Appended(g, b) \in File
             /\ Appended(g, b).log = g.log /\ Appended(g, b).alg = g.alg
             /\ Appended(g, b).marks = IF b THEN g.marks ELSE g.marks \cup {"lost"}
  BY DEF File, Appended, Marks
<1>2. ASSUME NEW g \in File
      PROVE  /\ [g EXCEPT !.marks = @ \cup {"nodata"}].log = g.log
             /\ [g EXCEPT !.marks = @ \cup {"nodata"}].alg = g.alg
             /\ [g EXCEPT !.marks = @ \cup {"nodata"}].marks = g.marks \cup {"nodata"}
  BY DEF File
<1>3. file.alg \in Nat /\ file.marks \in SUBSET Marks
  BY DEF File
<1>4. CASE file.log = 0
  BY <1>4 DEF Recorded, Announced, FlagTells
<1>5. CASE file.log # 0 /\ ~nodata
  <2>1. Recorded(file, nodata, algOk, ok) = Appended(file, ok)
    BY <1>5 DEF Recorded
  <2>2. PICK g : g = Appended(file, ok)
    OBVIOUS
  <2>3. g.log = file.log /\ g.alg = file.alg
        /\ g.marks = IF ok THEN file.marks ELSE file.marks \cup {"lost"}
    BY <1>1, <2>2
  <2>4. Announced(g) /\ FlagTells(g, noDataAlgEmitted)
    BY <1>3, <2>3 DEF Announced, FlagTells, Marks
  <2> QED BY <1>5, <2>1, <2>2, <2>4
<1>6. CASE file.log # 0 /\ nodata
  <2>1. PICK w : w = WithAlgorithm(file, algOk)
    OBVIOUS
  <2>2. /\ w \in File /\ w.log = file.log
        /\ w.alg = 1 \/ (w.alg = 0 /\ "lost" \in w.marks)
    <3>1. CASE noDataAlgEmitted
      BY <1>3, <1>6, <2>1, <3>1 DEF WithAlgorithm, FlagTells, Announced
    <3>2. CASE ~noDataAlgEmitted
      <4>1. PICK a : a = Appended(file, algOk)
        OBVIOUS
      <4>2. /\ a \in File /\ a.log = file.log /\ a.alg = 0
            /\ ~algOk => "lost" \in a.marks
        BY <1>1, <3>2, <4>1 DEF FlagTells
      <4>3. w = [a EXCEPT !.alg = IF algOk THEN @ + 1 ELSE @]
        BY <2>1, <3>2, <4>1 DEF WithAlgorithm
      <4>4. w \in File /\ w.log = a.log /\ w.marks = a.marks /\ w.alg = IF algOk THEN 1 ELSE 0
        BY <4>2, <4>3 DEF File
      <4> QED BY <4>2, <4>4
    <3> QED BY <3>1, <3>2
  <2>3. PICK g : g = Appended(w, ok)
    OBVIOUS
  <2>4. /\ g \in File /\ g.log = file.log
        /\ g.alg = 1 \/ (g.alg = 0 /\ "lost" \in g.marks)
    BY <1>1, <2>2, <2>3
  <2>5. PICK h : h = IF ok THEN [g EXCEPT !.marks = @ \cup {"nodata"}] ELSE g
    OBVIOUS
  <2>6. h.log = file.log /\ (h.alg = 1 \/ (h.alg = 0 /\ "lost" \in h.marks))
    BY <1>2, <2>4, <2>5
  <2>7. Recorded(file, nodata, algOk, ok) = h
    BY <1>6, <2>1, <2>3, <2>5 DEF Recorded
  <2>8. Announced(h) /\ FlagTells(h, TRUE)
    BY <2>6 DEF Announced, FlagTells
  <2> QED BY <1>6, <2>7, <2>8
<1> QED BY <1>4, <1>5, <1>6

\* A new log holds nothing of either.
LEMMA StartNewLogAnnounced ==
  ASSUME LogTypeOK, NEW c \in [LogNumbers -> File], NEW inv,
         \A m \in LogNumbers : Announced(c[m]), StartNewLog(c, inv)
  PROVE  AnnounceInv'
<1>1. PICK n \in 0 .. MaxLogFiles :
        /\ IsNextLogNumber(inv, n)
        /\ currentFile' = n
        /\ \/ /\ \E ok \in Writes : card' = [c EXCEPT ![n] = Header(ok)]
           \/ /\ card' = c
              /\ serialiser' = FALSE
  BY DEF StartNewLog
<1>2. n \in LogNumbers /\ noDataAlgEmitted' = FALSE
  BY <1>1, NextIsLogNumber DEF StartNewLog
<1>3. CASE card' = c /\ serialiser' = FALSE
  BY <1>3 DEF AnnounceInv
<1>4. CASE \E ok \in Writes : card' = [c EXCEPT ![n] = Header(ok)]
  <2>1. PICK ok \in Writes : card' = [c EXCEPT ![n] = Header(ok)]
    BY <1>4
  <2>2. /\ Header(ok).alg = 0 /\ "nodata" \notin Header(ok).marks
    BY DEF Header
  <2>3. PICK h : h = Header(ok)
    OBVIOUS
  <2>4. Announced(h) /\ FlagTells(h, FALSE)
    BY <2>2, <2>3 DEF Announced, FlagTells
  <2>5. card'[n] = h /\ \A m \in LogNumbers : m # n => card'[m] = c[m]
    BY <1>2, <2>1, <2>3
  <2> QED BY <1>1, <1>2, <2>4, <2>5 DEF AnnounceInv
<1> QED BY <1>1, <1>3, <1>4

\* What is put in place of a removed file.
LEMMA NoFileAnnounced == Announced(NoFile) /\ \A e \in BOOLEAN : FlagTells(NoFile, e)
BY DEF Announced, FlagTells, NoFile

LEMMA AnnounceStep == LogTypeOK /\ AnnounceInv /\ [LogNext]_logVars => AnnounceInv'
<1> SUFFICES ASSUME LogTypeOK, AnnounceInv, [LogNext]_logVars
             PROVE  AnnounceInv'
  OBVIOUS
<1>0. /\ card \in [LogNumbers -> File] /\ currentFile \in LogNumbers
      /\ noDataAlgEmitted \in BOOLEAN /\ \A m \in LogNumbers : Announced(card[m])
  BY DEF LogTypeOK, AnnounceInv
<1>1. CASE Boot \/ StepLog
  BY <1>0, <1>1, StartNewLogAnnounced DEF Boot, StepLog
<1>2. ASSUME NEW nodata \in Packets, LogPacket(nodata)
      PROVE  AnnounceInv'
  <2>1. PICK algOk \in Writes, ok \in Writes :
          LET file == Recorded(card[currentFile], nodata, algOk, ok)
              c    == [card EXCEPT ![currentFile] = file]
          IN \/ /\ file.size <= MaxLogSize
                /\ card' = c
                /\ noDataAlgEmitted' = (noDataAlgEmitted \/ nodata)
                /\ UNCHANGED <<inventory, currentFile, serialiser, logs>>
             \/ /\ file.size > MaxLogSize \/ file.log = 0
                /\ StartNewLog(c, CloseLogfile(c))
    BY <1>2 DEF LogPacket
  <2> DEFINE file == Recorded(card[currentFile], nodata, algOk, ok)
             c    == [card EXCEPT ![currentFile] = file]
  <2>2. c \in [LogNumbers -> File]
    BY LogPacketFile
  <2>3. serialiser /\ nodata \in BOOLEAN /\ algOk \in BOOLEAN /\ ok \in BOOLEAN
    BY <1>2, LogConstants DEF LogPacket
  <2>4. Announced(file) /\ FlagTells(file, noDataAlgEmitted \/ nodata)
    BY <1>0, <2>3, RecordedAnnounced DEF AnnounceInv
  <2> HIDE DEF file
  <2>5. c[currentFile] = file /\ \A m \in LogNumbers : m # currentFile => c[m] = card[m]
    BY <1>0
  <2>6. \A m \in LogNumbers : Announced(c[m])
    BY <1>0, <2>4, <2>5
  <2> HIDE DEF c
  <2>7. CASE /\ card' = c /\ noDataAlgEmitted' = (noDataAlgEmitted \/ nodata)
             /\ UNCHANGED currentFile
    BY <2>4, <2>5, <2>6, <2>7 DEF AnnounceInv
  <2>8. CASE StartNewLog(c, CloseLogfile(c))
    BY <2>2, <2>6, <2>8, StartNewLogAnnounced
  <2> QED BY <2>1, <2>7, <2>8 DEF c, file
<1>3. CASE NullSerialiser \/ PowerLoss \/ Shutdown
  BY <1>0, <1>3 DEF NullSerialiser, PowerLoss, Reset, Shutdown, AnnounceInv
<1>4. ASSUME NEW n \in LogNumbers, EraseLogfile(n)
      PROVE  AnnounceInv'
  <2>1. /\ \A m \in LogNumbers : card'[m] \in {card[m], NoFile}
        /\ UNCHANGED <<currentFile, serialiser, noDataAlgEmitted>>
    BY <1>0, <1>4 DEF EraseLogfile, RemoveLogFile, Without
  <2> QED BY <1>0, <2>1, NoFileAnnounced DEF AnnounceInv
<1>5. CASE RemoveAllLogfiles
  <2>1. PICK removed \in SUBSET (Listed(CloseLogfile(card)) \cap Removable(card)) :
          StartNewLog(Without(card, removed), WithoutEntries(CloseLogfile(card), removed))
    BY <1>5 DEF RemoveAllLogfiles
  <2>2. Without(card, removed) \in [LogNumbers -> File]
    BY <1>0, Defaults DEF Without
  <2>3. \A m \in LogNumbers : Announced(Without(card, removed)[m])
    BY <1>0, NoFileAnnounced DEF Without
  <2> QED BY <2>1, <2>2, <2>3, StartNewLogAnnounced
<1>6. CASE UNCHANGED <<card, currentFile, serialiser, noDataAlgEmitted>>
  BY <1>6 DEF AnnounceInv
<1>7. ASSUME NEW n \in LogNumbers, TransferLogFile(n)
      PROVE  AnnounceInv'
  BY <1>6, <1>7 DEF TransferLogFile
<1>8. CASE UNCHANGED logVars
  BY <1>6, <1>8 DEF logVars
<1> QED BY <1>1, <1>2, <1>3, <1>4, <1>5, <1>7, <1>8 DEF LogNext

\* A log that holds undefined values names the algorithm that rejects them, once,
\* whatever was cycled, erased or reset in between, unless the card refused one of
\* its writes (NoDataAnnounced).
THEOREM NoDataCorrect == LogSpec => []NoDataAnnounced
<1>1. LogInit => AnnounceInv
  BY NoFileAnnounced DEF LogInit, AnnounceInv
<1>2. AnnounceInv => NoDataAnnounced
  BY DEF AnnounceInv, Announced, NoDataAnnounced
<1> QED
  BY <1>1, <1>2, AnnounceStep, LogTypeCorrect, PTL DEF LogSpec

-----------------------------------------------------------------------------
(* The manager implements the documented one.                              *)

\* The card as LogStore sees it.
Seen(c) == [n \in LogNumbers |-> Enumerated(c[n])]

\* The file being written is that of the last log started, unless it was erased.
Writing == serialiser /\ card[currentFile].log # 0 => card[currentFile].log = logs

StoreInv == LogTypeOK /\ InventoryMatchesCard /\ LogsKnown /\ Writing

LEMMA StartNewLogWriting ==
  ASSUME NEW c \in [LogNumbers -> File], NEW inv, StartNewLog(c, inv)
  PROVE  Writing'
<1>1. PICK n \in 0 .. MaxLogFiles :
        /\ IsNextLogNumber(inv, n)
        /\ currentFile' = n
        /\ \/ /\ \E ok \in Writes : card' = [c EXCEPT ![n] = Header(ok)]
              /\ logs' = logs + 1
           \/ /\ card' = c
              /\ serialiser' = FALSE
  BY DEF StartNewLog
<1>2. n \in LogNumbers
  BY <1>1, NextIsLogNumber
<1>3. CASE logs' = logs + 1 /\ \E ok \in Writes : card' = [c EXCEPT ![n] = Header(ok)]
  <2>1. card'[n].log = logs + 1
    BY <1>2, <1>3 DEF Header
  <2> QED BY <1>1, <1>3, <2>1 DEF Writing
<1> QED BY <1>1, <1>3 DEF Writing

LEMMA WritingStep == LogTypeOK /\ Writing /\ [LogNext]_logVars => Writing'
<1> SUFFICES ASSUME LogTypeOK, Writing, [LogNext]_logVars
             PROVE  Writing'
  OBVIOUS
<1>0. card \in [LogNumbers -> File] /\ currentFile \in LogNumbers
  BY DEF LogTypeOK
<1>1. CASE Boot \/ StepLog
  BY <1>0, <1>1, StartNewLogWriting DEF Boot, StepLog
<1>2. ASSUME NEW nodata \in Packets, LogPacket(nodata)
      PROVE  Writing'
  <2>1. PICK algOk \in Writes, ok \in Writes :
          LET file == Recorded(card[currentFile], nodata, algOk, ok)
              c    == [card EXCEPT ![currentFile] = file]
          IN \/ /\ card' = c
                /\ UNCHANGED <<inventory, currentFile, serialiser, logs>>
             \/ StartNewLog(c, CloseLogfile(c))
    BY <1>2 DEF LogPacket
  <2> DEFINE file == Recorded(card[currentFile], nodata, algOk, ok)
             c    == [card EXCEPT ![currentFile] = file]
  <2>2. c \in [LogNumbers -> File] /\ file.log = card[currentFile].log
    BY LogPacketFile
  <2>3. c[currentFile].log = card[currentFile].log
    BY <1>0, <2>2
  <2> HIDE DEF c
  <2>4. CASE card' = c /\ UNCHANGED <<currentFile, serialiser, logs>>
    BY <2>3, <2>4 DEF Writing
  <2>5. CASE StartNewLog(c, CloseLogfile(c))
    BY <2>2, <2>5, StartNewLogWriting
  <2> QED BY <2>1, <2>4, <2>5 DEF c
<1>3. CASE NullSerialiser \/ PowerLoss \/ Shutdown
  BY <1>3 DEF NullSerialiser, PowerLoss, Reset, Shutdown, Writing
<1>4. ASSUME NEW n \in LogNumbers, EraseLogfile(n)
      PROVE  Writing'
  <2>1. /\ card'[currentFile] \in {card[currentFile], NoFile}
        /\ UNCHANGED <<currentFile, serialiser, logs>>
    BY <1>0, <1>4 DEF EraseLogfile, RemoveLogFile, Without
  <2>2. NoFile.log = 0
    BY DEF NoFile
  <2> QED BY <2>1, <2>2 DEF Writing
<1>5. CASE RemoveAllLogfiles
  <2>1. PICK removed \in SUBSET (Listed(CloseLogfile(card)) \cap Removable(card)) :
          StartNewLog(Without(card, removed), WithoutEntries(CloseLogfile(card), removed))
    BY <1>5 DEF RemoveAllLogfiles
  <2>2. Without(card, removed) \in [LogNumbers -> File]
    BY <1>0, Defaults DEF Without
  <2> QED BY <2>1, <2>2, StartNewLogWriting
<1>6. ASSUME NEW n \in LogNumbers, TransferLogFile(n)
      PROVE  Writing'
  BY <1>6 DEF TransferLogFile, Writing
<1>7. CASE UNCHANGED logVars
  BY <1>7 DEF logVars, Writing
<1> QED BY <1>1, <1>2, <1>3, <1>4, <1>5, <1>6, <1>7 DEF LogNext

\* A log started from an inventory that tells what is on the card is started as
\* documented: from the card.
LEMMA StartsAsDocumented ==
  ASSUME StoreInv, NEW c \in [LogNumbers -> File], NEW inv \in [LogNumbers -> Entry],
         Agree(inv, c), StartNewLog(c, inv)
  PROVE  Store!Start(Seen(c))
<1>1. PICK n \in 0 .. MaxLogFiles :
        /\ IsNextLogNumber(inv, n)
        /\ currentFile' = n
        /\ \/ /\ logs < MaxLogs
              /\ \E ok \in Writes : card' = [c EXCEPT ![n] = Header(ok)]
              /\ serialiser' = TRUE
              /\ logs' = logs + 1
           \/ /\ card' = c
              /\ serialiser' = FALSE
              /\ UNCHANGED logs
  BY DEF StartNewLog
<1>2. n \in LogNumbers /\ LogNumbers = Store!Numbers
  BY <1>1, NextIsLogNumber DEF Store!Numbers, LogNumbers
<1>3. inv = Seen(c)
  BY DEF Agree, Seen
<1>4. Store!IsNext(Seen(c), n)
  BY <1>1, <1>2, <1>3 DEF IsNextLogNumber, Listed, Store!IsNext, Store!InUse
<1>5. CASE logs' = logs + 1 /\ serialiser' = TRUE
           /\ \E ok \in Writes : card' = [c EXCEPT ![n] = Header(ok)]
  <2>1. PICK ok \in Writes : card' = [c EXCEPT ![n] = Header(ok)]
    BY <1>5
  <2>2. PICK h : h = Header(ok)
    OBVIOUS
  <2>3. PICK size \in {0, 1} : size = IF ok THEN 1 ELSE 0
    OBVIOUS
  <2>4. Enumerated(h) = IF size = 0 THEN Store!Absent ELSE [log |-> logs + 1, size |-> size]
    BY <2>2, <2>3 DEF Header, Enumerated, NoEntry, Store!Absent
  <2>5. \A m \in LogNumbers : card'[m] = IF m = n THEN h ELSE c[m]
    BY <1>2, <2>1, <2>2
  <2>6. Seen(card') = [Seen(c) EXCEPT ![n] =
                         IF size = 0 THEN Store!Absent ELSE [log |-> logs + 1, size |-> size]]
    BY <1>2, <2>4, <2>5 DEF Seen
  <2> QED BY <1>1, <1>2, <1>4, <1>5, <2>6 DEF Store!Start, Seen
<1>6. CASE card' = c /\ serialiser' = FALSE /\ UNCHANGED logs
  BY <1>6 DEF Store!Start, Seen
<1> QED BY <1>1, <1>5, <1>6

\* How many units a packet adds.
LEMMA RecordedGrows ==
  ASSUME NEW file \in File, NEW nodata \in BOOLEAN, NEW algOk \in BOOLEAN, NEW ok \in BOOLEAN
  PROVE  \/ Recorded(file, nodata, algOk, ok) = file
         \/ /\ file.log # 0
            /\ Recorded(file, nodata, algOk, ok).log = file.log
            /\ Recorded(file, nodata, algOk, ok).size \in {file.size, file.size + 1, file.size + 2}
<1>1. ASSUME NEW g \in File, NEW b \in BOOLEAN
      PROVE  /\ Appended(g, b) \in File
             /\ Appended(g, b).size \in {g.size, g.size + 1}
  BY DEF File, Appended, Marks
<1>2. PICK w : w = WithAlgorithm(file, algOk)
  OBVIOUS
<1>3. w \in File /\ w.size \in {file.size, file.size + 1}
  <2>1. PICK a : a = Appended(file, algOk)
    OBVIOUS
  <2>2. a \in File /\ a.size \in {file.size, file.size + 1}
    BY <1>1, <2>1
  <2>3. w = file \/ w = [a EXCEPT !.alg = IF algOk THEN @ + 1 ELSE @]
    BY <1>2, <2>1 DEF WithAlgorithm
  <2>4. w = file \/ (w \in File /\ w.size = a.size)
    BY <2>2, <2>3 DEF File
  <2> QED BY <2>2, <2>4
<1>4. PICK g : g = Appended(w, ok)
  OBVIOUS
<1>5. file.size \in Nat
  BY DEF File
<1>6. g \in File /\ g.size \in {file.size, file.size + 1, file.size + 2}
  BY <1>1, <1>3, <1>4, <1>5, SMTT(20)
<1>7. [g EXCEPT !.marks = @ \cup {"nodata"}].size = g.size
  BY <1>6 DEF File
<1>8. PICK p : p = Appended(file, ok)
  OBVIOUS
<1>9. p.size \in {file.size, file.size + 1}
  BY <1>1, <1>8
<1>10. Recorded(file, nodata, algOk, ok).log = file.log
  BY RecordedFile
<1>11. CASE file.log = 0
  BY <1>11 DEF Recorded
<1>12. CASE file.log # 0 /\ ~nodata
  <2>1. Recorded(file, nodata, algOk, ok) = p
    BY <1>8, <1>12 DEF Recorded
  <2> QED BY <1>9, <1>10, <1>12, <2>1
<1>13. CASE file.log # 0 /\ nodata
  <2>1. Recorded(file, nodata, algOk, ok) = IF ok THEN [g EXCEPT !.marks = @ \cup {"nodata"}] ELSE g
    BY <1>2, <1>4, <1>13 DEF Recorded
  <2>2. Recorded(file, nodata, algOk, ok).size = g.size
    BY <1>7, <2>1
  <2> QED BY <1>6, <1>10, <1>13, <2>2
<1> QED BY <1>11, <1>12, <1>13

\* What a packet makes of the card is what LogStore lets the file grow to.
LEMMA RecordedIsGrown ==
  ASSUME StoreInv, serialiser, NEW nodata \in BOOLEAN, NEW algOk \in BOOLEAN, NEW ok \in BOOLEAN
  PROVE  Seen([card EXCEPT ![currentFile] = Recorded(card[currentFile], nodata, algOk, ok)])
           \in Store!Grown(Seen(card))
<1> DEFINE file == card[currentFile]
           r == Recorded(file, nodata, algOk, ok)
           c == [card EXCEPT ![currentFile] = r]
<1>1. /\ card \in [LogNumbers -> File] /\ currentFile \in LogNumbers
      /\ file \in File /\ file.size \in Nat /\ logs \in Nat
  BY LogConstants DEF StoreInv, LogTypeOK, File
<1>2. file.log # 0 => file.log = logs
  BY DEF StoreInv, Writing
<1>3. \/ r = file
      \/ file.log # 0 /\ r.log = file.log /\ r.size \in {file.size, file.size + 1, file.size + 2}
  BY <1>1, RecordedGrows
<1> SUFFICES Seen(c) \in Store!Grown(Seen(card))
  OBVIOUS
<1> HIDE DEF r
<1>4. \A m \in LogNumbers : Seen(c)[m] = IF m = currentFile THEN Enumerated(r) ELSE Seen(card)[m]
  BY <1>1 DEF Seen
<1>5. Seen(card)[currentFile] = Enumerated(file)
  BY <1>1 DEF Seen
<1>6. \A fs, fs2 : (\/ fs2 = fs
                    \/ \E k \in {1, 2} :
                         fs2 = [fs EXCEPT ![currentFile] =
                                  [log |-> IF fs[currentFile] = Store!Absent
                                             THEN logs ELSE fs[currentFile].log,
                                   size |-> @.size + k]])
                    => fs2 \in Store!Grown(fs)
  BY DEF Store!Grown
<1>7. CASE Enumerated(r) = Enumerated(file)
  <2>1. Seen(c) = Seen(card)
    BY <1>4, <1>5, <1>7 DEF Seen
  <2> QED BY <2>1, <1>6
<1>8. CASE Enumerated(r) # Enumerated(file)
  <2>1. PICK k \in {1, 2} : r.size = file.size + k
    BY <1>1, <1>3, <1>8 DEF Enumerated
  <2>2. file.log = logs /\ r.log = logs
    BY <1>2, <1>3, <1>8
  <2>3. Enumerated(r) = [log |-> logs, size |-> file.size + k]
    BY <1>1, <2>1, <2>2 DEF Enumerated
  <2>4. PICK log : log = IF Seen(card)[currentFile] = Store!Absent THEN logs
                         ELSE Seen(card)[currentFile].log
    OBVIOUS
  <2>5. log = logs
    BY <1>5, <2>2, <2>4 DEF Enumerated, NoEntry, Store!Absent
  <2>6. Seen(card)[currentFile].size = file.size
    BY <1>5 DEF Enumerated, NoEntry
  <2>7. Seen(c) = [Seen(card) EXCEPT ![currentFile] = [log |-> log, size |-> @.size + k]]
    BY <1>1, <1>4, <2>3, <2>5, <2>6 DEF Seen
  <2> QED BY <2>4, <2>7, <1>6
<1> QED BY <1>7, <1>8

\* Each step of the manager is one of LogStore's, or changes nothing there.
LEMMA StoreStep == StoreInv /\ [LogNext]_logVars => [Store!StoreNext]_(Store!storeVars)
<1> SUFFICES ASSUME StoreInv, [LogNext]_logVars
             PROVE  [Store!StoreNext]_(Store!storeVars)
  OBVIOUS
<1>0. /\ card \in [LogNumbers -> File] /\ inventory \in [LogNumbers -> Entry]
      /\ currentFile \in LogNumbers /\ currentFile # MaxLogFiles /\ logs \in Nat
      /\ LogNumbers = Store!Numbers
  BY LogConstants DEF StoreInv, LogTypeOK, LogNumbers, Store!Numbers
<1>1. CASE Boot
  <2>1. Agree(Reinitialise(card), card)
    BY DEF Agree, Reinitialise
  <2>2. Reinitialise(card) \in [LogNumbers -> Entry]
    BY <1>0, InventoryTypes
  <2>3. Store!Start(Seen(card))
    BY <1>0, <1>1, <2>1, <2>2, StartsAsDocumented DEF Boot
  <2> QED BY <1>1, <2>3 DEF Boot, Store!StoreNext, Store!NewLog, Seen
<1>2. ASSUME NEW nodata \in Packets, LogPacket(nodata)
      PROVE  Store!StoreNext
  <2>1. PICK algOk \in Writes, ok \in Writes :
          LET file == Recorded(card[currentFile], nodata, algOk, ok)
              c    == [card EXCEPT ![currentFile] = file]
          IN \/ /\ card' = c
                /\ UNCHANGED <<inventory, currentFile, serialiser, logs>>
             \/ StartNewLog(c, CloseLogfile(c))
    BY <1>2 DEF LogPacket
  <2> DEFINE file == Recorded(card[currentFile], nodata, algOk, ok)
             c    == [card EXCEPT ![currentFile] = file]
  <2>2. /\ serialiser /\ power # "off" /\ erased' = erased
        /\ nodata \in BOOLEAN /\ algOk \in BOOLEAN /\ ok \in BOOLEAN
    BY <1>2, LogConstants DEF LogPacket
  <2>3. file \in File /\ c \in [LogNumbers -> File]
    BY LogPacketFile DEF StoreInv
  <2>4. Seen(c) \in Store!Grown(Seen(card))
    BY <2>2, RecordedIsGrown
  <2>5. Agree(CloseLogfile(c), c)
    BY <2>2, <2>3, CloseLogfileAgrees DEF StoreInv
  <2>6. CloseLogfile(c) \in [LogNumbers -> Entry]
    BY <1>0, <2>3, InventoryTypes DEF CloseLogfile
  <2> HIDE DEF c
  <2>7. CASE card' = c /\ UNCHANGED <<currentFile, serialiser, logs>>
    <3>1. Store!Append
      BY <1>0, <2>2, <2>4, <2>7 DEF Store!Append, Seen
    <3> QED BY <3>1 DEF Store!StoreNext
  <2>8. CASE StartNewLog(c, CloseLogfile(c))
    <3>1. Store!Start(Seen(c))
      BY <2>3, <2>5, <2>6, <2>8, StartsAsDocumented
    <3>2. Store!Cycle
      BY <1>0, <2>2, <2>4, <3>1 DEF Store!Cycle, Seen
    <3> QED BY <3>2 DEF Store!StoreNext
  <2> QED BY <2>1, <2>7, <2>8 DEF c
<1>3. CASE NullSerialiser \/ PowerLoss \/ Shutdown
  BY <1>3 DEF NullSerialiser, PowerLoss, Reset, Shutdown, Store!StoreNext, Store!Stop
<1>4. CASE StepLog
  <2>1. CloseLogfile(card) \in [LogNumbers -> Entry]
    BY <1>0, InventoryTypes DEF CloseLogfile
  <2>2. Agree(CloseLogfile(card), card)
    BY <1>4, CloseLogfileAgreesAsIs DEF StoreInv, StepLog
  <2>3. Store!Start(Seen(card))
    BY <1>0, <1>4, <2>1, <2>2, StartsAsDocumented DEF StepLog
  <2> QED BY <1>4, <2>3 DEF StepLog, Store!StoreNext, Store!NewLog, Seen
<1>5. ASSUME NEW n \in LogNumbers, EraseLogfile(n)
      PROVE  Store!StoreNext
  <2>1. /\ card[n].log # 0 /\ card' = Without(card, {n}) /\ erased' = erased \cup {card[n].log}
        /\ UNCHANGED <<currentFile, serialiser, logs>>
    BY <1>5 DEF EraseLogfile, RemoveLogFile, Removable
  <2>2. card[n].log \in 1 .. logs
    BY <1>0, <2>1 DEF StoreInv, LogsKnown, File
  <2>3. Enumerated(NoFile) = Store!Absent
    BY DEF Enumerated, NoFile, NoEntry, Store!Absent
  <2>4. Seen(card') = [Seen(card) EXCEPT ![n] = Store!Absent]
    BY <1>0, <2>1, <2>3 DEF Seen, Without
  <2>5. Seen(card)[n].log \in {card[n].log, 0}
    BY <1>0 DEF Seen, Enumerated, NoEntry
  <2>6. Store!Erase
    BY <1>0, <2>1, <2>2, <2>4, <2>5 DEF Store!Erase, Seen
  <2> QED BY <2>6 DEF Store!StoreNext
<1>6. ASSUME NEW n \in LogNumbers, TransferLogFile(n)
      PROVE  UNCHANGED Store!storeVars
  BY <1>6 DEF TransferLogFile, Store!storeVars
<1>7. CASE RemoveAllLogfiles
  <2>1. PICK removed \in SUBSET (Listed(CloseLogfile(card)) \cap Removable(card)) :
          /\ StartNewLog(Without(card, removed), WithoutEntries(CloseLogfile(card), removed))
          /\ erased' = erased \cup {card[n].log : n \in removed}
    BY <1>7 DEF RemoveAllLogfiles
  <2>2. Agree(CloseLogfile(card), card)
    BY <1>7, CloseLogfileAgreesAsIs DEF StoreInv, RemoveAllLogfiles
  <2>3. Agree(WithoutEntries(CloseLogfile(card), removed), Without(card, removed))
    BY <2>2 DEF Agree, WithoutEntries, Without, Enumerated, NoFile
  <2>4. CloseLogfile(card) \in [LogNumbers -> Entry]
    BY <1>0, InventoryTypes DEF CloseLogfile
  <2>5. /\ Without(card, removed) \in [LogNumbers -> File]
        /\ WithoutEntries(CloseLogfile(card), removed) \in [LogNumbers -> Entry]
    BY <1>0, <2>4, InventoryTypes
  <2>6. Store!Start(Seen(Without(card, removed)))
    BY <2>1, <2>3, <2>5, StartsAsDocumented
  <2>7. removed \subseteq Store!InUse(Seen(card))
    BY <1>0, <2>2 DEF Listed, Agree, Store!InUse, Seen
  <2>8. \A n \in removed : Seen(card)[n].log = card[n].log
    BY <1>0, <2>7 DEF Store!InUse, Seen, Enumerated, NoEntry
  <2>9. Seen(Without(card, removed)) = [n \in LogNumbers |-> IF n \in removed THEN Store!Absent
                                                              ELSE Seen(card)[n]]
    <3>1. Enumerated(NoFile) = Store!Absent
      BY DEF Enumerated, NoFile, NoEntry, Store!Absent
    <3> QED BY <3>1 DEF Seen, Without
  <2>10. {Seen(card)[n].log : n \in removed} = {card[n].log : n \in removed}
    BY <2>8
  <2>11. Store!EraseAll
    BY <1>0, <2>1, <2>6, <2>7, <2>9, <2>10 DEF Store!EraseAll, Seen
  <2> QED BY <2>11 DEF Store!StoreNext
<1>8. CASE UNCHANGED logVars
  BY <1>8 DEF logVars, Store!storeVars
<1> QED BY <1>1, <1>2, <1>3, <1>4, <1>5, <1>6, <1>7, <1>8 DEF LogNext

\* The cached inventory never makes a difference to which number is chosen or
\* what is overwritten: the manager implements the documented one, which looks
\* at the card (ImplementsLogStore).
THEOREM StoreImplemented == LogSpec => ImplementsLogStore
<1>1. LogInit => Store!StoreInit
  BY DEF LogInit, Store!StoreInit, Store!Numbers, LogNumbers, Store!Absent, Enumerated, NoFile, NoEntry
<1>2. LogInit => OpenInv /\ Writing
  BY DEF LogInit, OpenInv, LogsKnown, OpenLogNotListed, NoFile, NoEntry, Writing
<1>3. LogSpec => []StoreInv
  <2>1. OpenInv => LogsKnown
    BY DEF OpenInv
  <2>2. LogTypeOK /\ InventoryMatchesCard /\ LogsKnown /\ Writing => StoreInv
    BY DEF StoreInv
  <2> QED BY <1>2, <2>1, <2>2, OpenStep, WritingStep, LogTypeCorrect, InventoryCorrect, PTL DEF LogSpec
<1>4. LogSpec => Store!StoreSpec
  BY <1>1, <1>3, StoreStep, PTL DEF LogSpec, Store!StoreSpec
<1> QED BY <1>4 DEF ImplementsLogStore

-----------------------------------------------------------------------------
(* What the manager's steps do to the logs on the card.                    *)

\* What a step of the manager may do to number m.
Same(m)  == card'[m] = card[m] /\ (Open(m)' => Open(m))
Gone(m)  == card'[m].log = 0 /\ card'[m].size = 0
New(m)   == m = currentFile' /\ card'[m].log = logs + 1 /\ logs' = logs + 1
Grown(m) == Open(m) /\ card'[m].log = card[m].log /\ (card[m].log = 0 => card'[m] = card[m])

LEMMA StartNewLogCard ==
  ASSUME NEW c \in [LogNumbers -> File], NEW inv, StartNewLog(c, inv)
  PROVE  /\ logs' = logs \/ logs' = logs + 1
         /\ \A m \in LogNumbers : (card'[m] = c[m] /\ ~Open(m)') \/ New(m)
<1>1. PICK n \in 0 .. MaxLogFiles :
        /\ IsNextLogNumber(inv, n)
        /\ currentFile' = n
        /\ \/ /\ \E ok \in Writes : card' = [c EXCEPT ![n] = Header(ok)]
              /\ logs' = logs + 1
           \/ /\ card' = c
              /\ serialiser' = FALSE
              /\ logs' = logs
  BY DEF StartNewLog
<1>2. n \in LogNumbers
  BY <1>1, NextIsLogNumber
<1>3. CASE logs' = logs + 1 /\ \E ok \in Writes : card' = [c EXCEPT ![n] = Header(ok)]
  <2>1. card'[n].log = logs + 1 /\ \A m \in LogNumbers : m # n => card'[m] = c[m]
    BY <1>2, <1>3 DEF Header
  <2> QED BY <1>1, <1>3, <2>1 DEF New, Open
<1>4. CASE card' = c /\ serialiser' = FALSE /\ logs' = logs
  BY <1>4 DEF Open
<1> QED BY <1>1, <1>3, <1>4

LEMMA CardStep ==
  ASSUME LogTypeOK, [LogNext]_logVars
  PROVE  /\ logs' = logs \/ logs' = logs + 1
         /\ \A m \in LogNumbers : Same(m) \/ Gone(m) \/ New(m) \/ Grown(m)
<1>0. card \in [LogNumbers -> File] /\ currentFile \in LogNumbers
  BY DEF LogTypeOK
<1>1. CASE Boot \/ StepLog
  BY <1>0, <1>1, StartNewLogCard DEF Boot, StepLog, Same
<1>2. ASSUME NEW nodata \in Packets, LogPacket(nodata)
      PROVE  /\ logs' = logs \/ logs' = logs + 1
             /\ \A m \in LogNumbers : Same(m) \/ New(m) \/ Grown(m)
  <2>1. PICK algOk \in Writes, ok \in Writes :
          LET file == Recorded(card[currentFile], nodata, algOk, ok)
              c    == [card EXCEPT ![currentFile] = file]
          IN \/ /\ card' = c
                /\ UNCHANGED <<inventory, currentFile, serialiser, logs>>
             \/ StartNewLog(c, CloseLogfile(c))
    BY <1>2 DEF LogPacket
  <2> DEFINE file == Recorded(card[currentFile], nodata, algOk, ok)
             c    == [card EXCEPT ![currentFile] = file]
  <2>2. c \in [LogNumbers -> File] /\ file.log = card[currentFile].log
    BY LogPacketFile
  <2>3. card[currentFile].log = 0 => file = card[currentFile]
    BY DEF Recorded
  <2> HIDE DEF file
  <2>4. /\ c[currentFile] = file
        /\ \A m \in LogNumbers : m # currentFile => c[m] = card[m]
    BY <1>0
  <2>5. Open(currentFile)
    BY <1>2 DEF LogPacket, Open
  <2> HIDE DEF c
  <2>6. \A m \in LogNumbers : card'[m] = c[m] /\ (Open(m)' => Open(m)) => Same(m) \/ Grown(m)
    BY <2>2, <2>3, <2>4, <2>5 DEF Same, Grown
  <2>7. CASE card' = c /\ UNCHANGED <<currentFile, serialiser, logs>>
    BY <2>6, <2>7 DEF Open
  <2>8. CASE StartNewLog(c, CloseLogfile(c))
    BY <2>2, <2>6, <2>8, StartNewLogCard
  <2> QED BY <2>1, <2>7, <2>8 DEF c, file
<1>3. CASE NullSerialiser \/ PowerLoss \/ Shutdown
  BY <1>3 DEF NullSerialiser, PowerLoss, Reset, Shutdown, Same, Open
<1>4. ASSUME NEW n \in LogNumbers, EraseLogfile(n)
      PROVE  logs' = logs /\ \A m \in LogNumbers : Same(m) \/ Gone(m)
  <2>1. \A m \in LogNumbers : card'[m] = NoFile \/ card'[m] = card[m]
    BY <1>0, <1>4 DEF EraseLogfile, RemoveLogFile, Without
  <2>2. UNCHANGED <<currentFile, serialiser, logs>>
    BY <1>4 DEF EraseLogfile, RemoveLogFile
  <2> QED BY <2>1, <2>2 DEF NoFile, Same, Gone, Open
<1>5. CASE RemoveAllLogfiles
  <2>1. PICK removed \in SUBSET (Listed(CloseLogfile(card)) \cap Removable(card)) :
          StartNewLog(Without(card, removed), WithoutEntries(CloseLogfile(card), removed))
    BY <1>5 DEF RemoveAllLogfiles
  <2>2. Without(card, removed) \in [LogNumbers -> File]
    BY <1>0, Defaults DEF Without
  <2>3. \A m \in LogNumbers : Without(card, removed)[m] \in {card[m], NoFile}
    BY DEF Without
  <2>4. \A m \in LogNumbers : (card'[m] \in {card[m], NoFile} /\ ~Open(m)') \/ New(m)
    BY <2>1, <2>2, <2>3, StartNewLogCard
  <2>5. logs' = logs \/ logs' = logs + 1
    BY <2>1, <2>2, StartNewLogCard
  <2> QED BY <2>4, <2>5 DEF NoFile, Same, Gone
<1>6. ASSUME NEW n \in LogNumbers, TransferLogFile(n)
      PROVE  logs' = logs /\ \A m \in LogNumbers : Same(m)
  BY <1>6 DEF TransferLogFile, Same, Open
<1>7. CASE UNCHANGED logVars
  BY <1>7 DEF logVars, Same, Open
<1> QED BY <1>1, <1>2, <1>3, <1>4, <1>5, <1>6, <1>7 DEF LogNext

\* No log is on the card twice, and what is under a number without one is empty.
CardInv ==
  /\ \A n \in LogNumbers : card[n].log = 0 => card[n].size = 0
  /\ \A m, n \in LogNumbers : card[m].log = card[n].log /\ card[m].log # 0 => m = n

LEMMA CardInvStep == LogTypeOK /\ LogsKnown /\ CardInv /\ [LogNext]_logVars => CardInv'
<1> SUFFICES ASSUME LogTypeOK, LogsKnown, CardInv, [LogNext]_logVars
             PROVE  CardInv'
  OBVIOUS
<1>1. logs \in Nat /\ \A m \in LogNumbers : card[m].log \in Nat /\ card[m].log <= logs
  BY LogConstants DEF LogTypeOK, File, LogsKnown
<1>2. ASSUME NEW m \in LogNumbers
      PROVE  \/ card'[m].log = 0 /\ card'[m].size = 0
             \/ card'[m].log = card[m].log /\ (card[m].log = 0 => card'[m] = card[m])
             \/ m = currentFile' /\ card'[m].log = logs + 1
  BY CardStep DEF Same, Gone, New, Grown
<1>3. ASSUME NEW m \in LogNumbers, card'[m].log = 0
      PROVE  card'[m].size = 0
  BY <1>1, <1>2, <1>3 DEF CardInv
<1>4. ASSUME NEW m \in LogNumbers, NEW n \in LogNumbers, card'[m].log = card'[n].log, card'[m].log # 0
      PROVE  m = n
  <2>1. \/ card'[m].log = card[m].log
        \/ m = currentFile' /\ card'[m].log = logs + 1
    BY <1>2, <1>4
  <2>2. \/ card'[n].log = card[n].log
        \/ n = currentFile' /\ card'[n].log = logs + 1
    BY <1>2, <1>4
  <2> QED BY <1>1, <1>4, <2>1, <2>2 DEF CardInv
<1> QED BY <1>3, <1>4 DEF CardInv

\* Entry e is all of a log that has been finished.
Whole(e) ==
  /\ e.log \in 1 .. logs
  /\ e.size # 0
  /\ \A n \in LogNumbers : card[n].log = e.log => ~Open(n) /\ card[n].size = e.size

\* A finished log stays one.
LEMMA WholeStep ==
  ASSUME LogTypeOK, [LogNext]_logVars, NEW e, Whole(e)
  PROVE  Whole(e)'
<1>1. logs \in Nat /\ e.log \in Nat /\ e.log # 0 /\ e.log <= logs
  BY LogConstants DEF LogTypeOK, Whole
<1>2. e.log \in 1 .. logs'
  BY <1>1, CardStep
<1>3. ASSUME NEW n \in LogNumbers, card'[n].log = e.log
      PROVE  ~Open(n)' /\ card'[n].size = e.size
  <2>1. Same(n) \/ Gone(n) \/ New(n) \/ Grown(n)
    BY CardStep
  <2>2. ~Gone(n) /\ ~New(n)
    BY <1>1, <1>3 DEF Gone, New
  <2> QED BY <1>3, <2>1, <2>2 DEF Same, Grown, Whole
<1>4. e.size # 0
  BY DEF Whole
<1> QED BY <1>2, <1>3, <1>4 DEF Whole

-----------------------------------------------------------------------------
(* The upload cycle.                                                       *)

\* The cycle runs while the firmware does, and one POST is waited for; what the
\* server says is stored is in the bucket.
CycleInv ==
  /\ UploadTypeOK
  /\ Idle \/ power = "running"
  /\ uploading = None => reply = "none"
  /\ \A p, q \in posts : ~p.late /\ ~q.late => p = q
  /\ \A p \in posts : p.stage = "stored" /\ Provider = "aws" => p.body \in bucket

LEMMA NoneIsNoNumber == None \notin LogNumbers
BY LogConstants DEF None, LogNumbers

\* Each step of the upload is one of the manager's, or none of its business.
LEMMA LogOrStutter == CycleInv /\ [Next]_vars => [LogNext]_logVars
<1> SUFFICES ASSUME CycleInv, [Next]_vars
             PROVE  [LogNext]_logVars
  OBVIOUS
<1>1. CASE LogStep
  BY <1>1 DEF LogStep, LogNext
<1>2. CASE UploadPowerLoss
  BY <1>2 DEF UploadPowerLoss, LogNext
<1>3. ASSUME NEW n \in LogNumbers, Answered(n)
      PROVE  [LogNext]_logVars
  <2>1. power = "running"
    BY <1>3, NoneIsNoNumber DEF Answered, CycleInv, Idle
  <2>2. CASE RemoveLogFile(n)
    BY <2>1, <2>2 DEF EraseLogfile, LogNext
  <2> QED BY <1>3, <2>2 DEF Answered
<1>4. ASSUME NEW n \in LogNumbers, SendFile(n) \/ SendFails(n) \/ TimedOut(n)
      PROVE  UNCHANGED logVars
  BY <1>4 DEF SendFile, SendFails, TimedOut
<1>5. ASSUME NEW p \in posts, Verify(p) \/ Mismatch(p) \/ StoreObject(p) \/ Publish(p) \/ Fail(p)
      PROVE  UNCHANGED logVars
  BY <1>5 DEF Verify, Mismatch, StoreObject, Publish, Fail
<1>6. CASE UploadCycle \/ ServerStops \/ UNCHANGED vars
  BY <1>6 DEF UploadCycle, ServerStops, vars
<1> QED BY <1>1, <1>2, <1>3, <1>4, <1>5, <1>6 DEF Next

\* The server is given its topic, or none, once.
LEMMA TopicKept == [Next]_vars => hasTopic' = hasTopic
BY DEF Next, LogStep, UploadPowerLoss, UploadCycle, SendFile, SendFails, Answered, TimedOut,
       Verify, Mismatch, StoreObject, Publish, Fail, ServerStops, vars, uploadVars

\* What the logger gives up on, the server may work on as it was.
LEMMA GivenUp ==
  ASSUME posts \subseteq Post, GiveUp
  PROVE  /\ posts' \subseteq Post
         /\ \A q \in posts' : /\ q.late
                             /\ \E p \in posts : /\ q.body = p.body /\ q.digest = p.digest
                                                /\ q.stage = p.stage
<1>1. CASE posts' = {p \in posts : p.late}
  BY <1>1
<1>2. CASE posts' = {[p EXCEPT !.late = TRUE] : p \in posts}
  <2>1. ASSUME NEW p \in posts
        PROVE  LET q == [p EXCEPT !.late = TRUE]
               IN  q \in Post /\ q.late /\ q.body = p.body /\ q.digest = p.digest /\ q.stage = p.stage
    BY DEF Post
  <2>2. ASSUME NEW q \in posts'
        PROVE  q \in Post /\ q.late /\ \E p \in posts : q.body = p.body /\ q.digest = p.digest /\ q.stage = p.stage
    <3>1. PICK p \in posts : q = [p EXCEPT !.late = TRUE]
      BY <1>2
    <3> QED BY <2>1, <3>1
  <2> QED BY <2>2
<1> QED BY <1>1, <1>2 DEF GiveUp

\* A handler that goes on leaves one POST at its next stage, and the others.
LEMMA Advanced ==
  ASSUME posts \subseteq Post, NEW p \in posts, NEW stage \in {"arrived", "verified", "stored"},
         Advance(p, stage)
  PROVE  /\ posts' \subseteq Post /\ reply' = reply
         /\ \E q \in posts' :
              /\ q.from = p.from /\ q.body = p.body /\ q.digest = p.digest /\ q.late = p.late
              /\ q.stage = stage
              /\ posts' = (posts \ {p}) \cup {q}
<1> DEFINE q == [p EXCEPT !.stage = stage]
<1>1. /\ q \in Post /\ q.from = p.from /\ q.body = p.body /\ q.digest = p.digest /\ q.late = p.late
      /\ q.stage = stage
  BY DEF Post
<1>2. posts' = (posts \ {p}) \cup {q} /\ reply' = reply
  BY DEF Advance
<1> QED BY <1>1, <1>2

\* A POST as it is sent.
LEMMA Sent ==
  ASSUME LogTypeOK, NEW n \in LogNumbers
  PROVE  /\ NewPost(n) \in Post /\ NewPost(n).from = n /\ ~NewPost(n).late
         /\ NewPost(n).stage = "arrived" /\ NewPost(n).digest = inventory[n]
         /\ NewPost(n).body.log = card[n].log /\ NewPost(n).body.size = inventory[n].size
<1>1. card[n].log \in 0 .. MaxLogs /\ inventory[n] \in Entry /\ inventory[n].size \in Nat
  BY DEF LogTypeOK, File, Entry
<1>2. [log |-> card[n].log, size |-> inventory[n].size] \in Entry
  BY <1>1 DEF Entry
<1> QED BY <1>1, <1>2 DEF NewPost, Post

LEMMA CycleStep == CycleInv /\ [Next]_vars => CycleInv'
<1> SUFFICES ASSUME CycleInv, [Next]_vars
             PROVE  CycleInv'
  OBVIOUS
<1>0. /\ LogTypeOK /\ LogTypeOK'
      /\ toSend \subseteq LogNumbers /\ uploading \in toSend \cup {None}
      /\ reply \in {"none", "success", "failure", "error"}
      /\ posts \subseteq Post /\ bucket \subseteq Entry /\ topic \subseteq bucket
      /\ \A p \in posts : ~p.late => p.from = uploading /\ reply = "none"
      /\ hasTopic' \in BOOLEAN
  BY LogOrStutter, LogTypeStep, TopicKept DEF CycleInv, UploadTypeOK
<1>1. CASE LogStep
  BY <1>0, <1>1 DEF LogStep, uploadVars, CycleInv, UploadTypeOK, Idle
<1>2. CASE UploadCycle
  BY <1>0, <1>2 DEF UploadCycle, logVars, CycleInv, UploadTypeOK, Idle, Listed
<1>3. ASSUME GiveUp, uploading' = None, reply' = "none", UNCHANGED <<bucket, topic>>,
             toSend' \subseteq toSend, toSend' = {} \/ power' = "running"
      PROVE  CycleInv'
  <2>1. /\ posts' \subseteq Post
        /\ \A q \in posts' : q.late /\ \E p \in posts : q.body = p.body /\ q.stage = p.stage
    BY <1>0, <1>3, GivenUp
  <2>2. \A q \in posts' : q.stage = "stored" /\ Provider = "aws" => q.body \in bucket
    BY <2>1 DEF CycleInv
  <2> QED BY <1>0, <1>3, <2>1, <2>2 DEF CycleInv, UploadTypeOK, Idle
<1>4. CASE UploadPowerLoss
  BY <1>3, <1>4 DEF UploadPowerLoss
<1>5. ASSUME NEW n \in LogNumbers, SendFile(n)
      PROVE  CycleInv'
  <2>1. /\ power = "running" /\ uploading = None /\ n \in toSend
        /\ UNCHANGED <<power, toSend, reply, bucket, topic>>
        /\ posts' = posts \cup {NewPost(n)} /\ uploading' = n
    BY <1>5 DEF SendFile, IsNextToSend, logVars
  <2>2. \A p \in posts : p.late
    BY <1>0, <2>1, NoneIsNoNumber DEF Post
  <2>3. reply = "none"
    BY <2>1 DEF CycleInv
  <2>4. /\ NewPost(n) \in Post /\ NewPost(n).from = n /\ ~NewPost(n).late
        /\ NewPost(n).stage = "arrived"
    BY <1>0, Sent
  <2>5. UploadTypeOK'
    BY <1>0, <2>1, <2>2, <2>3, <2>4 DEF UploadTypeOK
  <2>6. \A p, q \in posts' : ~p.late /\ ~q.late => p = q
    BY <2>1, <2>2
  <2>7. \A p \in posts' : p.stage = "stored" /\ Provider = "aws" => p.body \in bucket'
    BY <2>1, <2>4 DEF CycleInv
  <2> QED BY <2>1, <2>3, <2>5, <2>6, <2>7 DEF CycleInv
<1>6. ASSUME NEW n \in LogNumbers, SendFails(n)
      PROVE  CycleInv'
  <2>1. /\ power = "running" /\ uploading = None /\ toSend' \subseteq toSend
        /\ UNCHANGED <<power, uploading, reply, posts, bucket, topic>>
    BY <1>6 DEF SendFails, IsNextToSend, Proceed, GoOn, logVars
  <2> QED BY <1>0, <2>1 DEF CycleInv, UploadTypeOK, Idle
<1>7. ASSUME NEW n \in LogNumbers, Answered(n)
      PROVE  CycleInv'
  <2>1. /\ uploading = n /\ reply # "none" /\ uploading' = None /\ reply' = "none"
        /\ UNCHANGED <<power, posts, bucket, topic>> /\ toSend' \subseteq toSend
    BY <1>7 DEF Answered, RemoveLogFile, Proceed, GoOn, logVars
  <2>2. power = "running"
    BY <2>1, NoneIsNoNumber DEF CycleInv, Idle
  <2>3. \A p \in posts : p.late
    BY <1>0, <2>1
  <2> QED BY <1>0, <2>1, <2>2, <2>3 DEF CycleInv, UploadTypeOK
<1>8. ASSUME NEW n \in LogNumbers, TimedOut(n)
      PROVE  CycleInv'
  <2>1. uploading = n /\ toSend' \subseteq toSend /\ UNCHANGED power
    BY <1>8 DEF TimedOut, Proceed, GoOn, logVars
  <2>2. power = "running"
    BY <2>1, NoneIsNoNumber DEF CycleInv, Idle
  <2> QED BY <1>3, <1>8, <2>1, <2>2 DEF TimedOut
<1>9. ASSUME NEW p \in posts, Verify(p) \/ StoreObject(p)
      PROVE  CycleInv'
  <2>1. PICK stage \in {"verified", "stored"} :
          /\ Advance(p, stage)
          /\ stage = "stored" /\ Provider = "aws" => p.body \in bucket'
    BY <1>9 DEF Verify, StoreObject
  <2>2. PICK q \in posts' :
          /\ q.from = p.from /\ q.body = p.body /\ q.late = p.late /\ q.stage = stage
          /\ posts' = (posts \ {p}) \cup {q}
    BY <1>0, <2>1, Advanced
  <2>3. posts' \subseteq Post /\ reply' = reply
    BY <1>0, <2>1, Advanced
  <2>4. /\ UNCHANGED <<power, toSend, uploading, topic>>
        /\ bucket \subseteq bucket' /\ bucket' \subseteq bucket \cup {p.body}
    BY <1>9 DEF Verify, StoreObject, logVars
  <2>5. p.body \in Entry
    BY <1>0 DEF Post
  <2>6. UploadTypeOK'
    BY <1>0, <2>2, <2>3, <2>4, <2>5 DEF UploadTypeOK
  <2>7. \A r, t \in posts' : ~r.late /\ ~t.late => r = t
    BY <2>2 DEF CycleInv
  <2>8. \A r \in posts' : r.stage = "stored" /\ Provider = "aws" => r.body \in bucket'
    BY <2>1, <2>2, <2>4 DEF CycleInv
  <2> QED BY <2>3, <2>4, <2>6, <2>7, <2>8 DEF CycleInv, Idle
<1>10. ASSUME NEW p \in posts, Mismatch(p) \/ Publish(p) \/ Fail(p)
       PROVE  CycleInv'
  <2>1. PICK answer \in {"success", "failure", "error"} : Answer(p, answer)
    BY <1>10 DEF Mismatch, Publish, Fail
  <2>2. /\ UNCHANGED <<power, toSend, uploading, bucket>>
        /\ topic \subseteq topic' /\ topic' \subseteq topic \cup bucket
    BY <1>10 DEF Mismatch, Publish, TopicWith, Fail, CycleInv, logVars
  <2>3. posts' = posts \ {p} /\ reply' = IF p.late THEN reply ELSE answer
    BY <2>1 DEF Answer
  <2>4. ~p.late => uploading # None /\ \A q \in posts' : q.late
    BY <1>0, <2>3, NoneIsNoNumber DEF CycleInv, Post
  <2>5. UploadTypeOK'
    BY <1>0, <2>2, <2>3, <2>4 DEF UploadTypeOK
  <2> QED BY <2>2, <2>3, <2>4, <2>5 DEF CycleInv, Idle
<1>11. CASE ServerStops
  BY <1>0, <1>11 DEF ServerStops, logVars, CycleInv, UploadTypeOK, Idle
<1>12. CASE UNCHANGED vars
  BY <1>0, <1>12 DEF vars, uploadVars, logVars, CycleInv, UploadTypeOK, Idle
<1> QED
  BY <1>1, <1>2, <1>4, <1>5, <1>6, <1>7, <1>8, <1>9, <1>10, <1>11, <1>12 DEF Next

LEMMA CycleAlways == Spec => []CycleInv
<1>1. Init => CycleInv
  <2> SUFFICES ASSUME Init PROVE CycleInv
    OBVIOUS
  <2>1. LogInit
    BY DEF Init
  <2>2. /\ toSend = {} /\ uploading = None /\ reply = "none" /\ posts = {} /\ bucket = {}
        /\ hasTopic \in BOOLEAN /\ topic = {}
    BY DEF Init
  <2>3. LogTypeOK
    BY <2>1, LogTypeStart
  <2> QED BY <2>2, <2>3 DEF CycleInv, UploadTypeOK, Idle
<1> QED BY <1>1, CycleStep, PTL DEF Spec

\* Types are right in every state, and an upload cycle has its shape: one POST
\* is waited for, and it was sent for the number being uploaded (UploadTypeOK).
THEOREM UploadTypeCorrect == Spec => []UploadTypeOK
<1>1. CycleInv => UploadTypeOK
  BY DEF CycleInv
<1> QED BY <1>1, CycleAlways, PTL

\* What holds of the manager on its own holds of it as it uploads.
THEOREM UploadKeepsManager == Spec => LogSpec
<1>1. Init => LogInit
  BY DEF Init
<1> QED BY <1>1, CycleAlways, LogOrStutter, PTL DEF Spec, LogSpec

-----------------------------------------------------------------------------
(* What is stored.                                                         *)

\* What is in the bucket, or on its way there with the right hash, is all of a
\* finished log; and what the logger waits for is what it listed.
ObjectInv ==
  /\ \A o \in bucket : Whole(o)
  /\ \A p \in posts :
       /\ p.stage # "arrived" => p.body = p.digest
       /\ p.body = p.digest => Whole(p.body)
       /\ ~p.late => p.digest = inventory[uploading] /\ p.body.log = card[uploading].log
  /\ \A n \in toSend : inventory[n].size # 0
  /\ reply = "success" /\ Provider = "aws" =>
       /\ inventory[uploading] \in bucket
       /\ hasTopic => inventory[uploading] \in topic
       /\ inventory[uploading].log = card[uploading].log

\* What the manager's own invariants say of the card.
CardFacts == InventoryMatchesCard /\ OpenLogNotListed /\ LogsKnown /\ CardInv

\* A listed file whose hash is that of the log under its number is finished.
LEMMA ListedWhole ==
  ASSUME CycleInv, CardFacts, power = "running", NEW n \in LogNumbers,
         inventory[n].size # 0, inventory[n].log = card[n].log
  PROVE  Whole(inventory[n]) /\ inventory[n] = Enumerated(card[n])
<1>1. card \in [LogNumbers -> File] /\ inventory \in [LogNumbers -> Entry] /\ logs \in Nat
  BY LogConstants DEF CycleInv, UploadTypeOK, LogTypeOK
<1>2. ~Open(n)
  BY DEF CardFacts, OpenLogNotListed, Open, NoEntry
<1>3. inventory[n] = Enumerated(card[n])
  BY <1>2 DEF CardFacts, InventoryMatchesCard
<1>4. card[n].size = inventory[n].size
  BY <1>1, <1>3 DEF Enumerated, NoEntry
<1>5. card[n].log \in 1 .. logs
  BY <1>1, <1>4, LogConstants DEF CardFacts, CardInv, LogsKnown, File
<1>6. \A m \in LogNumbers : card[m].log = card[n].log => m = n
  BY <1>5 DEF CardFacts, CardInv
<1> QED BY <1>2, <1>3, <1>4, <1>5, <1>6 DEF Whole

LEMMA ObjectStep == CycleInv /\ CardFacts /\ ObjectInv /\ [Next]_vars => ObjectInv'
<1> SUFFICES ASSUME CycleInv, CardFacts, ObjectInv, [Next]_vars
             PROVE  ObjectInv'
  OBVIOUS
<1>0. /\ LogTypeOK /\ [LogNext]_logVars
      /\ toSend \subseteq LogNumbers /\ uploading \in toSend \cup {None}
      /\ posts \subseteq Post
      /\ \A p \in posts : ~p.late => p.from = uploading /\ reply = "none"
      /\ uploading = None => reply = "none"
      /\ Idle \/ power = "running"
  BY LogOrStutter DEF CycleInv, UploadTypeOK
<1>1. \A p \in posts : uploading = None => p.late
  BY <1>0, NoneIsNoNumber DEF Post
<1>2. /\ \A o \in bucket : Whole(o)'
      /\ \A p \in posts : p.body = p.digest => Whole(p.body)'
  BY <1>0, WholeStep DEF ObjectInv
\* No POST is waited for afterwards.
<1>3. ASSUME bucket' = bucket, reply' = "none", \A n \in toSend' : inventory'[n].size # 0,
             \A q \in posts' : q.late /\ \E p \in posts : /\ q.body = p.body /\ q.digest = p.digest
                                                       /\ q.stage = p.stage
      PROVE  ObjectInv'
  BY <1>2, <1>3 DEF ObjectInv
\* The logger does nothing.
<1>4. ASSUME UNCHANGED <<logVars, uploading, toSend>>
      PROVE  /\ inventory' = inventory /\ card' = card
             /\ \A n \in toSend' : inventory'[n].size # 0
  BY <1>4 DEF logVars, ObjectInv
<1>5. CASE LogStep
  <2>1. /\ uploading = None /\ toSend' = {} /\ reply' = "none"
        /\ posts' = posts /\ bucket' = bucket
    BY <1>0, <1>5 DEF LogStep, Idle, uploadVars
  <2> QED BY <1>1, <1>3, <2>1
<1>6. CASE UploadPowerLoss
  BY <1>0, <1>3, <1>6, GivenUp DEF UploadPowerLoss
<1>7. CASE UploadCycle
  <2>1. /\ uploading = None /\ reply' = "none" /\ posts' = posts /\ bucket' = bucket
        /\ toSend' = Listed(inventory) /\ inventory' = inventory
    BY <1>0, <1>7 DEF UploadCycle, Idle, logVars
  <2> QED BY <1>1, <1>3, <2>1 DEF Listed
<1>8. ASSUME NEW n \in LogNumbers, SendFile(n)
      PROVE  ObjectInv'
  <2>1. /\ power = "running" /\ uploading = None /\ n \in toSend
        /\ UNCHANGED <<inventory, card, toSend, reply, bucket, topic>>
        /\ posts' = posts \cup {NewPost(n)} /\ uploading' = n
    BY <1>8 DEF SendFile, IsNextToSend, logVars
  <2>2. /\ ~NewPost(n).late /\ NewPost(n).stage = "arrived" /\ NewPost(n).digest = inventory[n]
        /\ NewPost(n).body.log = card[n].log
    BY <1>0, Sent
  <2>3. ASSUME NEW e, e = NewPost(n).body, e = NewPost(n).digest
        PROVE  Whole(e)'
    <3>1. inventory[n].log = card[n].log => Whole(inventory[n])
      BY <2>1, ListedWhole DEF ObjectInv
    <3>2. Whole(e)
      BY <2>2, <2>3, <3>1
    <3> QED BY <1>0, <3>2, WholeStep
  <2>4. reply' = "none"
    BY <1>0, <2>1
  <2>5. ASSUME NEW q \in posts'
        PROVE  /\ q.stage # "arrived" => q.body = q.digest
               /\ q.body = q.digest => Whole(q.body)'
               /\ ~q.late => q.digest = inventory[n] /\ q.body.log = card[n].log
    BY <1>1, <1>2, <2>1, <2>2, <2>3 DEF ObjectInv
  <2> QED BY <1>2, <2>1, <2>4, <2>5 DEF ObjectInv
<1>9. ASSUME NEW n \in LogNumbers, SendFails(n)
      PROVE  ObjectInv'
  <2>1. /\ uploading = None /\ toSend' \subseteq toSend
        /\ UNCHANGED <<inventory, reply, posts, bucket>>
    BY <1>9 DEF SendFails, IsNextToSend, Proceed, GoOn, logVars
  <2> QED BY <1>0, <1>1, <1>3, <2>1 DEF ObjectInv
<1>10. ASSUME NEW n \in LogNumbers, Answered(n)
       PROVE  ObjectInv'
  <2>1. /\ uploading = n /\ reply # "none" /\ reply' = "none" /\ UNCHANGED <<posts, bucket>>
        /\ toSend' \subseteq toSend \ {n}
    BY <1>10 DEF Answered, Proceed, GoOn
  <2>2. \A m \in LogNumbers \ {n} : inventory'[m] = inventory[m]
    BY <1>10 DEF Answered, RemoveLogFile, WithoutEntries, logVars
  <2>3. \A m \in toSend' : inventory'[m].size # 0
    BY <1>0, <2>1, <2>2 DEF ObjectInv
  <2>4. \A p \in posts : p.late
    BY <1>0, <2>1
  <2> QED BY <1>3, <2>1, <2>3, <2>4
<1>11. ASSUME NEW n \in LogNumbers, TimedOut(n)
       PROVE  ObjectInv'
  <2>1. /\ reply' = "none" /\ bucket' = bucket /\ inventory' = inventory /\ toSend' \subseteq toSend
        /\ GiveUp
    BY <1>11 DEF TimedOut, Proceed, GoOn, logVars
  <2>2. \A m \in toSend' : inventory'[m].size # 0
    BY <2>1 DEF ObjectInv
  <2> QED BY <1>0, <1>3, <2>1, <2>2, GivenUp
<1>12. ASSUME NEW p \in posts, Verify(p) \/ StoreObject(p)
       PROVE  ObjectInv'
  <2>1. PICK stage \in {"verified", "stored"} : Advance(p, stage)
    BY <1>12 DEF Verify, StoreObject
  <2>2. PICK q \in posts' :
          /\ q.body = p.body /\ q.digest = p.digest /\ q.late = p.late /\ q.stage = stage
          /\ posts' = (posts \ {p}) \cup {q}
    BY <1>0, <2>1, Advanced
  <2>3. reply' = reply
    BY <2>1 DEF Advance
  <2>4. /\ UNCHANGED <<logVars, toSend, uploading, hasTopic, topic>>
        /\ bucket \subseteq bucket' /\ bucket' \subseteq bucket \cup {p.body}
    BY <1>12 DEF Verify, StoreObject
  <2>5. p.body = p.digest
    BY <1>12 DEF Verify, StoreObject, ObjectInv
  <2>6. inventory' = inventory /\ card' = card /\ \A n \in toSend' : inventory'[n].size # 0
    BY <1>4, <2>4
  <2>7. \A o \in bucket' : Whole(o)'
    BY <1>2, <2>4, <2>5
  <2>8. ASSUME NEW r \in posts'
        PROVE  /\ r.stage # "arrived" => r.body = r.digest
               /\ r.body = r.digest => Whole(r.body)'
               /\ ~r.late => r.digest = inventory[uploading] /\ r.body.log = card[uploading].log
    <3>1. CASE r = q
      BY <1>2, <2>2, <2>5, <3>1 DEF ObjectInv
    <3>2. CASE r \in posts
      BY <1>2, <3>2 DEF ObjectInv
    <3> QED BY <2>2, <3>1, <3>2
  <2> QED BY <2>3, <2>4, <2>6, <2>7, <2>8 DEF ObjectInv
<1>13. ASSUME NEW p \in posts, Mismatch(p) \/ Publish(p) \/ Fail(p)
       PROVE  ObjectInv'
  <2>1. PICK answer \in {"success", "failure", "error"} :
          Answer(p, answer) /\ (answer = "success" => Publish(p))
    BY <1>13 DEF Mismatch, Publish, Fail
  <2>2. UNCHANGED <<logVars, toSend, uploading, bucket, hasTopic>> /\ topic \subseteq topic'
    BY <1>13 DEF Mismatch, Publish, TopicWith, Fail
  <2>3. posts' = posts \ {p} /\ reply' = IF p.late THEN reply ELSE answer
    BY <2>1 DEF Answer
  <2>4. inventory' = inventory /\ card' = card /\ \A n \in toSend' : inventory'[n].size # 0
    BY <1>4, <2>2
  <2>5. ASSUME reply' = "success", Provider = "aws"
        PROVE  /\ inventory[uploading] \in bucket
               /\ hasTopic => inventory[uploading] \in topic'
               /\ inventory[uploading].log = card[uploading].log
    <3>1. CASE reply = "success"
      BY <2>2, <2>5, <3>1 DEF ObjectInv
    <3>2. CASE ~p.late /\ answer = "success"
      <4>1. p.stage = "stored" /\ (hasTopic => topic' = topic \cup {p.body})
        BY <2>1, <2>5, <3>2 DEF Publish, TopicWith
      <4>2. p.body = p.digest /\ p.digest = inventory[uploading] /\ p.body.log = card[uploading].log
        BY <3>2, <4>1 DEF ObjectInv
      <4>3. p.body \in bucket
        BY <2>5, <4>1 DEF CycleInv
      <4> QED BY <4>1, <4>2, <4>3
    <3> QED BY <2>3, <2>5, <3>1, <3>2
  <2> QED BY <1>2, <2>2, <2>3, <2>4, <2>5 DEF ObjectInv
<1>14. CASE ServerStops
  <2>1. posts' = {} /\ UNCHANGED <<logVars, toSend, uploading, reply, bucket, hasTopic, topic>>
    BY <1>14 DEF ServerStops
  <2> QED BY <1>2, <1>4, <2>1 DEF ObjectInv
<1>15. CASE UNCHANGED vars
  <2>1. UNCHANGED <<logVars, toSend, uploading, reply, posts, bucket, hasTopic, topic>>
    BY <1>15 DEF vars, uploadVars
  <2> QED BY <1>2, <1>4, <2>1 DEF ObjectInv
<1> QED
  BY <1>5, <1>6, <1>7, <1>8, <1>9, <1>10, <1>11, <1>12, <1>13, <1>14, <1>15 DEF Next

LEMMA ObjectAlways == ASSUME ~TransferUnlisted PROVE Spec => [](CardFacts /\ ObjectInv)
<1>1. Init => CardInv
  BY DEF Init, LogInit, CardInv, NoFile
<1>2. Init => ObjectInv
  BY DEF Init, ObjectInv
<1>3. CycleInv => LogTypeOK
  BY DEF CycleInv, UploadTypeOK
<1>4. OpenInv => LogsKnown /\ OpenLogNotListed
  BY DEF OpenInv
<1>5. CycleInv /\ LogsKnown /\ CardInv /\ [Next]_vars => CardInv'
  BY <1>3, LogOrStutter, CardInvStep
<1>6. InventoryMatchesCard /\ LogsKnown /\ OpenLogNotListed /\ CardInv <=> CardFacts
  BY DEF CardFacts
<1>7. Spec => []CardFacts
  BY <1>1, <1>4, <1>5, <1>6, UploadKeepsManager, InventoryCorrect, OpenAlways, CycleAlways, PTL DEF Spec
<1> QED BY <1>2, <1>7, ObjectStep, CycleAlways, PTL DEF Spec

\* No object is a part of a log that goes on (ObjectsWhole), as long as users
\* transfer only what is listed.
THEOREM ObjectsCorrect == ASSUME ~TransferUnlisted PROVE Spec => []ObjectsWhole
<1>1. ObjectInv => ObjectsWhole
  BY DEF ObjectInv, ObjectsWhole, Whole
<1> QED BY <1>1, ObjectAlways, PTL

\* The logger removes a file for having been uploaded only when all of it is in
\* the bucket and, if the server was given a topic, announced
\* (UploadedBeforeRemoved): with the provider that stores, as long as users
\* transfer only what is listed.
THEOREM RemovalCorrect ==
  ASSUME ~TransferUnlisted, Provider = "aws" PROVE Spec => UploadedBeforeRemoved
<1> DEFINE Ashore ==
      \A n \in LogNumbers :
        uploading = n /\ Answered(n) /\ card[n].log # 0 /\ card'[n].log = 0
          => /\ Enumerated(card[n]) \in bucket
             /\ hasTopic => Enumerated(card[n]) \in topic
<1>1. CycleInv /\ CardFacts /\ ObjectInv => Ashore
  <2> SUFFICES ASSUME CycleInv, CardFacts, ObjectInv, NEW n \in LogNumbers,
                      uploading = n, Answered(n), card[n].log # 0, card'[n].log = 0
               PROVE  /\ Enumerated(card[n]) \in bucket
                      /\ hasTopic => Enumerated(card[n]) \in topic
    OBVIOUS
  <2>1. reply = "success"
    BY DEF Answered, logVars
  <2>2. /\ inventory[n] \in bucket /\ (hasTopic => inventory[n] \in topic)
        /\ inventory[n].log = card[n].log
    BY <2>1 DEF ObjectInv
  <2>3. inventory[n].size # 0 /\ power = "running"
    BY <2>2, NoneIsNoNumber DEF ObjectInv, Whole, CycleInv, Idle
  <2> QED BY <2>2, <2>3, ListedWhole
<1>2. Spec => [][Ashore]_vars
  BY <1>1, ObjectAlways, CycleAlways, PTL DEF Spec
<1> QED BY <1>2 DEF UploadedBeforeRemoved
=============================================================================
