------------------------------- MODULE LogStore -------------------------------
(***************************************************************************)
(* What the file manager promises (LoggerFirmware/src/LogManager.cpp, the  *)
(* descriptions of StartNewLog, GetNextLogNumber and RemoveAllLogfiles):   *)
(* numbered log files on a card, at most one of them being written, each   *)
(* new one under the first number with no file on the card, or over number *)
(* 0 when every number has one.  There is no cached inventory here: the    *)
(* number is chosen by looking at the card.                                *)
(***************************************************************************)
EXTENDS Naturals

CONSTANTS MaxLogFiles, MaxLogs

VARIABLES
  files,    \* what each number holds: a log and how many units of it
  writing,  \* the number being written, or MaxLogFiles when there is none
  started,  \* logs started so far
  removed   \* the logs that were erased

storeVars == <<files, writing, started, removed>>

Numbers == 0 .. MaxLogFiles - 1
Absent  == [log |-> 0, size |-> 0]

InUse(fs) == {n \in Numbers : fs[n].size # 0}

\* The documented choice of the next log number.
IsNext(fs, n) ==
  IF InUse(fs) = Numbers
    THEN n = 0
    ELSE /\ n \in Numbers \ InUse(fs)
         /\ \A m \in Numbers : m < n => m \in InUse(fs)

\* A new log replaces what its number held; the card may refuse the open, or
\* the first write.
Start(fs) ==
  \/ \E n \in Numbers, size \in {0, 1} :
       /\ IsNext(fs, n)
       /\ files' = [fs EXCEPT ![n] =
                      IF size = 0 THEN Absent ELSE [log |-> started + 1, size |-> size]]
       /\ writing' = n
       /\ started' = started + 1
  \/ files' = fs /\ writing' = MaxLogFiles /\ UNCHANGED started

\* What a packet makes of the file being written: some units are added, to a
\* file that was not removed.  A file is first seen with its first unit.
Grown(fs) ==
  LET log == IF fs[writing] = Absent THEN started ELSE fs[writing].log
  IN  {fs} \cup {[fs EXCEPT ![writing] = [log |-> log, size |-> @.size + k]] : k \in {1, 2}}

Append ==
  /\ writing # MaxLogFiles
  /\ files' \in Grown(files)
  /\ UNCHANGED <<writing, started, removed>>

Cycle ==
  /\ writing # MaxLogFiles
  /\ \E fs \in Grown(files) : Start(fs)
  /\ UNCHANGED removed

NewLog == Start(files) /\ UNCHANGED removed

\* A file whose first write failed counts as no file, and may go unseen.
Erase ==
  /\ \E n \in Numbers, log \in 1 .. started :
       /\ files[n].log \in {log, 0}
       /\ files' = [files EXCEPT ![n] = Absent]
       /\ removed' = removed \cup {log}
  /\ UNCHANGED <<writing, started>>

EraseAll ==
  \E gone \in SUBSET InUse(files) :
    /\ Start([n \in Numbers |-> IF n \in gone THEN Absent ELSE files[n]])
    /\ removed' = removed \cup {files[n].log : n \in gone}

Stop ==
  /\ writing' = MaxLogFiles
  /\ UNCHANGED <<files, started, removed>>

StoreInit ==
  /\ files = [n \in Numbers |-> Absent]
  /\ writing = MaxLogFiles
  /\ started = 0
  /\ removed = {}

StoreNext == Append \/ Cycle \/ NewLog \/ Erase \/ EraseAll \/ Stop

StoreSpec == StoreInit /\ [][StoreNext]_storeVars

=============================================================================
