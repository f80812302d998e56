---------------------------- MODULE CloudPipeline ----------------------------
(***************************************************************************)
(* The cloud functions that take one file from the incoming bucket to the  *)
(* archive (wibl-python: upload, processing, validation and submission     *)
(* lambda_function.py), with the notifications between them and the        *)
(* records the manager (wibl-manager) keeps of the file.  The functions    *)
(* relate no two files, so one file, of any kind, is the whole story.      *)
(*                                                                         *)
(* A notification starts a call of the next function.  A call that raises, *)
(* or runs out of time between two steps, is started again from the top by *)
(* the platform, a number of times; and a notification may be delivered    *)
(* twice, so that calls of one function run side by side.                  *)
(***************************************************************************)
EXTENDS Integers

CONSTANTS
  MaxRetries,  \* how often the platform starts a failed call again (AWS: 2)
  MaxCalls     \* bound: calls of each function, retries not counted

ASSUME PipelineConstants ==
  /\ MaxRetries \in Nat
  /\ MaxCalls \in Nat \ {0}

VARIABLES
  kind,     \* what the file is: see Kinds
  local,    \* the submission's configuration: config['local']
  staging,  \* is the converted file in the staging bucket?
  wibl,     \* the manager's record of the WIBL file: its status, or NoRecord
  geojson,  \* the manager's record of the GeoJSON file: its status, or NoRecord
  calls,    \* the calls of the functions
  archived, \* did the archive accept the file, once or more often?
  lost,     \* history: a notification was lost, or a record could not be read,
            \* and the call ended as if it had done its part
  refused   \* history: the manager did not take the last result it was sent, and
            \* its record of the file does not say so anyway

vars == <<kind, local, staging, wibl, geojson, calls, archived, lost, refused>>

\* good files convert and validate; invalid ones convert, but their metadata do
\* not validate; rejected ones raise an exception that process_item handles (no
\* time source, no data, ...); garbled ones raise a PacketTranscriptionError.
Kinds == {"good", "invalid", "rejected", "garbled"}

Functions == {"processing", "validation", "submission"}
Call      == Functions \X (1 .. MaxCalls)

\* WIBLStatus and GeoJSONStatus; validation writes the latter's low bits into
\* the record of the WIBL file.
NoRecord              == -1
PROCESSING_STARTED    == 0
PROCESSING_SUCCESSFUL == 1
PROCESSING_FAILED     == 2
VALIDATION_SUCCESSFUL == 2
VALIDATION_FAILED     == 4
UPLOAD_STARTED        == 8

WIBLRecord    == {NoRecord, PROCESSING_STARTED, PROCESSING_SUCCESSFUL, PROCESSING_FAILED, VALIDATION_FAILED}
GeoJSONRecord == {NoRecord, UPLOAD_STARTED}

\* A call: how far it has come, how often it was started again, and the status
\* it read and has not written back.
CallState ==
  [pc : {"none", "start", "registered", "staged", "looked", "recorded", "posted", "ended", "dead"},
   retries : 0 .. MaxRetries, seen : WIBLRecord]

NoCall == [pc |-> "none", retries |-> 0, seen |-> NoRecord]

-----------------------------------------------------------------------------
(* The platform. *)

At(c, pc) == calls[c].pc = pc

\* Call c is at pc and remembers nothing it has read, nor, at its end, its retries.
Moved(cs, c, pc) ==
  [cs EXCEPT ![c] = [pc |-> pc, seen |-> NoRecord, retries |-> IF pc = "ended" THEN 0 ELSE @.retries]]

\* The next call of a function that was not used yet.
Unused(fn, c) ==
  /\ c[1] = fn
  /\ At(c, "none")
  /\ \A n \in 1 .. MaxCalls : n < c[2] => ~At(<<fn, n>>, "none")

\* Call c ends: the function raised, or the platform stopped it.
Failed(c) ==
  IF calls[c].retries < MaxRetries
    THEN [calls EXCEPT ![c] = [pc |-> "start", retries |-> @.retries + 1, seen |-> NoRecord]]
    ELSE Moved(calls, c, "dead")

\* notify, as the last thing call c does: errors of the service are swallowed.
Notify(c, fn) ==
  \/ /\ \E d \in Call : Unused(fn, d) /\ calls' = Moved(Moved(calls, d, "start"), c, "ended")
     /\ UNCHANGED lost
  \/ /\ calls' = Moved(calls, c, "ended")
     /\ lost' = TRUE

\* The file is in the incoming bucket and announced, by the upload server or,
\* again and again, by the upload function.
Announce ==
  /\ \E c \in Call : Unused("processing", c) /\ calls' = Moved(calls, c, "start")
  /\ UNCHANGED <<kind, local, staging, wibl, geojson, archived, lost, refused>>

\* The service delivers a notification once more.
Redeliver(fn) ==
  /\ ~At(<<fn, 1>>, "none")
  /\ \E c \in Call : Unused(fn, c) /\ calls' = Moved(calls, c, "start")
  /\ UNCHANGED <<kind, local, staging, wibl, geojson, archived, lost, refused>>

\* A call fails between two of its steps: a service does not answer, or the
\* function's time is up.  A garbled file always fails, once it is registered.
Raise(c) ==
  /\ calls[c].pc \notin {"none", "ended", "dead"}
  /\ calls' = Failed(c)
  /\ UNCHANGED <<kind, local, staging, wibl, geojson, archived, lost, refused>>

-----------------------------------------------------------------------------
(* The manager. *)

\* Mutant of Posted: a POST for a file that is known starts it anew.
PostedAnew(record, first) == first

\* POST: a new record, or a conflict that leaves the old one.
Posted(record, first) == IF record = NoRecord THEN first ELSE record

\* Mutant of Put: only the first result is taken.
PutOnce(status) ==
  \/ /\ wibl # NoRecord
     /\ wibl' = IF wibl = PROCESSING_STARTED THEN status ELSE wibl
     /\ refused' = FALSE
  \/ /\ UNCHANGED wibl
     /\ refused' = (wibl \notin {NoRecord, status})

\* PUT.  When there is no record, or the manager fails, update returns False:
\* none of the functions looks at it.
Put(status) ==
  \/ /\ wibl # NoRecord
     /\ wibl' = status
     /\ refused' = FALSE
  \/ /\ UNCHANGED wibl
     /\ refused' = (wibl \notin {NoRecord, status})

-----------------------------------------------------------------------------
(* processing: process_item *)

\* The answer to the registration is only logged.
ProcessingRegister(c) ==
  /\ c[1] = "processing" /\ At(c, "start")
  /\ wibl' \in {wibl, Posted(wibl, PROCESSING_STARTED)}
  /\ calls' = Moved(calls, c, "registered")
  /\ UNCHANGED <<kind, local, staging, geojson, archived, lost, refused>>

ProcessingReject(c) ==
  /\ c[1] = "processing" /\ At(c, "registered")
  /\ kind = "rejected"
  /\ Put(PROCESSING_FAILED)
  /\ calls' = Moved(calls, c, "ended")
  /\ UNCHANGED <<kind, local, staging, geojson, archived, lost>>

\* Mutant of Transmit: an error of the bucket is not raised.
TransmitUnchecked(c) ==
  /\ c[1] = "processing" /\ At(c, "registered")
  /\ kind \in {"good", "invalid"}
  /\ staging' \in {staging, TRUE}
  /\ calls' = Moved(calls, c, "staged")
  /\ UNCHANGED <<kind, local, wibl, geojson, archived, lost, refused>>

Transmit(c) ==
  /\ c[1] = "processing" /\ At(c, "registered")
  /\ kind \in {"good", "invalid"}
  /\ staging' = TRUE
  /\ calls' = Moved(calls, c, "staged")
  /\ UNCHANGED <<kind, local, wibl, geojson, archived, lost, refused>>

ProcessingRecord(c) ==
  /\ c[1] = "processing" /\ At(c, "staged")
  /\ Put(PROCESSING_SUCCESSFUL)
  /\ calls' = Moved(calls, c, "recorded")
  /\ UNCHANGED <<kind, local, staging, geojson, archived, lost>>

ProcessingNotify(c) ==
  /\ c[1] = "processing" /\ At(c, "recorded")
  /\ Notify(c, "validation")
  /\ UNCHANGED <<kind, local, staging, wibl, geojson, archived, refused>>

-----------------------------------------------------------------------------
(* validation: lambda_handler, validate_metadata *)

\* The file is read, and the record of its WIBL file; when there is none, or the
\* manager does not give it, the call ends and nothing more becomes of the file.
Lookup(c) ==
  /\ c[1] = "validation" /\ At(c, "start")
  /\ staging
  /\ \/ /\ wibl # NoRecord
        /\ calls' = [calls EXCEPT ![c].pc = "looked", ![c].seen = wibl]
        /\ UNCHANGED lost
     \/ /\ calls' = Moved(calls, c, "ended")
        /\ lost' = (lost \/ wibl # NoRecord)
  /\ UNCHANGED <<kind, local, staging, wibl, geojson, archived, refused>>

\* Mutant of Cleared: the bits are not cleared.
ClearedNot(status) == status

\* meta.status & GeoJSONStatus.EMPTY_VALIDATION: all but the three low bits.
Cleared(status) == 8 * (status \div 8)

\* Mutant of Validate: the verdict does not stop the file.
ValidateAll(c) ==
  /\ c[1] = "validation" /\ At(c, "looked")
  /\ Put(Cleared(calls[c].seen) + (IF kind = "good" THEN VALIDATION_SUCCESSFUL ELSE VALIDATION_FAILED))
  /\ calls' = Moved(calls, c, "recorded")
  /\ UNCHANGED <<kind, local, staging, geojson, archived, lost>>

\* The verdict is written over the record's status.
Validate(c) ==
  /\ c[1] = "validation" /\ At(c, "looked")
  /\ Put(Cleared(calls[c].seen) + (IF kind = "good" THEN VALIDATION_SUCCESSFUL ELSE VALIDATION_FAILED))
  /\ calls' = Moved(calls, c, IF kind = "good" THEN "recorded" ELSE "ended")
  /\ UNCHANGED <<kind, local, staging, geojson, archived, lost>>

ValidationNotify(c) ==
  /\ c[1] = "validation" /\ At(c, "recorded")
  /\ Notify(c, "submission")
  /\ UNCHANGED <<kind, local, staging, wibl, geojson, archived, refused>>

-----------------------------------------------------------------------------
(* submission: lambda_handler, transmit_geojson *)

SubmissionRegister(c) ==
  /\ c[1] = "submission" /\ At(c, "start")
  /\ staging
  /\ geojson' \in {geojson, Posted(geojson, UPLOAD_STARTED)}
  /\ calls' = Moved(calls, c, "registered")
  /\ UNCHANGED <<kind, local, staging, wibl, archived, lost, refused>>

\* The POST to the archive, which accepts the file or not; in local mode there
\* is none.
PostToArchive(c) ==
  /\ c[1] = "submission" /\ At(c, "registered")
  /\ archived' \in IF local THEN {archived} ELSE {archived, TRUE}
  /\ calls' = Moved(calls, c, "posted")
  /\ UNCHANGED <<kind, local, staging, wibl, geojson, lost, refused>>

\* The statements that follow POST again, whatever the mode and the answer.  A
\* first POST has read the file to its end, so that only in local mode does the
\* second one carry anything.  Every way on from there names UploadStatus, which
\* is not defined: the call raises before the record is updated or anyone told.
PostAgain(c) ==
  /\ c[1] = "submission" /\ At(c, "posted")
  /\ archived' \in IF local THEN {archived, TRUE} ELSE {archived}
  /\ calls' = Failed(c)
  /\ UNCHANGED <<kind, local, staging, wibl, geojson, lost, refused>>

-----------------------------------------------------------------------------
Init ==
  /\ kind \in Kinds
  /\ local \in BOOLEAN
  /\ staging = FALSE
  /\ wibl = NoRecord
  /\ geojson = NoRecord
  /\ calls = [c \in Call |-> NoCall]
  /\ archived = FALSE
  /\ lost = FALSE
  /\ refused = FALSE

Next ==
  \/ Announce
  \/ \E fn \in Functions : Redeliver(fn)
  \/ \E c \in Call :
       \/ Raise(c)
       \/ ProcessingRegister(c) \/ ProcessingReject(c) \/ Transmit(c)
       \/ ProcessingRecord(c) \/ ProcessingNotify(c)
       \/ Lookup(c) \/ Validate(c) \/ ValidationNotify(c)
       \/ SubmissionRegister(c) \/ PostToArchive(c) \/ PostAgain(c)

Spec == Init /\ [][Next]_vars

-----------------------------------------------------------------------------
(* Properties. *)

\* Types.
PipelineTypeOK ==
  /\ kind \in Kinds
  /\ local \in BOOLEAN
  /\ staging \in BOOLEAN
  /\ wibl \in WIBLRecord
  /\ geojson \in GeoJSONRecord
  /\ calls \in [Call -> CallState]
  /\ archived \in BOOLEAN
  /\ lost \in BOOLEAN
  /\ refused \in BOOLEAN

\* The archive gets only files whose metadata validated, however often calls
\* were retried, repeated or cut short.
ArchivedOnlyValid == archived => kind = "good"

\* A file that a later function may read, or whose record says that it was
\* processed, is in the staging bucket.
StagedWhenNeeded ==
  /\ wibl = PROCESSING_SUCCESSFUL => staging
  /\ \A c \in Call : c[1] # "processing" /\ ~At(c, "none") => staging

\* A result in the record is never taken back: no retried or repeated call
\* brings the record to "started" again, or makes it disappear.
ResultsStay ==
  [][wibl \notin {NoRecord, PROCESSING_STARTED} => wibl' \notin {NoRecord, PROCESSING_STARTED}]_vars

Ended(fn) == \A n \in 1 .. MaxCalls : calls[<<fn, n>>].pc \in {"none", "ended"}

\* What the record should say of the file in the end.
Verdict ==
  CASE kind = "good"     -> VALIDATION_SUCCESSFUL
    [] kind = "invalid"  -> VALIDATION_FAILED
    [] kind = "rejected" -> PROCESSING_FAILED

\* When every call has ended as it should, no notification was lost and no
\* record could not be read, then of a file the manager knows: a good one has been
\* handed to submission, whatever the manager refused; and unless it refused the
\* last result it was sent, its record says what became of the file: the calls'
\* updates may overtake each other, but the last one to write is right.
Settled ==
  /\ Ended("processing") /\ Ended("validation")
  /\ ~At(<<"processing", 1>>, "none")
  /\ ~lost
  /\ wibl # NoRecord
  => /\ kind = "good" => \E n \in 1 .. MaxCalls : ~At(<<"submission", n>>, "none")
     /\ ~refused => wibl = Verdict
=============================================================================
