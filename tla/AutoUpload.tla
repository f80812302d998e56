------------------------------ MODULE AutoUpload ------------------------------
(***************************************************************************)
(* Getting the log files ashore: the logger's UploadManager                *)
(* (LoggerFirmware/src/AutoUpload.cpp), which runs inside loop() and so    *)
(* stops the LogManager's steps while it works, and the upload server      *)
(* (UploadServer/wibl-monitor.go), whose handlers run on after the logger  *)
(* has given up on them.                                                   *)
(*                                                                         *)
(* The logger POSTs a file with the hash of its inventory; the server      *)
(* stores what it got under a name of its own, announces it on the topic,  *)
(* if it is given one, and only then answers "success", upon which the     *)
(* logger removes the file.                                                *)
(***************************************************************************)
EXTENDS LogManager, FiniteSets

CONSTANTS
  Provider,  \* server_config.Cloud.Provider
  MaxLate    \* bound: POSTs the server works on after the logger gave up on them

ASSUME UploadConstants ==
  /\ Provider \in {"aws", "debug"}
  /\ MaxLate \in Nat

VARIABLES
  toSend,     \* UploadCycle: the numbers of its list that are still to be sent
  uploading,  \* the number whose POST waits for its answer
  reply,      \* the answer on that connection
  posts,      \* the server: the POSTs its handlers are working on
  bucket,     \* the objects in the upload bucket (UUIDs left out: what they hold)
  hasTopic,   \* server_config.AWS.SNSTopic # "": does the server announce at all?
  topic       \* the objects announced to the processing chain

uploadVars == <<toSend, uploading, reply, posts, bucket, hasTopic, topic>>
vars       == <<logVars, uploadVars>>

None == MaxLogFiles

\* The logger's loop() is in one thing at a time.
Idle == uploading = None /\ toSend = {}

\* A POST: the number it was sent for, the leading units of a file as its body,
\* the hash in its Digest header, how far its handler has come, and whether the
\* logger has given up on it.
Post == [from : LogNumbers, body : Entry, digest : Entry,
         stage : {"arrived", "verified", "stored"}, late : BOOLEAN]

-----------------------------------------------------------------------------
(* The logger. *)

\* UploadCycle: it is time, something is listed and the server answers the
\* check-in; the list of files is taken once, for the cycle.
UploadCycle ==
  /\ power = "running"
  /\ Idle
  /\ Listed(inventory) # {}
  /\ toSend' = Listed(inventory)
  /\ UNCHANGED <<logVars, uploading, reply, posts, bucket, hasTopic, topic>>

\* Is n the next number of the list?
IsNextToSend(n) ==
  /\ power = "running"
  /\ uploading = None
  /\ n \in toSend
  /\ \A m \in toSend : n <= m

\* Mutant of GoOn: a file that was not accepted stays at the head of the list.
GoOnRetrying(n) == toSend' = IF reply = "success" THEN toSend \ {n} ELSE toSend

\* The rest of the cycle once n is done: unless the cycle has taken too long.
GoOn(n)  == toSend' = toSend \ {n}
Proceed(n) == GoOn(n) \/ toSend' = {}

\* Mutant of NewPost: the hash is taken from the file as it is now.
NewPostRehashed(n) ==
  [from |-> n, body |-> [log |-> card[n].log, size |-> inventory[n].size],
   digest |-> [log |-> card[n].log, size |-> inventory[n].size],
   stage |-> "arrived", late |-> FALSE]

\* TransferFile sends as many bytes as the inventory lists for n, with the hash
\* the inventory lists.
NewPost(n) ==
  [from |-> n, body |-> [log |-> card[n].log, size |-> inventory[n].size],
   digest |-> inventory[n], stage |-> "arrived", late |-> FALSE]

SendFile(n) ==
  /\ IsNextToSend(n)
  /\ card[n].size >= inventory[n].size
  /\ posts' = posts \cup {NewPost(n)}
  /\ uploading' = n
  /\ UNCHANGED <<logVars, toSend, reply, bucket, hasTopic, topic>>

\* The file does not open, the connection is refused, or the file is shorter
\* than announced and the request never completes.
SendFails(n) ==
  /\ IsNextToSend(n)
  /\ Proceed(n)
  /\ UNCHANGED <<logVars, uploading, reply, posts, bucket, hasTopic, topic>>

\* The answer arrives in time.  A success removes the file, if the card lets it.
Answered(n) ==
  /\ uploading = n
  /\ reply # "none"
  /\ \/ reply = "success" /\ RemoveLogFile(n)
     \/ UNCHANGED logVars
  /\ uploading' = None
  /\ reply' = "none"
  /\ Proceed(n)
  /\ UNCHANGED <<posts, bucket, hasTopic, topic>>

\* What becomes of the POST the logger gives up on: it never arrived, or its
\* handler works on.
GiveUp ==
  \/ posts' = {p \in posts : p.late}
  \/ /\ Cardinality({p \in posts : p.late}) < MaxLate
     /\ posts' = {[p EXCEPT !.late = TRUE] : p \in posts}

\* The answer is late, or lost.
TimedOut(n) ==
  /\ uploading = n
  /\ uploading' = None
  /\ reply' = "none"
  /\ GiveUp
  /\ Proceed(n)
  /\ UNCHANGED <<logVars, bucket, hasTopic, topic>>

-----------------------------------------------------------------------------
(* The server: file_transfer, one handler per POST. *)

\* Mutant of Answer: an answer is taken for that of the POST now waited for.
AnswerAnyone(p, status) ==
  /\ posts' = posts \ {p}
  /\ reply' = status

\* The response goes to the logger if it still waits.
Answer(p, status) ==
  /\ posts' = posts \ {p}
  /\ reply' = IF p.late THEN reply ELSE status

\* The handler goes on to its next stage.
Advance(p, stage) ==
  /\ posts' = (posts \ {p}) \cup {[p EXCEPT !.stage = stage]}
  /\ reply' = reply

\* The MD5 of the body is recomputed and compared with the digest.
Verify(p) ==
  /\ p.stage = "arrived"
  /\ p.body = p.digest
  /\ Advance(p, "verified")
  /\ UNCHANGED <<logVars, toSend, uploading, bucket, hasTopic, topic>>

Mismatch(p) ==
  /\ p.stage = "arrived"
  /\ p.body # p.digest
  /\ Answer(p, "failure")
  /\ UNCHANGED <<logVars, toSend, uploading, bucket, hasTopic, topic>>

\* DestinationExists and UploadFile; the debug provider only says that it did.
StoreObject(p) ==
  /\ p.stage = "verified"
  /\ bucket' = IF Provider = "aws" THEN bucket \cup {p.body} ELSE bucket
  /\ Advance(p, "stored")
  /\ UNCHANGED <<logVars, toSend, uploading, hasTopic, topic>>

\* What is announced once p is: nothing more by the debug provider, and nothing
\* by the other when it has no topic to announce it on.
TopicWith(p) == IF Provider = "aws" /\ hasTopic THEN topic \cup {p.body} ELSE topic

\* Mutant of Publish: an error of PublishNotification is logged, not returned.
PublishUnchecked(p) ==
  /\ p.stage = "stored"
  /\ topic' \in {topic, TopicWith(p)}
  /\ Answer(p, "success")
  /\ UNCHANGED <<logVars, toSend, uploading, bucket, hasTopic>>

\* PublishNotification; that there was no topic is no error.
Publish(p) ==
  /\ p.stage = "stored"
  /\ topic' = TopicWith(p)
  /\ Answer(p, "success")
  /\ UNCHANGED <<logVars, toSend, uploading, bucket, hasTopic>>

\* An error at any stage is answered as such, also when the object is stored
\* already: the logger keeps the file and sends it again.
Fail(p) ==
  /\ Answer(p, "error")
  /\ UNCHANGED <<logVars, toSend, uploading, bucket, hasTopic, topic>>

\* The server stops, and its handlers with it.
ServerStops ==
  /\ posts # {}
  /\ posts' = {}
  /\ UNCHANGED <<logVars, toSend, uploading, reply, bucket, hasTopic, topic>>

-----------------------------------------------------------------------------
(* The logger's own steps, between upload cycles; the power may go at any  *)
(* time, and leaves the server with the POST the logger was waiting for.   *)

LogStep ==
  /\ Idle
  /\ \/ Boot
     \/ \E nodata \in Packets : LogPacket(nodata)
     \/ NullSerialiser
     \/ StepLog
     \/ \E n \in LogNumbers : EraseLogfile(n) \/ TransferLogFile(n)
     \/ RemoveAllLogfiles
     \/ Shutdown
  /\ UNCHANGED uploadVars

UploadPowerLoss ==
  /\ PowerLoss
  /\ toSend' = {}
  /\ uploading' = None
  /\ reply' = "none"
  /\ GiveUp
  /\ UNCHANGED <<bucket, hasTopic, topic>>

Init ==
  /\ LogInit
  /\ toSend = {}
  /\ uploading = None
  /\ reply = "none"
  /\ posts = {}
  /\ bucket = {}
  /\ hasTopic \in BOOLEAN
  /\ topic = {}

Next ==
  \/ LogStep
  \/ UploadPowerLoss
  \/ UploadCycle
  \/ \E n \in LogNumbers : SendFile(n) \/ SendFails(n) \/ Answered(n) \/ TimedOut(n)
  \/ \E p \in posts : Verify(p) \/ Mismatch(p) \/ StoreObject(p) \/ Publish(p) \/ Fail(p)
  \/ ServerStops

Spec == Init /\ [][Next]_vars

\* loop() runs as long as the power holds, so that cycles start and an attempt
\* ends.  Nothing is assumed of the network, the server or the time it all takes.
Fairness ==
  /\ WF_vars(UploadCycle)
  /\ \A n \in LogNumbers :
       /\ WF_vars(SendFile(n) \/ SendFails(n))
       /\ WF_vars(Answered(n) \/ TimedOut(n))

FairSpec == Spec /\ Fairness

-----------------------------------------------------------------------------
(* Properties. *)

\* Types, and the shape of a cycle: at most one POST is waited for, and it was
\* sent for the number at the head of the list.
UploadTypeOK ==
  /\ LogTypeOK
  /\ toSend \subseteq LogNumbers
  /\ uploading \in toSend \cup {None}
  /\ reply \in {"none", "success", "failure", "error"}
  /\ posts \subseteq Post
  /\ bucket \subseteq Entry
  /\ hasTopic \in BOOLEAN
  /\ topic \subseteq bucket
  /\ \A p \in posts : ~p.late => p.from = uploading /\ reply = "none"

\* The logger removes a file for having been uploaded only when all of it is in
\* the bucket and, if the server was given a topic, announced, whatever was lost,
\* late or repeated in between.
UploadedBeforeRemoved ==
  [][\A n \in LogNumbers :
       uploading = n /\ Answered(n) /\ card[n].log # 0 /\ card'[n].log = 0
         => /\ Enumerated(card[n]) \in bucket
            /\ hasTopic => Enumerated(card[n]) \in topic]_vars

\* No object is a part of a log that goes on: as long as the logger has the log
\* of an object, the log is finished and the object is all of it.
ObjectsWhole ==
  \A o \in bucket, n \in LogNumbers :
    card[n].log = o.log => ~Open(n) /\ card[n].size = o.size

\* Number n holds a finished log.
Waiting(n) == card[n].size # 0 /\ ~Open(n)

\* Is the file of number n, tried again and again, accepted and removed again and
\* again?  (Not a file too large for the server to read in its time, say.)
GetsThrough(n) ==
  []<>IsNextToSend(n) => []<><<uploading = n /\ inventory'[n].size = 0>>_vars

\* The cycle has taken too long, and others were still to be sent.
CutShort == power' = "running" /\ toSend' = {} /\ \E m, n \in toSend : m # n

\* While the power holds and once no new logs are started, no finished log whose
\* file gets through when it is tried stays on the card for ever, provided that
\* the files before it get through as well, or that the time suffices to go past
\* those that do not.  (Neither is promised: a file that never gets through and
\* takes the whole of each cycle starves all those after it.)
FilesGoAshore ==
  <>[](power = "running") =>
    \A n \in LogNumbers :
      /\ GetsThrough(n)
      /\ (\A m \in 0 .. n - 1 : GetsThrough(m)) \/ <>[][~CutShort]_vars
      => []<>~Waiting(n)

=============================================================================
