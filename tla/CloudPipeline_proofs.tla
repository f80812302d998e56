------------------------- MODULE CloudPipeline_proofs -------------------------
(***************************************************************************)
(* Proofs about CloudPipeline: what the runs check with two calls of each  *)
(* function and one retry holds for any number of both.                    *)
(***************************************************************************)
EXTENDS CloudPipeline, TLAPS

PCs == {"none", "start", "registered", "staged", "looked", "recorded", "posted", "ended", "dead"}

-----------------------------------------------------------------------------
(* The calls. *)

\* Moving a call on leaves the others alone.
LEMMA MovedCall ==
  ASSUME NEW cs \in [Call -> CallState], NEW c \in Call, NEW pc \in PCs
  PROVE  /\ Moved(cs, c, pc) \in [Call -> CallState]
         /\ Moved(cs, c, pc)[c].pc = pc
         /\ \A d \in Call \ {c} : Moved(cs, c, pc)[d] = cs[d]
<1> DEFINE state == [pc |-> pc, seen |-> NoRecord, retries |-> IF pc = "ended" THEN 0 ELSE cs[c].retries]
<1>1. state \in CallState /\ state.pc = pc
  BY PipelineConstants DEF CallState, PCs, WIBLRecord
<1>2. Moved(cs, c, pc) = [cs EXCEPT ![c] = state]
  BY DEF Moved
<1> HIDE DEF state
<1> QED BY <1>1, <1>2

\* A failed call starts again, with nothing read, or is dead.
LEMMA FailedCall ==
  ASSUME calls \in [Call -> CallState], NEW c \in Call
  PROVE  /\ Failed(c) \in [Call -> CallState]
         /\ Failed(c)[c].pc \in {"start", "dead"}
         /\ \A d \in Call \ {c} : Failed(c)[d] = calls[d]
<1>1. CASE calls[c].retries < MaxRetries
  <2>1. [pc |-> "start", retries |-> calls[c].retries + 1, seen |-> NoRecord] \in CallState
    BY <1>1, PipelineConstants DEF CallState, WIBLRecord
  <2> QED BY <1>1, <2>1 DEF Failed
<1>2. CASE ~(calls[c].retries < MaxRetries)
  BY <1>2, MovedCall DEF Failed, PCs
<1> QED BY <1>1, <1>2

\* A call notifies and ends: one more call of the next function is started, or
\* the notification is lost.
LEMMA NotifyCalls ==
  ASSUME calls \in [Call -> CallState], NEW c \in Call, NEW fn \in Functions,
         ~At(c, "none"), Notify(c, fn)
  PROVE  /\ calls' \in [Call -> CallState]
         /\ calls'[c].pc = "ended"
         /\ \/ /\ UNCHANGED lost
               /\ \E d \in Call \ {c} :
                    /\ d[1] = fn /\ At(d, "none") /\ calls'[d].pc = "start"
                    /\ \A e \in Call \ {c, d} : calls'[e] = calls[e]
            \/ /\ lost' = TRUE
               /\ \A e \in Call \ {c} : calls'[e] = calls[e]
<1>1. CASE \E d \in Call : Unused(fn, d) /\ calls' = Moved(Moved(calls, d, "start"), c, "ended") /\ UNCHANGED lost
  <2>1. PICK d \in Call : Unused(fn, d) /\ calls' = Moved(Moved(calls, d, "start"), c, "ended") /\ UNCHANGED lost
    BY <1>1
  <2>2. d # c /\ d[1] = fn /\ At(d, "none")
    BY <2>1 DEF Unused
  <2>3. /\ Moved(calls, d, "start") \in [Call -> CallState]
        /\ Moved(calls, d, "start")[d].pc = "start"
        /\ \A e \in Call \ {d} : Moved(calls, d, "start")[e] = calls[e]
    BY MovedCall DEF PCs
  <2>4. /\ calls' \in [Call -> CallState]
        /\ calls'[c].pc = "ended"
        /\ \A e \in Call \ {c} : calls'[e] = Moved(calls, d, "start")[e]
    BY <2>1, <2>3, MovedCall DEF PCs
  <2> QED BY <2>1, <2>2, <2>3, <2>4
<1>2. CASE calls' = Moved(calls, c, "ended") /\ lost' = TRUE
  <2>1. /\ Moved(calls, c, "ended") \in [Call -> CallState]
        /\ Moved(calls, c, "ended")[c].pc = "ended"
        /\ \A d \in Call \ {c} : Moved(calls, c, "ended")[d] = calls[d]
    BY MovedCall DEF PCs
  <2> HIDE DEF Moved
  <2> QED BY <1>2, <2>1
<1> QED BY <1>1, <1>2 DEF Notify

-----------------------------------------------------------------------------
(* Types. *)

\* A call that has looked the record up has found one.
LookedUp == \A c \in Call : At(c, "looked") => calls[c].seen # NoRecord

TypeInv == PipelineTypeOK /\ LookedUp

\* What one call does to the calls: it moves on to one of pcs, with nothing
\* read, and the others stay where they are.
Moves(c, pcs) ==
  /\ calls' \in [Call -> CallState]
  /\ calls'[c].pc \in pcs
  /\ \A d \in Call \ {c} : calls'[d] = calls[d]

\* The actions that move one call and no other, and where to.
LEMMA Movements ==
  ASSUME calls \in [Call -> CallState], wibl \in WIBLRecord, NEW c \in Call
  PROVE  /\ Raise(c) => Moves(c, {"start", "dead"})
         /\ ProcessingRegister(c) => Moves(c, {"registered"})
         /\ ProcessingReject(c) => Moves(c, {"ended"})
         /\ Transmit(c) => Moves(c, {"staged"})
         /\ ProcessingRecord(c) => Moves(c, {"recorded"})
         /\ Lookup(c) => Moves(c, {"looked", "ended"})
         /\ Validate(c) => Moves(c, IF kind = "good" THEN {"recorded"} ELSE {"ended"})
         /\ SubmissionRegister(c) => Moves(c, {"registered"})
         /\ PostToArchive(c) => Moves(c, {"posted"})
         /\ PostAgain(c) => Moves(c, {"start", "dead"})
<1>1. \A pc \in PCs :
        /\ Moved(calls, c, pc) \in [Call -> CallState]
        /\ Moved(calls, c, pc)[c].pc = pc
        /\ \A d \in Call \ {c} : Moved(calls, c, pc)[d] = calls[d]
  BY MovedCall
<1>2. \A pc \in PCs : calls' = Moved(calls, c, pc) => Moves(c, {pc})
  BY <1>1 DEF Moves
<1>3. calls' = Failed(c) => Moves(c, {"start", "dead"})
  BY FailedCall DEF Moves
<1>4. Raise(c) => Moves(c, {"start", "dead"})
  BY <1>3 DEF Raise
<1>5. ProcessingRegister(c) => Moves(c, {"registered"})
  BY <1>2 DEF ProcessingRegister, PCs
<1>6. ProcessingReject(c) => Moves(c, {"ended"})
  BY <1>2 DEF ProcessingReject, PCs
<1>7. Transmit(c) => Moves(c, {"staged"})
  BY <1>2 DEF Transmit, PCs
<1>8. ProcessingRecord(c) => Moves(c, {"recorded"})
  BY <1>2 DEF ProcessingRecord, PCs
<1>9. Lookup(c) => Moves(c, {"looked", "ended"})
  <2>1. [calls[c] EXCEPT !.pc = "looked"] \in CallState
    BY DEF CallState
  <2>2. [[calls[c] EXCEPT !.pc = "looked"] EXCEPT !.seen = wibl] \in CallState
    BY <2>1 DEF CallState
  <2>3. calls' = [calls EXCEPT ![c].pc = "looked", ![c].seen = wibl] => Moves(c, {"looked", "ended"})
    BY <2>1, <2>2 DEF Moves, CallState
  <2>4. calls' = Moved(calls, c, "ended") => Moves(c, {"looked", "ended"})
    BY <1>2 DEF PCs, Moves
  <2> QED BY <2>3, <2>4 DEF Lookup
<1>10. Validate(c) => Moves(c, IF kind = "good" THEN {"recorded"} ELSE {"ended"})
  <2>1. Validate(c) => calls' = Moved(calls, c, IF kind = "good" THEN "recorded" ELSE "ended")
    BY DEF Validate
  <2>2. (IF kind = "good" THEN "recorded" ELSE "ended") \in PCs
    BY DEF PCs
  <2>3. Validate(c) => Moves(c, {IF kind = "good" THEN "recorded" ELSE "ended"})
    BY <2>1, <2>2, <1>2
  <2> QED BY <2>3
<1>11. SubmissionRegister(c) => Moves(c, {"registered"})
  BY <1>2 DEF SubmissionRegister, PCs
<1>12. PostToArchive(c) => Moves(c, {"posted"})
  BY <1>2 DEF PostToArchive, PCs
<1>13. PostAgain(c) => Moves(c, {"start", "dead"})
  BY <1>3 DEF PostAgain
<1> QED
  BY <1>4, <1>5, <1>6, <1>7, <1>8, <1>9, <1>10, <1>11, <1>12, <1>13

\* A call that goes on from the lookup has read a record; one that ends there has
\* found none, or leaves a trace in lost.
LEMMA LookupReads ==
  ASSUME calls \in [Call -> CallState], wibl \in WIBLRecord, NEW c \in Call, Lookup(c)
  PROVE  \/ wibl # NoRecord /\ calls'[c].pc = "looked" /\ calls'[c].seen = wibl /\ lost' = lost
         \/ calls'[c].pc = "ended" /\ lost' = (lost \/ wibl # NoRecord)
<1>1. Moved(calls, c, "ended")[c].pc = "ended"
  BY MovedCall DEF PCs
<1>2. CASE wibl # NoRecord /\ calls' = [calls EXCEPT ![c].pc = "looked", ![c].seen = wibl] /\ UNCHANGED lost
  BY <1>2 DEF CallState
<1>3. CASE calls' = Moved(calls, c, "ended") /\ lost' = (lost \/ wibl # NoRecord)
  BY <1>1, <1>3
<1> QED BY <1>2, <1>3 DEF Lookup

\* The two ways a notification that nobody waits for starts a call.
LEMMA Starts ==
  ASSUME calls \in [Call -> CallState],
         Announce \/ \E fn \in Functions : Redeliver(fn)
  PROVE  \E c \in Call : /\ At(c, "none")
                         /\ c[1] = "processing" \/ \E d \in Call : d[1] = c[1] /\ ~At(d, "none")
                         /\ Moves(c, {"start"})
<1>1. \A c \in Call : calls' = Moved(calls, c, "start") => Moves(c, {"start"})
  BY MovedCall DEF Moves, PCs
<1>2. CASE Announce
  BY <1>2, <1>1 DEF Announce, Unused
<1>3. CASE \E fn \in Functions : Redeliver(fn)
  <2>1. PICK fn \in Functions : Redeliver(fn)
    BY <1>3
  <2>2. <<fn, 1>> \in Call /\ <<fn, 1>>[1] = fn
    BY PipelineConstants DEF Call
  <2>3. PICK c \in Call : Unused(fn, c) /\ calls' = Moved(calls, c, "start")
    BY <2>1 DEF Redeliver
  <2> QED BY <2>1, <2>2, <2>3, <1>1 DEF Redeliver, Unused
<1> QED BY <1>2, <1>3

\* What validation writes is its verdict alone: none of the statuses the record
\* can have has a bit above the three low ones.
LEMMA Verdicts ==
  ASSUME TypeInv, NEW c \in Call, At(c, "looked")
  PROVE  Cleared(calls[c].seen) = 0
<1>1. calls[c].seen \in {0, 1, 2, 4}
  BY DEF TypeInv, PipelineTypeOK, LookedUp, At, CallState, WIBLRecord, NoRecord, PROCESSING_STARTED,
         PROCESSING_SUCCESSFUL, PROCESSING_FAILED, VALIDATION_FAILED
<1>2. 0 \div 8 = 0 /\ 1 \div 8 = 0 /\ 2 \div 8 = 0 /\ 4 \div 8 = 0
  OBVIOUS
<1> QED BY <1>1, <1>2 DEF Cleared

\* How each action changes the record of the WIBL file, if it does.
LEMMA RecordWrites ==
  ASSUME TypeInv, NEW c \in Call
  PROVE  /\ ProcessingRegister(c) => wibl' = wibl \/ (wibl = NoRecord /\ wibl' = PROCESSING_STARTED)
         /\ ProcessingReject(c) => Put(PROCESSING_FAILED)
         /\ ProcessingRecord(c) => Put(PROCESSING_SUCCESSFUL)
         /\ Validate(c) => Put(IF kind = "good" THEN VALIDATION_SUCCESSFUL ELSE VALIDATION_FAILED)
<1>1. ProcessingRegister(c) => wibl' = wibl \/ (wibl = NoRecord /\ wibl' = PROCESSING_STARTED)
  BY DEF ProcessingRegister, Posted
<1>2. ProcessingReject(c) => Put(PROCESSING_FAILED)
  BY DEF ProcessingReject
<1>3. ProcessingRecord(c) => Put(PROCESSING_SUCCESSFUL)
  BY DEF ProcessingRecord
<1>4. ASSUME Validate(c)
      PROVE  Put(IF kind = "good" THEN VALIDATION_SUCCESSFUL ELSE VALIDATION_FAILED)
  <2> DEFINE verdict == IF kind = "good" THEN VALIDATION_SUCCESSFUL ELSE VALIDATION_FAILED
  <2>1. Cleared(calls[c].seen) = 0
    BY <1>4, Verdicts DEF Validate
  <2>2. Cleared(calls[c].seen) + verdict = verdict
    BY <2>1 DEF VALIDATION_SUCCESSFUL, VALIDATION_FAILED
  <2>3. Put(Cleared(calls[c].seen) + verdict)
    BY <1>4 DEF Validate
  <2> HIDE DEF verdict
  <2>4. Put(verdict)
    BY <2>2, <2>3
  <2> QED BY <2>4 DEF verdict
<1> QED BY <1>1, <1>2, <1>3, <1>4

\* A PUT leaves the record as it was, or a result in it.
LEMMA PutWrites ==
  ASSUME NEW status, Put(status)
  PROVE  wibl' = wibl \/ (wibl # NoRecord /\ wibl' = status)
BY DEF Put

\* A call that moves, and reads nothing, keeps LookedUp.
LEMMA MovesLookedUp ==
  ASSUME calls \in [Call -> CallState], LookedUp, NEW c \in Call, NEW pcs, Moves(c, pcs), "looked" \notin pcs
  PROVE  LookedUp'
BY DEF LookedUp, Moves, At

\* The type invariant holds at first.
LEMMA TypeInit == Init => TypeInv
<1> SUFFICES ASSUME Init PROVE TypeInv
  OBVIOUS
<1>1. NoCall \in CallState /\ NoCall.pc = "none"
  BY PipelineConstants DEF NoCall, CallState, WIBLRecord
<1>2. calls \in [Call -> CallState] /\ \A c \in Call : calls[c].pc = "none"
  BY <1>1 DEF Init
<1>3. wibl \in WIBLRecord /\ geojson \in GeoJSONRecord
  BY DEF Init, WIBLRecord, GeoJSONRecord
<1> QED BY <1>2, <1>3 DEF Init, TypeInv, PipelineTypeOK, LookedUp, At

\* Every step keeps it.
LEMMA TypeStep == TypeInv /\ [Next]_vars => TypeInv'
<1> SUFFICES ASSUME TypeInv, [Next]_vars PROVE TypeInv'
  OBVIOUS
<1> USE DEF TypeInv
<1>0. /\ kind \in Kinds /\ local \in BOOLEAN /\ staging \in BOOLEAN /\ wibl \in WIBLRecord
      /\ geojson \in GeoJSONRecord /\ calls \in [Call -> CallState] /\ archived \in BOOLEAN
      /\ lost \in BOOLEAN /\ refused \in BOOLEAN /\ LookedUp
  BY DEF PipelineTypeOK
<1>1. CASE Announce \/ \E fn \in Functions : Redeliver(fn)
  <2>1. PICK c \in Call : Moves(c, {"start"})
    BY <1>0, <1>1, Starts
  <2>2. calls' \in [Call -> CallState] /\ LookedUp'
    BY <1>0, <2>1, MovesLookedUp DEF Moves
  <2>3. UNCHANGED <<kind, local, staging, wibl, geojson, archived, lost, refused>>
    BY <1>1 DEF Announce, Redeliver
  <2> QED BY <1>0, <2>2, <2>3 DEF PipelineTypeOK
<1>2. ASSUME NEW c \in Call, ProcessingNotify(c) \/ ValidationNotify(c)
      PROVE  TypeInv'
  <2>1. PICK fn \in Functions : Notify(c, fn) /\ ~At(c, "none")
    BY <1>2 DEF ProcessingNotify, ValidationNotify, Functions, At
  <2>2. /\ calls' \in [Call -> CallState]
        /\ \A e \in Call : calls'[e].pc = "looked" => calls'[e] = calls[e]
    BY <1>0, <2>1, NotifyCalls DEF At
  <2>3. UNCHANGED <<kind, local, staging, wibl, geojson, archived, refused>> /\ lost' \in BOOLEAN
    BY <1>0, <1>2, <2>1 DEF ProcessingNotify, ValidationNotify, Notify
  <2>4. LookedUp'
    BY <1>0, <2>2 DEF LookedUp, At
  <2> QED BY <1>0, <2>2, <2>3, <2>4 DEF PipelineTypeOK
<1>3. ASSUME NEW c \in Call, Lookup(c)
      PROVE  TypeInv'
  <2>1. Moves(c, {"looked", "ended"})
    BY <1>0, <1>3, Movements
  <2>2. UNCHANGED <<kind, local, staging, wibl, geojson, archived, refused>>
    BY <1>3 DEF Lookup
  <2>3. lost' \in BOOLEAN /\ (calls'[c].pc = "looked" => wibl # NoRecord /\ calls'[c].seen = wibl)
    BY <1>0, <1>3, LookupReads
  <2>4. LookedUp'
    BY <1>0, <2>1, <2>3 DEF LookedUp, Moves, At
  <2> QED BY <1>0, <2>1, <2>2, <2>3, <2>4 DEF PipelineTypeOK, Moves
<1>4. ASSUME NEW c \in Call,
             \/ Raise(c) \/ ProcessingRegister(c) \/ ProcessingReject(c) \/ Transmit(c) \/ ProcessingRecord(c)
             \/ Validate(c) \/ SubmissionRegister(c) \/ PostToArchive(c) \/ PostAgain(c)
      PROVE  TypeInv'
  <2>1. PICK pcs : Moves(c, pcs) /\ "looked" \notin pcs
    BY <1>0, <1>4, Movements
  <2>2. calls' \in [Call -> CallState] /\ LookedUp'
    BY <1>0, <2>1, MovesLookedUp DEF Moves
  <2>3. wibl' \in WIBLRecord
    <3>1. CASE UNCHANGED wibl
      BY <3>1, <1>0
    <3>2. CASE ProcessingRegister(c) \/ ProcessingReject(c) \/ ProcessingRecord(c) \/ Validate(c)
      BY <3>2, <1>0, RecordWrites, PutWrites DEF WIBLRecord, PROCESSING_FAILED, VALIDATION_SUCCESSFUL
    <3> QED BY <1>4, <3>1, <3>2 DEF Raise, Transmit, SubmissionRegister, PostToArchive, PostAgain
  <2>4. geojson' \in GeoJSONRecord
    BY <1>0, <1>4 DEF Raise, ProcessingRegister, ProcessingReject, Transmit, ProcessingRecord, Validate,
                      SubmissionRegister, PostToArchive, PostAgain, Posted, GeoJSONRecord
  <2>5. staging' \in BOOLEAN /\ archived' \in BOOLEAN
    BY <1>0, <1>4 DEF Raise, ProcessingRegister, ProcessingReject, Transmit, ProcessingRecord, Validate,
                      SubmissionRegister, PostToArchive, PostAgain
  <2>6. UNCHANGED <<kind, local, lost>>
    BY <1>4 DEF Raise, ProcessingRegister, ProcessingReject, Transmit, ProcessingRecord, Validate,
                SubmissionRegister, PostToArchive, PostAgain
  <2>7. refused' \in BOOLEAN
    <3>1. ASSUME NEW status, Put(status) PROVE refused' \in BOOLEAN
      BY <3>1 DEF Put
    <3>2. CASE UNCHANGED refused
      BY <1>0, <3>2
    <3>3. CASE ProcessingReject(c) \/ ProcessingRecord(c) \/ Validate(c)
      BY <3>1, <3>3, RecordWrites
    <3> QED BY <1>4, <3>2, <3>3 DEF Raise, ProcessingRegister, Transmit, SubmissionRegister, PostToArchive, PostAgain
  <2> QED BY <1>0, <2>2, <2>3, <2>4, <2>5, <2>6, <2>7 DEF PipelineTypeOK
<1>5. CASE UNCHANGED vars
  BY <1>0, <1>5 DEF PipelineTypeOK, LookedUp, At, vars
<1> QED BY <1>1, <1>2, <1>3, <1>4, <1>5 DEF Next

\* The variables keep their types, whatever fails and however often.
THEOREM PipelineTypeCorrect == Spec => []PipelineTypeOK
<1>1. Spec => []TypeInv
  BY TypeInit, TypeStep, PTL DEF Spec
<1> QED BY <1>1, PTL DEF TypeInv

-----------------------------------------------------------------------------
(* The archive and the staging bucket. *)

\* Where a call has come says something of the file: a converted file was sent
\* to the bucket, nothing later starts before that, and only valid files get
\* past validation.
CallOK(c) ==
  /\ c[1] # "processing" /\ ~At(c, "none") => staging
  /\ c[1] = "processing" /\ calls[c].pc \in {"staged", "recorded"} => staging
  /\ c[1] = "processing" /\ calls[c].pc \in {"staged", "recorded", "ended"} => kind # "garbled"
  /\ c[1] = "validation" /\ At(c, "recorded") => kind = "good"
  /\ c[1] = "submission" /\ ~At(c, "none") => kind = "good"

ReachInv ==
  /\ staging => kind \in {"good", "invalid"}
  /\ archived => kind = "good"
  /\ wibl = PROCESSING_SUCCESSFUL => staging
  /\ \A c \in Call : CallOK(c)

\* A call that stays where it is stays right, as the converted file is never removed.
LEMMA StillOK ==
  ASSUME NEW c \in Call, CallOK(c), calls'[c] = calls[c], UNCHANGED kind, staging => staging'
  PROVE  CallOK(c)'
BY DEF CallOK, At

\* ReachInv holds at first.
LEMMA ReachInit == Init => ReachInv
BY DEF Init, ReachInv, CallOK, At, NoCall, NoRecord, PROCESSING_SUCCESSFUL

\* Every step keeps it.
LEMMA ReachStep == TypeInv /\ ReachInv /\ [Next]_vars => ReachInv'
<1> SUFFICES ASSUME TypeInv, ReachInv, [Next]_vars PROVE ReachInv'
  OBVIOUS
<1>0. /\ kind \in Kinds /\ wibl \in WIBLRecord /\ calls \in [Call -> CallState]
      /\ staging \in BOOLEAN /\ archived \in BOOLEAN
  BY DEF TypeInv, PipelineTypeOK
<1>1. CASE Announce \/ \E fn \in Functions : Redeliver(fn)
  <2>1. PICK c \in Call : /\ At(c, "none")
                          /\ c[1] = "processing" \/ \E d \in Call : d[1] = c[1] /\ ~At(d, "none")
                          /\ Moves(c, {"start"})
    BY <1>0, <1>1, Starts
  <2>2. UNCHANGED <<kind, staging, wibl, archived>>
    BY <1>1 DEF Announce, Redeliver
  <2>3. \A d \in Call \ {c} : CallOK(d)'
    BY <2>1, <2>2, StillOK DEF ReachInv, Moves
  <2>4. CallOK(c)'
    BY <2>1, <2>2 DEF ReachInv, Moves, CallOK, At
  <2> QED BY <2>2, <2>3, <2>4 DEF ReachInv
<1>2. ASSUME NEW c \in Call, NEW fn \in Functions, Notify(c, fn),
             \/ ProcessingNotify(c) /\ fn = "validation"
             \/ ValidationNotify(c) /\ fn = "submission"
      PROVE  ReachInv'
  <2>1. UNCHANGED <<kind, staging, wibl, archived>> /\ At(c, "recorded")
    BY <1>2 DEF ProcessingNotify, ValidationNotify
  <2>2. /\ calls'[c].pc = "ended"
        /\ \A e \in Call \ {c} :
             \/ calls'[e] = calls[e]
             \/ e[1] = fn /\ calls'[e].pc = "start"
    <3>1. ~At(c, "none")
      BY <2>1 DEF At
    <3>2. /\ calls'[c].pc = "ended"
          /\ \/ \E d \in Call \ {c} : /\ d[1] = fn /\ calls'[d].pc = "start"
                                      /\ \A e \in Call \ {c, d} : calls'[e] = calls[e]
             \/ \A e \in Call \ {c} : calls'[e] = calls[e]
      BY <1>0, <1>2, <3>1, NotifyCalls
    <3> QED BY <3>2
  <2>3. CallOK(c) /\ staging
    BY <1>2, <2>1 DEF ReachInv, CallOK, ProcessingNotify, ValidationNotify, At
  <2>4. CallOK(c)'
    BY <1>2, <2>1, <2>2, <2>3 DEF CallOK, At, ProcessingNotify, ValidationNotify
  <2>5. ASSUME NEW e \in Call \ {c} PROVE CallOK(e)'
    <3>1. CASE calls'[e] = calls[e]
      BY <2>1, <3>1, StillOK DEF ReachInv
    <3>2. CASE e[1] = fn /\ calls'[e].pc = "start"
      BY <1>2, <2>1, <2>3, <3>2 DEF CallOK, At, ValidationNotify
    <3> QED BY <2>2, <3>1, <3>2
  <2> QED BY <2>1, <2>4, <2>5 DEF ReachInv
<1>3. ASSUME NEW c \in Call, ProcessingNotify(c) \/ ValidationNotify(c)
      PROVE  ReachInv'
  BY <1>2, <1>3 DEF ProcessingNotify, ValidationNotify, Functions
<1>4. ASSUME NEW c \in Call, Transmit(c)
      PROVE  ReachInv'
  <2>1. Moves(c, {"staged"}) /\ UNCHANGED <<kind, wibl, archived>> /\ staging' /\ kind \in {"good", "invalid"}
    BY <1>0, <1>4, Movements DEF Transmit
  <2>2. \A d \in Call \ {c} : CallOK(d)'
    BY <2>1, StillOK DEF ReachInv, Moves
  <2>3. CallOK(c)'
    BY <1>4, <2>1 DEF CallOK, Moves, At, Transmit
  <2> QED BY <2>1, <2>2, <2>3 DEF ReachInv
<1>5. ASSUME NEW c \in Call, NEW pcs, Moves(c, pcs), UNCHANGED <<kind, staging>>, CallOK(c)',
             archived' => kind = "good", wibl' = PROCESSING_SUCCESSFUL => staging
      PROVE  ReachInv'
  <2>1. \A d \in Call \ {c} : CallOK(d)'
    BY <1>5, StillOK DEF ReachInv, Moves
  <2> QED BY <1>5, <2>1 DEF ReachInv
<1>6. ASSUME NEW c \in Call, Raise(c) PROVE ReachInv'
  <2>1. Moves(c, {"start", "dead"}) /\ UNCHANGED <<kind, staging, archived, wibl>>
    BY <1>0, <1>6, Movements DEF Raise
  <2>2. CallOK(c)'
    BY <1>6, <2>1 DEF ReachInv, CallOK, Moves, Raise, At
  <2> QED BY <1>5, <2>1, <2>2 DEF ReachInv
<1>7. ASSUME NEW c \in Call, ProcessingRegister(c) PROVE ReachInv'
  <2>1. Moves(c, {"registered"}) /\ UNCHANGED <<kind, staging, archived>>
    BY <1>0, <1>7, Movements DEF ProcessingRegister
  <2>2. wibl' = PROCESSING_SUCCESSFUL => staging
    BY <1>7, RecordWrites DEF ReachInv, PROCESSING_STARTED, PROCESSING_SUCCESSFUL
  <2>3. CallOK(c)'
    BY <1>7, <2>1 DEF CallOK, Moves, ProcessingRegister, At
  <2> QED BY <1>5, <2>1, <2>2, <2>3 DEF ReachInv
<1>8. ASSUME NEW c \in Call, ProcessingReject(c) PROVE ReachInv'
  <2>1. Moves(c, {"ended"}) /\ UNCHANGED <<kind, staging, archived>> /\ kind = "rejected"
    BY <1>0, <1>8, Movements DEF ProcessingReject
  <2>2. wibl' = PROCESSING_SUCCESSFUL => staging
    BY <1>8, RecordWrites, PutWrites DEF ReachInv, PROCESSING_FAILED, PROCESSING_SUCCESSFUL
  <2>3. CallOK(c)'
    BY <1>8, <2>1 DEF CallOK, Moves, ProcessingReject, At
  <2> QED BY <1>5, <2>1, <2>2, <2>3 DEF ReachInv
<1>9. ASSUME NEW c \in Call, ProcessingRecord(c) PROVE ReachInv'
  <2>1. Moves(c, {"recorded"}) /\ UNCHANGED <<kind, staging, archived>>
    BY <1>0, <1>9, Movements DEF ProcessingRecord
  <2>2. staging /\ kind # "garbled" /\ c[1] = "processing"
    BY <1>9 DEF ReachInv, CallOK, ProcessingRecord, At
  <2>3. CallOK(c)'
    BY <2>1, <2>2 DEF CallOK, Moves, At
  <2> QED BY <1>5, <2>1, <2>2, <2>3 DEF ReachInv
<1>10. ASSUME NEW c \in Call, Lookup(c) PROVE ReachInv'
  <2>1. Moves(c, {"looked", "ended"}) /\ UNCHANGED <<kind, staging, archived, wibl>>
    BY <1>0, <1>10, Movements DEF Lookup
  <2>2. CallOK(c)'
    BY <1>10, <2>1 DEF CallOK, Moves, Lookup, At
  <2> QED BY <1>5, <2>1, <2>2 DEF ReachInv
<1>11. ASSUME NEW c \in Call, Validate(c) PROVE ReachInv'
  <2>1. Moves(c, IF kind = "good" THEN {"recorded"} ELSE {"ended"}) /\ UNCHANGED <<kind, staging, archived>>
    BY <1>0, <1>11, Movements DEF Validate
  <2>2. wibl' = PROCESSING_SUCCESSFUL => staging
    BY <1>11, RecordWrites, PutWrites DEF ReachInv, VALIDATION_FAILED, VALIDATION_SUCCESSFUL, PROCESSING_SUCCESSFUL
  <2>3. staging /\ c[1] = "validation"
    BY <1>11 DEF ReachInv, CallOK, Validate, At
  <2>4. CallOK(c)'
    BY <2>1, <2>3 DEF CallOK, Moves, At
  <2> QED BY <1>5, <2>1, <2>2, <2>4 DEF ReachInv
<1>12. ASSUME NEW c \in Call, SubmissionRegister(c) \/ PostToArchive(c) \/ PostAgain(c) PROVE ReachInv'
  <2>1. PICK pcs : Moves(c, pcs) /\ "none" \notin pcs
    BY <1>0, <1>12, Movements
  <2>2. UNCHANGED <<kind, staging, wibl>>
    BY <1>12 DEF SubmissionRegister, PostToArchive, PostAgain
  <2>3. c[1] = "submission" /\ ~At(c, "none")
    BY <1>12 DEF SubmissionRegister, PostToArchive, PostAgain, At
  <2>4. staging /\ kind = "good"
    BY <2>3 DEF ReachInv, CallOK
  <2>5. CallOK(c)'
    BY <2>1, <2>2, <2>3, <2>4 DEF CallOK, Moves, At
  <2> QED BY <1>5, <2>1, <2>2, <2>4, <2>5 DEF ReachInv
<1>13. CASE UNCHANGED vars
  BY <1>13 DEF vars, ReachInv, CallOK, At
<1> QED BY <1>1, <1>3, <1>4, <1>6, <1>7, <1>8, <1>9, <1>10, <1>11, <1>12, <1>13 DEF Next

\* The archive never accepts a file whose metadata did not validate.
THEOREM ArchiveCorrect == Spec => []ArchivedOnlyValid
<1>1. Spec => [](TypeInv /\ ReachInv)
  BY TypeInit, TypeStep, ReachInit, ReachStep, PTL DEF Spec
<1>2. ReachInv => ArchivedOnlyValid
  BY DEF ReachInv, ArchivedOnlyValid
<1> QED BY <1>1, <1>2, PTL

\* A later function never starts, and the record never claims success, before
\* the converted file is in the staging bucket.
THEOREM StagingCorrect == Spec => []StagedWhenNeeded
<1>1. Spec => [](TypeInv /\ ReachInv)
  BY TypeInit, TypeStep, ReachInit, ReachStep, PTL DEF Spec
<1>2. ReachInv => StagedWhenNeeded
  BY DEF ReachInv, CallOK, StagedWhenNeeded
<1> QED BY <1>1, <1>2, PTL

-----------------------------------------------------------------------------
(* The record. *)

\* A result, once in the record, is only ever replaced by another one.
LEMMA ResultStep ==
  TypeInv /\ [Next]_vars
  => (wibl \notin {NoRecord, PROCESSING_STARTED} => wibl' \notin {NoRecord, PROCESSING_STARTED})
<1> SUFFICES ASSUME TypeInv, [Next]_vars, wibl \notin {NoRecord, PROCESSING_STARTED}
             PROVE  wibl' \notin {NoRecord, PROCESSING_STARTED}
  OBVIOUS
<1>1. CASE UNCHANGED wibl
  BY <1>1
<1>2. ASSUME NEW c \in Call,
             ProcessingRegister(c) \/ ProcessingReject(c) \/ ProcessingRecord(c) \/ Validate(c)
      PROVE  wibl' \notin {NoRecord, PROCESSING_STARTED}
  BY <1>2, RecordWrites, PutWrites DEF NoRecord, PROCESSING_STARTED, PROCESSING_SUCCESSFUL, PROCESSING_FAILED,
                            VALIDATION_SUCCESSFUL, VALIDATION_FAILED
<1> QED BY <1>1, <1>2 DEF Next, Announce, Redeliver, Raise, Transmit, ProcessingNotify, Lookup,
             ValidationNotify, SubmissionRegister, PostToArchive, PostAgain, vars

\* No retried or repeated call takes a result out of the record.
THEOREM ResultsCorrect == Spec => ResultsStay
<1>1. TypeInv /\ [Next]_vars
      => [wibl \notin {NoRecord, PROCESSING_STARTED} => wibl' \notin {NoRecord, PROCESSING_STARTED}]_vars
  BY ResultStep
<1> QED BY <1>1, TypeInit, TypeStep, PTL DEF Spec, ResultsStay

\* A call that is still to write the record, or died before it did.
Pending(c) ==
  \/ c[1] = "processing" /\ calls[c].pc \notin {"none", "ended"}
  \/ c[1] = "validation" /\ calls[c].pc \notin {"none", "ended", "recorded"}

\* As long as the record is not what it should be in the end, some call is
\* pending, or the manager refused the last result, or something was lost.
SettledInv ==
  \/ kind = "garbled" \/ wibl = NoRecord \/ wibl = Verdict \/ lost \/ refused
  \/ \E c \in Call : Pending(c)

\* Who is pending stays so if it does not move; the rest of SettledInv reads
\* four variables.
LEMMA StillPending ==
  ASSUME SettledInv, NEW c \in Call, ~Pending(c) \/ Pending(c)', \A d \in Call \ {c} : calls'[d] = calls[d],
         UNCHANGED <<kind, wibl, refused>>, lost => lost'
  PROVE  SettledInv'
BY DEF SettledInv, Pending, Verdict

\* SettledInv is inductive.
LEMMA SettledStep == TypeInv /\ ReachInv /\ SettledInv /\ [Next]_vars => SettledInv'
<1> SUFFICES ASSUME TypeInv, ReachInv, SettledInv, [Next]_vars PROVE SettledInv'
  OBVIOUS
<1>0. kind \in Kinds /\ wibl \in WIBLRecord /\ calls \in [Call -> CallState]
  BY DEF TypeInv, PipelineTypeOK
<1>1. CASE Announce \/ \E fn \in Functions : Redeliver(fn)
  <2>1. PICK c \in Call : At(c, "none") /\ Moves(c, {"start"})
    BY <1>0, <1>1, Starts
  <2>2. UNCHANGED <<kind, wibl, lost, refused>>
    BY <1>1 DEF Announce, Redeliver
  <2>3. ~Pending(c)
    BY <2>1 DEF Pending, At
  <2> QED BY <2>1, <2>2, <2>3, StillPending DEF Moves
<1>2. ASSUME NEW c \in Call, Moves(c, {"registered", "staged", "recorded"}), c[1] = "processing"
      PROVE  SettledInv'
  BY <1>2 DEF SettledInv, Pending, Moves
<1>3. ASSUME NEW c \in Call, Raise(c) PROVE SettledInv'
  <2>1. Moves(c, {"start", "dead"}) /\ UNCHANGED <<kind, wibl, lost, refused>>
    BY <1>0, <1>3, Movements DEF Raise
  <2>2. ~Pending(c) \/ Pending(c)'
    BY <2>1 DEF Pending, Moves
  <2> QED BY <2>1, <2>2, StillPending DEF Moves
<1>4. ASSUME NEW c \in Call, ProcessingRegister(c) PROVE SettledInv'
  <2>1. Moves(c, {"registered"}) /\ c[1] = "processing"
    BY <1>0, <1>4, Movements DEF ProcessingRegister
  <2> QED BY <2>1, <1>2 DEF Moves
<1>5. ASSUME NEW c \in Call, Transmit(c) PROVE SettledInv'
  <2>1. Moves(c, {"staged"}) /\ c[1] = "processing"
    BY <1>0, <1>5, Movements DEF Transmit
  <2> QED BY <2>1, <1>2 DEF Moves
<1>6. ASSUME NEW c \in Call, ProcessingRecord(c) PROVE SettledInv'
  <2>1. Moves(c, {"recorded"}) /\ c[1] = "processing"
    BY <1>0, <1>6, Movements DEF ProcessingRecord
  <2> QED BY <2>1, <1>2 DEF Moves
<1>7. ASSUME NEW c \in Call, ProcessingReject(c) PROVE SettledInv'
  <2>1. kind = "rejected" /\ kind' = kind
    BY <1>7 DEF ProcessingReject
  <2>2. Put(PROCESSING_FAILED)
    BY <1>7, RecordWrites
  <2>3. wibl' = PROCESSING_FAILED \/ wibl' = NoRecord \/ refused'
    BY <2>2 DEF Put
  <2> QED BY <2>1, <2>3 DEF SettledInv, Verdict
<1>8. ASSUME NEW c \in Call, ProcessingNotify(c) PROVE SettledInv'
  <2>1. Notify(c, "validation") /\ At(c, "recorded") /\ UNCHANGED <<kind, wibl, refused>>
    BY <1>8 DEF ProcessingNotify
  <2>2. \/ lost'
        \/ \E d \in Call : d[1] = "validation" /\ calls'[d].pc = "start"
    <3>1. ~At(c, "none") /\ "validation" \in Functions
      BY <2>1 DEF At, Functions
    <3>2. \/ UNCHANGED lost /\ \E d \in Call \ {c} :
               /\ d[1] = "validation" /\ At(d, "none") /\ calls'[d].pc = "start"
               /\ \A e \in Call \ {c, d} : calls'[e] = calls[e]
          \/ lost' = TRUE /\ \A e \in Call \ {c} : calls'[e] = calls[e]
      BY <1>0, <2>1, <3>1, NotifyCalls
    <3> QED BY <3>2
  <2> QED BY <2>2 DEF SettledInv, Pending
<1>9. ASSUME NEW c \in Call, Lookup(c) PROVE SettledInv'
  <2>0. c[1] = "validation" /\ UNCHANGED <<kind, wibl, refused>>
    BY <1>9 DEF Lookup
  <2>1. \/ calls'[c].pc = "looked"
        \/ lost' \/ wibl = NoRecord
    BY <1>0, <1>9, LookupReads
  <2> QED BY <2>0, <2>1 DEF SettledInv, Pending
<1>10. ASSUME NEW c \in Call, Validate(c) PROVE SettledInv'
  <2>1. c[1] = "validation" /\ kind' = kind /\ ~At(c, "none")
    BY <1>10 DEF Validate, At
  <2>2. kind \in {"good", "invalid"}
    BY <2>1 DEF ReachInv, CallOK
  <2> DEFINE verdict == IF kind = "good" THEN VALIDATION_SUCCESSFUL ELSE VALIDATION_FAILED
  <2>3. Put(verdict)
    BY <1>10, RecordWrites
  <2>4. wibl' = verdict \/ wibl' = NoRecord \/ refused'
    BY <2>3 DEF Put
  <2> QED BY <2>1, <2>2, <2>4 DEF SettledInv, Verdict
<1>11. ASSUME NEW c \in Call, ValidationNotify(c) PROVE SettledInv'
  <2>1. Notify(c, "submission") /\ At(c, "recorded") /\ UNCHANGED <<kind, wibl, refused>> /\ c[1] = "validation"
    BY <1>11 DEF ValidationNotify
  <2>2. \A e \in Call : Pending(e) => calls'[e] = calls[e]
    <3>1. ~At(c, "none") /\ "submission" \in Functions
      BY <2>1 DEF At, Functions
    <3>2. \A e \in Call \ {c} : calls'[e] = calls[e] \/ At(e, "none")
      BY <1>0, <2>1, <3>1, NotifyCalls
    <3> QED BY <2>1, <3>2 DEF Pending, At
  <2>3. lost => lost'
    BY <2>1 DEF Notify
  <2> QED BY <2>1, <2>2, <2>3 DEF SettledInv, Pending, Verdict
<1>12. ASSUME NEW c \in Call, SubmissionRegister(c) \/ PostToArchive(c) \/ PostAgain(c) PROVE SettledInv'
  <2>1. PICK pcs : Moves(c, pcs)
    BY <1>0, <1>12, Movements
  <2>2. c[1] = "submission" /\ UNCHANGED <<kind, wibl, lost, refused>>
    BY <1>12 DEF SubmissionRegister, PostToArchive, PostAgain
  <2>3. ~Pending(c)
    BY <2>2 DEF Pending
  <2> QED BY <2>1, <2>2, <2>3, StillPending DEF Moves
<1>13. CASE UNCHANGED vars
  BY <1>13 DEF vars, SettledInv, Pending, Verdict
<1> QED BY <1>1, <1>3, <1>4, <1>5, <1>6, <1>7, <1>8, <1>9, <1>10, <1>11, <1>12, <1>13 DEF Next

\* A call that keeps the file from being forgotten: one of submission that has
\* started, or one of another function that has not ended.
InHand(c) ==
  IF c[1] = "submission" THEN ~At(c, "none") ELSE calls[c].pc \notin {"none", "ended"}

\* A good file the manager knows is in some call's hand, or was lost.
HandedInv == kind = "good" /\ wibl # NoRecord /\ ~lost => \E c \in Call : InHand(c)

\* HandedInv is inductive: whoever lets go of the file has handed it on.
LEMMA HandedStep == TypeInv /\ ReachInv /\ HandedInv /\ [Next]_vars => HandedInv'
<1> SUFFICES ASSUME TypeInv, ReachInv, HandedInv, [Next]_vars PROVE HandedInv'
  OBVIOUS
<1>0. wibl \in WIBLRecord /\ calls \in [Call -> CallState]
  BY DEF TypeInv, PipelineTypeOK
<1>1. ASSUME NEW c \in Call, calls'[c].pc \notin {"none", "ended"} PROVE HandedInv'
  BY <1>1 DEF HandedInv, InHand, At
<1>2. CASE Announce \/ \E fn \in Functions : Redeliver(fn)
  <2>1. PICK c \in Call : Moves(c, {"start"})
    BY <1>0, <1>2, Starts
  <2> QED BY <2>1, <1>1 DEF Moves
<1>3. ASSUME NEW c \in Call,
             \/ Raise(c) \/ ProcessingRegister(c) \/ Transmit(c) \/ ProcessingRecord(c)
             \/ SubmissionRegister(c) \/ PostToArchive(c) \/ PostAgain(c)
      PROVE  HandedInv'
  <2>1. PICK pcs : Moves(c, pcs) /\ "none" \notin pcs /\ "ended" \notin pcs
    BY <1>0, <1>3, Movements
  <2> QED BY <2>1, <1>1 DEF Moves
<1>4. ASSUME NEW c \in Call, ProcessingReject(c) PROVE HandedInv'
  BY <1>4 DEF ProcessingReject, HandedInv
<1>5. ASSUME NEW c \in Call, Lookup(c) PROVE HandedInv'
  <2>1. calls'[c].pc = "looked" \/ lost' \/ wibl = NoRecord
    BY <1>0, <1>5, LookupReads
  <2>2. wibl' = wibl
    BY <1>5 DEF Lookup
  <2> QED BY <2>1, <2>2, <1>1 DEF HandedInv
<1>6. ASSUME NEW c \in Call, Validate(c) PROVE HandedInv'
  <2>1. Moves(c, IF kind = "good" THEN {"recorded"} ELSE {"ended"}) /\ kind' = kind
    BY <1>0, <1>6, Movements DEF Validate
  <2>2. CASE kind = "good"
    BY <2>1, <2>2, <1>1 DEF Moves
  <2> QED BY <2>1, <2>2 DEF HandedInv
<1>7. ASSUME NEW c \in Call, ProcessingNotify(c) \/ ValidationNotify(c) PROVE HandedInv'
  <2>1. PICK fn \in Functions : Notify(c, fn) /\ ~At(c, "none")
    BY <1>7 DEF ProcessingNotify, ValidationNotify, Functions, At
  <2>2. lost' \/ \E d \in Call : calls'[d].pc = "start"
    BY <1>0, <2>1, NotifyCalls
  <2> QED BY <2>2, <1>1 DEF HandedInv
<1>8. CASE UNCHANGED vars
  BY <1>8 DEF vars, HandedInv, InHand, At
<1> QED BY <1>2, <1>3, <1>4, <1>5, <1>6, <1>7, <1>8 DEF Next

\* Once no call of processing or validation is left, and none died or lost the
\* file: a good file the manager knows has been handed to submission, and the
\* record says what became of the file, in whatever order the calls wrote, unless
\* the manager refused the last result it was sent.
THEOREM SettledCorrect == Spec => []Settled
<1>1. Init => SettledInv /\ HandedInv
  BY DEF Init, SettledInv, HandedInv
<1>2. Spec => [](TypeInv /\ ReachInv /\ SettledInv /\ HandedInv)
  BY <1>1, TypeInit, TypeStep, ReachInit, ReachStep, SettledStep, HandedStep, PTL DEF Spec
<1>3. TypeInv /\ ReachInv /\ SettledInv /\ HandedInv => Settled
  <2> SUFFICES ASSUME TypeInv, ReachInv, SettledInv, HandedInv, Ended("processing"), Ended("validation"),
                      ~At(<<"processing", 1>>, "none"), ~lost, wibl # NoRecord
               PROVE  /\ kind = "good" => \E n \in 1 .. MaxCalls : ~At(<<"submission", n>>, "none")
                      /\ ~refused => wibl = Verdict
    BY DEF Settled
  <2>1. \A c \in Call : c = <<c[1], c[2]>> /\ c[1] \in Functions /\ c[2] \in 1 .. MaxCalls
    BY DEF Call
  <2>2. \A c \in Call : c[1] # "submission" => calls[c].pc \in {"none", "ended"}
    BY <2>1 DEF Ended, Functions
  <2>3. \A c \in Call : ~Pending(c)
    BY <2>2 DEF Pending
  <2>4. <<"processing", 1>> \in Call /\ 1 \in 1 .. MaxCalls
    BY PipelineConstants DEF Call, Functions
  <2>5. calls[<<"processing", 1>>].pc = "ended"
    BY <2>4 DEF Ended, At
  <2>6. kind # "garbled"
    BY <2>4, <2>5 DEF ReachInv, CallOK
  <2>7. ASSUME kind = "good"
        PROVE  \E n \in 1 .. MaxCalls : ~At(<<"submission", n>>, "none")
    <3>1. PICK c \in Call : InHand(c)
      BY <2>7 DEF HandedInv
    <3>2. c[1] = "submission" /\ ~At(c, "none")
      BY <2>2, <3>1 DEF InHand
    <3> QED BY <2>1, <3>2
  <2> QED BY <2>3, <2>6, <2>7 DEF SettledInv
<1> QED BY <1>2, <1>3, PTL

=============================================================================
