--------------------------- MODULE MessageAssembler ---------------------------
(***************************************************************************)
(* One NMEA0183 channel of the logger (LoggerFirmware/src/N0183Logger.cpp, *)
(* include/IncrementalBuffer.h): characters are assembled into sentences,  *)
(* finished sentences wait in a ring, and ProcessMessages, once it has     *)
(* read all characters that are there, records the ones in the ring.       *)
(*                                                                         *)
(* A sentence is known by the "$" it starts with: the n-th one is sentence *)
(* n, and so is the time stored with it.  Its characters are counted; what *)
(* matters about them is whether the last of them complete its checksum    *)
(* (one unit here) and whether the filter wants its message ID.            *)
(*                                                                         *)
(* Sentence has no assignment of its own, so that putting one in the ring  *)
(* copies the pointer to the characters and not the characters: every      *)
(* sentence in the ring shows those of the one now being assembled.        *)
(***************************************************************************)
EXTENDS Integers, Sequences, FiniteSets

CONSTANTS
  RingBufferLength,  \* places in the ring (10)
  MaxLength,         \* characters in a sentence (MAX_SENTENCE_LENGTH - 1)
  MaxSentences       \* bound: sentences started

ASSUME AssemblerConstants ==
  /\ RingBufferLength \in Nat \ {0}
  /\ MaxLength \in Nat \ {0}
  /\ MaxSentences \in Nat

VARIABLES
  miswired,    \* are the channel's two wires swapped?
  inverted,    \* was the input inverted?
  state,       \* m_state
  chars,       \* the characters of m_current, which the ring shares
  current,     \* the rest of m_current: the time, and the length
  ring,        \* m_buffer, without the characters
  readPoint,   \* m_readPoint
  writePoint,  \* m_writePoint
  started,     \* sentences started so far
  recorded,    \* history: what was recorded, a time with the sentence shown
  finished,    \* history: the sentences that came in whole, and are wanted
  held,        \* history: the sentences put in the ring since it was last read
  prompt       \* history: was the ring read each time before a sentence started?

assemblerVars == <<miswired, inverted, state, chars, current, ring, readPoint, writePoint,
                   started, recorded, finished, held, prompt>>

wires   == <<miswired, inverted>>
points  == <<readPoint, writePoint>>
history == <<recorded, finished, held, prompt>>

Number   == 0 .. MaxSentences
Chars    == [of : Number, length : 0 .. MaxLength, checked : BOOLEAN, wanted : BOOLEAN]
Sentence == [time : Number, length : 0 .. MaxLength]

NoChars    == [of |-> 0, length |-> 0, checked |-> FALSE, wanted |-> FALSE]
NoSentence == [time |-> 0, length |-> 0]

\* Mutant of Place: the points run past the end of the ring.
PlaceUnwrapped(n) == n

Place(n) == n % RingBufferLength

\* Do the wires carry characters, or noise?
Readable == miswired <=> inverted

-----------------------------------------------------------------------------
(* AddCharacter. *)

\* '$': in either state.  What was being captured is dropped.
StartSentence ==
  /\ started < MaxSentences
  /\ state' = "capturing"
  /\ started' = started + 1
  /\ current' = [time |-> started + 1, length |-> 1]
  /\ \E wanted \in BOOLEAN :
       chars' = [of |-> started + 1, length |-> 1, checked |-> FALSE, wanted |-> wanted]
  /\ prompt' = (prompt /\ held = <<>>)
  /\ UNCHANGED <<wires, ring, points, recorded, finished, held>>

\* The next character ('\r' is not one of them): it completes the checksum, or
\* not, and never when the wires carry noise.
AddCharacter(checked) ==
  /\ checked => Readable
  /\ state = "capturing"
  /\ IF chars.length < MaxLength
       THEN /\ chars' = [chars EXCEPT !.length = @ + 1, !.checked = checked]
            /\ current' = [current EXCEPT !.length = @ + 1]
            /\ UNCHANGED state
       ELSE /\ state' = "searching"
            /\ UNCHANGED <<chars, current>>
  /\ UNCHANGED <<wires, ring, points, started, history>>

\* Mutant of EndSentence: the line end leaves the assembler capturing.
EndSentenceCapturing ==
  /\ state = "capturing"
  /\ ring' = [ring EXCEPT ![writePoint] = current]
  /\ writePoint' = Place(writePoint + 1)
  /\ held' = Append(held, current.time)
  /\ finished' = IF chars.checked /\ chars.wanted THEN Append(finished, chars.of) ELSE finished
  /\ UNCHANGED <<wires, state, chars, current, readPoint, started, recorded, prompt>>

\* '\n': the sentence goes into the ring, whether there is a place or not.
EndSentence ==
  /\ state = "capturing"
  /\ ring' = [ring EXCEPT ![writePoint] = current]
  /\ writePoint' = Place(writePoint + 1)
  /\ state' = "searching"
  /\ held' = Append(held, current.time)
  /\ finished' = IF chars.checked /\ chars.wanted THEN Append(finished, chars.of) ELSE finished
  /\ UNCHANGED <<wires, chars, current, readPoint, started, recorded, prompt>>

\* Characters that start no sentence: too many of them with their top bit set,
\* for the time, and the input is inverted.
Noise ==
  /\ state = "searching"
  /\ inverted' \in {inverted, TRUE}
  /\ UNCHANGED <<miswired, state, chars, current, ring, points, started, history>>

\* Command "invert": only a user sets the input back.
SetRxInvert(invert) ==
  /\ inverted' = invert
  /\ UNCHANGED <<miswired, state, chars, current, ring, points, started, history>>

-----------------------------------------------------------------------------
(* ProcessMessages, after the last character. *)

\* Mutant of Waiting: the ring is read from the newest place on.
WaitingBackwards == [k \in 1 .. Place(writePoint - readPoint) |-> ring[Place(writePoint - k)]]

\* What NextSentence returns until it returns null.
Waiting == [k \in 1 .. Place(writePoint - readPoint) |-> ring[Place(readPoint + k - 1)]]

\* Sentence::Valid: a checksum is looked for within the sentence's length, and
\* compared with that of the characters before it.
Valid(s) == chars.checked /\ chars.length <= s.length

\* Mutant of Logged: the filter is upside down.
LoggedUnwanted(s) == ~chars.wanted /\ Valid(s)

\* filterMessage and Valid.
Logged(s) == chars.wanted /\ Valid(s)

\* Record gets the sentence's time and what its characters are now.
Shown(s) == [time |-> s.time, of |-> chars.of]

\* The places among those waiting whose sentences are recorded.
Kept == {k \in DOMAIN Waiting : Logged(Waiting[k])}

\* In the order in which they wait.
ProcessMessages ==
  /\ readPoint # writePoint
  /\ \E order \in [1 .. Cardinality(Kept) -> Kept] :
       /\ \A i, j \in DOMAIN order : i < j => order[i] < order[j]
       /\ recorded' = recorded \o [k \in DOMAIN order |-> Shown(Waiting[order[k]])]
  /\ readPoint' = writePoint
  /\ held' = <<>>
  /\ UNCHANGED <<wires, state, chars, current, ring, writePoint, started, finished, prompt>>

-----------------------------------------------------------------------------
AssemblerInit ==
  /\ miswired \in BOOLEAN
  /\ inverted = FALSE
  /\ state = "searching"
  /\ chars = NoChars
  /\ current = NoSentence
  /\ ring = [n \in 0 .. RingBufferLength - 1 |-> NoSentence]
  /\ readPoint = 0 /\ writePoint = 0
  /\ started = 0
  /\ recorded = <<>> /\ finished = <<>> /\ held = <<>>
  /\ prompt = TRUE

AssemblerNext ==
  \/ StartSentence
  \/ \E checked \in BOOLEAN : AddCharacter(checked)
  \/ EndSentence
  \/ Noise
  \/ \E invert \in BOOLEAN : SetRxInvert(invert)
  \/ ProcessMessages

AssemblerSpec == AssemblerInit /\ [][AssemblerNext]_assemblerVars

-----------------------------------------------------------------------------
(* Properties. *)

\* Types.
AssemblerTypeOK ==
  /\ miswired \in BOOLEAN /\ inverted \in BOOLEAN
  /\ state \in {"searching", "capturing"}
  /\ chars \in Chars
  /\ current \in Sentence
  /\ ring \in [0 .. RingBufferLength - 1 -> Sentence]
  /\ readPoint \in 0 .. RingBufferLength - 1
  /\ writePoint \in 0 .. RingBufferLength - 1
  /\ started \in Number
  /\ recorded \in Seq([time : Number, of : Number])
  /\ finished \in Seq(Number)
  /\ held \in Seq(Number)
  /\ prompt \in BOOLEAN

\* The ring holds what was put in it since it was read, in order, as long as
\* that is less than its length.  With a place more it reads as empty.
RingKeeps ==
  Len(held) < RingBufferLength =>
    /\ Len(Waiting) = Len(held)
    /\ \A k \in 1 .. Len(held) : Waiting[k].time = held[k]

\* Each time is recorded at most once, and later ones later, however the ring
\* went round in between.
TimesInOrder ==
  \A i, j \in 1 .. Len(recorded) : i < j => recorded[i].time < recorded[j].time

\* As long as the ring is read before each sentence starts, exactly the wanted
\* sentences that came in whole are recorded, each with its own time.
PromptIsExact ==
  prompt /\ readPoint = writePoint =>
    /\ Len(recorded) = Len(finished)
    /\ \A k \in 1 .. Len(recorded) : recorded[k] = [time |-> finished[k], of |-> finished[k]]

\* "... buffers the sentences until the user can read them.  A timestamp is
\* generated for the first "$" in each string, and stored with the string": what
\* is recorded with a time is the sentence that started then.
TimeOfSentence == \A k \in 1 .. Len(recorded) : recorded[k].of = recorded[k].time

=============================================================================
