------------------------- MODULE CommissioningTools -------------------------
(* The commissioning tools of the host: `smoke` probes the bring-up image    *)
(* with echoed bytes, `observe` and `calibration` decode the frames of the   *)
(* production and of the calibration image, and each ends in a report.       *)
(* The line is damaged, the board restarts, reads return any chunk.          *)
(*                                                                           *)
(* A byte is a tuple.  The twelve header bytes of a frame are three: the two *)
(* start markers and one byte that names the frame and carries its length;   *)
(* the checksum is one byte, right for one frame only.  A payload byte may   *)
(* be a start marker, and so may what noise leaves on the line.              *)
EXTENDS Integers, Sequences, SequencesExt, FiniteSetsExt

CONSTANTS
    SEQUENCE_COUNT,       \* 16#10000#
    MAX_PAYLOAD,          \* StreamDecoder.max_payload
    MAX_BUFFER,           \* StreamDecoder.max_buffer
    CHUNK,                \* chunk_size
    MAX_SAMPLES,          \* --max-samples
    REQUIRED_HEARTBEATS,  \* --heartbeats
    PROBES,               \* --echo-bytes
    FIRST_NUMBERS,        \* numbers the board may have reached when it is attached
    MAX_FRAMES, MAX_EARLY, MAX_BEATS, MAX_TROUBLE   \* bounds of the model

\* A read never overflows the decoder's buffer: the longest frame that waits for
\* its last byte and one more chunk fit (269 + 128 of 2048 bytes).
ASSUME BufferAssumption ==
    /\ MAX_PAYLOAD \in Nat \ {0} /\ CHUNK \in Nat \ {0} /\ MAX_BUFFER \in Nat
    /\ MAX_BUFFER >= MAX_PAYLOAD + 3 + CHUNK

\* The numbers of a stream do not come round while it is observed: the observer
\* cannot tell SEQUENCE_COUNT lost frames from none.
ASSUME NumbersAssumption ==
    /\ SEQUENCE_COUNT \in Nat /\ FIRST_NUMBERS \subseteq 0 .. SEQUENCE_COUNT - 1
    /\ MAX_EARLY \in Nat /\ MAX_FRAMES \in Nat
    /\ MAX_EARLY <= MAX_FRAMES /\ MAX_FRAMES < SEQUENCE_COUNT

ASSUME ProbesAssumption == PROBES \in Seq(STRING)

VARIABLES
    image, sent, number, pending, beats_sent, damage, restarts, \* the board and its line
    line, position,                            \* bytes since the input reset; those read
    tool, buffer, errors, delivered,           \* the process and its StreamDecoder
    accepted, gaps, faults,                    \* the observer
    heartbeats, probe, answers, timeouts,      \* SmokeMetrics
    report

board_vars == <<image, sent, number, pending, beats_sent, damage, restarts>>
decoder_vars == <<buffer, errors, delivered>>
observer_vars == <<accepted, gaps, faults>>
smoke_vars == <<heartbeats, probe, answers, timeouts>>
tool_vars == <<tool, decoder_vars, observer_vars, smoke_vars, report>>
commissioning_vars == <<board_vars, line, position, tool_vars>>

Kinds == {"status", "sensor", "calibration"}
KindsOf(i) == CASE i = "production" -> {"status", "sensor"}
                [] i = "calibration" -> {"calibration"}
                [] OTHER -> {}

\* Each tool is for one image; on another it decodes nothing it counts.
ToolFor(i) == IF i = "production" THEN "observe" ELSE i

A5 == <<"A5">>
SOF == <<A5, <<"5A">>>>
HEADER_SIZE == 3
Total(length) == HEADER_SIZE + length + 1

\* The payload of a frame whose values are not trusted holds a start marker.
Encoded(id, trusted) ==
    SOF \o << <<"head", id, 1>>, IF trusted THEN <<"data">> ELSE A5, <<"check", id>> >>
FrameBytes(id) == Encoded(id, sent[id].trusted)

\* The length a decoder reads where it takes byte b for the end of a header.
LengthIn(b) == CASE b[1] = "head" -> b[3] [] b[1] = "junk" -> b[2] [] OTHER -> MAX_PAYLOAD

\* The bytes of the smoke image: what a heartbeat, an echo and a damaged byte read as.
HEARTBEAT == "55"
ProbeValues == {PROBES[n] : n \in DOMAIN PROBES}
Value(b) == CASE b[1] = "echo" -> PROBES[b[2]] [] b[1] = "stray" -> b[2] [] OTHER -> HEARTBEAT

NoReport == [tool |-> "none"]

-----------------------------------------------------------------------------
(* The board and the line *)

\* The model ends with the report.
Running == report = NoReport

\* Bound: a byte damaged, a restart, a frame whose beginning was not heard.
MayTrouble == damage + restarts < MAX_TROUBLE

\* What byte b may become: a member of each class the tool for the image tells
\* apart.  The smoke tool compares values, a probe's among them; the decoder knows
\* the two markers and reads a length.  No damage forges a header or a checksum.
Noise(b) ==
    IF image = "smoke"
    THEN {"stray"} \X (({HEARTBEAT, "other"} \cup ProbeValues) \ {Value(b)})
    ELSE ({A5, <<"5A">>} \cup {"junk"} \X (0 .. MAX_PAYLOAD + 1)) \ {b}

\* The bytes arrive, or one of them is lost or becomes another one.  A probe lost
\* or damaged on its way to the board is one whose echo is.
OnLine(bytes) ==
    \/ line' = line \o bytes /\ UNCHANGED damage
    \/ /\ tool # "none" /\ MayTrouble /\ damage' = damage + 1
       /\ \E i \in DOMAIN bytes :
             \/ line' = line \o RemoveAt(bytes, i)
             \/ \E b \in Noise(bytes[i]) : line' = line \o [bytes EXCEPT ![i] = b]

SendFrame(kind) ==
    /\ kind \in KindsOf(image) /\ Running
    /\ Len(sent) < (IF tool = "none" THEN MAX_EARLY ELSE MAX_FRAMES)
    /\ \E trusted \in BOOLEAN :
          /\ sent' = Append(sent, [kind |-> kind, sequence |-> number[kind],
                                   trusted |-> trusted, boot |-> restarts])
          /\ OnLine(Encoded(Len(sent) + 1, trusted))
    /\ number' = [number EXCEPT ![kind] = (@ + 1) % SEQUENCE_COUNT]
    /\ UNCHANGED <<image, pending, beats_sent, restarts, position, tool_vars>>

\* The smoke image sends a heartbeat while it is idle and returns what it gets.
Beat ==
    /\ image = "smoke" /\ Running /\ pending = <<>> /\ beats_sent < MAX_BEATS
    /\ beats_sent' = beats_sent + 1 /\ OnLine(<< <<"beat">> >>)
    /\ UNCHANGED <<image, sent, number, pending, restarts, position, tool_vars>>

Echo ==
    /\ pending # <<>> /\ Running
    /\ OnLine(<< <<"echo", Head(pending)>> >>) /\ pending' = Tail(pending)
    /\ UNCHANGED <<image, sent, number, beats_sent, restarts, position, tool_vars>>

\* The board restarts, perhaps within a frame, and numbers from 0 again.
Restart ==
    /\ Running /\ tool # "none" /\ MayTrouble /\ restarts' = restarts + 1
    /\ number' = [kind \in Kinds |-> 0] /\ pending' = <<>>
    /\ \E kept \in position .. Len(line) :
          /\ kept > Len(line) - Total(1)
          /\ line' = SubSeq(line, 1, kept)
    /\ UNCHANGED <<image, sent, beats_sent, damage, position, tool_vars>>

-----------------------------------------------------------------------------
(* StreamDecoder *)

SofIn(b) == {i \in 1 .. Len(b) - 1 : SubSeq(b, i, i + 1) = SOF}

\* _discard_until_sof: a last byte that may start a marker is kept.
DiscardUntilSof(b) ==
    IF SofIn(b) # {} THEN SubSeq(b, Min(SofIn(b)), Len(b))
    ELSE IF b # <<>> /\ Last(b) = A5 THEN <<A5>> ELSE <<>>

\* Waits: the bytes read so far do not tell what starts the buffer.
Waits(b) ==
    SofIn(b) # {} /\ Len(b) >= HEADER_SIZE =>
        /\ LengthIn(b[HEADER_SIZE]) <= MAX_PAYLOAD
        /\ Len(b) < Total(LengthIn(b[HEADER_SIZE]))

\* decode_frame: the checksum is that of this header and this payload.
Decodes(b) ==
    \E id \in 1 .. Len(sent) :
        /\ b[HEADER_SIZE] = <<"head", id, 1>>
        /\ SubSeq(b, 1, Total(1)) = FrameBytes(id)

\* The faulty decoder trusts the length of the frame it rejects.
SkipDeclared(b) == SubSeq(b, Total(LengthIn(b[HEADER_SIZE])) + 1, Len(b))

\* Where the search goes on after a candidate that is no frame.
AfterBad(b) == Tail(b)

\* Only the newest MAX_BUFFER bytes are kept.
Bounded(b) == IF Len(b) > MAX_BUFFER
              THEN SubSeq(b, Len(b) - MAX_BUFFER + 1, Len(b)) ELSE b

-----------------------------------------------------------------------------
(* CommissioningObserver and CalibrationDiagnosticObserver *)

KindsRead == IF tool = "observe" THEN {"status", "sensor"} ELSE {"calibration"}

Delta(candidate, previous) == (candidate - previous) % SEQUENCE_COUNT

\* The faulty observer lets one missing number pass.
GapsButOne(delta) == delta > 2

Gaps(delta) == delta > 1

\* The frames of the kind of frame `id` that were accepted before it.
Earlier(id) == accepted[sent[id].kind]
StepTo(id) == Delta(sent[id].sequence, sent[Last(Earlier(id))].sequence)

\* CommissioningObserver.feed on the frame `id`: _sequence_update compares it
\* with the last accepted one of its kind.
Observe(id) ==
    \/ sent[id].kind \notin KindsRead /\ UNCHANGED observer_vars
    \/ /\ sent[id].kind \in KindsRead /\ Earlier(id) = <<>>
       /\ accepted' = [accepted EXCEPT ![sent[id].kind] = <<id>>]
       /\ UNCHANGED <<gaps, faults>>
    \/ /\ sent[id].kind \in KindsRead /\ Earlier(id) # <<>>
       /\ StepTo(id) = 0 \/ StepTo(id) >= SEQUENCE_COUNT \div 2
       /\ faults' = TRUE /\ UNCHANGED <<accepted, gaps>>
    \/ /\ sent[id].kind \in KindsRead /\ Earlier(id) # <<>>
       /\ StepTo(id) \in 1 .. SEQUENCE_COUNT \div 2 - 1
       /\ accepted' = [accepted EXCEPT ![sent[id].kind] = Append(@, id)]
       /\ gaps' = (gaps \/ Gaps(StepTo(id))) /\ UNCHANGED faults

\* observe_production_stream, capture_calibration_diagnostics: one read, taken
\* when the decoder has done with the last one, is appended to its buffer.
ReadChunk ==
    /\ tool \in {"observe", "calibration"} /\ Waits(buffer)
    /\ \E n \in 1 .. CHUNK :
          /\ position + n <= Len(line) /\ position' = position + n
          /\ buffer' = DiscardUntilSof(
                          Bounded(buffer \o SubSeq(line, position + 1, position + n)))
    /\ UNCHANGED <<board_vars, line, tool, errors, delivered, observer_vars, smoke_vars,
                   report>>

\* StreamDecoder.feed: one round of its loop, up to the search for the next start
\* marker.  No byte the tool has not read changes what the loop does, so it may
\* be taken round by round; the tool reads on, and reports, when it waits.
DecodeCandidate ==
    /\ tool \in {"observe", "calibration"} /\ ~Waits(buffer)
    /\ \/ /\ LengthIn(buffer[HEADER_SIZE]) > MAX_PAYLOAD
          /\ buffer' = DiscardUntilSof(Tail(buffer))
          /\ UNCHANGED <<errors, delivered, observer_vars>>
       \/ /\ Decodes(buffer)
          /\ buffer' = DiscardUntilSof(SubSeq(buffer, Total(1) + 1, Len(buffer)))
          /\ delivered' = Append(delivered, buffer[HEADER_SIZE][2])
          /\ Observe(buffer[HEADER_SIZE][2]) /\ UNCHANGED errors
       \/ /\ LengthIn(buffer[HEADER_SIZE]) <= MAX_PAYLOAD /\ ~Decodes(buffer)
          /\ buffer' = DiscardUntilSof(AfterBad(buffer)) /\ errors' = TRUE
          /\ UNCHANGED <<delivered, observer_vars>>
    /\ UNCHANGED <<board_vars, line, position, tool, smoke_vars, report>>

SequenceIntegrityPass == ~gaps /\ ~faults

Latest(kind) == sent[Last(accepted[kind])]
Trusted(kind) == accepted[kind] # <<>> /\ Latest(kind).trusted

CommissioningPass ==
    /\ Trusted("status") /\ Trusted("sensor")
    /\ ~errors /\ SequenceIntegrityPass

\* apply_observation_to_record: its link check; its other checks are the rest of
\* CommissioningPass.
LinkIntegrity == ~errors /\ SequenceIntegrityPass

\* Only the first MAX_SAMPLES are kept; one of them must be usable.
CapturePass ==
    /\ \E i \in DOMAIN accepted["calibration"] :
          i <= MAX_SAMPLES /\ sent[accepted["calibration"][i]].trusted
    /\ ~errors /\ SequenceIntegrityPass

-----------------------------------------------------------------------------
(* run_smoke_commissioning *)

\* _read_until and the loops around it: one byte.
IsAnswer(b) == Value(b) # HEARTBEAT /\ Value(b) = PROBES[probe]

WriteProbe(n) ==
    /\ probe' = n
    /\ \/ pending' = IF n <= Len(PROBES) THEN Append(pending, n) ELSE pending
       \/ pending' = pending   \* the byte does not reach the board

NextProbe(echo) == answers' = Append(answers, echo) /\ WriteProbe(probe + 1)

ReadByte ==
    /\ tool = "smoke" /\ line # <<>> /\ probe <= Len(PROBES)
    /\ line' = Tail(line)
    /\ LET b == Head(line) IN
       /\ heartbeats' = IF Value(b) = HEARTBEAT THEN heartbeats + 1 ELSE heartbeats
       /\ \/ /\ probe = 0 /\ heartbeats' >= REQUIRED_HEARTBEATS
             /\ WriteProbe(1) /\ UNCHANGED answers
          \/ /\ probe > 0 /\ IsAnswer(b) /\ NextProbe(b)
          \/ /\ ~(probe = 0 /\ heartbeats' >= REQUIRED_HEARTBEATS)
             /\ ~(probe > 0 /\ IsAnswer(b))
             /\ UNCHANGED <<probe, answers, pending>>
    /\ UNCHANGED <<image, sent, number, beats_sent, damage, restarts, position,
                   tool, decoder_vars, observer_vars, timeouts, report>>

\* The wait for heartbeats, or for one echo, ends without it.
ReadTimeout ==
    /\ tool = "smoke" /\ probe <= Len(PROBES) /\ WriteProbe(probe + 1)
    /\ timeouts' = (timeouts \/ probe > 0)
    /\ UNCHANGED <<image, sent, number, beats_sent, damage, restarts, line, position,
                   tool, decoder_vars, observer_vars, heartbeats, answers, report>>

\* The faulty tool does not count the probes that timed out.
SomeEcho == answers # <<>>

EchoPass == Len(answers) = Len(PROBES) /\ ~timeouts

-----------------------------------------------------------------------------
(* main *)

Verdict ==
    CASE tool = "smoke" -> heartbeats >= REQUIRED_HEARTBEATS /\ EchoPass
      [] tool = "observe" -> CommissioningPass
      [] tool = "calibration" -> CapturePass

FreshTool(t) ==
    /\ tool' = t
    /\ buffer' = <<>> /\ errors' = FALSE /\ delivered' = <<>>
    /\ accepted' = [kind \in Kinds |-> <<>>] /\ gaps' = FALSE /\ faults' = FALSE
    /\ heartbeats' = 0 /\ probe' = 0 /\ answers' = <<>> /\ timeouts' = FALSE

\* The port is opened and its input buffer reset; the rest of a frame that is
\* being sent still arrives.
Start(t) ==
    /\ tool = "none" /\ Running /\ t = ToolFor(image) /\ FreshTool(t)
    /\ position' = 0
    /\ \/ line' = <<>> /\ UNCHANGED damage
       \/ /\ MayTrouble /\ damage' = damage + 1
          /\ \E tail \in 1 .. Total(1) - 1 :
                /\ tail <= Len(line)
                /\ line' = SubSeq(line, Len(line) - tail + 1, Len(line))
    /\ UNCHANGED <<image, sent, number, pending, beats_sent, restarts, report>>

\* The duration is over, or the last probe is; the report is printed and saved.
Finish ==
    /\ tool # "none" /\ Waits(buffer) /\ (tool = "smoke" => probe > Len(PROBES))
    /\ report' = [tool |-> tool, pass |-> Verdict,
                  linkIntegrity |-> tool = "observe" /\ LinkIntegrity]
    /\ tool' = "none"
    /\ UNCHANGED <<board_vars, line, position, decoder_vars, observer_vars, smoke_vars>>

CommissioningInit ==
    /\ image \in {"smoke", "production", "calibration"}
    /\ \E n \in FIRST_NUMBERS : number = [kind \in Kinds |-> n]
    /\ sent = <<>> /\ pending = <<>> /\ beats_sent = 0 /\ damage = 0 /\ restarts = 0
    /\ line = <<>> /\ position = 0
    /\ tool = "none" /\ buffer = <<>> /\ errors = FALSE /\ delivered = <<>>
    /\ accepted = [kind \in Kinds |-> <<>>] /\ gaps = FALSE /\ faults = FALSE
    /\ heartbeats = 0 /\ probe = 0 /\ answers = <<>> /\ timeouts = FALSE
    /\ report = NoReport

CommissioningNext ==
    \/ \E kind \in Kinds : SendFrame(kind)
    \/ Beat \/ Echo \/ Restart
    \/ ReadChunk \/ DecodeCandidate \/ ReadByte \/ ReadTimeout
    \/ \E t \in {"smoke", "observe", "calibration"} : Start(t)
    \/ Finish

CommissioningSpec == CommissioningInit /\ [][CommissioningNext]_commissioning_vars
=============================================================================
