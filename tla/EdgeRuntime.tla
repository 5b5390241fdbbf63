----------------------------- MODULE EdgeRuntime -----------------------------
(***************************************************************************)
(* The main loop of the ESP32 edge application (app_main) over its link     *)
(* service: frames of the FPGA are read in chunks, pass one sequence gate   *)
(* for each kind, wait in a bounded queue and are handled one at a time.    *)
(*                                                                         *)
(* The wire is what the FPGA numbers and sends, less the frames that fail   *)
(* their CRC.  The FPGA may restart, and so may the ESP32.  A sensor frame  *)
(* is kept as whether all its channels are valid, a status frame as the     *)
(* alarms that app_main records.  Content and numbering of the answers and  *)
(* telemetry are left out.                                                 *)
(***************************************************************************)
EXTENDS Integers, Sequences

CONSTANTS
    SEQUENCE_HALF_RANGE,  \* 2^15
    READ_FRAMES,          \* frames that can end in one read of 96 bytes: 6
    PENDING_CAPACITY,     \* kPendingCapacity
    WINDOW_SIZE,          \* kWindowSize
    LINK_LOSS,            \* CONFIG_FORGESENSE_LINK_LOSS_MS, in ticks
    Alarms                \* hard critical, emergency, recovery

VARIABLES
    number,               \* FPGA: the next sequence number of each kind
    last_sequence,        \* SequenceGate of each kind
    pending, dropped,     \* LinkService
    pc, frames,           \* inside receive: frames decoded in this read
    count,                \* EdgeInferenceRuntime: rows in the window
    age,                  \* since last_sensor_rx_ms; beyond LINK_LOSS as LINK_LOSS
    link_loss_logged, sensor_invalid_logged,
    previous_alarms       \* previous_safety_flags, previous_state_code

link_vars == <<last_sequence, pending, dropped>>
read_vars == <<pc, frames>>
runtime_vars == <<count, age, link_loss_logged, sensor_invalid_logged, previous_alarms>>
vars == <<number, link_vars, read_vars, runtime_vars>>

Kinds == {"sensor", "status"}
SequenceNumbers == 0 .. (2 * SEQUENCE_HALF_RANGE - 1)
NoSequence == -1   \* have_sequence_ is false

SensorFrame == [kind : {"sensor"}, valid : BOOLEAN]
StatusFrame == [kind : {"status"}, alarms : SUBSET Alarms]
Frame == SensorFrame \cup StatusFrame

ASSUME RangeAssumption == SEQUENCE_HALF_RANGE \in Nat \ {0}
ASSUME ReadAssumption ==
    READ_FRAMES \in Nat /\ PENDING_CAPACITY \in Nat \ {0} /\ READ_FRAMES <= PENDING_CAPACITY
ASSUME WindowAssumption == WINDOW_SIZE \in Nat \ {0}
ASSUME LossAssumption == LINK_LOSS \in Nat \ {0}

-----------------------------------------------------------------------------

Init ==
    /\ number = [k \in Kinds |-> 0]
    /\ last_sequence = [k \in Kinds |-> NoSequence]
    /\ pending = <<>> /\ dropped = 0
    /\ pc = "loop" /\ frames = 0
    /\ count = 0 /\ age = 0
    /\ link_loss_logged = FALSE /\ sensor_invalid_logged = FALSE
    /\ previous_alarms = {}

(* The wire and the clock *)

Advanced(k) == [number EXCEPT ![k] = (@ + 1) % (2 * SEQUENCE_HALF_RANGE)]

FrameLost(k) == number' = Advanced(k) /\ UNCHANGED <<link_vars, read_vars, runtime_vars>>

FpgaReset ==
    /\ number' = [k \in Kinds |-> 0]
    /\ UNCHANGED <<link_vars, read_vars, runtime_vars>>

TimePasses ==
    /\ age < LINK_LOSS /\ age' = age + 1
    /\ UNCHANGED <<number, link_vars, read_vars, count,
                   link_loss_logged, sensor_invalid_logged, previous_alarms>>

(* LinkService *)

\* Faulty variant: numbers compared as plain integers.
PlainlyNewer(candidate, previous) == candidate > previous

sequence_is_newer(candidate, previous) ==
    (candidate - previous) % (2 * SEQUENCE_HALF_RANGE) \in 1 .. (SEQUENCE_HALF_RANGE - 1)

Accepts(k) ==
    \/ last_sequence[k] = NoSequence
    \/ sequence_is_newer(number[k], last_sequence[k])

\* A full queue gives up its oldest message.
Enqueue(m) ==
    IF Len(pending) = PENDING_CAPACITY
    THEN pending' = Append(Tail(pending), m) /\ dropped' = dropped + 1
    ELSE pending' = Append(pending, m) /\ UNCHANGED dropped

\* Faulty variant: the UART is read before the queue is drained.
ReadsEagerly ==
    /\ pc = "loop" /\ pc' = "read" /\ frames' = 0
    /\ UNCHANGED <<number, link_vars, runtime_vars>>

StartRead ==
    /\ pc = "loop" /\ pending = <<>>
    /\ pc' = "read" /\ frames' = 0
    /\ UNCHANGED <<number, link_vars, runtime_vars>>

Decode(k) ==
    /\ pc = "read" /\ frames < READ_FRAMES /\ frames' = frames + 1
    /\ number' = Advanced(k)
    /\ UNCHANGED <<pc, runtime_vars>>

AcceptFrame(m) ==
    /\ Decode(m.kind) /\ Accepts(m.kind)
    /\ last_sequence' = [last_sequence EXCEPT ![m.kind] = number[m.kind]]
    /\ Enqueue(m)

RejectStaleFrame(m) ==
    /\ Decode(m.kind) /\ ~Accepts(m.kind)
    /\ UNCHANGED link_vars

ReceiveReturns ==
    /\ pc = "read" /\ pending # <<>>
    /\ pc' = "loop" /\ frames' = 0
    /\ UNCHANGED <<number, link_vars, runtime_vars>>

(* The loop of app_main *)

LinkLost == age >= LINK_LOSS /\ ~link_loss_logged

\* receive returns false: nothing was read, or nothing that passed a gate.
ReceiveSilent ==
    /\ pc = "read" /\ pending = <<>>
    /\ pc' = "loop" /\ frames' = 0
    /\ count' = IF LinkLost THEN 0 ELSE count
    /\ link_loss_logged' = (link_loss_logged \/ LinkLost)
    /\ UNCHANGED <<number, link_vars, age, sensor_invalid_logged, previous_alarms>>

Dequeue ==
    /\ pc = "loop" /\ pending # <<>> /\ pending' = Tail(pending)
    /\ UNCHANGED <<number, last_sequence, dropped, read_vars>>

\* The alarms a status frame is the first to report, each appended as an event.
Raised(m) == m.alarms \ previous_alarms

\* Faulty variant: an alarm is remembered for good once it was seen.
StatusAccumulates ==
    /\ Dequeue /\ Head(pending).kind = "status"
    /\ previous_alarms' = previous_alarms \cup Head(pending).alarms
    /\ UNCHANGED <<count, age, link_loss_logged, sensor_invalid_logged>>

\* Faulty variant: any frame counts as a sign of life of the sensor stream.
StatusIsContact ==
    /\ Dequeue /\ Head(pending).kind = "status"
    /\ previous_alarms' = Head(pending).alarms /\ age' = 0
    /\ UNCHANGED <<count, link_loss_logged, sensor_invalid_logged>>

HandleStatus ==
    /\ Dequeue /\ Head(pending).kind = "status"
    /\ previous_alarms' = Head(pending).alarms
    /\ UNCHANGED <<count, age, link_loss_logged, sensor_invalid_logged>>

\* Faulty variant: an invalid frame is passed over.
InvalidPassedOver ==
    /\ Dequeue /\ Head(pending).kind = "sensor" /\ ~Head(pending).valid
    /\ age' = 0 /\ link_loss_logged' = FALSE
    /\ sensor_invalid_logged' = TRUE
    /\ UNCHANGED <<count, previous_alarms>>

\* Appends LinkRecovered if link_loss_logged, SensorInvalid if not yet logged.
HandleInvalidSensor ==
    /\ Dequeue /\ Head(pending).kind = "sensor" /\ ~Head(pending).valid
    /\ age' = 0 /\ link_loss_logged' = FALSE
    /\ count' = 0 /\ sensor_invalid_logged' = TRUE
    /\ UNCHANGED previous_alarms

Ingest == IF count < WINDOW_SIZE THEN count + 1 ELSE count

\* An observation is sent when the window is full; sending may fail.
HandleValidSensor ==
    /\ Dequeue /\ Head(pending).kind = "sensor" /\ Head(pending).valid
    /\ age' = 0 /\ link_loss_logged' = FALSE
    /\ count' = Ingest /\ sensor_invalid_logged' = FALSE
    /\ UNCHANGED previous_alarms

\* Everything but the NVS is lost.
Reboot ==
    /\ last_sequence' = [k \in Kinds |-> NoSequence]
    /\ pending' = <<>> /\ dropped' = 0
    /\ pc' = "loop" /\ frames' = 0
    /\ count' = 0 /\ age' = 0
    /\ link_loss_logged' = FALSE /\ sensor_invalid_logged' = FALSE
    /\ previous_alarms' = {}
    /\ UNCHANGED number

-----------------------------------------------------------------------------

LoopStep ==
    \/ StartRead \/ ReceiveReturns \/ ReceiveSilent
    \/ HandleStatus \/ HandleInvalidSensor \/ HandleValidSensor

Next ==
    \/ \E k \in Kinds : FrameLost(k)
    \/ FpgaReset \/ TimePasses \/ Reboot
    \/ \E m \in Frame : AcceptFrame(m) \/ RejectStaleFrame(m)
    \/ LoopStep

\* The application task runs and its clock goes on; nothing is assumed of the
\* FPGA and the wire.
Fairness == WF_vars(LoopStep) /\ WF_vars(TimePasses)

Spec == Init /\ [][Next]_vars /\ Fairness
=============================================================================
