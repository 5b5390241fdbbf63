---------------------------- MODULE LinkTransmit ----------------------------
(***************************************************************************)
(* The transmit half of the FPGA's serial link: the status-change detector *)
(* of forgesense_platform_core, status_link_tx and sensor_link_tx, which   *)
(* each serialise one frame at a time, link_tx_arbiter and uart_tx, which  *)
(* they share.                                                             *)
(*                                                                         *)
(* One step is one rising clock edge; as in SafetyCore every process is an *)
(* operator <Process>Edge from the registers and inputs before the edge to *)
(* its own registers.  A byte is named by its sender, its index and the    *)
(* sequence number and values latched for its frame; header, timestamp and *)
(* CRC are functions of these.                                             *)
(***************************************************************************)
EXTENDS Integers

CONSTANTS
    STATUS_LAST, SENSOR_LAST,  \* index of a frame's last byte, 17 and 21
    BYTE_CYCLES,               \* clock edges uart_tx is busy with a byte
    SEQUENCE_COUNT,            \* 16#10000#
    StatusVectors, ResetVector,  \* values of status_vector_i; all zeroes
    Samples, ResetSample,      \* the sensor readings of a frame; all zeroes
    InputSamples,              \* the inputs that may be sampled at an edge
    NoByte                     \* data_latched of uart_tx after reset

VARIABLES
    inputs,
    last_status_vector, status_change,
    status_busy, status_pending, status_index, status_sequence, status_latched,
    sensor_busy, sensor_index, sensor_sequence, sensor_latched, sample_dropped,
    grant,
    uart_count, data_latched     \* 0 when idle; the byte being sent

detector_vars == <<last_status_vector, status_change>>
status_vars == <<status_busy, status_pending, status_index, status_sequence,
                 status_latched>>
sensor_vars == <<sensor_busy, sensor_index, sensor_sequence, sensor_latched,
                 sample_dropped>>
uart_vars == <<uart_count, data_latched>>
transmit_vars == <<inputs, detector_vars, status_vars, sensor_vars, grant, uart_vars>>

FrameNumbers == 0 .. (SEQUENCE_COUNT - 1)

Input ==
    [rst : BOOLEAN, status : StatusVectors, status_tick : BOOLEAN,
     sample : Samples, sample_tick : BOOLEAN]

StatusByte ==
    [from : {"status"}, index : 0 .. STATUS_LAST, sequence : FrameNumbers,
     content : StatusVectors]
SensorByte ==
    [from : {"sensor"}, index : 0 .. SENSOR_LAST, sequence : FrameNumbers,
     content : Samples]

ASSUME FrameAssumption == STATUS_LAST \in Nat \ {0} /\ SENSOR_LAST \in Nat \ {0}
ASSUME CyclesAssumption == BYTE_CYCLES \in Nat \ {0}
ASSUME CountAssumption == SEQUENCE_COUNT \in Nat \ {0}
ASSUME ResetAssumption == ResetVector \in StatusVectors /\ ResetSample \in Samples
ASSUME InputsAssumption == InputSamples \subseteq Input
ASSUME NoByteAssumption == NoByte \notin StatusByte \cup SensorByte

-----------------------------------------------------------------------------
(* Combinational logic *)

StatusTrigger == inputs.status_tick \/ status_change
UartReady == uart_count = 0
StatusReady == grant = "status" /\ UartReady
SensorReady == grant = "sensor" /\ UartReady
UartValid == (grant = "status" /\ status_busy) \/ (grant = "sensor" /\ sensor_busy)
UartByte ==
    IF grant = "status"
    THEN [from |-> "status", index |-> status_index,
          sequence |-> status_sequence, content |-> status_latched]
    ELSE [from |-> "sensor", index |-> sensor_index,
          sequence |-> sensor_sequence, content |-> sensor_latched]

-----------------------------------------------------------------------------
\* sample_dropped has no default and is not read before the first reset edge.
TransmitInit ==
    /\ inputs \in {i \in InputSamples : i.rst}
    /\ last_status_vector = ResetVector /\ status_change = FALSE
    /\ status_busy = FALSE /\ status_pending = FALSE /\ status_index = 0
    /\ status_sequence = 0 /\ status_latched = ResetVector
    /\ sensor_busy = FALSE /\ sensor_index = 0 /\ sensor_sequence = 0
    /\ sensor_latched = ResetSample /\ sample_dropped = FALSE
    /\ grant = "none"
    /\ uart_count = 0 /\ data_latched = NoByte

-----------------------------------------------------------------------------
(* forgesense_platform_core: status_vector_i against last_status_vector_i *)
DetectorEdge ==
    \/ /\ inputs.rst
       /\ last_status_vector' = ResetVector /\ status_change' = FALSE
    \/ /\ ~inputs.rst
       /\ last_status_vector' = inputs.status
       /\ status_change' = (inputs.status # last_status_vector)

(* status_link_tx *)

StatusReset ==
    /\ inputs.rst
    /\ status_busy' = FALSE /\ status_pending' = FALSE /\ status_index' = 0
    /\ status_sequence' = 0 /\ status_latched' = ResetVector

\* A trigger while idle, or one remembered from the last frame.
CaptureStatus ==
    /\ ~inputs.rst /\ ~status_busy
    /\ StatusTrigger \/ status_pending
    /\ status_busy' = TRUE /\ status_pending' = FALSE /\ status_index' = 0
    /\ status_latched' = inputs.status
    /\ UNCHANGED status_sequence

StatusIdle ==
    /\ ~inputs.rst /\ ~status_busy /\ ~StatusTrigger /\ ~status_pending
    /\ UNCHANGED status_vars

\* Faulty variant: a trigger during a frame is forgotten.
ForgetsTrigger == UNCHANGED status_pending

\* A trigger during a frame is remembered, however many there are.
RememberTrigger == status_pending' = (status_pending \/ StatusTrigger)

StatusSending ==
    /\ ~inputs.rst /\ status_busy /\ RememberTrigger
    /\ UNCHANGED status_latched
    /\ \/ /\ ~StatusReady
          /\ UNCHANGED <<status_busy, status_index, status_sequence>>
       \/ /\ StatusReady /\ status_index < STATUS_LAST
          /\ status_index' = status_index + 1
          /\ UNCHANGED <<status_busy, status_sequence>>
       \/ /\ StatusReady /\ status_index = STATUS_LAST
          /\ status_busy' = FALSE /\ status_index' = 0
          /\ status_sequence' = (status_sequence + 1) % SEQUENCE_COUNT

StatusTxEdge == StatusReset \/ CaptureStatus \/ StatusIdle \/ StatusSending

(* sensor_link_tx *)

SensorReset ==
    /\ inputs.rst
    /\ sensor_busy' = FALSE /\ sensor_index' = 0 /\ sensor_sequence' = 0
    /\ sensor_latched' = ResetSample /\ sample_dropped' = FALSE

CaptureSample ==
    /\ ~inputs.rst /\ ~sensor_busy /\ inputs.sample_tick
    /\ sensor_busy' = TRUE /\ sensor_index' = 0
    /\ sensor_latched' = inputs.sample /\ sample_dropped' = FALSE
    /\ UNCHANGED sensor_sequence

SensorIdle ==
    /\ ~inputs.rst /\ ~sensor_busy /\ ~inputs.sample_tick
    /\ sample_dropped' = FALSE
    /\ UNCHANGED <<sensor_busy, sensor_index, sensor_sequence, sensor_latched>>

SensorSending ==
    /\ ~inputs.rst /\ sensor_busy
    /\ sample_dropped' = inputs.sample_tick
    /\ UNCHANGED sensor_latched
    /\ \/ /\ ~SensorReady
          /\ UNCHANGED <<sensor_busy, sensor_index, sensor_sequence>>
       \/ /\ SensorReady /\ sensor_index < SENSOR_LAST
          /\ sensor_index' = sensor_index + 1
          /\ UNCHANGED <<sensor_busy, sensor_sequence>>
       \/ /\ SensorReady /\ sensor_index = SENSOR_LAST
          /\ sensor_busy' = FALSE /\ sensor_index' = 0
          /\ sensor_sequence' = (sensor_sequence + 1) % SEQUENCE_COUNT

SensorTxEdge == SensorReset \/ CaptureSample \/ SensorIdle \/ SensorSending

\* Faulty variant: a status frame takes the link from a sensor frame.
StatusPreempts ==
    grant' = IF inputs.rst THEN "none"
             ELSE IF status_busy THEN "status"
             ELSE IF sensor_busy THEN "sensor" ELSE "none"

\* Faulty variant: the sensor's grant is not withdrawn when its frame ends.
SensorKeepsGrant ==
    grant' = IF inputs.rst THEN "none"
             ELSE IF grant = "none" /\ status_busy THEN "status"
             ELSE IF grant = "none" /\ sensor_busy THEN "sensor"
             ELSE IF grant = "status" /\ ~status_busy THEN "none" ELSE grant

\* Faulty variant: the status sender's grant is not withdrawn.
StatusKeepsGrant ==
    grant' = IF inputs.rst THEN "none"
             ELSE IF grant = "none" /\ status_busy THEN "status"
             ELSE IF grant = "none" /\ sensor_busy THEN "sensor"
             ELSE IF grant = "sensor" /\ ~sensor_busy THEN "none" ELSE grant

(* link_tx_arbiter: a grant is kept until its sender's valid drops *)
ArbiterEdge ==
    \/ inputs.rst /\ grant' = "none"
    \/ ~inputs.rst /\ grant = "none" /\ status_busy /\ grant' = "status"
    \/ /\ ~inputs.rst /\ grant = "none" /\ ~status_busy /\ sensor_busy
       /\ grant' = "sensor"
    \/ /\ ~inputs.rst
       /\ \/ grant = "status" /\ ~status_busy
          \/ grant = "sensor" /\ ~sensor_busy
       /\ grant' = "none"
    \/ /\ ~inputs.rst
       /\ \/ grant = "none" /\ ~status_busy /\ ~sensor_busy
          \/ grant = "status" /\ status_busy
          \/ grant = "sensor" /\ sensor_busy
       /\ UNCHANGED grant

(* uart_tx: start bit, eight data bits and stop bit of one byte *)
UartEdge ==
    \/ inputs.rst /\ uart_count' = 0 /\ data_latched' = NoByte
    \/ /\ ~inputs.rst /\ UartReady /\ UartValid
       /\ uart_count' = BYTE_CYCLES /\ data_latched' = UartByte
    \/ ~inputs.rst /\ UartReady /\ ~UartValid /\ UNCHANGED uart_vars
    \/ ~inputs.rst /\ ~UartReady /\ uart_count' = uart_count - 1 /\ UNCHANGED data_latched

-----------------------------------------------------------------------------

LinkEdge ==
    /\ DetectorEdge /\ StatusTxEdge /\ SensorTxEdge /\ ArbiterEdge /\ UartEdge

TransmitNext == LinkEdge /\ inputs' \in InputSamples

\* The clock never stops.
TransmitSpec == TransmitInit /\ [][TransmitNext]_transmit_vars /\ WF_transmit_vars(TransmitNext)

-----------------------------------------------------------------------------

\* Every register of the transmit path holds a value of its range.
TransmitTypeOK ==
    /\ inputs \in InputSamples
    /\ last_status_vector \in StatusVectors /\ status_change \in BOOLEAN
    /\ status_busy \in BOOLEAN /\ status_pending \in BOOLEAN
    /\ status_index \in 0 .. STATUS_LAST /\ status_sequence \in FrameNumbers
    /\ status_latched \in StatusVectors
    /\ sensor_busy \in BOOLEAN /\ sensor_index \in 0 .. SENSOR_LAST
    /\ sensor_sequence \in FrameNumbers /\ sensor_latched \in Samples
    /\ sample_dropped \in BOOLEAN
    /\ grant \in {"none", "status", "sensor"}
    /\ uart_count \in 0 .. BYTE_CYCLES
    /\ data_latched \in StatusByte \cup SensorByte \cup {NoByte}

LastIndex(byte) == IF byte.from = "status" THEN STATUS_LAST ELSE SENSOR_LAST

\* What reaches the wire is a sequence of whole frames: after a byte that is
\* not the last of its frame comes the next byte of the same frame, with the
\* content and number its first byte was captured under, and after a last byte
\* a first one, whatever the senders capture and drop meanwhile.
Continues(byte, next) ==
    IF byte # NoByte /\ byte.index < LastIndex(byte)
    THEN next = [byte EXCEPT !.index = byte.index + 1]
    ELSE next.index = 0

FramesIntact ==
    [][ ~inputs.rst /\ data_latched' # data_latched
          => Continues(data_latched, data_latched') ]_transmit_vars

\* No change of the status is lost to a busy sender: once the path is quiet the
\* last captured status is the present one.
StatusIsReported ==
    /\ ~status_busy /\ ~status_pending /\ ~status_change
    /\ inputs.status = last_status_vector
    => status_latched = inputs.status

\* A status that lasts becomes the one being reported, and its frames keep being
\* completed: neither sensor frames nor the sender's own backlog hold it up.
StatusSettles ==
    \A v \in StatusVectors :
        <>[](~inputs.rst /\ inputs.status = v)
            => <>[](status_latched = v) /\ []<>~status_busy

\* The status sender has nothing to send.
StatusQuiet == ~status_busy /\ ~status_pending /\ ~StatusTrigger

\* A captured sample is sent, provided the status sender is quiet again and
\* again: priority alone does not starve the sensor frames.
SensorServed ==
    <>[]~inputs.rst /\ []<>StatusQuiet => []<>~sensor_busy
=============================================================================
