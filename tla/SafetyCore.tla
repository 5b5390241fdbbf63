----------------------------- MODULE SafetyCore -----------------------------
(***************************************************************************)
(* The FPGA control path that owns the load: intelligence_gate, the        *)
(* retained ML observation of forgesense_core, the ready latch of          *)
(* forgesense_platform_core, the communication watchdog, the hard limits   *)
(* and safety_fsm.                                                         *)
(*                                                                         *)
(* One step of Next is one rising clock edge.  Every VHDL process of the   *)
(* path is an operator <Process>Edge that reads the registers and pins as  *)
(* they stand before the edge (unprimed) and assigns its own registers     *)
(* (primed); Next is their conjunction, as all processes fire on the same  *)
(* edge.  Concurrent assignments are state functions.                      *)
(*                                                                         *)
(* The byte-level receiver is abstracted to the registers it drives: a     *)
(* one-cycle frame_valid pulse and the decoded fields.                     *)
(***************************************************************************)
EXTENDS Integers

CONSTANTS
    WATCHDOG_TIMEOUT_CYCLES,  \* generic of safety_core
    SEQUENCE_HALF_RANGE,      \* half of the sequence space, 16#8000# in the source
    MAX_INFERENCE_AGE_MS,     \* generic of intelligence_gate
    PinSamples,               \* the values of the pins that may be sampled
    ArrivingFrames            \* the frames the receiver may deliver

VARIABLES
    pins,                     \* input pins, stable before the next edge
    frame_valid, frame,       \* link_receiver outputs
    accepted, watchdog_kick,  \* intelligence_gate outputs
    have_sequence, last_sequence,
    ml_have, ml_warning, ml_critical,    \* retained observation
    ready_latched,                       \* startup_done
    counter, expired,                    \* watchdog; expired is comm_timeout
    state, latched                       \* safety_fsm

receiver_vars == <<frame_valid, frame>>
gate_vars == <<accepted, watchdog_kick, have_sequence, last_sequence>>
ml_vars == <<ml_have, ml_warning, ml_critical>>
watchdog_vars == <<counter, expired>>
fsm_vars == <<state, latched>>
vars == <<pins, receiver_vars, gate_vars, ml_vars, ready_latched,
          watchdog_vars, fsm_vars>>

SequenceNumbers == 0 .. (2 * SEQUENCE_HALF_RANGE - 1)
States == {"STARTUP", "RUN", "WARNING", "SHUTDOWN", "FAULT_LATCHED", "RECOVERY"}

\* The three limit comparisons of hard_limit_monitor are kept as the class of
\* the worst of the three readings.
PinSample ==
    [rst : BOOLEAN, emergency : BOOLEAN, external_hard_trip : BOOLEAN,
     sensors_valid : BOOLEAN, reading : {"normal", "warning", "critical"},
     recovery_req : BOOLEAN]

\* model_id, model_version and feature_schema_version are compared with
\* constants only: model_matches says that all three agree.
Frame ==
    [observation_valid : BOOLEAN, model_matches : BOOLEAN,
     inference_age_ms : Nat, sequence_number : SequenceNumbers,
     health_class : 0 .. 3]

ZeroFrame ==
    [observation_valid |-> FALSE, model_matches |-> FALSE,
     inference_age_ms |-> 0, sequence_number |-> 0, health_class |-> 0]

ASSUME TimeoutAssumption == WATCHDOG_TIMEOUT_CYCLES \in Nat \ {0}
ASSUME HalfRangeAssumption == SEQUENCE_HALF_RANGE \in Nat \ {0}
ASSUME AgeAssumption == MAX_INFERENCE_AGE_MS \in Nat
ASSUME PinsAssumption == PinSamples \subseteq PinSample
ASSUME FramesAssumption == ArrivingFrames \subseteq Frame

-----------------------------------------------------------------------------
(* Combinational logic. *)

LimitCritical == ~pins.sensors_valid \/ pins.reading = "critical"
HardWarning == ~LimitCritical /\ pins.reading = "warning"
HardCritical == LimitCritical \/ pins.external_hard_trip
WatchdogRst == pins.rst \/ ~ready_latched
LoadEnable == state \in {"RUN", "WARNING"}
WarningActive == state = "WARNING"

\* Faulty variant: half the sequence space counts as newer both ways.
IsNewerOrOpposite(candidate, previous) ==
    LET delta == (candidate - previous) % (2 * SEQUENCE_HALF_RANGE)
    IN  delta # 0 /\ delta <= SEQUENCE_HALF_RANGE

\* Serial-number comparison of two 16-bit numbers (delta wraps).
IsNewer(candidate, previous) ==
    LET delta == (candidate - previous) % (2 * SEQUENCE_HALF_RANGE)
    IN  delta # 0 /\ delta < SEQUENCE_HALF_RANGE

Compatible ==
    /\ frame.observation_valid
    /\ frame.model_matches
    /\ frame.inference_age_ms <= MAX_INFERENCE_AGE_MS

FreshSequence ==
    \/ ~have_sequence
    \/ IsNewer(frame.sequence_number, last_sequence)

-----------------------------------------------------------------------------
(* Registers before the first edge.  The out ports without a default        *)
(* (frame_valid, accepted, watchdog_kick) power up with any value; the     *)
(* board holds rst for the first edges.                                    *)

Init ==
    /\ pins \in {p \in PinSamples : p.rst}
    /\ frame_valid \in BOOLEAN /\ frame = ZeroFrame
    /\ accepted \in BOOLEAN /\ watchdog_kick \in BOOLEAN
    /\ have_sequence = FALSE /\ last_sequence = 0
    /\ ml_have = FALSE /\ ml_warning = FALSE /\ ml_critical = FALSE
    /\ ready_latched = FALSE
    /\ counter = 0 /\ expired = FALSE
    /\ state = "STARTUP" /\ latched = FALSE

-----------------------------------------------------------------------------
(* link_receiver: frame_valid is a pulse; a frame takes 28 bytes, so the    *)
(* fields of a delivered frame outlive the two edges that use them.        *)

ReceiverEdge ==
    \/ /\ pins.rst
       /\ frame_valid' = FALSE /\ frame' = ZeroFrame
    \/ /\ ~pins.rst
       /\ frame_valid' = FALSE /\ UNCHANGED frame
    \/ /\ ~pins.rst /\ ~frame_valid
       /\ frame_valid' = TRUE /\ frame' \in ArrivingFrames

\* Faulty variant: any frame kicks the watchdog, accepted or not.
KickOnAnyFrame ==
    \/ /\ pins.rst
       /\ accepted' = FALSE /\ watchdog_kick' = FALSE
       /\ have_sequence' = FALSE /\ last_sequence' = 0
    \/ /\ ~pins.rst /\ frame_valid /\ Compatible /\ FreshSequence
       /\ accepted' = TRUE /\ watchdog_kick' = TRUE
       /\ have_sequence' = TRUE /\ last_sequence' = frame.sequence_number
    \/ /\ ~pins.rst /\ ~(frame_valid /\ Compatible /\ FreshSequence)
       /\ accepted' = FALSE /\ watchdog_kick' = frame_valid
       /\ UNCHANGED <<have_sequence, last_sequence>>

(* intelligence_gate *)
GateEdge ==
    \/ /\ pins.rst
       /\ accepted' = FALSE /\ watchdog_kick' = FALSE
       /\ have_sequence' = FALSE /\ last_sequence' = 0
    \/ /\ ~pins.rst /\ frame_valid /\ Compatible /\ FreshSequence
       /\ accepted' = TRUE /\ watchdog_kick' = TRUE
       /\ have_sequence' = TRUE /\ last_sequence' = frame.sequence_number
    \/ /\ ~pins.rst /\ ~(frame_valid /\ Compatible /\ FreshSequence)
       /\ accepted' = FALSE /\ watchdog_kick' = FALSE
       /\ UNCHANGED <<have_sequence, last_sequence>>

\* Faulty variant: only the first accepted observation is retained.
RetainFirstOnly ==
    \/ /\ pins.rst
       /\ ml_have' = FALSE /\ ml_warning' = FALSE /\ ml_critical' = FALSE
    \/ /\ ~pins.rst /\ accepted /\ ~ml_have
       /\ ml_have' = TRUE
       /\ ml_warning' = (frame.health_class = 1)
       /\ ml_critical' = (frame.health_class = 2)
    \/ /\ ~pins.rst /\ (ml_have \/ ~accepted)
       /\ UNCHANGED ml_vars

(* forgesense_core: the accepted observation is retained until the next one *)
MlLatchEdge ==
    \/ /\ pins.rst
       /\ ml_have' = FALSE /\ ml_warning' = FALSE /\ ml_critical' = FALSE
    \/ /\ ~pins.rst /\ accepted
       /\ ml_have' = TRUE
       /\ ml_warning' = (frame.health_class = 1)
       /\ ml_critical' = (frame.health_class = 2)
    \/ /\ ~pins.rst /\ ~accepted
       /\ UNCHANGED ml_vars

\* Faulty variant: ready one edge before the observation is retained.
ReadyOnArrival ==
    \/ pins.rst /\ ready_latched' = FALSE
    \/ ~pins.rst /\ (frame_valid \/ accepted) /\ ready_latched' = TRUE
    \/ ~pins.rst /\ ~frame_valid /\ ~accepted /\ UNCHANGED ready_latched

(* forgesense_platform_core: startup is done once an observation is accepted *)
ReadyEdge ==
    \/ pins.rst /\ ready_latched' = FALSE
    \/ ~pins.rst /\ accepted /\ ready_latched' = TRUE
    \/ ~pins.rst /\ ~accepted /\ UNCHANGED ready_latched

\* Faulty variant: a kick restarts the counter but leaves the expiry set.
ExpiryOutlivesKick ==
    \/ /\ WatchdogRst \/ watchdog_kick
       /\ counter' = 0 /\ expired' = (expired /\ ~WatchdogRst)
    \/ /\ ~WatchdogRst /\ ~watchdog_kick /\ counter < WATCHDOG_TIMEOUT_CYCLES
       /\ counter' = counter + 1
       /\ expired' = (expired \/ counter = WATCHDOG_TIMEOUT_CYCLES - 1)
    \/ /\ ~WatchdogRst /\ ~watchdog_kick /\ counter >= WATCHDOG_TIMEOUT_CYCLES
       /\ expired' = TRUE /\ UNCHANGED counter

(* watchdog: a kick wins over the expiry of the same edge *)
WatchdogEdge ==
    \/ /\ WatchdogRst \/ watchdog_kick
       /\ counter' = 0 /\ expired' = FALSE
    \/ /\ ~WatchdogRst /\ ~watchdog_kick /\ counter < WATCHDOG_TIMEOUT_CYCLES
       /\ counter' = counter + 1
       /\ expired' = (expired \/ counter = WATCHDOG_TIMEOUT_CYCLES - 1)
    \/ /\ ~WatchdogRst /\ ~watchdog_kick /\ counter >= WATCHDOG_TIMEOUT_CYCLES
       /\ expired' = TRUE /\ UNCHANGED counter

-----------------------------------------------------------------------------
(* safety_fsm *)

SafetyDemand == expired \/ (ml_have /\ ml_critical)
WarningDemand == HardWarning \/ (ml_have /\ ml_warning)
Trip == pins.emergency \/ HardCritical
Quiet == ~pins.rst /\ ~Trip

FsmReset == pins.rst /\ state' = "STARTUP" /\ latched' = FALSE

\* From every state, and ahead of every other condition.
FsmTrip == ~pins.rst /\ Trip /\ state' = "FAULT_LATCHED" /\ latched' = TRUE

SafeShutdown ==
    /\ Quiet /\ SafetyDemand
    /\ state \in {"STARTUP", "RUN", "WARNING"}
    /\ state' = "SHUTDOWN" /\ UNCHANGED latched

LeaveStartup ==
    /\ Quiet /\ state = "STARTUP" /\ ~SafetyDemand /\ ready_latched
    /\ state' = IF WarningDemand THEN "WARNING" ELSE "RUN"
    /\ UNCHANGED latched

RaiseWarning ==
    /\ Quiet /\ state = "RUN" /\ ~SafetyDemand /\ WarningDemand
    /\ state' = "WARNING" /\ UNCHANGED latched

\* Here ml_warning is read without ml_have.
ClearWarning ==
    /\ Quiet /\ state = "WARNING" /\ ~SafetyDemand
    /\ ~HardWarning /\ ~ml_warning
    /\ state' = "RUN" /\ UNCHANGED latched

\* Faulty variant: a shutdown ends as soon as its cause is gone.
RestartWhenClear ==
    /\ Quiet /\ state = "SHUTDOWN"
    /\ ~expired /\ ~HardWarning /\ ~ml_critical
    /\ state' = "RECOVERY" /\ UNCHANGED latched

RecoverFromShutdown ==
    /\ Quiet /\ state = "SHUTDOWN" /\ pins.recovery_req
    /\ ~expired /\ ~HardWarning /\ ~ml_critical
    /\ state' = "RECOVERY" /\ UNCHANGED latched

\* Neither the watchdog nor the ML observation is consulted.
RecoverFromFault ==
    /\ Quiet /\ state = "FAULT_LATCHED" /\ pins.recovery_req
    /\ state' = "RECOVERY" /\ latched' = FALSE

FinishRecovery ==
    /\ Quiet /\ state = "RECOVERY"
    /\ state' = "STARTUP" /\ UNCHANGED latched

\* No branch of the case statement assigns.
Hold ==
    /\ Quiet
    /\ \/ state = "STARTUP" /\ ~SafetyDemand /\ ~ready_latched
       \/ state = "RUN" /\ ~SafetyDemand /\ ~WarningDemand
       \/ state = "WARNING" /\ ~SafetyDemand /\ (HardWarning \/ ml_warning)
       \/ state = "SHUTDOWN" /\ ~(/\ pins.recovery_req /\ ~expired
                                  /\ ~HardWarning /\ ~ml_critical)
       \/ state = "FAULT_LATCHED" /\ ~pins.recovery_req
    /\ UNCHANGED fsm_vars

FsmEdge ==
    \/ FsmReset \/ FsmTrip \/ SafeShutdown \/ LeaveStartup \/ RaiseWarning
    \/ ClearWarning \/ RecoverFromShutdown \/ RecoverFromFault
    \/ FinishRecovery \/ Hold

-----------------------------------------------------------------------------

CoreEdge ==
    /\ ReceiverEdge /\ GateEdge /\ MlLatchEdge /\ ReadyEdge
    /\ WatchdogEdge /\ FsmEdge

Next == CoreEdge /\ pins' \in PinSamples

\* The clock never stops.
Spec == Init /\ [][Next]_vars /\ WF_vars(Next)

-----------------------------------------------------------------------------

\* Every register of the control path stays within its declared range.
TypeOK ==
    /\ pins \in PinSamples
    /\ frame_valid \in BOOLEAN /\ frame \in ArrivingFrames \cup {ZeroFrame}
    /\ accepted \in BOOLEAN /\ watchdog_kick \in BOOLEAN
    /\ have_sequence \in BOOLEAN /\ last_sequence \in SequenceNumbers
    /\ ml_have \in BOOLEAN /\ ml_warning \in BOOLEAN /\ ml_critical \in BOOLEAN
    /\ ready_latched \in BOOLEAN
    /\ counter \in 0 .. WATCHDOG_TIMEOUT_CYCLES /\ expired \in BOOLEAN
    /\ state \in States /\ latched \in BOOLEAN
=============================================================================
