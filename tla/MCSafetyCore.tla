---------------------------- MODULE MCSafetyCore ----------------------------
(***************************************************************************)
(* Small instances of SafetyMonitor for TLC.                               *)
(***************************************************************************)
EXTENDS SafetyMonitor

Nominal ==
    [rst |-> FALSE, emergency |-> FALSE, external_hard_trip |-> FALSE,
     sensors_valid |-> TRUE, reading |-> "normal", recovery_req |-> FALSE]

\* The nominal pins and each single departure from them.
Departures ==
    {Nominal,
     [Nominal EXCEPT !.rst = TRUE],
     [Nominal EXCEPT !.emergency = TRUE],
     [Nominal EXCEPT !.external_hard_trip = TRUE],
     [Nominal EXCEPT !.sensors_valid = FALSE],
     [Nominal EXCEPT !.reading = "warning"],
     [Nominal EXCEPT !.reading = "critical"]}

\* With a recovery request on nominal pins, under a warning and under a trip.
MCPins ==
    Departures \cup
    {[p EXCEPT !.recovery_req = TRUE] :
        p \in {Nominal, [Nominal EXCEPT !.reading = "warning"],
               [Nominal EXCEPT !.emergency = TRUE]}}

\* The reduced pins of the liveness run.
MCLivePins ==
    {[p EXCEPT !.recovery_req = TRUE] :
        p \in {Nominal, [Nominal EXCEPT !.rst = TRUE],
               [Nominal EXCEPT !.emergency = TRUE]}}

Good(sequence, class) ==
    [observation_valid |-> TRUE, model_matches |-> TRUE,
     inference_age_ms |-> MAX_INFERENCE_AGE_MS,
     sequence_number |-> sequence, health_class |-> class]

\* A frame for each way of being refused by the gate.
Bad ==
    {[Good(1, 0) EXCEPT !.observation_valid = FALSE],
     [Good(1, 0) EXCEPT !.model_matches = FALSE],
     [Good(1, 0) EXCEPT !.inference_age_ms = MAX_INFERENCE_AGE_MS + 1]}

MCFrames == {Good(s, h) : s \in SequenceNumbers, h \in 0 .. 2} \cup Bad
MCLiveFrames == {Good(s, h) : s \in SequenceNumbers, h \in {0, 2}}
=============================================================================
