---------------------------- MODULE SensorChain ----------------------------
(***************************************************************************)
(* The sensor path of forgesense_sensor_board_core from conditioned samples *)
(* to the validity the control path acts on: timebase_ms, sensor_frontend  *)
(* (linear_sensor_adapter, vibration_rms_window) and sensor_supervisor.    *)
(*                                                                         *)
(* One step is one rising clock edge.  The three channels run the same     *)
(* code with their own constants and are members of Channels.  A reading   *)
(* is kept as its place in the channel's plausibility range.  The board    *)
(* takes readings from the frontend and only validity from the supervisor, *)
(* whose value outputs are left open.                                      *)
(***************************************************************************)
EXTENDS Integers

CONSTANTS
    Channels,
    STALE_MS,         \* [Channels -> Nat], TEMP_STALE_MS and its like
    WINDOW_SAMPLES,   \* [Channels -> Nat], raw samples to one reading
    TIME_SPAN,        \* 2^32, the range of monotonic_ms
    CYCLES_PER_MS,
    ChannelInputs     \* the inputs that may be sampled at an edge

VARIABLES
    channel_inputs,
    ms_counter, time_ms,            \* timebase_ms
    sample_count, update, reading,  \* sensor_frontend
    last_ms, seen, plausible        \* sensor_supervisor

timebase_vars == <<ms_counter, time_ms>>
frontend_vars == <<sample_count, update, reading>>
supervisor_vars == <<last_ms, seen, plausible>>
chain_vars == <<channel_inputs, timebase_vars, frontend_vars, supervisor_vars>>

Readings == {"plausible", "implausible"}

\* What arrives on a channel: nothing, or a raw sample with the reading that it
\* completes, should it be the last of its window.
ChannelInput == [rst : BOOLEAN, raw : [Channels -> Readings \cup {"none"}]]

ASSUME SpanAssumption == TIME_SPAN \in Nat \ {0} /\ CYCLES_PER_MS \in Nat \ {0}
ASSUME StaleAssumption == STALE_MS \in [Channels -> 1 .. (TIME_SPAN - 2)]
ASSUME WindowAssumption == WINDOW_SAMPLES \in [Channels -> Nat \ {0}]
ASSUME ChannelInputsAssumption == ChannelInputs \subseteq ChannelInput

-----------------------------------------------------------------------------

\* Faulty variant: the difference of the timestamps as plain integers.
AgeWithoutWrap(c) == time_ms - last_ms[c]

\* Unsigned subtraction of TIME_SPAN-valued timestamps.
Age(c) == (time_ms - last_ms[c]) % TIME_SPAN

\* Faulty variant: a channel is valid once it has been heard.
ValidOnceSeen(c) == seen[c] /\ plausible[c]

Valid(c) == seen[c] /\ plausible[c] /\ Age(c) <= STALE_MS[c]

\* reading is all zeroes, which every channel's range contains.
ChainInit ==
    /\ channel_inputs \in {i \in ChannelInputs : i.rst}
    /\ ms_counter = 0 /\ time_ms = 0
    /\ sample_count = [c \in Channels |-> 0]
    /\ update = [c \in Channels |-> FALSE]
    /\ reading = [c \in Channels |-> "plausible"]
    /\ last_ms = [c \in Channels |-> 0]
    /\ seen = [c \in Channels |-> FALSE]
    /\ plausible = [c \in Channels |-> FALSE]

-----------------------------------------------------------------------------
(* timebase_ms *)
TimebaseEdge ==
    \/ channel_inputs.rst /\ ms_counter' = 0 /\ time_ms' = 0
    \/ /\ ~channel_inputs.rst /\ ms_counter = CYCLES_PER_MS - 1
       /\ ms_counter' = 0 /\ time_ms' = (time_ms + 1) % TIME_SPAN
    \/ /\ ~channel_inputs.rst /\ ms_counter < CYCLES_PER_MS - 1
       /\ ms_counter' = ms_counter + 1 /\ UNCHANGED time_ms

(* sensor_frontend *)

Completes(c) ==
    channel_inputs.raw[c] # "none" /\ sample_count[c] = WINDOW_SAMPLES[c] - 1

CountSample(c) ==
    IF channel_inputs.raw[c] = "none" THEN sample_count[c]
    ELSE (sample_count[c] + 1) % WINDOW_SAMPLES[c]

FrontendReset ==
    /\ channel_inputs.rst
    /\ sample_count' = [c \in Channels |-> 0]
    /\ update' = [c \in Channels |-> FALSE]
    /\ reading' = [c \in Channels |-> "plausible"]

FrontendEdge ==
    \/ FrontendReset
    \/ /\ ~channel_inputs.rst
       /\ sample_count' = [c \in Channels |-> CountSample(c)]
       /\ update' = [c \in Channels |-> Completes(c)]
       /\ reading' = [c \in Channels |->
            IF Completes(c) THEN channel_inputs.raw[c] ELSE reading[c]]

(* sensor_supervisor *)

SupervisorReset ==
    /\ channel_inputs.rst
    /\ last_ms' = [c \in Channels |-> 0]
    /\ seen' = [c \in Channels |-> FALSE]
    /\ plausible' = [c \in Channels |-> FALSE]

\* Faulty variant: an implausible reading is not recorded at all.
RecordPlausibleOnly ==
    /\ ~channel_inputs.rst
    /\ last_ms' = [c \in Channels |->
         IF update[c] /\ reading[c] = "plausible" THEN time_ms ELSE last_ms[c]]
    /\ seen' = [c \in Channels |-> seen[c] \/ update[c]]
    /\ plausible' = [c \in Channels |-> plausible[c]
         \/ (update[c] /\ reading[c] = "plausible")]

\* Faulty variant: the age starts at the first update only.
StampsFirstOnly ==
    /\ ~channel_inputs.rst
    /\ last_ms' = [c \in Channels |->
         IF update[c] /\ ~seen[c] THEN time_ms ELSE last_ms[c]]
    /\ seen' = [c \in Channels |-> seen[c] \/ update[c]]
    /\ plausible' = [c \in Channels |->
         IF update[c] THEN reading[c] = "plausible" ELSE plausible[c]]

\* An update is stamped with the time before the edge.
RecordUpdates ==
    /\ ~channel_inputs.rst
    /\ last_ms' = [c \in Channels |-> IF update[c] THEN time_ms ELSE last_ms[c]]
    /\ seen' = [c \in Channels |-> seen[c] \/ update[c]]
    /\ plausible' = [c \in Channels |->
         IF update[c] THEN reading[c] = "plausible" ELSE plausible[c]]

SupervisorEdge == SupervisorReset \/ RecordUpdates

ChainEdge == TimebaseEdge /\ FrontendEdge /\ SupervisorEdge

ChainNext == ChainEdge /\ channel_inputs' \in ChannelInputs

\* The clock never stops.
ChainSpec == ChainInit /\ [][ChainNext]_chain_vars /\ WF_chain_vars(ChainNext)
=============================================================================
