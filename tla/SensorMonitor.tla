---------------------------- MODULE SensorMonitor ----------------------------
(***************************************************************************)
(* SensorChain with the time that has really passed since each channel's   *)
(* last update, and the properties of the path stated over both.           *)
(***************************************************************************)
EXTENDS SensorChain

VARIABLE
    elapsed   \* ms since the update last recorded; whole turns of the
              \* timebase beyond the first are not told apart

sensor_monitor_vars == <<chain_vars, elapsed>>

Tick == IF ms_counter = CYCLES_PER_MS - 1 THEN 1 ELSE 0
LaterBy(ms, ticks) == IF ms + ticks = 2 * TIME_SPAN THEN TIME_SPAN ELSE ms + ticks

SensorInit == ChainInit /\ elapsed = [c \in Channels |-> 0]

Observe ==
    elapsed' = [c \in Channels |->
        IF channel_inputs.rst THEN 0
        ELSE IF update[c] THEN Tick ELSE LaterBy(elapsed[c], Tick)]

SensorNext == ChainNext /\ Observe
SensorSpec ==
    SensorInit /\ [][SensorNext]_sensor_monitor_vars /\ WF_sensor_monitor_vars(SensorNext)

\* Every register of the sensor path and every elapsed time is in its range.
SensorTypeOK ==
    /\ channel_inputs \in ChannelInputs
    /\ ms_counter \in 0 .. (CYCLES_PER_MS - 1) /\ time_ms \in 0 .. (TIME_SPAN - 1)
    /\ sample_count \in [Channels -> Nat]
    /\ \A c \in Channels : sample_count[c] < WINDOW_SAMPLES[c]
    /\ update \in [Channels -> BOOLEAN] /\ reading \in [Channels -> Readings]
    /\ last_ms \in [Channels -> 0 .. (TIME_SPAN - 1)]
    /\ seen \in [Channels -> BOOLEAN] /\ plausible \in [Channels -> BOOLEAN]
    /\ elapsed \in [Channels -> 0 .. (2 * TIME_SPAN - 1)]

-----------------------------------------------------------------------------

\* The age of a channel is exact up to whole turns of the timebase, also when
\* the timebase has wrapped between the update and now, and when an update and
\* a millisecond fall on the same edge.
AgeIsExact ==
    \A c \in Channels : seen[c] => Age(c) = elapsed[c] % TIME_SPAN

\* The control path and the sensor frames take the reading of the frontend and
\* the verdict of the supervisor: except on the one edge on which a new reading
\* is on its way to the supervisor, the verdict is about that very reading.
VerdictIsOnReading ==
    \A c \in Channels : Valid(c) /\ ~update[c] => reading[c] = "plausible"

\* A channel that falls silent does not stay valid, whichever channels go on.
SilenceDetected ==
    \A c \in Channels :
        <>[](~channel_inputs.rst /\ channel_inputs.raw[c] = "none") => []<>~Valid(c)

\* A channel that delivers plausible readings only, at least one window in every
\* STALE_MS, is valid from the first update on; a reset aside, it is never lost.
SteadyStaysValid ==
    [][ \A c \in Channels :
          /\ ~channel_inputs.rst /\ Valid(c)
          /\ update[c] => reading[c] = "plausible"
          /\ elapsed[c] < STALE_MS[c] \/ update[c]
          => Valid(c)' ]_sensor_monitor_vars

=============================================================================
