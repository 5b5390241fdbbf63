---------------------------- MODULE SafetyMonitor ----------------------------
(***************************************************************************)
(* SafetyCore with history variables that remember what its registers do   *)
(* not, and the properties of the control path stated over both.  The      *)
(* history variables never restrict a step of the core.                    *)
(***************************************************************************)
EXTENDS SafetyCore

VARIABLES
    since_accept,       \* edges since the gate accepted a frame
    accepted_class,     \* health class of the last accepted frame, -1 if none
    non_critical_seen,  \* some accepted frame since reset was not critical
    previous_sequence   \* sequence accepted before last_sequence, -1 if none

history_vars ==
    <<since_accept, accepted_class, non_critical_seen, previous_sequence>>
monitor_vars == <<vars, history_vars>>

\* Acceptance to load-off: one edge for the kick, WATCHDOG_TIMEOUT_CYCLES edges
\* of counting, and the edge on which safety_fsm acts on the expiry.
MaxOperatingAge == WATCHDOG_TIMEOUT_CYCLES + 1
Stale == MaxOperatingAge + 1

MonitorInit ==
    /\ Init
    /\ since_accept = Stale /\ accepted_class = -1
    /\ non_critical_seen = FALSE /\ previous_sequence = -1

MonitorReset ==
    /\ pins.rst
    /\ since_accept' = Stale /\ accepted_class' = -1
    /\ non_critical_seen' = FALSE /\ previous_sequence' = -1

ObserveAccept ==
    /\ ~pins.rst /\ accepted'
    /\ since_accept' = 0
    /\ accepted_class' = frame.health_class
    /\ non_critical_seen' = (non_critical_seen \/ frame.health_class # 2)
    /\ previous_sequence' = IF have_sequence THEN last_sequence ELSE -1

ObserveNothing ==
    /\ ~pins.rst /\ ~accepted'
    /\ since_accept' = IF since_accept = Stale THEN Stale ELSE since_accept + 1
    /\ UNCHANGED <<accepted_class, non_critical_seen, previous_sequence>>

MonitorNext == Next /\ (MonitorReset \/ ObserveAccept \/ ObserveNothing)

MonitorSpec ==
    MonitorInit /\ [][MonitorNext]_monitor_vars /\ WF_monitor_vars(MonitorNext)

-----------------------------------------------------------------------------

\* The load is never enabled on stale intelligence: at most
\* WATCHDOG_TIMEOUT_CYCLES + 1 edges have passed since the gate accepted a
\* frame, across gate, watchdog, ready latch and FSM.
NoStaleOperation == LoadEnable => since_accept <= MaxOperatingAge

\* If every frame accepted since reset was critical the load has not been
\* enabled for a single cycle: ready_latched and the retained observation are
\* set on the same edge, so the FSM never sees one without the other.
CriticalOnlyNeverEnergizes == LoadEnable => non_critical_seen

\* Two edges after its acceptance an observation governs the load: critical has
\* shed it, warning shows in warning_active.
ObservationActsPromptly ==
    LoadEnable /\ since_accept >= 2
        => accepted_class # 2 /\ (accepted_class = 1 => WarningActive)

\* The gate accepts neither the last accepted sequence number again nor the one
\* before it, also when the numbers wrap.
ReplayRejected ==
    [][ accepted' /\ ~pins.rst /\ have_sequence
          => frame.sequence_number \notin {last_sequence, previous_sequence}
      ]_monitor_vars

\* The control path implements the authority the load is promised.
Authority == INSTANCE LoadAuthority WITH
    MaxAge <- MaxOperatingAge,
    energized <- LoadEnable,
    inhibited <- state \in {"SHUTDOWN", "FAULT_LATCHED"},
    age <- since_accept,
    controls <- [reset |-> pins.rst, trip |-> Trip, request |-> pins.recovery_req]

AuthoritySpec == Authority!Spec

\* Frames that would restore the load and pins that allow it.
Calm ==
    /\ ~pins.rst /\ ~Trip /\ ~HardWarning /\ pins.recovery_req
    /\ frame.health_class # 2

\* No state is a dead end: under a lasting recovery request on a healthy plant,
\* with healthy observations accepted again and again, the load comes back
\* again and again, whatever shut it down before.
CanRecover == (<>[]Calm /\ []<>accepted) => []<>LoadEnable
=============================================================================
