----------------------------- MODULE FpgaProofs -----------------------------
(***************************************************************************)
(* Proofs about the three paths of the FPGA: the control path (SafetyCore, *)
(* SafetyMonitor), the transmit path (LinkTransmit) and the sensor path    *)
(* (SensorChain, SensorMonitor), for every value of their constants.       *)
(***************************************************************************)
EXTENDS SafetyMonitor, LinkTransmit, SensorMonitor, TLAPS

(* THE CONTROL PATH, for every timeout, sequence space, set of pin samples   *)
(* and set of frames.                                                        *)

\* A reset never fails to be a type-correct frame.
LEMMA ZeroFrameType == ZeroFrame \in Frame
BY HalfRangeAssumption DEF ZeroFrame, Frame, SequenceNumbers

\* Every register of the control path keeps its declared range on every edge.
LEMMA TypeStep == TypeOK /\ [Next]_vars => TypeOK'
<1> USE DEF TypeOK
<1> SUFFICES ASSUME TypeOK, [Next]_vars PROVE TypeOK'
  OBVIOUS
<1>1. CASE Next
  <2> USE <1>1 DEF Next, CoreEdge
  <2>1. pins' \in PinSamples
    OBVIOUS
  <2>2. frame_valid' \in BOOLEAN /\ frame' \in ArrivingFrames \cup {ZeroFrame}
    BY DEF ReceiverEdge
  <2>3. /\ accepted' \in BOOLEAN /\ watchdog_kick' \in BOOLEAN
        /\ have_sequence' \in BOOLEAN /\ last_sequence' \in SequenceNumbers
    <3>1. frame.sequence_number \in SequenceNumbers
      BY FramesAssumption, ZeroFrameType DEF Frame
    <3>2. 0 \in SequenceNumbers
      BY HalfRangeAssumption DEF SequenceNumbers
    <3> QED BY <3>1, <3>2 DEF GateEdge
  <2>4. ml_have' \in BOOLEAN /\ ml_warning' \in BOOLEAN /\ ml_critical' \in BOOLEAN
    BY Zenon DEF MlLatchEdge, ml_vars
  <2>5. ready_latched' \in BOOLEAN
    BY Zenon DEF ReadyEdge
  <2>6. counter' \in 0 .. WATCHDOG_TIMEOUT_CYCLES
    BY TimeoutAssumption, SMT DEF WatchdogEdge
  <2>7. expired' \in BOOLEAN
    BY Zenon DEF WatchdogEdge
  <2>8. state' \in States /\ latched' \in BOOLEAN
    BY DEF FsmEdge, FsmReset, FsmTrip, SafeShutdown, LeaveStartup, RaiseWarning,
           ClearWarning, RecoverFromShutdown, RecoverFromFault, FinishRecovery,
           Hold, fsm_vars, States
  <2> QED BY <2>1, <2>2, <2>3, <2>4, <2>5, <2>6, <2>7, <2>8
<1>2. CASE UNCHANGED vars
  BY <1>2 DEF vars, receiver_vars, gate_vars, ml_vars, watchdog_vars, fsm_vars
<1> QED BY <1>1, <1>2

\* The power-up values are in range.
LEMMA TypeInit == Init => TypeOK
<1> SUFFICES ASSUME Init PROVE TypeOK
  OBVIOUS
<1>1. /\ counter \in 0 .. WATCHDOG_TIMEOUT_CYCLES
      /\ last_sequence \in SequenceNumbers /\ state \in States
  BY TimeoutAssumption, HalfRangeAssumption DEF Init, SequenceNumbers, States
<1> QED BY <1>1, Zenon DEF Init, TypeOK

\* Type correctness of the core, for every value of the constants.
THEOREM TypeCorrect == Spec => []TypeOK
BY TypeInit, TypeStep, PTL DEF Spec

-----------------------------------------------------------------------------
(* Staleness of the evidence behind an enabled load. *)

\* A step of the monitored core is a step of the core.
LEMMA MonitorStep == [MonitorNext]_monitor_vars => [Next]_vars
BY DEF MonitorNext, monitor_vars, vars, receiver_vars, gate_vars, ml_vars,
       watchdog_vars, fsm_vars

\* The watchdog counts the age of the last accepted frame: while no expiry is
\* shown the count is that age less the edge that carries the kick.
WatchdogCountsAge ==
    ready_latched =>
        \/ accepted
        \/ expired
        \/ counter < WATCHDOG_TIMEOUT_CYCLES /\ since_accept = counter + 1

\* The inductive form of NoStaleOperation.
StaleInv ==
    /\ since_accept \in 0 .. Stale
    /\ LoadEnable => ready_latched
    /\ pins.rst \/ (watchdog_kick = accepted /\ (accepted <=> since_accept = 0))
    /\ WatchdogCountsAge
    /\ NoStaleOperation

LEMMA StaleStep ==
    TypeOK /\ StaleInv /\ [MonitorNext]_monitor_vars => StaleInv'
<1> SUFFICES ASSUME TypeOK, StaleInv, [MonitorNext]_monitor_vars
             PROVE  StaleInv'
  OBVIOUS
<1>t. /\ WATCHDOG_TIMEOUT_CYCLES \in Nat \ {0} /\ Stale = WATCHDOG_TIMEOUT_CYCLES + 2
      /\ MaxOperatingAge = WATCHDOG_TIMEOUT_CYCLES + 1
  BY TimeoutAssumption DEF Stale, MaxOperatingAge
<1>1. CASE MonitorNext /\ pins.rst
  <2>1. /\ since_accept' = Stale /\ accepted' = FALSE /\ watchdog_kick' = FALSE
        /\ ready_latched' = FALSE /\ state' = "STARTUP"
    BY <1>1 DEF MonitorNext, Next, CoreEdge, MonitorReset, ObserveAccept,
                ObserveNothing, GateEdge, ReadyEdge, FsmEdge, FsmReset, FsmTrip,
                SafeShutdown, LeaveStartup, RaiseWarning, ClearWarning,
                RecoverFromShutdown, RecoverFromFault, FinishRecovery, Hold, Quiet
  <2>2. Stale' \in Nat \ {0} /\ Stale' = Stale
    BY <1>t DEF Stale, MaxOperatingAge
  <2>3. since_accept' \in 0 .. Stale' /\ since_accept' # 0 /\ ~LoadEnable'
    BY <2>1, <2>2 DEF LoadEnable
  <2> QED BY <2>1, <2>3, Zenon DEF StaleInv, WatchdogCountsAge, NoStaleOperation
<1>2. CASE MonitorNext /\ ~pins.rst
  <2>a. watchdog_kick = accepted /\ (accepted <=> since_accept = 0)
    BY <1>2 DEF StaleInv
  <2>1. since_accept' \in 0 .. Stale /\ (accepted' <=> since_accept' = 0)
    BY <1>2, <1>t, <2>a DEF MonitorNext, MonitorReset, ObserveAccept, ObserveNothing,
                      StaleInv, TypeOK
  <2>2. watchdog_kick' = accepted'
    <3>1. (watchdog_kick' = TRUE /\ accepted' = TRUE)
            \/ (watchdog_kick' = FALSE /\ accepted' = FALSE)
      BY <1>2, Zenon DEF MonitorNext, Next, CoreEdge, GateEdge
    <3> QED BY <3>1
  <2>3. /\ ready_latched' => accepted \/ ready_latched
        /\ ready_latched => ready_latched'
    BY <1>2 DEF MonitorNext, Next, CoreEdge, ReadyEdge
  <2>4. LoadEnable' => ready_latched /\ ~expired
    BY <1>2 DEF MonitorNext, Next, CoreEdge, FsmEdge, FsmReset, FsmTrip, SafeShutdown,
                LeaveStartup, RaiseWarning, ClearWarning, RecoverFromShutdown,
                RecoverFromFault, FinishRecovery, Hold, fsm_vars, SafetyDemand,
                LoadEnable, StaleInv
  <2>5. since_accept' = 0 \/ since_accept' = since_accept + 1 \/ since_accept = Stale
    BY <1>2 DEF MonitorNext, MonitorReset, ObserveAccept, ObserveNothing
  <2>6. WatchdogCountsAge'
    <3>1. SUFFICES ASSUME ready_latched', ~accepted' PROVE
             \/ expired'
             \/ counter' < WATCHDOG_TIMEOUT_CYCLES /\ since_accept' = counter' + 1
      BY DEF WatchdogCountsAge
    <3>2. CASE accepted
      <4>1. counter' = 0 /\ since_accept = 0
        BY <1>2, <2>a, <3>2 DEF MonitorNext, Next, CoreEdge, WatchdogEdge
      <4> QED BY <4>1, <2>1, <2>5, <3>1, <1>t
    <3>3. CASE ~accepted /\ expired
      <4>1. ~WatchdogRst /\ ~watchdog_kick
        BY <1>2, <2>a, <2>3, <3>1, <3>3 DEF WatchdogRst
      <4> QED BY <1>2, <4>1, <3>3 DEF MonitorNext, Next, CoreEdge, WatchdogEdge
    <3>4. CASE ~accepted /\ ~expired
      <4>1. ~WatchdogRst /\ ~watchdog_kick
        BY <1>2, <2>a, <2>3, <3>1, <3>4 DEF WatchdogRst
      <4>2. counter < WATCHDOG_TIMEOUT_CYCLES /\ since_accept = counter + 1
        BY <2>3, <3>1, <3>4 DEF StaleInv, WatchdogCountsAge
      <4>3. since_accept' = since_accept + 1
        BY <1>2, <3>1, <4>2, <1>t DEF MonitorNext, MonitorReset, ObserveAccept,
                                      ObserveNothing, TypeOK
      <4>3a. counter \in Nat /\ ~(counter >= WATCHDOG_TIMEOUT_CYCLES)
        BY <4>2, <1>t DEF TypeOK
      <4>4. /\ counter' = counter + 1
            /\ expired' = (expired \/ counter = WATCHDOG_TIMEOUT_CYCLES - 1)
        BY <1>2, <4>1, <4>3a, Zenon DEF MonitorNext, Next, CoreEdge, WatchdogEdge
      <4>6. CASE counter = WATCHDOG_TIMEOUT_CYCLES - 1
        BY <4>4, <4>6
      <4>7. CASE counter # WATCHDOG_TIMEOUT_CYCLES - 1
        BY <4>2, <4>3, <4>4, <4>3a, <4>7, <1>t
      <4> QED BY <4>6, <4>7
    <3> QED BY <3>2, <3>3, <3>4
  <2>7. NoStaleOperation'
    <3>1. SUFFICES ASSUME LoadEnable' PROVE since_accept' <= MaxOperatingAge
      BY DEF NoStaleOperation
    <3>2. \/ accepted
          \/ counter < WATCHDOG_TIMEOUT_CYCLES /\ since_accept = counter + 1
      BY <2>4, <3>1, Zenon DEF StaleInv, WatchdogCountsAge
    <3>3. since_accept <= WATCHDOG_TIMEOUT_CYCLES
      BY <2>a, <3>2, <1>t DEF TypeOK
    <3>4. since_accept \in Nat
      BY <1>t DEF StaleInv
    <3> QED BY <3>3, <3>4, <2>5, <1>t
  <2> QED BY <2>1, <2>2, <2>3, <2>4, <2>6, <2>7, Zenon DEF StaleInv, LoadEnable, Stale,
                                                          MaxOperatingAge
<1>3. CASE UNCHANGED monitor_vars
  BY <1>3 DEF monitor_vars, history_vars, vars, receiver_vars, gate_vars, ml_vars,
              watchdog_vars, fsm_vars, StaleInv, LoadEnable, WatchdogCountsAge,
              NoStaleOperation
<1> QED BY <1>1, <1>2, <1>3

LEMMA StaleInit == MonitorInit => StaleInv
<1> SUFFICES ASSUME MonitorInit PROVE StaleInv
  OBVIOUS
<1>1. since_accept \in 0 .. Stale
  BY TimeoutAssumption DEF MonitorInit, Stale, MaxOperatingAge
<1>2. pins.rst /\ ~LoadEnable /\ ~ready_latched
  BY DEF MonitorInit, Init, LoadEnable
<1> QED BY <1>1, <1>2, Zenon DEF StaleInv, WatchdogCountsAge, NoStaleOperation

\* The type invariant also holds of the monitored core.
LEMMA MonitorTypeCorrect == MonitorSpec => []TypeOK
<1>1. MonitorInit => TypeOK
  BY TypeInit DEF MonitorInit
<1> QED BY <1>1, TypeStep, MonitorStep, PTL DEF MonitorSpec

LEMMA StaleInvariant == MonitorSpec => []StaleInv
BY StaleInit, StaleStep, MonitorTypeCorrect, PTL DEF MonitorSpec

\* For every timeout the load is never enabled on intelligence older than
\* WATCHDOG_TIMEOUT_CYCLES + 1 edges.
THEOREM NoStaleOperationHolds == MonitorSpec => []NoStaleOperation
<1>1. StaleInv => NoStaleOperation
  BY DEF StaleInv
<1> QED BY <1>1, StaleInvariant, PTL

-----------------------------------------------------------------------------
(* What the retained observation does to the load. *)

\* The retained flags are those of the last accepted frame once the edge after
\* its acceptance has passed.
RetainedMatchesAccepted ==
    ~accepted /\ accepted_class # -1 =>
        /\ ml_have
        /\ ml_warning = (accepted_class = 1)
        /\ ml_critical = (accepted_class = 2)

\* The inductive form of the two properties about observations.
ObserveInv ==
    /\ ready_latched => ml_have
    /\ \/ pins.rst
       \/ accepted => /\ accepted_class = frame.health_class
                      /\ frame.health_class # 2 => non_critical_seen
    /\ ml_have /\ ~ml_critical => non_critical_seen
    /\ pins.rst \/ RetainedMatchesAccepted
    /\ CriticalOnlyNeverEnergizes
    /\ ObservationActsPromptly

LEMMA ObserveInit == MonitorInit => ObserveInv
<1> SUFFICES ASSUME MonitorInit PROVE ObserveInv
  OBVIOUS
<1>1. pins.rst /\ ~LoadEnable /\ ~ready_latched /\ ~ml_have
  BY DEF MonitorInit, Init, LoadEnable
<1> QED BY <1>1, Zenon DEF ObserveInv, CriticalOnlyNeverEnergizes, ObservationActsPromptly

\* Where an edge without reset can leave the FSM with the load enabled.
LEMMA EnabledSources ==
    ASSUME CoreEdge, ~pins.rst, LoadEnable'
    PROVE  /\ ~SafetyDemand
           /\ LoadEnable \/ (state = "STARTUP" /\ ready_latched)
           /\ WarningDemand /\ state # "WARNING" => state' = "WARNING"
           /\ ml_warning /\ state = "WARNING" => state' = "WARNING"
BY DEF CoreEdge, FsmEdge, FsmReset, FsmTrip, SafeShutdown, LeaveStartup,
       RaiseWarning, ClearWarning, RecoverFromShutdown, RecoverFromFault,
       FinishRecovery, Hold, fsm_vars, LoadEnable, Quiet

LEMMA ObserveStep ==
    TypeOK /\ StaleInv /\ ObserveInv /\ [MonitorNext]_monitor_vars => ObserveInv'
<1> SUFFICES ASSUME TypeOK, StaleInv, ObserveInv, [MonitorNext]_monitor_vars
             PROVE  ObserveInv'
  OBVIOUS
<1>1. CASE MonitorNext /\ pins.rst
  <2>1. /\ accepted_class' = -1 /\ accepted' = FALSE /\ ready_latched' = FALSE
        /\ ml_have' = FALSE /\ state' = "STARTUP"
    BY <1>1 DEF MonitorNext, Next, CoreEdge, MonitorReset, ObserveAccept,
                ObserveNothing, GateEdge, MlLatchEdge, ReadyEdge, FsmEdge, FsmReset,
                FsmTrip, SafeShutdown, LeaveStartup, RaiseWarning, ClearWarning,
                RecoverFromShutdown, RecoverFromFault, FinishRecovery, Hold, Quiet
  <2>2. ~LoadEnable'
    BY <2>1 DEF LoadEnable
  <2> QED BY <2>1, <2>2, Zenon DEF ObserveInv, RetainedMatchesAccepted,
                            CriticalOnlyNeverEnergizes, ObservationActsPromptly
<1>2. CASE MonitorNext /\ ~pins.rst
  <2>a. CoreEdge
    BY <1>2 DEF MonitorNext, Next
  <2>1. ready_latched' => ml_have'
    <3>1. SUFFICES ASSUME ready_latched' PROVE ml_have'
      OBVIOUS
    <3>2. accepted \/ ready_latched
      BY <1>2, <2>a, <3>1, Zenon DEF CoreEdge, ReadyEdge
    <3>3. ready_latched => ml_have
      BY Zenon DEF ObserveInv
    <3>4. accepted \/ ml_have
      BY <3>2, <3>3, Zenon
    <3>5. ml_have' = TRUE \/ (~accepted /\ ml_have' = ml_have)
      BY <1>2, <2>a DEF CoreEdge, MlLatchEdge, ml_vars
    <3> QED BY <3>4, <3>5, Zenon
  <2>2. accepted' => frame' = frame
    BY <1>2, <2>a, Zenon DEF CoreEdge, GateEdge, ReceiverEdge
  <2>3. \/ /\ accepted' /\ accepted_class' = frame.health_class
           /\ non_critical_seen' = (non_critical_seen \/ frame.health_class # 2)
           /\ since_accept' = 0
        \/ /\ ~accepted' /\ accepted_class' = accepted_class
           /\ non_critical_seen' = non_critical_seen
           /\ since_accept' = IF since_accept = Stale THEN Stale ELSE since_accept + 1
    BY <1>2, Zenon DEF MonitorNext, MonitorReset, ObserveAccept, ObserveNothing
  <2>4. accepted' => /\ accepted_class' = frame'.health_class
                     /\ frame'.health_class # 2 => non_critical_seen'
    BY <2>2, <2>3, Zenon
  <2>5. \/ ml_have' /\ accepted /\ ml_warning' = (frame.health_class = 1)
                    /\ ml_critical' = (frame.health_class = 2)
        \/ ~accepted /\ UNCHANGED ml_vars
    BY <1>2, <2>a, Zenon DEF CoreEdge, MlLatchEdge
  <2>6. non_critical_seen => non_critical_seen'
    BY <2>3, Zenon
  <2>7. ml_have' /\ ~ml_critical' => non_critical_seen'
    BY <1>2, <2>5, <2>6, Zenon DEF ObserveInv, ml_vars
  <2>8. RetainedMatchesAccepted'
    <3>1. SUFFICES ASSUME ~accepted', accepted_class' # -1
                   PROVE  /\ ml_have'
                          /\ ml_warning' = (accepted_class' = 1)
                          /\ ml_critical' = (accepted_class' = 2)
      BY Zenon DEF RetainedMatchesAccepted
    <3>2. accepted_class' = accepted_class
      BY <2>3, <3>1, Zenon
    <3>3. CASE accepted
      BY <1>2, <2>5, <3>2, <3>3, Zenon DEF ObserveInv
    <3>4. CASE ~accepted
      BY <1>2, <2>5, <3>1, <3>2, <3>4, Zenon
      DEF ObserveInv, RetainedMatchesAccepted, ml_vars
    <3> QED BY <3>3, <3>4
  <2>9. CriticalOnlyNeverEnergizes'
    <3>1. SUFFICES ASSUME LoadEnable' PROVE non_critical_seen'
      BY DEF CriticalOnlyNeverEnergizes
    <3>2. ~SafetyDemand /\ (LoadEnable \/ (state = "STARTUP" /\ ready_latched))
      BY <1>2, <2>a, <3>1, EnabledSources, Zenon
    <3>3. non_critical_seen
      BY <3>2, Zenon DEF SafetyDemand, ObserveInv, CriticalOnlyNeverEnergizes
    <3> QED BY <3>3, <2>6
  <2>10. ObservationActsPromptly'
    <3>1. SUFFICES ASSUME LoadEnable', since_accept' >= 2
                   PROVE  accepted_class' # 2 /\ (accepted_class' = 1 => state' = "WARNING")
      BY Zenon DEF ObservationActsPromptly, WarningActive
    <3>2. since_accept # 0 /\ ~accepted' /\ accepted_class' = accepted_class
      BY <2>3, <3>1 DEF Stale, MaxOperatingAge
    <3>3. ~accepted
      BY <1>2, <3>2, Zenon DEF StaleInv
    <3>4. RetainedMatchesAccepted
      BY <1>2, Zenon DEF ObserveInv
    <3>5. accepted_class # 2
      <4>1. SUFFICES ASSUME accepted_class = 2 PROVE FALSE
        OBVIOUS
      <4>2. accepted_class # -1
        BY <4>1
      <4>3. ml_have /\ ml_critical
        BY <3>3, <3>4, <4>1, <4>2, Zenon DEF RetainedMatchesAccepted
      <4> QED BY <1>2, <2>a, <3>1, <4>3, EnabledSources, Zenon DEF SafetyDemand
    <3>6. ASSUME accepted_class = 1 PROVE state' = "WARNING"
      <4>1. ml_have /\ ml_warning
        <5>1. accepted_class # -1
          BY <3>6
        <5> QED BY <3>3, <3>4, <3>6, <5>1, Zenon DEF RetainedMatchesAccepted
      <4> QED BY <1>2, <2>a, <3>1, <4>1, EnabledSources DEF WarningDemand
    <3> QED BY <3>2, <3>5, <3>6
  <2> QED BY <2>1, <2>4, <2>7, <2>8, <2>9, <2>10, Zenon DEF ObserveInv
<1>3. CASE UNCHANGED monitor_vars
  BY <1>3, Zenon
  DEF monitor_vars, history_vars, vars, receiver_vars, gate_vars, ml_vars,
      watchdog_vars, fsm_vars, ObserveInv, LoadEnable, WarningActive,
      RetainedMatchesAccepted, CriticalOnlyNeverEnergizes, ObservationActsPromptly
<1> QED BY <1>1, <1>2, <1>3

LEMMA ObserveInvariant == MonitorSpec => []ObserveInv
BY ObserveInit, ObserveStep, MonitorTypeCorrect, StaleInvariant, PTL DEF MonitorSpec

\* For every set of frames: critical observations alone never enable the load.
THEOREM CriticalOnlyHolds == MonitorSpec => []CriticalOnlyNeverEnergizes
<1>1. ObserveInv => CriticalOnlyNeverEnergizes
  BY DEF ObserveInv
<1> QED BY <1>1, ObserveInvariant, PTL

\* For every set of frames: two edges after its acceptance an observation rules.
THEOREM ObservationActsHolds == MonitorSpec => []ObservationActsPromptly
<1>1. ObserveInv => ObservationActsPromptly
  BY DEF ObserveInv
<1> QED BY <1>1, ObserveInvariant, PTL

-----------------------------------------------------------------------------
(* The control path implements LoadAuthority. *)

LEMMA AuthorityInit == MonitorInit => Authority!Init
<1> SUFFICES ASSUME MonitorInit PROVE Authority!Init
  OBVIOUS
<1>1. pins \in PinSample /\ pins.rst /\ state = "STARTUP"
  BY PinsAssumption DEF MonitorInit, Init
<1>2. LoadEnable = FALSE /\ (state \in {"SHUTDOWN", "FAULT_LATCHED"}) = FALSE
  BY <1>1 DEF LoadEnable
<1>3. since_accept = Authority!Stale
  BY DEF MonitorInit, Stale, Authority!Stale
<1>4. [reset |-> pins.rst, trip |-> Trip, request |-> pins.recovery_req]
        \in {c \in Authority!Controls : c.reset}
  <2>1. Trip \in BOOLEAN
    BY DEF Trip
  <2>2. pins.rst \in BOOLEAN /\ pins.recovery_req \in BOOLEAN
    BY <1>1 DEF PinSample
  <2> QED BY <1>1, <2>1, <2>2 DEF Authority!Controls
<1> QED BY <1>2, <1>3, <1>4 DEF Authority!Init

LEMMA AuthorityStep ==
    TypeOK /\ StaleInv /\ NoStaleOperation' /\ [MonitorNext]_monitor_vars
        => [Authority!Next]_(Authority!vars)
<1> SUFFICES ASSUME TypeOK, StaleInv, NoStaleOperation', [MonitorNext]_monitor_vars
             PROVE  [Authority!Next]_(Authority!vars)
  OBVIOUS
<1> DEFINE Lines == [reset |-> pins.rst, trip |-> Trip, request |-> pins.recovery_req]
           Inhibited == state \in {"SHUTDOWN", "FAULT_LATCHED"}
<1>l. Lines.reset = pins.rst /\ Lines.trip = Trip /\ Lines.request = pins.recovery_req
  OBVIOUS
<1>1. CASE MonitorNext
  <2>1. Lines' \in Authority!Controls
    <3>1. pins' \in PinSample
      BY <1>1, PinsAssumption DEF MonitorNext, Next
    <3>2. pins.rst' \in BOOLEAN /\ pins.recovery_req' \in BOOLEAN /\ Trip' \in BOOLEAN
      BY <3>1 DEF PinSample, Trip
    <3> QED BY <3>2 DEF Authority!Controls
  <2>2. CoreEdge
    BY <1>1 DEF MonitorNext, Next
  <2>3. CASE pins.rst
    <3>1. state' = "STARTUP"
      BY <2>2, <2>3 DEF CoreEdge, FsmEdge, FsmReset, FsmTrip, SafeShutdown, LeaveStartup,
           RaiseWarning, ClearWarning, RecoverFromShutdown, RecoverFromFault,
           FinishRecovery, Hold, Quiet
    <3>2. LoadEnable' = FALSE /\ Inhibited' = FALSE
      BY <3>1 DEF LoadEnable
    <3>3. since_accept' = Authority!Stale
      BY <1>1, <2>3 DEF MonitorNext, MonitorReset, ObserveAccept, ObserveNothing,
                        Stale, Authority!Stale
    <3> QED BY <1>l, <2>1, <2>3, <3>2, <3>3 DEF Authority!Next, Authority!Reset
  <2>4. CASE ~pins.rst
    <3>1. Authority!Tick
      BY <1>1, <2>4 DEF MonitorNext, MonitorReset, ObserveAccept, ObserveNothing,
                        Authority!Tick, Authority!Stale, Stale
    <3>2. LoadEnable' => since_accept' # Authority!Stale
      BY TimeoutAssumption
      DEF NoStaleOperation, Authority!Stale, MaxOperatingAge, LoadEnable
    <3>3. CASE FsmTrip \/ SafeShutdown
      <4>1. LoadEnable' = FALSE /\ Inhibited' = TRUE
        BY <3>3 DEF FsmTrip, SafeShutdown, LoadEnable
      <4> QED BY <1>l, <2>1, <2>4, <3>1, <4>1 DEF Authority!Next, Authority!Withdraw
    <3>4. CASE LeaveStartup
      <4>1. /\ ~Trip /\ ~LoadEnable /\ ~Inhibited
            /\ LoadEnable' = TRUE /\ Inhibited' = FALSE
        BY <3>4 DEF LeaveStartup, Quiet, LoadEnable
      <4> QED BY <1>l, <2>1, <2>4, <3>1, <3>2, <4>1 DEF Authority!Next, Authority!Energize
    <3>5. CASE RecoverFromShutdown \/ RecoverFromFault
      <4>1. /\ ~Trip /\ pins.recovery_req /\ Inhibited
            /\ LoadEnable' = FALSE /\ Inhibited' = FALSE
        BY <3>5 DEF RecoverFromShutdown, RecoverFromFault, Quiet, LoadEnable
      <4> QED BY <1>l, <2>1, <2>4, <3>1, <4>1 DEF Authority!Next, Authority!Release
    <3>6. CASE RaiseWarning \/ ClearWarning \/ FinishRecovery \/ Hold
      <4>1. ~Trip /\ LoadEnable' = LoadEnable /\ Inhibited' = Inhibited
        BY <3>6 DEF RaiseWarning, ClearWarning, FinishRecovery, Hold, fsm_vars, Quiet,
                    LoadEnable
      <4> QED BY <1>l, <2>1, <2>4, <3>1, <3>2, <4>1 DEF Authority!Next, Authority!Keep
    <3> QED BY <2>2, <2>4, <3>3, <3>4, <3>5, <3>6 DEF CoreEdge, FsmEdge, FsmReset
  <2> QED BY <2>3, <2>4
<1>2. CASE UNCHANGED monitor_vars
  BY <1>2 DEF monitor_vars, history_vars, vars, receiver_vars, gate_vars, ml_vars,
              watchdog_vars, fsm_vars, Authority!vars, LoadEnable, Trip, HardCritical,
              LimitCritical
<1> QED BY <1>1, <1>2

\* Every behaviour of the control path is one the load authority allows.
THEOREM ImplementsLoadAuthority == MonitorSpec => AuthoritySpec
<1>1. StaleInv => NoStaleOperation
  BY DEF StaleInv
<1> QED BY <1>1, AuthorityInit, AuthorityStep, MonitorTypeCorrect, StaleInvariant, PTL
        DEF MonitorSpec, AuthoritySpec, Authority!Spec

-----------------------------------------------------------------------------
(* Replay. *)

\* Of two sequence numbers at most one is newer than the other: a pair of
\* frames cannot displace each other for ever.
LEMMA NewerAsymmetric ==
    ASSUME NEW a \in SequenceNumbers, NEW b \in SequenceNumbers, IsNewer(a, b)
    PROVE  ~IsNewer(b, a)
<1> DEFINE M == 2 * SEQUENCE_HALF_RANGE
<1>1. SEQUENCE_HALF_RANGE \in Nat \ {0} /\ a \in 0 .. (M - 1) /\ b \in 0 .. (M - 1)
  BY HalfRangeAssumption DEF SequenceNumbers
<1>2. M \in Nat \ {0}
  BY <1>1
<1> HIDE DEF M
<1>3. ASSUME NEW x \in Int, -M < x, x < M
      PROVE  x % M = IF x >= 0 THEN x ELSE x + M
  BY <1>2, <1>3
<1> QED BY <1>1, <1>3 DEF IsNewer, M

\* No number is newer than itself.
LEMMA NewerIrreflexive ==
    ASSUME NEW a \in SequenceNumbers PROVE ~IsNewer(a, a)
<1> QED BY NewerAsymmetric

\* The two accepted numbers the gate and the history remember are in order.
ReplayInv ==
    previous_sequence # -1 =>
        /\ have_sequence /\ previous_sequence \in SequenceNumbers
        /\ IsNewer(last_sequence, previous_sequence)

\* An edge on which the gate accepts found the number newer than the last one.
LEMMA AcceptedIsNewer ==
    ASSUME TypeOK, MonitorNext, ~pins.rst, accepted'
    PROVE  /\ have_sequence' /\ last_sequence' = frame.sequence_number
           /\ have_sequence => IsNewer(frame.sequence_number, last_sequence)
           /\ frame.sequence_number \in SequenceNumbers
           /\ previous_sequence' = IF have_sequence THEN last_sequence ELSE -1
<1>1. frame.sequence_number \in SequenceNumbers
  BY FramesAssumption, ZeroFrameType DEF TypeOK, Frame
<1>2. GateEdge
  BY DEF MonitorNext, Next, CoreEdge
<1>3. FreshSequence /\ have_sequence' /\ last_sequence' = frame.sequence_number
  BY <1>2, Zenon DEF GateEdge
<1>4. previous_sequence' = IF have_sequence THEN last_sequence ELSE -1
  BY Zenon DEF MonitorNext, MonitorReset, ObserveAccept, ObserveNothing
<1> QED BY <1>1, <1>3, <1>4, Zenon DEF FreshSequence

LEMMA ReplayStep == TypeOK /\ ReplayInv /\ [MonitorNext]_monitor_vars => ReplayInv'
<1> SUFFICES ASSUME TypeOK, ReplayInv, [MonitorNext]_monitor_vars PROVE ReplayInv'
  OBVIOUS
<1>1. CASE MonitorNext /\ pins.rst
  BY <1>1 DEF MonitorNext, MonitorReset, ObserveAccept, ObserveNothing, ReplayInv
<1>2. CASE MonitorNext /\ ~pins.rst /\ accepted'
  <2>1. /\ have_sequence' /\ last_sequence' = frame.sequence_number
        /\ have_sequence => IsNewer(frame.sequence_number, last_sequence)
        /\ previous_sequence' = IF have_sequence THEN last_sequence ELSE -1
    BY <1>2, AcceptedIsNewer, Zenon
  <2>2. CASE have_sequence
    <3>1. previous_sequence' = last_sequence /\ last_sequence \in SequenceNumbers
      BY <2>1, <2>2 DEF TypeOK
    <3>2. IsNewer(last_sequence', previous_sequence')
      BY <2>1, <2>2, <3>1
    <3> QED BY <2>1, <3>1, <3>2 DEF ReplayInv, IsNewer, SequenceNumbers
  <2>3. CASE ~have_sequence
    BY <2>1, <2>3 DEF ReplayInv
  <2> QED BY <2>2, <2>3
<1>3. CASE MonitorNext /\ ~pins.rst /\ ~accepted'
  <2>1. UNCHANGED <<have_sequence, last_sequence>>
    BY <1>3 DEF MonitorNext, Next, CoreEdge, GateEdge
  <2>2. UNCHANGED previous_sequence
    BY <1>3 DEF MonitorNext, MonitorReset, ObserveAccept, ObserveNothing
  <2> QED BY <2>1, <2>2 DEF ReplayInv, IsNewer, SequenceNumbers
<1>4. CASE UNCHANGED monitor_vars
  BY <1>4 DEF monitor_vars, history_vars, vars, gate_vars, ReplayInv, IsNewer,
              SequenceNumbers
<1> QED BY <1>1, <1>2, <1>3, <1>4

\* For every even sequence space: neither of the last two accepted numbers is
\* accepted again by the next acceptance.
THEOREM ReplayRejectedHolds == MonitorSpec => ReplayRejected
<1> DEFINE Rejects ==
        accepted' /\ ~pins.rst /\ have_sequence
          => frame.sequence_number \notin {last_sequence, previous_sequence}
<1>1. MonitorInit => ReplayInv
  BY DEF MonitorInit, ReplayInv
<1>2. TypeOK /\ ReplayInv /\ [MonitorNext]_monitor_vars => [Rejects]_monitor_vars
  <2>1. SUFFICES ASSUME TypeOK, ReplayInv, MonitorNext,
                        accepted', ~pins.rst, have_sequence
                 PROVE  frame.sequence_number \notin {last_sequence, previous_sequence}
    BY Zenon
  <2>2. /\ IsNewer(frame.sequence_number, last_sequence)
        /\ frame.sequence_number \in SequenceNumbers
    BY <2>1, AcceptedIsNewer, Zenon
  <2>3. last_sequence \in SequenceNumbers
    BY <2>1 DEF TypeOK
  <2>4. frame.sequence_number # last_sequence
    BY <2>2, NewerIrreflexive, Zenon
  <2>5. frame.sequence_number # previous_sequence
    <3>1. CASE previous_sequence = -1
      BY <2>2, <3>1 DEF SequenceNumbers
    <3>2. CASE previous_sequence # -1
      BY <2>1, <2>2, <2>3, <3>2, NewerAsymmetric, Zenon DEF ReplayInv
    <3> QED BY <3>1, <3>2
  <2> QED BY <2>4, <2>5
<1> QED BY <1>1, <1>2, ReplayStep, MonitorTypeCorrect, PTL DEF MonitorSpec, ReplayRejected

-----------------------------------------------------------------------------
(* THE TRANSMIT PATH: type correctness, complete status reporting and frame  *)
(* integrity, for every frame length, byte time and set of inputs.           *)

LEMMA InputType == inputs \in InputSamples =>
          /\ inputs.rst \in BOOLEAN /\ inputs.status_tick \in BOOLEAN
          /\ inputs.status \in StatusVectors /\ inputs.sample \in Samples
          /\ inputs.sample_tick \in BOOLEAN
  BY InputsAssumption DEF Input

LEMMA ZeroInRange ==
          /\ 0 \in 0 .. STATUS_LAST /\ 0 \in 0 .. SENSOR_LAST
          /\ 0 \in FrameNumbers /\ 0 \in 0 .. BYTE_CYCLES
  BY FrameAssumption, CountAssumption, CyclesAssumption DEF FrameNumbers

\* The byte offered to the UART is a byte of the granted sender.
LEMMA OfferedByte == TransmitTypeOK =>
          UartByte \in StatusByte \cup SensorByte
  BY DEF TransmitTypeOK, UartByte, StatusByte, SensorByte

LEMMA SequenceStep == \A n \in FrameNumbers : (n + 1) % SEQUENCE_COUNT \in FrameNumbers
  BY CountAssumption DEF FrameNumbers

\* What an edge does to the index and number of a status frame in progress.
LEMMA StatusAdvance == StatusSending =>
    /\ status_latched' = status_latched
    /\ \/ status_index' = status_index /\ status_sequence' = status_sequence /\ ~StatusReady
       \/ /\ status_index < STATUS_LAST /\ status_index' = status_index + 1
          /\ status_sequence' = status_sequence
       \/ /\ status_index = STATUS_LAST /\ status_index' = 0
          /\ status_sequence' = (status_sequence + 1) % SEQUENCE_COUNT
  BY Zenon DEF StatusSending

\* What an edge does to the index and number of a sensor frame in progress.
LEMMA SensorAdvance == SensorSending =>
    /\ sensor_latched' = sensor_latched
    /\ \/ sensor_index' = sensor_index /\ sensor_sequence' = sensor_sequence /\ ~SensorReady
       \/ /\ sensor_index < SENSOR_LAST /\ sensor_index' = sensor_index + 1
          /\ sensor_sequence' = sensor_sequence
       \/ /\ sensor_index = SENSOR_LAST /\ sensor_index' = 0
          /\ sensor_sequence' = (sensor_sequence + 1) % SEQUENCE_COUNT
  BY Zenon DEF SensorSending

\* Every register stays within its range.
THEOREM TransmitTypeCorrect == TransmitSpec => []TransmitTypeOK
<1>1. TransmitInit => TransmitTypeOK
  BY ZeroInRange, ResetAssumption, Zenon DEF TransmitInit, TransmitTypeOK
<1>2. TransmitTypeOK /\ [TransmitNext]_transmit_vars => TransmitTypeOK'
  <2> SUFFICES ASSUME TransmitTypeOK, [TransmitNext]_transmit_vars PROVE TransmitTypeOK'
    OBVIOUS
  <2>1. CASE UNCHANGED transmit_vars
    BY <2>1 DEF TransmitTypeOK, transmit_vars, detector_vars, status_vars, sensor_vars, uart_vars
  <2>2. CASE TransmitNext
    <3> USE <2>2 DEF TransmitNext, LinkEdge
    <3>1. inputs' \in InputSamples
      OBVIOUS
    <3>2. last_status_vector' \in StatusVectors /\ status_change' \in BOOLEAN
      BY InputType, ResetAssumption DEF DetectorEdge, TransmitTypeOK
    <3>3. /\ status_busy' \in BOOLEAN /\ status_pending' \in BOOLEAN
          /\ status_index' \in 0 .. STATUS_LAST
          /\ status_sequence' \in FrameNumbers /\ status_latched' \in StatusVectors
      <4>1. CASE StatusReset
        BY <4>1, ZeroInRange, ResetAssumption, Zenon DEF StatusReset
      <4>2. CASE CaptureStatus
        BY <4>2, ZeroInRange, InputType, Zenon DEF CaptureStatus, TransmitTypeOK
      <4>3. CASE StatusIdle
        BY <4>3 DEF StatusIdle, status_vars, TransmitTypeOK
      <4>4. CASE StatusSending
        <5>1. status_pending' \in BOOLEAN
          BY <4>4, Zenon DEF StatusSending, RememberTrigger
        <5>2. status_busy' \in BOOLEAN
          BY <4>4, Zenon DEF StatusSending, TransmitTypeOK
        <5>3. /\ status_index' \in 0 .. STATUS_LAST
              /\ status_sequence' \in FrameNumbers /\ status_latched' \in StatusVectors
          BY <4>4, StatusAdvance, FrameAssumption, SequenceStep DEF TransmitTypeOK
        <5> QED BY <5>1, <5>2, <5>3
      <4> QED BY <4>1, <4>2, <4>3, <4>4 DEF StatusTxEdge
    <3>4. /\ sensor_busy' \in BOOLEAN /\ sensor_index' \in 0 .. SENSOR_LAST
          /\ sensor_sequence' \in FrameNumbers /\ sensor_latched' \in Samples
          /\ sample_dropped' \in BOOLEAN
      <4>1. CASE SensorReset
        BY <4>1, ZeroInRange, ResetAssumption, Zenon DEF SensorReset
      <4>2. CASE CaptureSample
        BY <4>2, ZeroInRange, InputType, Zenon DEF CaptureSample, TransmitTypeOK
      <4>3. CASE SensorIdle
        BY <4>3, Zenon DEF SensorIdle, TransmitTypeOK
      <4>4. CASE SensorSending
        <5>1. sensor_busy' \in BOOLEAN /\ sample_dropped' \in BOOLEAN
          BY <4>4, InputType, Zenon DEF SensorSending, TransmitTypeOK
        <5>2. /\ sensor_index' \in 0 .. SENSOR_LAST
              /\ sensor_sequence' \in FrameNumbers /\ sensor_latched' \in Samples
          BY <4>4, SensorAdvance, FrameAssumption, SequenceStep DEF TransmitTypeOK
        <5> QED BY <5>1, <5>2
      <4> QED BY <4>1, <4>2, <4>3, <4>4 DEF SensorTxEdge
    <3>5. grant' \in {"none", "status", "sensor"}
      BY DEF ArbiterEdge, TransmitTypeOK
    <3>6. uart_count' \in 0 .. BYTE_CYCLES
      BY CyclesAssumption DEF UartEdge, UartReady, uart_vars, TransmitTypeOK
    <3>7. data_latched' \in StatusByte \cup SensorByte \cup {NoByte}
      BY OfferedByte DEF UartEdge, uart_vars, TransmitTypeOK
    <3> QED BY <3>1, <3>2, <3>3, <3>4, <3>5, <3>6, <3>7 DEF TransmitTypeOK
  <2> QED BY <2>1, <2>2
<1> QED BY <1>1, <1>2, PTL DEF TransmitSpec

-----------------------------------------------------------------------------
(* No status is lost: whatever the detector has seen is captured, about to *)
(* trigger, or remembered.                                                 *)

Accounted ==
    \/ status_latched = last_status_vector
    \/ status_change = TRUE
    \/ status_pending = TRUE

\* No change of the status is lost to a busy sender.
THEOREM StatusIsReportedHolds == TransmitSpec => []StatusIsReported
<1>1. TransmitInit => Accounted
  BY DEF TransmitInit, Accounted
<1>2. TransmitTypeOK /\ Accounted /\ [TransmitNext]_transmit_vars => Accounted'
  <2> SUFFICES ASSUME TransmitTypeOK, Accounted, [TransmitNext]_transmit_vars PROVE Accounted'
    OBVIOUS
  <2>1. CASE UNCHANGED transmit_vars
    BY <2>1 DEF Accounted, transmit_vars, detector_vars, status_vars
  <2>2. CASE TransmitNext /\ inputs.rst
    BY <2>2, InputType DEF TransmitTypeOK, Accounted, TransmitNext, LinkEdge, DetectorEdge, StatusTxEdge,
      StatusReset, CaptureStatus, StatusIdle, StatusSending
  <2>3. CASE TransmitNext /\ ~inputs.rst /\ inputs.status # last_status_vector
    BY <2>3 DEF Accounted, TransmitNext, LinkEdge, DetectorEdge
  <2>4. CASE TransmitNext /\ ~inputs.rst /\ inputs.status = last_status_vector
    <3>1. last_status_vector' = last_status_vector
      BY <2>4 DEF TransmitNext, LinkEdge, DetectorEdge
    <3>2. CASE CaptureStatus
      BY <3>1, <3>2, <2>4 DEF Accounted, CaptureStatus
    <3>3. CASE StatusIdle
      BY <3>1, <3>3 DEF Accounted, StatusIdle, StatusTrigger, status_vars
    <3>4. CASE StatusSending
      <4>1. CASE status_change = TRUE \/ status_pending = TRUE
        <5>1. status_pending' = TRUE
          BY <3>4, <4>1 DEF StatusSending, RememberTrigger, StatusTrigger
        <5> QED BY <5>1 DEF Accounted
      <4>2. CASE status_latched = last_status_vector
        BY <3>1, <3>4, <4>2 DEF Accounted, StatusSending
      <4> QED BY <4>1, <4>2 DEF Accounted
    <3> QED BY <2>4, <3>2, <3>3, <3>4 DEF TransmitNext, LinkEdge, StatusTxEdge, StatusReset
  <2> QED BY <2>1, <2>2, <2>3, <2>4
<1>3. Accounted => StatusIsReported
  BY DEF Accounted, StatusIsReported
<1> QED BY <1>1, <1>2, <1>3, TransmitTypeCorrect, PTL DEF TransmitSpec

-----------------------------------------------------------------------------
(* Frames stay whole because a sender that has sent a byte keeps the grant  *)
(* until its frame ends: the byte in the UART is always the last one of the *)
(* frame in progress.                                                       *)

StatusInProgress ==
    status_index > 0 =>
        /\ status_busy = TRUE /\ grant = "status"
        /\ data_latched = [from |-> "status", index |-> status_index - 1,
                           sequence |-> status_sequence, content |-> status_latched]

SensorInProgress ==
    sensor_index > 0 =>
        /\ sensor_busy = TRUE /\ grant = "sensor"
        /\ data_latched = [from |-> "sensor", index |-> sensor_index - 1,
                           sequence |-> sensor_sequence, content |-> sensor_latched]

ByteAccounted ==
    data_latched # NoByte /\ data_latched.index < LastIndex(data_latched) =>
        \/ data_latched.from = "status" /\ status_index = data_latched.index + 1
        \/ data_latched.from = "sensor" /\ sensor_index = data_latched.index + 1

FrameInv == StatusInProgress /\ SensorInProgress /\ ByteAccounted

LEMMA FrameStep == TransmitTypeOK /\ FrameInv /\ [TransmitNext]_transmit_vars => FrameInv'
<1> SUFFICES ASSUME TransmitTypeOK, FrameInv, [TransmitNext]_transmit_vars PROVE FrameInv'
  OBVIOUS
<1>1. CASE UNCHANGED transmit_vars
  BY <1>1 DEF FrameInv, StatusInProgress, SensorInProgress, ByteAccounted, LastIndex,
    transmit_vars, status_vars, sensor_vars, uart_vars
<1>2. CASE TransmitNext /\ inputs.rst
  <2>1. status_index' = 0 /\ sensor_index' = 0 /\ data_latched' = NoByte
    BY <1>2 DEF TransmitNext, LinkEdge, StatusTxEdge, StatusReset, CaptureStatus, StatusIdle,
      StatusSending, SensorTxEdge, SensorReset, CaptureSample, SensorIdle, SensorSending,
      UartEdge
  <2> QED BY <2>1 DEF FrameInv, StatusInProgress, SensorInProgress, ByteAccounted
<1>3. CASE TransmitNext /\ ~inputs.rst /\ UartReady /\ UartValid /\ grant = "status"
  <2>1. status_busy = TRUE
    BY <1>3 DEF UartValid, TransmitTypeOK
  <2>2. data_latched' = [from |-> "status", index |-> status_index,
                         sequence |-> status_sequence, content |-> status_latched]
    BY <1>3 DEF TransmitNext, LinkEdge, UartEdge, UartByte
  <2>3. grant' = "status"
    BY <1>3, <2>1 DEF TransmitNext, LinkEdge, ArbiterEdge
  <2>4. sensor_index' = 0
    <3>1. sensor_index = 0
      BY <1>3 DEF FrameInv, SensorInProgress, TransmitTypeOK
    <3> QED BY <1>3, <3>1 DEF TransmitNext, LinkEdge, SensorTxEdge, SensorReset, CaptureSample,
                 SensorIdle, SensorSending, SensorReady
  <2>5. StatusSending /\ StatusReady
    BY <1>3, <2>1 DEF TransmitNext, LinkEdge, StatusTxEdge, StatusReset, CaptureStatus, StatusIdle,
      StatusReady
  <2>6. CASE status_index < STATUS_LAST
    <3>1. /\ status_index' = status_index + 1
          /\ status_sequence' = status_sequence /\ status_latched' = status_latched
      BY <2>5, <2>6, StatusAdvance, FrameAssumption DEF TransmitTypeOK
    <3>2. status_index # STATUS_LAST
      BY <2>6, FrameAssumption DEF TransmitTypeOK
    <3>3. status_busy' = TRUE
      BY <2>1, <2>5, <3>2, Zenon DEF StatusSending
    <3>4. StatusInProgress'
      BY <2>2, <2>3, <3>1, <3>3 DEF StatusInProgress, TransmitTypeOK
    <3> QED BY <2>2, <2>4, <3>1, <3>4 DEF FrameInv, SensorInProgress, ByteAccounted
  <2>7. CASE status_index = STATUS_LAST
    <3>1. status_index' = 0
      BY <2>5, <2>7, StatusAdvance, FrameAssumption DEF TransmitTypeOK
    <3>2. ByteAccounted'
      BY <2>2, <2>7, FrameAssumption DEF ByteAccounted, LastIndex
    <3> QED BY <2>4, <3>1, <3>2 DEF FrameInv, StatusInProgress, SensorInProgress
  <2> QED BY <2>6, <2>7, FrameAssumption DEF TransmitTypeOK
<1>4. CASE TransmitNext /\ ~inputs.rst /\ UartReady /\ UartValid /\ grant = "sensor"
  <2>1. sensor_busy = TRUE
    BY <1>4 DEF UartValid, TransmitTypeOK
  <2>2. data_latched' = [from |-> "sensor", index |-> sensor_index,
                         sequence |-> sensor_sequence, content |-> sensor_latched]
    BY <1>4 DEF TransmitNext, LinkEdge, UartEdge, UartByte
  <2>3. grant' = "sensor"
    BY <1>4, <2>1 DEF TransmitNext, LinkEdge, ArbiterEdge
  <2>4. status_index' = 0
    <3>1. status_index = 0
      BY <1>4 DEF FrameInv, StatusInProgress, TransmitTypeOK
    <3> QED BY <1>4, <3>1 DEF TransmitNext, LinkEdge, StatusTxEdge, StatusReset, CaptureStatus,
                 StatusIdle, StatusSending, StatusReady, status_vars
  <2>5. SensorSending /\ SensorReady
    BY <1>4, <2>1 DEF TransmitNext, LinkEdge, SensorTxEdge, SensorReset, CaptureSample, SensorIdle,
      SensorReady
  <2>6. CASE sensor_index < SENSOR_LAST
    <3>1. /\ sensor_index' = sensor_index + 1
          /\ sensor_sequence' = sensor_sequence /\ sensor_latched' = sensor_latched
      BY <2>5, <2>6, SensorAdvance, FrameAssumption DEF TransmitTypeOK
    <3>2. sensor_index # SENSOR_LAST
      BY <2>6, FrameAssumption DEF TransmitTypeOK
    <3>3. sensor_busy' = TRUE
      BY <2>1, <2>5, <3>2, Zenon DEF SensorSending
    <3>4. SensorInProgress'
      BY <2>2, <2>3, <3>1, <3>3 DEF SensorInProgress, TransmitTypeOK
    <3> QED BY <2>2, <2>4, <3>1, <3>4 DEF FrameInv, StatusInProgress, ByteAccounted
  <2>7. CASE sensor_index = SENSOR_LAST
    <3>1. sensor_index' = 0
      BY <2>5, <2>7, SensorAdvance, FrameAssumption DEF TransmitTypeOK
    <3>2. ByteAccounted'
      BY <2>2, <2>7, FrameAssumption DEF ByteAccounted, LastIndex
    <3> QED BY <2>4, <3>1, <3>2 DEF FrameInv, StatusInProgress, SensorInProgress
  <2> QED BY <2>6, <2>7, FrameAssumption DEF TransmitTypeOK
<1>5. CASE TransmitNext /\ ~inputs.rst /\ ~(UartReady /\ UartValid)
  <2>1. data_latched' = data_latched
    BY <1>5 DEF TransmitNext, LinkEdge, UartEdge, uart_vars
  <2>2. status_index > 0 \/ status_index' > 0 =>
          /\ status_busy = TRUE /\ grant = "status"
          /\ status_index' = status_index /\ status_busy' = TRUE
          /\ status_sequence' = status_sequence /\ status_latched' = status_latched
    BY <1>5 DEF TransmitNext, LinkEdge, StatusTxEdge, StatusReset, CaptureStatus, StatusIdle,
      StatusSending, StatusReady, UartValid, status_vars, TransmitTypeOK, FrameInv, StatusInProgress
  <2>3. sensor_index > 0 \/ sensor_index' > 0 =>
          /\ sensor_busy = TRUE /\ grant = "sensor"
          /\ sensor_index' = sensor_index /\ sensor_busy' = TRUE
          /\ sensor_sequence' = sensor_sequence /\ sensor_latched' = sensor_latched
    BY <1>5 DEF TransmitNext, LinkEdge, SensorTxEdge, SensorReset, CaptureSample, SensorIdle,
      SensorSending, SensorReady, UartValid, TransmitTypeOK, FrameInv, SensorInProgress
  <2>4. (grant = "status" /\ status_busy => grant' = "status")
        /\ (grant = "sensor" /\ sensor_busy => grant' = "sensor")
    BY <1>5 DEF TransmitNext, LinkEdge, ArbiterEdge
  <2>5. StatusInProgress'
    BY <2>1, <2>2, <2>4 DEF FrameInv, StatusInProgress
  <2>6. SensorInProgress'
    BY <2>1, <2>3, <2>4 DEF FrameInv, SensorInProgress
  <2>7. ByteAccounted'
    <3>1. ByteAccounted
      BY DEF FrameInv
    <3> QED BY <2>1, <2>2, <2>3, <3>1 DEF ByteAccounted, LastIndex, TransmitTypeOK, StatusByte,
                 SensorByte
  <2> QED BY <2>5, <2>6, <2>7 DEF FrameInv
<1> QED BY <1>1, <1>2, <1>3, <1>4, <1>5 DEF UartValid

\* What reaches the wire is a sequence of whole frames.
THEOREM FramesIntactHolds == TransmitSpec => FramesIntact
<1>1. TransmitInit => FrameInv
  BY DEF TransmitInit, FrameInv, StatusInProgress, SensorInProgress, ByteAccounted
<1>2. TransmitTypeOK /\ FrameInv /\ [TransmitNext]_transmit_vars
        => [~inputs.rst /\ data_latched' # data_latched
              => Continues(data_latched, data_latched')]_transmit_vars
  <2> SUFFICES ASSUME TransmitTypeOK, FrameInv, TransmitNext, ~inputs.rst,
                      data_latched' # data_latched
               PROVE  Continues(data_latched, data_latched')
    BY DEF transmit_vars, uart_vars
  <2>1. UartReady /\ UartValid /\ data_latched' = UartByte
    BY DEF TransmitNext, LinkEdge, UartEdge, uart_vars
  <2>2. CASE data_latched # NoByte /\ data_latched.index < LastIndex(data_latched)
    <3>1. CASE data_latched.from = "status"
      <4>1. status_index = data_latched.index + 1 /\ status_index > 0
        BY <2>2, <3>1 DEF FrameInv, ByteAccounted, TransmitTypeOK, StatusByte, SensorByte
      <4>2. grant = "status"
            /\ data_latched = [from |-> "status", index |-> status_index - 1,
                   sequence |-> status_sequence, content |-> status_latched]
        BY <4>1 DEF FrameInv, StatusInProgress
      <4>3. UartByte = [data_latched EXCEPT !.index = data_latched.index + 1]
        BY <4>1, <4>2 DEF UartByte, TransmitTypeOK
      <4> QED BY <2>1, <2>2, <4>3 DEF Continues
    <3>2. CASE data_latched.from = "sensor"
      <4>1. sensor_index = data_latched.index + 1 /\ sensor_index > 0
        BY <2>2, <3>2 DEF FrameInv, ByteAccounted, TransmitTypeOK, StatusByte, SensorByte
      <4>2. grant = "sensor"
            /\ data_latched = [from |-> "sensor", index |-> sensor_index - 1,
                   sequence |-> sensor_sequence, content |-> sensor_latched]
        BY <4>1 DEF FrameInv, SensorInProgress
      <4>3. UartByte = [data_latched EXCEPT !.index = data_latched.index + 1]
        BY <4>1, <4>2 DEF UartByte, TransmitTypeOK
      <4> QED BY <2>1, <2>2, <4>3 DEF Continues
    <3> QED BY <2>2, <3>1, <3>2 DEF TransmitTypeOK, StatusByte, SensorByte
  <2>3. CASE ~(data_latched # NoByte /\ data_latched.index < LastIndex(data_latched))
    <3>1. UartByte.index = 0
      <4>1. CASE grant = "status"
        <5>1. status_index = 0
          <6> SUFFICES ASSUME status_index > 0 PROVE FALSE
            BY DEF TransmitTypeOK
          <6>1. data_latched = [from |-> "status", index |-> status_index - 1,
                   sequence |-> status_sequence, content |-> status_latched]
            BY DEF FrameInv, StatusInProgress
          <6>2. status_index - 1 \in 0 .. STATUS_LAST /\ status_index - 1 < STATUS_LAST
            BY FrameAssumption DEF TransmitTypeOK
          <6>3. status_sequence \in FrameNumbers
            BY DEF TransmitTypeOK
          <6>4. status_latched \in StatusVectors
            BY DEF TransmitTypeOK
          <6>5. data_latched \in StatusByte
            BY <6>1, <6>2, <6>3, <6>4 DEF StatusByte
          <6>6. data_latched # NoByte /\ data_latched.index < LastIndex(data_latched)
            BY <6>1, <6>2, <6>5, NoByteAssumption DEF LastIndex
          <6> QED BY <6>6, <2>3
        <5> QED BY <4>1, <5>1 DEF UartByte
      <4>2. CASE grant = "sensor"
        <5>1. sensor_index = 0
          <6> SUFFICES ASSUME sensor_index > 0 PROVE FALSE
            BY DEF TransmitTypeOK
          <6>1. data_latched = [from |-> "sensor", index |-> sensor_index - 1,
                   sequence |-> sensor_sequence, content |-> sensor_latched]
            BY DEF FrameInv, SensorInProgress
          <6>2. sensor_index - 1 \in 0 .. SENSOR_LAST /\ sensor_index - 1 < SENSOR_LAST
            BY FrameAssumption DEF TransmitTypeOK
          <6>3. sensor_sequence \in FrameNumbers
            BY DEF TransmitTypeOK
          <6>4. sensor_latched \in Samples
            BY DEF TransmitTypeOK
          <6>5. data_latched \in SensorByte
            BY <6>1, <6>2, <6>3, <6>4 DEF SensorByte
          <6>6. data_latched # NoByte /\ data_latched.index < LastIndex(data_latched)
            BY <6>1, <6>2, <6>5, NoByteAssumption DEF LastIndex
          <6> QED BY <6>6, <2>3
        <5> QED BY <4>2, <5>1 DEF UartByte
      <4> QED BY <2>1, <4>1, <4>2 DEF UartValid
    <3> QED BY <2>1, <2>3, <3>1 DEF Continues
  <2> QED BY <2>2, <2>3
<1> QED BY <1>1, <1>2, FrameStep, TransmitTypeCorrect, PTL DEF TransmitSpec, FramesIntact

-----------------------------------------------------------------------------
(* THE SENSOR PATH: type correctness, exact ages, the verdict's bond to the  *)
(* reading and the stability of a steadily updated channel, for every set of *)
(* channels, freshness limit, window, timebase range and clock rate.         *)

Times == 0 .. (TIME_SPAN - 1)

(* The three uses of arithmetic modulo TIME_SPAN, as case distinctions. *)

LEMMA TickModulo ==
  ASSUME NEW t \in Times
  PROVE  (t + 1) % TIME_SPAN = IF t = TIME_SPAN - 1 THEN 0 ELSE t + 1
  BY SpanAssumption DEF Times

LEMMA DifferenceModulo ==
  ASSUME NEW t \in Times, NEW u \in Times
  PROVE  (t - u) % TIME_SPAN = IF t >= u THEN t - u ELSE t - u + TIME_SPAN
  BY SpanAssumption DEF Times

LEMMA ElapsedModulo ==
  ASSUME NEW e \in 0 .. (2 * TIME_SPAN - 1)
  PROVE  e % TIME_SPAN = IF e < TIME_SPAN THEN e ELSE e - TIME_SPAN
  BY SpanAssumption

-----------------------------------------------------------------------------

LEMMA SensorTypeInit == SensorInit => SensorTypeOK
<1> SUFFICES ASSUME SensorInit PROVE SensorTypeOK
  OBVIOUS
<1>1. /\ channel_inputs \in ChannelInputs
      /\ ms_counter \in 0 .. (CYCLES_PER_MS - 1) /\ time_ms \in 0 .. (TIME_SPAN - 1)
  BY SpanAssumption DEF SensorInit, ChainInit
<1>2. /\ sample_count \in [Channels -> Nat]
      /\ \A c \in Channels : sample_count[c] < WINDOW_SAMPLES[c]
  BY WindowAssumption DEF SensorInit, ChainInit
<1>3. /\ update \in [Channels -> BOOLEAN] /\ reading \in [Channels -> Readings]
      /\ seen \in [Channels -> BOOLEAN] /\ plausible \in [Channels -> BOOLEAN]
  BY DEF SensorInit, ChainInit, Readings
<1>4. /\ last_ms \in [Channels -> 0 .. (TIME_SPAN - 1)]
      /\ elapsed \in [Channels -> 0 .. (2 * TIME_SPAN - 1)]
  BY SpanAssumption DEF SensorInit, ChainInit
<1> QED BY <1>1, <1>2, <1>3, <1>4 DEF SensorTypeOK

LEMMA SensorTypeStep == SensorTypeOK /\ [SensorNext]_sensor_monitor_vars => SensorTypeOK'
<1> SUFFICES ASSUME SensorTypeOK, [SensorNext]_sensor_monitor_vars PROVE SensorTypeOK'
  OBVIOUS
<1>1. CASE UNCHANGED sensor_monitor_vars
  BY <1>1 DEF SensorTypeOK, sensor_monitor_vars, chain_vars, timebase_vars, frontend_vars,
    supervisor_vars
<1>2. CASE SensorNext
  <2> USE <1>2 DEF SensorNext, ChainNext, ChainEdge
  <2>1. channel_inputs' \in ChannelInputs
    OBVIOUS
  <2>2. ms_counter' \in 0 .. (CYCLES_PER_MS - 1) /\ time_ms' \in 0 .. (TIME_SPAN - 1)
    BY SpanAssumption, TickModulo DEF TimebaseEdge, SensorTypeOK, Times
  <2>3. /\ sample_count' \in [Channels -> Nat]
        /\ \A c \in Channels : sample_count'[c] < WINDOW_SAMPLES[c]
    <3>1. \A c \in Channels :
            /\ CountSample(c) \in Nat /\ CountSample(c) < WINDOW_SAMPLES[c]
            /\ WINDOW_SAMPLES[c] > 0
      BY WindowAssumption DEF CountSample, SensorTypeOK
    <3> QED BY <3>1 DEF FrontendEdge, FrontendReset
  <2>4. update' \in [Channels -> BOOLEAN]
    BY DEF FrontendEdge, FrontendReset, Completes
  <2>5. reading' \in [Channels -> Readings]
    <3>1. \A c \in Channels : Completes(c) => channel_inputs.raw[c] \in Readings
      BY ChannelInputsAssumption DEF Completes, SensorTypeOK, ChannelInput
    <3> QED BY <3>1 DEF FrontendEdge, FrontendReset, SensorTypeOK, Readings
  <2>6. last_ms' \in [Channels -> 0 .. (TIME_SPAN - 1)]
    BY SpanAssumption DEF SupervisorEdge, SupervisorReset, RecordUpdates, SensorTypeOK
  <2>7. seen' \in [Channels -> BOOLEAN] /\ plausible' \in [Channels -> BOOLEAN]
    BY DEF SupervisorEdge, SupervisorReset, RecordUpdates, SensorTypeOK
  <2>8. elapsed' \in [Channels -> 0 .. (2 * TIME_SPAN - 1)]
    <3>1. /\ 0 \in 0 .. (2 * TIME_SPAN - 1) /\ Tick \in 0 .. (2 * TIME_SPAN - 1)
          /\ \A e \in 0 .. (2 * TIME_SPAN - 1) :
                LaterBy(e, Tick) \in 0 .. (2 * TIME_SPAN - 1)
      BY SpanAssumption DEF Tick, LaterBy
    <3> QED BY <3>1 DEF Observe, SensorTypeOK
  <2> QED BY <2>1, <2>2, <2>3, <2>4, <2>5, <2>6, <2>7, <2>8 DEF SensorTypeOK
<1> QED BY <1>1, <1>2

\* Every register of the sensor path and every elapsed time is in its range.
THEOREM SensorTypeCorrect == SensorSpec => []SensorTypeOK
BY SensorTypeInit, SensorTypeStep, PTL DEF SensorSpec

-----------------------------------------------------------------------------
(* Timebase, timestamp and elapsed time move together: AgeIsExact is        *)
(* inductive over the type invariant.                                       *)

LEMMA AgeStep ==
    SensorTypeOK /\ AgeIsExact /\ [SensorNext]_sensor_monitor_vars => AgeIsExact'
<1> SUFFICES ASSUME SensorTypeOK, AgeIsExact, [SensorNext]_sensor_monitor_vars,
                    NEW c \in Channels, seen'[c]
             PROVE  Age(c)' = elapsed'[c] % TIME_SPAN
  BY DEF AgeIsExact
<1>1. CASE UNCHANGED sensor_monitor_vars
  BY <1>1 DEF AgeIsExact, Age, sensor_monitor_vars, chain_vars, timebase_vars, supervisor_vars
<1>2. CASE SensorNext
  <2>1. ~channel_inputs.rst
    BY <1>2 DEF SensorNext, ChainNext, ChainEdge, SupervisorEdge, SupervisorReset,
      RecordUpdates
  <2>2. /\ time_ms \in Times /\ last_ms[c] \in Times
        /\ elapsed[c] \in 0 .. (2 * TIME_SPAN - 1)
        /\ time_ms' \in Times /\ last_ms'[c] \in Times
        /\ elapsed'[c] \in 0 .. (2 * TIME_SPAN - 1)
    BY <1>2, SensorTypeStep DEF SensorTypeOK, Times
  <2>3. time_ms' = (time_ms + Tick) % TIME_SPAN
    BY <1>2, <2>1, <2>2, SpanAssumption DEF SensorNext, ChainNext, ChainEdge, TimebaseEdge,
      Tick, SensorTypeOK, Times
  <2>4. \/ Tick = 1
        \/ Tick = 0 /\ time_ms' = time_ms
    BY <1>2, <2>1, SpanAssumption DEF SensorNext, ChainNext, ChainEdge, TimebaseEdge, Tick,
      SensorTypeOK
  <2>5. CASE update[c]
    <3>1. last_ms'[c] = time_ms /\ elapsed'[c] = Tick
      BY <1>2, <2>1, <2>5 DEF SensorNext, ChainNext, ChainEdge, SupervisorEdge,
        SupervisorReset, RecordUpdates, Observe
    <3>2. (time_ms' - time_ms) % TIME_SPAN = Tick % TIME_SPAN
      <4>1. (time_ms' - time_ms) % TIME_SPAN =
              IF time_ms' >= time_ms THEN time_ms' - time_ms
              ELSE time_ms' - time_ms + TIME_SPAN
        BY <2>2, DifferenceModulo
      <4>2. Tick \in 0 .. (2 * TIME_SPAN - 1)
        BY <2>2, <3>1
      <4>3. Tick % TIME_SPAN = IF Tick < TIME_SPAN THEN Tick ELSE Tick - TIME_SPAN
        BY <4>2, ElapsedModulo
      <4>4. CASE Tick = 1
        <5>1. time_ms' = IF time_ms = TIME_SPAN - 1 THEN 0 ELSE time_ms + 1
          BY <4>4, <2>2, <2>3, TickModulo
        <5> QED BY <4>1, <4>3, <4>4, <5>1, <2>2, SpanAssumption DEF Times
      <4>5. CASE Tick = 0 /\ time_ms' = time_ms
        BY <4>1, <4>3, <4>5, <2>2, SpanAssumption DEF Times
      <4> QED BY <4>4, <4>5, <2>4
    <3> QED BY <3>1, <3>2 DEF Age
  <2>6. CASE ~update[c]
    <3>1. /\ last_ms'[c] = last_ms[c] /\ seen[c]
          /\ elapsed'[c] = LaterBy(elapsed[c], Tick)
      BY <1>2, <2>1, <2>6 DEF SensorNext, ChainNext, ChainEdge, SupervisorEdge,
        SupervisorReset, RecordUpdates, Observe
    <3>2. (time_ms - last_ms[c]) % TIME_SPAN = elapsed[c] % TIME_SPAN
      BY <3>1 DEF AgeIsExact, Age
    <3>3. (time_ms' - last_ms[c]) % TIME_SPAN = LaterBy(elapsed[c], Tick) % TIME_SPAN
      <4> DEFINE t == time_ms  t1 == time_ms'  u == last_ms[c]  e == elapsed[c]
                 e1 == LaterBy(elapsed[c], Tick)
      <4>1. /\ t \in Times /\ t1 \in Times /\ u \in Times
            /\ e \in 0 .. (2 * TIME_SPAN - 1) /\ e1 \in 0 .. (2 * TIME_SPAN - 1)
        BY <2>2, <3>1
      <4>2. /\ (t1 - u) % TIME_SPAN = IF t1 >= u THEN t1 - u ELSE t1 - u + TIME_SPAN
            /\ (t - u) % TIME_SPAN = IF t >= u THEN t - u ELSE t - u + TIME_SPAN
        BY <4>1, DifferenceModulo
      <4>3. /\ e % TIME_SPAN = IF e < TIME_SPAN THEN e ELSE e - TIME_SPAN
            /\ e1 % TIME_SPAN = IF e1 < TIME_SPAN THEN e1 ELSE e1 - TIME_SPAN
        BY <4>1, ElapsedModulo
      <4>4. \/ /\ e1 = IF e + 1 = 2 * TIME_SPAN THEN TIME_SPAN ELSE e + 1
               /\ t1 = IF t = TIME_SPAN - 1 THEN 0 ELSE t + 1
            \/ e1 = e /\ t1 = t
        <5>1. CASE Tick = 1
          BY <5>1, <4>1, <2>3, TickModulo DEF LaterBy
        <5>2. CASE Tick = 0 /\ time_ms' = time_ms
          BY <5>2, <4>1, SpanAssumption DEF LaterBy
        <5> QED BY <5>1, <5>2, <2>4
      <4> HIDE DEF t, t1, u, e, e1
      <4>5. (t1 - u) % TIME_SPAN = e1 % TIME_SPAN
        <5>1. (t - u) % TIME_SPAN = e % TIME_SPAN
          BY <3>2 DEF t, u, e
        <5> QED BY <4>1, <4>2, <4>3, <4>4, <5>1, SpanAssumption DEF Times
      <4> QED BY <4>5 DEF t1, u, e1
    <3> QED BY <3>1, <3>3 DEF Age
  <2> QED BY <2>5, <2>6
<1> QED BY <1>1, <1>2

\* The age of a channel is exact up to whole turns of the timebase.
THEOREM AgeIsExactHolds == SensorSpec => []AgeIsExact
<1>1. SensorInit => AgeIsExact
  BY DEF SensorInit, ChainInit, AgeIsExact
<1> QED BY <1>1, AgeStep, SensorTypeCorrect, PTL DEF SensorSpec

-----------------------------------------------------------------------------
(* Between two updates the supervisor's verdict and the frontend's reading  *)
(* agree, whether or not the channel is fresh.                              *)

VerdictInv ==
    \A c \in Channels : plausible[c] /\ ~update[c] => reading[c] = "plausible"

\* Except on the edge of an update the verdict is about the reading shown.
THEOREM VerdictIsOnReadingHolds == SensorSpec => []VerdictIsOnReading
<1>1. SensorInit => VerdictInv
  BY DEF SensorInit, ChainInit, VerdictInv
<1>2. SensorTypeOK /\ VerdictInv /\ [SensorNext]_sensor_monitor_vars => VerdictInv'
  <2> SUFFICES ASSUME SensorTypeOK, VerdictInv, [SensorNext]_sensor_monitor_vars,
                      NEW c \in Channels, plausible'[c], ~update'[c]
               PROVE  reading'[c] = "plausible"
    BY DEF VerdictInv
  <2>1. CASE UNCHANGED sensor_monitor_vars
    BY <2>1 DEF VerdictInv, sensor_monitor_vars, chain_vars, frontend_vars, supervisor_vars
  <2>2. CASE SensorNext
    <3>1. ~channel_inputs.rst
      BY <2>2 DEF SensorNext, ChainNext, ChainEdge, SupervisorEdge, SupervisorReset,
        RecordUpdates
    <3>2. reading'[c] = reading[c]
      BY <2>2, <3>1 DEF SensorNext, ChainNext, ChainEdge, FrontendEdge, FrontendReset
    <3>3. \/ plausible[c] /\ ~update[c]
          \/ reading[c] = "plausible"
      BY <2>2, <3>1 DEF SensorNext, ChainNext, ChainEdge, SupervisorEdge, SupervisorReset,
        RecordUpdates
    <3> QED BY <3>2, <3>3 DEF VerdictInv
  <2> QED BY <2>1, <2>2
<1>3. VerdictInv => VerdictIsOnReading
  BY DEF VerdictInv, VerdictIsOnReading, Valid
<1> QED BY <1>1, <1>2, <1>3, SensorTypeCorrect, PTL DEF SensorSpec

-----------------------------------------------------------------------------

\* A channel that goes on delivering plausible readings in time stays valid.
THEOREM SteadyStaysValidHolds == SensorSpec => SteadyStaysValid
<1> DEFINE Steady ==
      \A c \in Channels :
          /\ ~channel_inputs.rst /\ Valid(c)
          /\ update[c] => reading[c] = "plausible"
          /\ elapsed[c] < STALE_MS[c] \/ update[c]
          => Valid(c)'
<1>1. SensorTypeOK /\ AgeIsExact /\ [SensorNext]_sensor_monitor_vars => [Steady]_sensor_monitor_vars
  <2> SUFFICES ASSUME SensorTypeOK, AgeIsExact, SensorNext, NEW c \in Channels,
                      ~channel_inputs.rst, Valid(c), update[c] => reading[c] = "plausible",
                      elapsed[c] < STALE_MS[c] \/ update[c]
               PROVE  Valid(c)'
    OBVIOUS
  <2>1. seen'[c] /\ plausible'[c]
    BY DEF SensorNext, ChainNext, ChainEdge, SupervisorEdge, SupervisorReset, RecordUpdates,
      Valid
  <2>2. elapsed'[c] <= STALE_MS[c] /\ elapsed'[c] \in 0 .. (TIME_SPAN - 1)
    <3>1. STALE_MS[c] \in 1 .. (TIME_SPAN - 2) /\ elapsed[c] \in 0 .. (2 * TIME_SPAN - 1)
      BY StaleAssumption DEF SensorTypeOK
    <3>2. elapsed'[c] = IF update[c] THEN Tick ELSE LaterBy(elapsed[c], Tick)
      BY DEF SensorNext, Observe
    <3> QED BY <3>1, <3>2, SpanAssumption DEF Tick, LaterBy
  <2>3. Age(c)' = elapsed'[c]
    <3>1. AgeIsExact'
      BY AgeStep
    <3>2. Age(c)' = elapsed'[c] % TIME_SPAN
      BY <2>1, <3>1 DEF AgeIsExact
    <3> QED BY <2>2, <3>2, SpanAssumption
  <2> QED BY <2>1, <2>2, <2>3 DEF Valid
<1> QED BY <1>1, SensorTypeCorrect, AgeIsExactHolds, PTL DEF SensorSpec, SteadyStaysValid
=============================================================================
