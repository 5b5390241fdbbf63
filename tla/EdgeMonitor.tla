----------------------------- MODULE EdgeMonitor -----------------------------
(***************************************************************************)
(* EdgeRuntime with the history its properties speak of: what the frames    *)
(* that passed the gates mean in the order in which they arrived, as        *)
(* opposed to what the loop makes of them when it comes to handle them.     *)
(***************************************************************************)
EXTENDS EdgeRuntime

VARIABLES
    latest,  \* the stream of accepted frames up to now
    due      \* the same after each accepted frame not yet handled

history == <<latest, due>>
monitor_vars == <<vars, history>>

\* alarms: those of the last accepted status frame.  raised: those it raised.
\* streak: sensor frames in a row, all of them valid, since the last logged
\* loss of the link; WINDOW_SIZE for more.
Stream == [alarms : SUBSET Alarms, raised : SUBSET Alarms, streak : 0 .. WINDOW_SIZE]
Fresh == [alarms |-> {}, raised |-> {}, streak |-> 0]

Longer(streak) == IF streak < WINDOW_SIZE THEN streak + 1 ELSE streak

After(stream, m) ==
    IF m \in StatusFrame
    THEN [stream EXCEPT !.alarms = m.alarms, !.raised = m.alarms \ stream.alarms]
    ELSE [stream EXCEPT !.raised = {},
                        !.streak = IF m.valid THEN Longer(stream.streak) ELSE 0]

MonitorInit == Init /\ latest = Fresh /\ due = <<>>

SeeAccepted(m) ==
    /\ latest' = After(latest, m)
    /\ due' = Append(due, After(latest, m))

SeeHandled == due' = Tail(due) /\ UNCHANGED latest

SeeSilence ==
    /\ latest' = IF LinkLost THEN [latest EXCEPT !.streak = 0] ELSE latest
    /\ UNCHANGED due

SeeReboot == latest' = Fresh /\ due' = <<>>

Unseen ==
    \/ \E k \in Kinds : FrameLost(k)
    \/ \E m \in Frame : RejectStaleFrame(m)
    \/ FpgaReset \/ TimePasses \/ StartRead \/ ReceiveReturns

Handle == HandleStatus \/ HandleInvalidSensor \/ HandleValidSensor

MonitorNext ==
    \/ Unseen /\ UNCHANGED history
    \/ \E m \in Frame : AcceptFrame(m) /\ SeeAccepted(m)
    \/ Handle /\ SeeHandled
    \/ ReceiveSilent /\ SeeSilence
    \/ Reboot /\ SeeReboot

MonitorSpec == MonitorInit /\ [][MonitorNext]_monitor_vars /\ Fairness

\* Every register of the edge application and all history is of its kind.
EdgeTypeOK ==
    /\ number \in [Kinds -> SequenceNumbers]
    /\ last_sequence \in [Kinds -> SequenceNumbers \cup {NoSequence}]
    /\ pending \in Seq(Frame) /\ Len(pending) <= PENDING_CAPACITY
    /\ dropped \in Nat
    /\ pc \in {"loop", "read"} /\ frames \in 0 .. READ_FRAMES
    /\ count \in 0 .. WINDOW_SIZE /\ age \in 0 .. LINK_LOSS
    /\ link_loss_logged \in BOOLEAN /\ sensor_invalid_logged \in BOOLEAN
    /\ previous_alarms \subseteq Alarms
    /\ latest \in Stream /\ due \in Seq(Stream)

-----------------------------------------------------------------------------

\* The queue between decoder and loop never overflows, however many frames a
\* read completes and however they are mixed.
NothingDropped == dropped = 0

\* The alarms about to be recorded for a status frame are exactly those it
\* raised over the accepted status frame before it, whatever other frames the
\* same read brought, and also when an alarm rose and fell within one read.
AcceptedAlarmsRecorded ==
    pending # <<>> /\ Head(pending).kind = "status"
        => Raised(Head(pending)) = Head(due).raised

\* The window on which a sensor frame is classified holds the valid frames
\* accepted up to this one since the last invalid one or logged loss: no invalid
\* frame is bridged by a read that brings several, and none counts twice.
WindowIsEarned ==
    pending # <<>> /\ Head(pending).kind = "sensor" /\ Head(pending).valid
        => Ingest = Head(due).streak

SensorAccepted == \E m \in SensorFrame : AcceptFrame(m)
FrameRead(k) == \E m \in Frame : m.kind = k /\ Decode(k)
FrameAccepted(k) == \E m \in Frame : m.kind = k /\ AcceptFrame(m)
Undisturbed(k) == ~FrameLost(k) /\ ~FpgaReset /\ ~Reboot

\* A sequence gate does not lock out a restarted FPGA for good: as long as its
\* frames keep arriving, some are accepted again and again.
GatesReopen ==
    \A k \in Kinds :
        <>[][Undisturbed(k)]_vars /\ []<><<FrameRead(k)>>_vars
            => []<><<FrameAccepted(k)>>_vars

\* When no sensor frame is accepted any more the loss is logged, status frames
\* or not, provided that receive comes back empty-handed again and again.
LossIsNoticed ==
    <>[][~SensorAccepted /\ ~Reboot]_vars /\ []<><<ReceiveSilent>>_vars
        => <>[]link_loss_logged

=============================================================================
