-------------------------- MODULE EdgeRuntimeProofs --------------------------
(***************************************************************************)
(* Proofs about the edge application, for every sequence range, queue,      *)
(* read, window and set of alarms.                                         *)
(***************************************************************************)
EXTENDS EdgeMonitor, TLAPS

\* While a read goes on the queue holds no more than the read has decoded.
QueueFits == pc = "read" => Len(pending) <= frames

\* d is what the stream says after frame m, when it said alarms and streak before.
Follows(alarms, streak, m, d) ==
    /\ m.kind = "status" => /\ d.alarms = m.alarms
                            /\ d.raised = m.alarms \ alarms
                            /\ d.streak = streak
    /\ m.kind = "sensor" => /\ d.alarms = alarms
                            /\ d.streak = IF m.valid THEN Longer(streak) ELSE 0

\* The history continues from what the loop remembers, frame by frame.
Chained ==
    /\ Len(due) = Len(pending)
    /\ pending # <<>> => Follows(previous_alarms, count, pending[1], due[1])
    /\ \A i \in 2 .. Len(pending) :
           Follows(due[i - 1].alarms, due[i - 1].streak, pending[i], due[i])
    /\ pending = <<>> => latest.alarms = previous_alarms /\ latest.streak = count
    /\ pending # <<>> => latest = due[Len(due)]

Inv == EdgeTypeOK /\ NothingDropped /\ QueueFits /\ Chained

-----------------------------------------------------------------------------
(* Frames, streams and queues *)

LEMMA FrameKinds ==
    ASSUME NEW m \in Frame
    PROVE  /\ m.kind \in Kinds
           /\ m.kind = "status" <=> m \in StatusFrame
           /\ m.kind = "sensor" <=> m \in SensorFrame
           /\ m.kind = "status" => m.alarms \subseteq Alarms
           /\ m.kind = "sensor" => m.valid \in BOOLEAN
  BY DEF Frame, SensorFrame, StatusFrame, Kinds

LEMMA FreshStream == Fresh \in Stream
<1>1. 0 \in 0 .. WINDOW_SIZE
  BY WindowAssumption
<1> QED BY <1>1 DEF Fresh, Stream

LEMMA AfterStream ==
    ASSUME NEW stream \in Stream, NEW m \in Frame
    PROVE  /\ After(stream, m) \in Stream
           /\ Follows(stream.alarms, stream.streak, m, After(stream, m))
<1>1. CASE m.kind = "status"
  <2>1. After(stream, m)
          = [stream EXCEPT !.alarms = m.alarms, !.raised = m.alarms \ stream.alarms]
    BY <1>1, FrameKinds DEF After
  <2>2. m.alarms \subseteq Alarms
    BY <1>1, FrameKinds
  <2> QED BY ONLY <1>1, <2>1, <2>2, stream \in Stream DEF Stream, Follows
<1>2. CASE m.kind = "sensor"
  <2>1. After(stream, m)
          = [stream EXCEPT !.raised = {},
                           !.streak = IF m.valid THEN Longer(stream.streak) ELSE 0]
    BY <1>2, FrameKinds DEF After
  <2>2. Longer(stream.streak) \in 0 .. WINDOW_SIZE /\ 0 \in 0 .. WINDOW_SIZE
    BY WindowAssumption DEF Longer, Stream
  <2> QED BY ONLY <1>2, <2>1, <2>2, stream \in Stream DEF Stream, Follows
<1> QED BY <1>1, <1>2, FrameKinds DEF Kinds

LEMMA NumberAdvances ==
    ASSUME number \in [Kinds -> SequenceNumbers], NEW k \in Kinds
    PROVE  Advanced(k) \in [Kinds -> SequenceNumbers]
  BY RangeAssumption DEF Advanced, SequenceNumbers

\* The first of the frames not yet handled continues what the loop remembers.
LEMMA HeadFollows ==
    ASSUME Inv, pending # <<>>
    PROVE  /\ Head(pending) \in Frame /\ Head(due) \in Stream
           /\ Follows(previous_alarms, count, Head(pending), Head(due))
  BY DEF Inv, EdgeTypeOK, Chained

-----------------------------------------------------------------------------

LEMMA InvInit == MonitorInit => Inv
<1> SUFFICES ASSUME MonitorInit PROVE Inv
  OBVIOUS
<1> USE RangeAssumption, ReadAssumption, WindowAssumption, LossAssumption
<1>1. EdgeTypeOK
  <2>1. 0 \in SequenceNumbers /\ 0 \in 0 .. WINDOW_SIZE
    BY DEF SequenceNumbers
  <2>2. Fresh \in Stream
    BY FreshStream
  <2>3. /\ number \in [Kinds -> SequenceNumbers]
        /\ last_sequence \in [Kinds -> SequenceNumbers \cup {NoSequence}]
    BY <2>1 DEF MonitorInit, Init
  <2>4. pending \in Seq(Frame) /\ due \in Seq(Stream) /\ Len(pending) <= PENDING_CAPACITY
    BY DEF MonitorInit, Init
  <2>5. link_loss_logged \in BOOLEAN /\ sensor_invalid_logged \in BOOLEAN
    BY DEF MonitorInit, Init
  <2> QED BY <2>1, <2>2, <2>3, <2>4, <2>5 DEF MonitorInit, Init, EdgeTypeOK
<1>2. NothingDropped /\ QueueFits /\ Chained
  BY DEF MonitorInit, Init, NothingDropped, QueueFits, Chained, Fresh
<1> QED BY <1>1, <1>2 DEF Inv

LEMMA AcceptStep ==
    ASSUME Inv, NEW m \in Frame, AcceptFrame(m), SeeAccepted(m)
    PROVE  Inv'
<1> DEFINE d == After(latest, m)
<1>1. /\ pc = "read" /\ UNCHANGED <<pc, runtime_vars>>
      /\ frames < READ_FRAMES /\ frames' = frames + 1
      /\ number' = Advanced(m.kind)
      /\ last_sequence' = [last_sequence EXCEPT ![m.kind] = number[m.kind]]
  BY DEF AcceptFrame, Decode
<1>2. Len(pending) < PENDING_CAPACITY
  BY <1>1, ReadAssumption DEF Inv, EdgeTypeOK, QueueFits
<1>3. pending' = Append(pending, m) /\ dropped' = dropped
  BY <1>2 DEF AcceptFrame, Enqueue
<1>4. d \in Stream /\ Follows(latest.alarms, latest.streak, m, d)
  BY AfterStream DEF Inv, EdgeTypeOK
<1>5. latest' = d /\ due' = Append(due, d)
  BY DEF SeeAccepted
<1>6. pending \in Seq(Frame) /\ due \in Seq(Stream) /\ Len(due) = Len(pending)
  BY DEF Inv, EdgeTypeOK, Chained
<1> HIDE DEF d
<1>7. EdgeTypeOK'
  <2>1. number' \in [Kinds -> SequenceNumbers]
    BY <1>1, FrameKinds, NumberAdvances DEF Inv, EdgeTypeOK
  <2>2. last_sequence' \in [Kinds -> SequenceNumbers \cup {NoSequence}]
    BY <1>1, FrameKinds DEF Inv, EdgeTypeOK
  <2>3. pending' \in Seq(Frame) /\ Len(pending') <= PENDING_CAPACITY
    BY <1>2, <1>3, <1>6, ReadAssumption
  <2>4. latest' \in Stream /\ due' \in Seq(Stream)
    BY <1>4, <1>5, <1>6
  <2>6. frames' \in 0 .. READ_FRAMES
    BY <1>1, ReadAssumption DEF Inv, EdgeTypeOK
  <2> QED BY <1>1, <1>3, <2>1, <2>2, <2>3, <2>4, <2>6
          DEF Inv, EdgeTypeOK, runtime_vars
<1>8. NothingDropped' /\ QueueFits'
  BY <1>1, <1>3, <1>6 DEF Inv, NothingDropped, QueueFits, EdgeTypeOK
<1>9. Chained'
  <2>1. UNCHANGED <<previous_alarms, count>>
    BY <1>1 DEF runtime_vars
  <2>2. /\ Len(pending') = Len(pending) + 1 /\ Len(due') = Len(due) + 1
        /\ pending'[Len(pending')] = m /\ due'[Len(due')] = d
        /\ \A i \in 1 .. Len(pending) : pending'[i] = pending[i] /\ due'[i] = due[i]
    BY <1>3, <1>5, <1>6
  <2>3. pending' # <<>> => Follows(previous_alarms, count, pending'[1], due'[1])
    <3>1. CASE pending = <<>>
      BY <3>1, <2>2, <1>4, <1>6 DEF Inv, Chained
    <3>2. CASE pending # <<>>
      BY <3>2, <2>2, <1>6 DEF Inv, Chained
    <3> QED BY <3>1, <3>2
  <2>4. ASSUME NEW i \in 2 .. Len(pending')
        PROVE  Follows(due'[i - 1].alarms, due'[i - 1].streak, pending'[i], due'[i])
    <3>1. CASE i <= Len(pending)
      <4>1. i \in 2 .. Len(pending) /\ i - 1 \in 1 .. Len(pending) /\ i \in 1 .. Len(pending)
        BY <3>1, <1>6
      <4> QED BY <4>1, <2>2 DEF Inv, Chained
    <3>2. CASE i = Len(pending')
      <4>1. i - 1 = Len(pending) /\ i - 1 \in 1 .. Len(pending) /\ pending # <<>>
        BY <3>2, <2>2, <1>6
      <4>2. latest = due[i - 1] /\ due'[i - 1] = due[i - 1]
        BY <4>1, <2>2, <1>6 DEF Inv, Chained
      <4> QED BY <4>2, <3>2, <2>2, <1>4, <1>6
    <3> QED BY <3>1, <3>2, <2>2, <1>6
  <2> QED BY <1>5, <1>6, <2>1, <2>2, <2>3, <2>4 DEF Chained
<1> QED BY <1>7, <1>8, <1>9 DEF Inv

\* A step of the loop that makes of its frame what the history says it means.
LEMMA HandledStep ==
    ASSUME Inv, pc = "loop", pending # <<>>, pending' = Tail(pending), SeeHandled,
           UNCHANGED <<number, last_sequence, dropped, read_vars>>,
           previous_alarms' = due[1].alarms, count' = due[1].streak,
           age' \in 0 .. LINK_LOSS, link_loss_logged' \in BOOLEAN,
           sensor_invalid_logged' \in BOOLEAN
    PROVE  Inv'
<1>1. pending \in Seq(Frame) /\ due \in Seq(Stream) /\ Len(due) = Len(pending)
  BY DEF Inv, EdgeTypeOK, Chained
<1>2. due[1] \in Stream
  BY <1>1
<1>3. /\ due' = Tail(due) /\ pending' \in Seq(Frame) /\ due' \in Seq(Stream)
      /\ Len(pending') = Len(pending) - 1 /\ Len(due') = Len(due) - 1
      /\ \A i \in 1 .. Len(pending') :
            pending'[i] = pending[i + 1] /\ due'[i] = due[i + 1]
  BY <1>1 DEF SeeHandled
<1>4. EdgeTypeOK'
  <2>1. previous_alarms' \subseteq Alarms /\ count' \in 0 .. WINDOW_SIZE
    BY <1>2 DEF Stream
  <2>2. Len(pending') <= PENDING_CAPACITY
    BY <1>1, <1>3, ReadAssumption DEF Inv, EdgeTypeOK
  <2> QED BY <1>3, <2>1, <2>2 DEF Inv, EdgeTypeOK, SeeHandled, read_vars
<1>5. NothingDropped' /\ QueueFits'
  BY DEF Inv, NothingDropped, QueueFits, read_vars
<1>6. Chained'
  <2>1. pending' # <<>> =>
            Follows(previous_alarms', count', pending'[1], due'[1])
    <3> SUFFICES ASSUME pending' # <<>>
                 PROVE  Follows(previous_alarms', count', pending'[1], due'[1])
      OBVIOUS
    <3>1. 2 \in 2 .. Len(pending) /\ 1 \in 1 .. Len(pending')
      BY <1>1, <1>3
    <3>2. Follows(due[1].alarms, due[1].streak, pending[2], due[2])
      BY <3>1 DEF Inv, Chained
    <3>3. pending'[1] = pending[2] /\ due'[1] = due[2]
      <4>1. ASSUME NEW i \in 1 .. Len(pending'), i = 1
            PROVE  pending'[i] = pending[2] /\ due'[i] = due[2]
        <5>1. i + 1 = 2
          BY <4>1
        <5> QED BY <5>1, <1>3
      <4> QED BY <4>1, <3>1
    <3>4. previous_alarms' = due[1].alarms /\ count' = due[1].streak
      OBVIOUS
    <3> QED BY ONLY <3>2, <3>3, <3>4 DEF Follows
  <2>2. ASSUME NEW i \in 2 .. Len(pending')
        PROVE  Follows(due'[i - 1].alarms, due'[i - 1].streak, pending'[i], due'[i])
    <3>1. /\ i + 1 \in 2 .. Len(pending) /\ i \in 1 .. Len(pending')
          /\ i - 1 \in 1 .. Len(pending') /\ (i - 1) + 1 = i /\ (i + 1) - 1 = i
      BY <1>1, <1>3
    <3>2. Follows(due[i].alarms, due[i].streak, pending[i + 1], due[i + 1])
      BY <3>1 DEF Inv, Chained
    <3>3. pending'[i] = pending[i + 1] /\ due'[i] = due[i + 1] /\ due'[i - 1] = due[i]
      BY <3>1, <1>3
    <3> QED BY <3>2, <3>3
  <2>3. latest' = latest /\ latest = due[Len(due)]
    BY DEF SeeHandled, Inv, Chained
  <2>4. pending' = <<>> => Len(due) = 1
    BY <1>1, <1>3
  <2>5. pending' # <<>> => due'[Len(due')] = due[Len(due)]
    BY <1>1, <1>3
  <2> QED BY <1>1, <1>3, <2>1, <2>2, <2>3, <2>4, <2>5 DEF Chained
<1> QED BY <1>4, <1>5, <1>6 DEF Inv

LEMMA HandleStep == Inv /\ Handle /\ SeeHandled => Inv'
<1> SUFFICES ASSUME Inv, Handle, SeeHandled PROVE Inv'
  OBVIOUS
<1> DEFINE m == Head(pending)
<1>1. /\ pc = "loop" /\ pending # <<>> /\ pending' = Tail(pending)
      /\ UNCHANGED <<number, last_sequence, dropped, read_vars>>
  BY DEF Handle, HandleStatus, HandleInvalidSensor, HandleValidSensor, Dequeue
<1>2. m \in Frame /\ Head(due) \in Stream /\ Head(due) = due[1]
      /\ Follows(previous_alarms, count, m, due[1])
  BY <1>1, HeadFollows DEF Inv, EdgeTypeOK, Chained
<1>3. age' \in 0 .. LINK_LOSS /\ link_loss_logged' \in BOOLEAN
      /\ sensor_invalid_logged' \in BOOLEAN
  <2>1. 0 \in 0 .. LINK_LOSS
    BY LossAssumption
  <2>2. CASE HandleStatus
    BY <2>2 DEF HandleStatus, Inv, EdgeTypeOK
  <2>3. CASE HandleInvalidSensor
    BY <2>1, <2>3 DEF HandleInvalidSensor
  <2>4. CASE HandleValidSensor
    BY <2>1, <2>4 DEF HandleValidSensor
  <2> QED BY <2>2, <2>3, <2>4 DEF Handle
<1>4. previous_alarms' = due[1].alarms /\ count' = due[1].streak
  <2>1. CASE HandleStatus
    BY <2>1, <1>2 DEF HandleStatus, Follows
  <2>2. CASE HandleInvalidSensor
    BY <2>2, <1>2 DEF HandleInvalidSensor, Follows
  <2>3. CASE HandleValidSensor
    BY <2>3, <1>2 DEF HandleValidSensor, Follows, Ingest, Longer
  <2> QED BY <2>1, <2>2, <2>3 DEF Handle
<1> QED BY <1>1, <1>3, <1>4, HandledStep

LEMMA InvStep == Inv /\ [MonitorNext]_monitor_vars => Inv'
<1> SUFFICES ASSUME Inv, [MonitorNext]_monitor_vars PROVE Inv'
  OBVIOUS
<1> USE RangeAssumption, ReadAssumption, WindowAssumption, LossAssumption
<1>1. ASSUME NEW k \in Kinds, FrameLost(k), UNCHANGED history PROVE Inv'
  <2>1. number' \in [Kinds -> SequenceNumbers]
    BY <1>1, NumberAdvances DEF FrameLost, Inv, EdgeTypeOK
  <2> QED BY <1>1, <2>1 DEF FrameLost, history, link_vars, read_vars, runtime_vars,
                            Inv, EdgeTypeOK, NothingDropped, QueueFits, Chained
<1>2. CASE FpgaReset /\ UNCHANGED history
  <2>1. number' \in [Kinds -> SequenceNumbers]
    BY <1>2 DEF FpgaReset, SequenceNumbers
  <2> QED BY <1>2, <2>1 DEF FpgaReset, history, link_vars, read_vars, runtime_vars,
                            Inv, EdgeTypeOK, NothingDropped, QueueFits, Chained
<1>3. CASE TimePasses /\ UNCHANGED history
  BY <1>3 DEF TimePasses, history, link_vars, read_vars,
              Inv, EdgeTypeOK, NothingDropped, QueueFits, Chained
<1>4. CASE StartRead /\ UNCHANGED history
  BY <1>4 DEF StartRead, history, link_vars, runtime_vars,
              Inv, EdgeTypeOK, NothingDropped, QueueFits, Chained
<1>5. CASE ReceiveReturns /\ UNCHANGED history
  BY <1>5 DEF ReceiveReturns, history, link_vars, runtime_vars,
              Inv, EdgeTypeOK, NothingDropped, QueueFits, Chained
<1>6. ASSUME NEW m \in Frame, AcceptFrame(m), SeeAccepted(m) PROVE Inv'
  BY <1>6, AcceptStep
<1>7. ASSUME NEW m \in Frame, RejectStaleFrame(m), UNCHANGED history PROVE Inv'
  <2>1. number' \in [Kinds -> SequenceNumbers]
    BY <1>7, FrameKinds, NumberAdvances DEF RejectStaleFrame, Decode, Inv, EdgeTypeOK
  <2>3. frames' \in 0 .. READ_FRAMES /\ frames' = frames + 1 /\ frames \in Nat
    BY <1>7 DEF RejectStaleFrame, Decode, Inv, EdgeTypeOK
  <2>4. EdgeTypeOK'
    BY <1>7, <2>1, <2>3
       DEF RejectStaleFrame, Decode, history, link_vars, runtime_vars, Inv, EdgeTypeOK
  <2>5. NothingDropped' /\ QueueFits' /\ Chained'
    BY <1>7, <2>3
       DEF RejectStaleFrame, Decode, history, link_vars, runtime_vars, Inv,
           EdgeTypeOK, NothingDropped, QueueFits, Chained
  <2> QED BY <2>4, <2>5 DEF Inv
<1>8. CASE Handle /\ SeeHandled
  BY <1>8, HandleStep
<1>9. CASE ReceiveSilent /\ SeeSilence
  <2>1. /\ pending = <<>> /\ pending' = <<>> /\ due' = due
        /\ previous_alarms' = previous_alarms /\ pc' = "loop" /\ frames' = 0
        /\ UNCHANGED <<number, last_sequence, dropped, age, sensor_invalid_logged>>
    BY <1>9 DEF ReceiveSilent, SeeSilence, link_vars
  <2>2. /\ latest.alarms = previous_alarms /\ latest.streak = count
        /\ latest \in Stream /\ count \in 0 .. WINDOW_SIZE
    BY <2>1 DEF Inv, EdgeTypeOK, Chained
  <2>3. /\ latest' \in Stream /\ count' \in 0 .. WINDOW_SIZE
        /\ latest'.alarms = previous_alarms' /\ latest'.streak = count'
    <3>1. CASE LinkLost
      <4>1. latest' = [latest EXCEPT !.streak = 0] /\ count' = 0
        BY <1>9, <3>1 DEF ReceiveSilent, SeeSilence
      <4>2. 0 \in 0 .. WINDOW_SIZE
        OBVIOUS
      <4> QED BY <2>1, <2>2, <4>1, <4>2 DEF Stream
    <3>2. CASE ~LinkLost
      BY <1>9, <2>1, <2>2, <3>2 DEF ReceiveSilent, SeeSilence
    <3> QED BY <3>1, <3>2
  <2>4. link_loss_logged' \in BOOLEAN
    BY <1>9 DEF ReceiveSilent
  <2>5. EdgeTypeOK'
    BY <2>1, <2>3, <2>4 DEF Inv, EdgeTypeOK
  <2>6. NothingDropped' /\ QueueFits' /\ Chained'
    BY <2>1, <2>3 DEF Inv, NothingDropped, QueueFits, Chained
  <2> QED BY <2>5, <2>6 DEF Inv
<1>10. CASE Reboot /\ SeeReboot
  <2>1. EdgeTypeOK'
    <3>1. link_loss_logged' \in BOOLEAN /\ sensor_invalid_logged' \in BOOLEAN
      BY <1>10 DEF Reboot
    <3>2. latest' \in Stream /\ due' \in Seq(Stream) /\ pending' \in Seq(Frame)
          /\ Len(pending') = 0
      BY <1>10, FreshStream DEF Reboot, SeeReboot
    <3> QED BY <1>10, <3>1, <3>2 DEF Reboot, SeeReboot, Inv, EdgeTypeOK
  <2>2. NothingDropped' /\ QueueFits' /\ Chained'
    BY <1>10 DEF Reboot, SeeReboot, Fresh, NothingDropped, QueueFits, Chained
  <2> QED BY <2>1, <2>2 DEF Inv
<1>11. CASE UNCHANGED monitor_vars
  BY <1>11 DEF monitor_vars, vars, history, link_vars, read_vars, runtime_vars,
               Inv, EdgeTypeOK, NothingDropped, QueueFits, Chained
<1> QED BY <1>1, <1>2, <1>3, <1>4, <1>5, <1>6, <1>7, <1>8, <1>9, <1>10, <1>11
        DEF MonitorNext, Unseen

-----------------------------------------------------------------------------

\* Registers, queue and history stay in their types through restarts of either
\* side.
THEOREM EdgeTypeCorrect == MonitorSpec => []EdgeTypeOK
<1>1. Inv => EdgeTypeOK
  BY DEF Inv
<1> QED BY <1>1, InvInit, InvStep, PTL DEF MonitorSpec

\* The queue does not overflow when it holds as many frames as a read completes,
\* because receive reads only once it is drained.
THEOREM NothingDroppedHolds == MonitorSpec => []NothingDropped
<1>1. Inv => NothingDropped
  BY DEF Inv
<1> QED BY <1>1, InvInit, InvStep, PTL DEF MonitorSpec

\* Every status frame is recorded with exactly the alarms it raised.
THEOREM AcceptedAlarmsRecordedHolds == MonitorSpec => []AcceptedAlarmsRecorded
<1>1. Inv => AcceptedAlarmsRecorded
  BY HeadFollows DEF AcceptedAlarmsRecorded, Follows, Raised
<1> QED BY <1>1, InvInit, InvStep, PTL DEF MonitorSpec

\* Every window is made of the frames accepted in a row up to the present one.
THEOREM WindowIsEarnedHolds == MonitorSpec => []WindowIsEarned
<1>1. Inv => WindowIsEarned
  BY HeadFollows DEF WindowIsEarned, Follows, Ingest, Longer
<1> QED BY <1>1, InvInit, InvStep, PTL DEF MonitorSpec
=============================================================================
