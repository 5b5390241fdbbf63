# ForgeSense-AI verification project

TLA+ models of ForgeSense-AI, the TLC runs that check them on small instances and
the TLAPS proofs that hold for every value of the constants. Every definition is
translated from the source under `src/`; `PROJECT.json` names the lines
(`map`), the parts of the system (`components`), the runs, the faulty variants that
show each property can fail (`mutants`), the hazards and the theorems.

Contents: 1 the system · 2 the modules and the code · 3 the runs and their bounds ·
4 fairness · 5 what is proved · 6 disagreements between documents and code ·
7 what is not modelled · 8 plan · 9 how to run it.

## 1. The system

An **FPGA** reads three sensors, owns the controlled load and decides about it on
its own. An **ESP32** receives sensor and status frames over a serial link, runs a
small classifier and answers with intelligence frames, which the FPGA takes as
evidence and never as a command. A separate **maintenance image** of the ESP32
installs calibration records that a **host** computer prepares, signs, sends and
accounts for in an append-only ledger; what the records are derived from is kept by
a chain of offline **evidence tools**. On the operator's machine a **commissioning
tool** reads the FPGA's serial line, and a **telemetry server** with a browser page
shows what the ESP32 reports.

| component | state it keeps | operations | interacts through |
| --- | --- | --- | --- |
| intelligence gate, retained observation, ready latch, watchdog, hard limits, safety FSM (`fpga/rtl/safety`, `protocol/intelligence_gate.vhd`, `top/*core.vhd`) | last sequence number, last observation, watchdog count, FSM state | one set of processes per clock edge | wires read before the edge |
| link receiver, UART | parser state, CRC, shift registers | one byte / one frame | pulses and decoded fields |
| transmit path (`status_link_tx`, `sensor_link_tx`, `link_tx_arbiter`, `uart_tx`) | frame in progress, pending trigger, grant | capture, send byte, grant, release | valid/ready handshake |
| sensor frontend and supervisor (`sensing/`, `forgesense_sensor_board_core`) | timebase, window, reading, time stamp and verdict per channel | sample, update, judge | update strobes, validity wires to the control path and the sender |
| sensor drivers, bus engines | device configuration and transfer state | configure, poll, transfer | I2C / SPI |
| ESP32 edge application | link parser, inference state, queue of decoded frames, link and status memory | receive, handle status, handle sensor | UART, queue, network |
| event journal (`event_store_nvs.cpp`) | ring of records and next number in NVS; next number in RAM | `begin`, `append` | NVS calls that may fail or be the last before power is lost |
| calibration store (`calibration_store_nvs.cpp`) | two slots, active index, sequence floor in NVS; copies in RAM | `begin`, `stage_and_commit` | NVS calls that may fail or be the last before power is lost |
| maintenance firmware (`firmware/esp32_calibration_maintenance`) | pending challenge, boot nonce, store | QUERY, PREPARE, COMMIT | frames from the host, physical gates |
| host provisioning run (`tools/run_physical_calibration_provisioning.py`, `commissioning/`) | position in the run, evidence files, ledger | apply, verify-reboot, append entry | serial port, files |
| audit ledger (`audit_ledger.py`) | hash chain of entries, derived state | preflight, append, verify | files |
| evidence tools (`tools/*calibration*.py`, `signed_provisioning.py`, `recovery.py`) | published bundles, packages and authorizations, each an indexed directory | read, check, publish by one rename | files and their hashes |
| authority transition (`authority_transition.py`, `audit_ledger.py`) | requests, signatures, packages; ledger entries | request, sign, package, append | the ledger directory several stations share, sdkconfig, the checkout |
| commissioning tools (`core.py`, `calibration.py`, `cli.py`, `forgesense_stream.py`) | decoder buffer, sequence numbers and counters of one run | read, decode, observe, probe, report | serial line |
| telemetry store, server, device stream, dashboard | last sensor, status and ML section with their arrival, revision; what the page shows | ingest, long poll, snapshot, render | ESP32 console, threads, HTTP |
| ML training, simulator | nothing that outlives a call | batch computations | files |

What is hard, and what makes each part correct:

* **Control path.** Six processes fire on the same edge and read each other's
  *old* registers, so evidence, its kick, its classification and the expiry of
  the watchdog reach the FSM at different depths. Correct means: no load on
  stale or critical-only evidence, prompt effect of new evidence, a trip wins at
  once, latched states are left only on request, replayed frames are refused,
  and a healthy plant can always be brought back.
* **Transmit path.** Two senders and one UART; a status can change while its
  old value is being sent. Correct means: whole frames with frozen content, no
  change lost, and neither sender starved without cause.
* **Sensor path.** Freshness is a difference of wrapping time stamps, and
  readings and verdicts travel on different paths. Correct means: exact ages,
  verdicts about the reading they are shown with, silent channels detected.
* **Calibration store.** Three NVS keys and no transaction: power may go, or a
  call fail, between any two calls. Correct means: the store always opens
  again, a served record is never lost by the store's own doing and never
  replaced by an older one.
* **Edge application.** Frames of two kinds arrive several to a read and are
  handled one at a time, and either side may restart its numbering. Correct
  means: no accepted frame is lost or taken out of its place, a feature window is
  never bridged, a lost stream is noticed, and a gate does not stay shut.
* **Event journal.** Two NVS keys per record, again without a transaction, and a
  ring that overwrites. Correct means: a reported record stays readable until the
  ring comes round to it, and numbers order the records across reboots.
* **Provisioning.** Device, channel, evidence file and ledger are four places
  with no common transaction; responses are matched by opcode only, so late
  ones can be taken for new ones. Correct means: one challenge, one install;
  evidence that is true; a ledger that accounts for the device without gaps.
* **Evidence tools.** Eight tools, hours and people apart, read the same files
  again and trust hashes taken by one another. Correct means: what reaches the
  device is what was approved, anything changed meanwhile blocks the write, and a
  capture of the device is good for one write.
* **Authority transition.** Stations append to one directory without a lock and may
  die with an entry half written. Correct means: history is never lost or forked,
  evidence and signatures count for the very head they were made against, and no
  authority is recorded that the device never had.
* **Commissioning.** Reads end anywhere in a frame, bytes are damaged, boards
  restart. Correct means: no good frame is missed, a report that passes saw an
  unbroken stream, and a probe that passes was answered by its own echo as far as a
  tool can tell that has no checksum.
* **Telemetry.** A reader thread, handler threads and a page, with ages that are
  taken anew at each hop. Correct means: what is shown as fresh is of bounded age,
  and a poll does not sleep over a change.

## 2. Modules and code

In the FPGA modules one step is one rising clock edge. Every VHDL process is an
operator `<Process>Edge` from unprimed registers and inputs to its own primed
registers, and `Next` is their conjunction; the inputs stable before the next
edge are chosen freely. Concurrent assignments are state functions. Definitions
commented *Faulty variant* are used by no specification: each is a plausible bug
a property must catch.

**Control path.** `SafetyCore` models gate, retained observation, ready latch,
watchdog, limits and FSM. The receiver is at frame granularity: it may deliver
any frame on any edge. The three limit comparisons are kept as the class of the
worst reading. `SafetyMonitor` adds history variables (edges since acceptance,
class of the last accepted frame, ...) and the properties. `LoadAuthority` is the
abstract specification, five actions about an energized load, and
`AuthoritySpec` states that the control path implements it.
`FpgaProofs` holds the proofs of all three FPGA modules.

**Transmit path.** `LinkTransmit` models the status-change detector, both
senders, the arbiter and the UART. A byte is its sender, index, frame number and
latched content; header and CRC are functions of these. The UART is busy for
`BYTE_CYCLES` edges. Status ticks and samples may arrive on any edge, which is
more often than the schedulers allow.

**Sensor path.** `SensorChain` models the timebase, the adapters and the RMS
window as producers of readings, and the supervisor; the three channels are
members of the constant `Channels` with their own limits and windows. A reading
is kept as inside or outside its plausibility range. As in the board core,
readings come from the frontend and only validity from the supervisor.
`SensorMonitor` adds the true elapsed time and the properties.

**Calibration store.** `CalibrationStore` has the NVS partition (`cache`: what is
read back; `flash`: what is certain to persist) and one step per NVS call of
`begin` and `stage_and_commit` (`pc` is the call about to be made). A call may
fail, with or without effect; a power loss leaves each key as committed or as
last set; slots may be lost while the device is off (`LoseSlot`).
`CalibrationMonitor` states the properties, `MonotonicRecord` is the abstract
promise; `CalibrationStoreProofs` holds the lemmas about the store that the proofs of
the partition and of provisioning share.

**One partition, two images.** `NvsPartition` composes the store, run by the
maintenance image, with the journal, run by the edge image: flashing exchanges the
images while the device is off, and the edge image's boot may erase the whole
partition, the calibration namespace included (`EdgeErases`). It extends
`CalibrationMonitor` and `EventJournal`; `NvsPartitionProofs` holds the proofs.

**Edge application.** `EdgeRuntime` models `LinkService` and the loop of
`app_main`: one action per frame decoded in a read (accepted or refused by its
sequence gate), per frame handled, and per receive that comes back empty-handed.
The application has a single task, so a handler is one step; what interleaves is
the wire: frames lost, the FPGA restarting, time passing, the ESP32 restarting.
Since the wire is a FIFO, an FPGA reset takes effect in the model when its first
frame reaches the decoder. `EdgeMonitor` adds what the accepted frames mean in
the order of their arrival and the properties; `EdgeRuntimeProofs` the proofs.

**Event journal.** `EventJournal` has the same NVS and one step per NVS call of
`append`; a call may fail with or without effect, the erasing start of
`initialize_nvs` is an action, and the history `acked` is the records `append`
reported as stored.

**Provisioning.** `MaintenanceDevice` adds the frame handlers, the gates and the
boot to the store; `ProvisioningHost` adds the two serial queues, the host's
`apply` and `verify-reboot` runs, the evidence files and the ledger. The host may
stop anywhere (`Abort`), requests and responses may be lost, stale responses
may be read, the device may reset at any NVS call, gates may change at any time.
`ProvisioningMonitor` adds the history of installs, whether a run ever opened its port
on traffic of an earlier one (`late_answers`), and the properties; `ProvisioningProofs`
holds the proofs.

Abstractions shared by the calibration modules: signature and authority checks
succeed (all packages are authorized); a CRC identifies its record; boot nonces
do not repeat; a hash chain is the sequence of its entries; one key's NVS value
is never torn; a failing host check ends the run. A ledger entry that was
being written when the host died is a state of the model (`torn`), which the
documents describe as blocking. That a COMMIT names the pending nonce is checked
as in the code; a host that sends in order never fails that check.

**Evidence chain.** `CalibrationEvidence` has what the tools compute (capture,
proposal, review, rounding to the integer coefficient); `EvidenceChain` has each
tool as a script, the sequence of its reads and checks in the order of the code,
run one step at a time (`Step`) and ended by one publishing rename. Between two
steps anybody may edit a file, damage or delete an artefact, approve, sign, capture
the device or write it from another station. `EvidenceMonitor` holds the properties,
`EvidenceChainProofs` the proofs.

**Authority transition.** `AuthorityTransition` models the ledger file by file for
several stations: `_append_entry` is `Recheck`, `OpenEntry` (exclusive creation) and
`FinishEntry`, so a station may die between any two; the transition request reads
state, sdkconfig, checkout and file hashes one after the other. Where
`ProvisioningHost` has one station and the device's protocol in detail, this module
has many stations and the device as a state. `AuthorityProofs` holds the proofs.

**Operator's machine.** `CommissioningTools` has the board and its serial line, the
stream decoder over classes of bytes (markers, headers, payload, checksum, junk with
a length), the smoke tool over their values,
the observers and the reports, `CommissioningMonitor` the properties.
`TelemetryMonitor` has the ESP32's line, the reader thread section by section, the
store, the long poll in its three steps and the page, with their properties. The two
programs share nothing but the machine: `HostTools` extends both and runs one of them;
`HostProofs` holds the proofs. A read (`ReadChunk`) and each round of the loop of
`StreamDecoder.feed` (`DecodeCandidate`) are steps of their own: the loop takes no byte
that was not there when the read returned, so what happens on the line in between does
not change its outcome, and the tool reads on and reports only when the loop has ended
(`Waits`).

The MC modules only give constants their values.

## 3. Runs and bounds

| run | shows | bounds and why they suffice |
| --- | --- | --- |
| `safety_core` | `NoStaleOperation`, `CriticalOnlyNeverEnergizes`, `ObservationActsPromptly`, `ReplayRejected`, refinement of `LoadAuthority` | timeout 3 edges (longer than the pipeline is deep, so expiry, kick and acceptance can coincide in every order), 4 sequence numbers (wrap-around, the opposite number and both neighbours occur), ten pin samples: nominal, each single departure and the combinations with a recovery request |
| `safety_core_recovery` | `CanRecover`: shutdown, expiry and fault can always be left | fewer pins and classes, same timeout and numbers |
| `link_transmit` | `StatusIsReported`, `FramesIntact`, `StatusSettles`, `SensorServed` | three- and two-byte frames (first, middle and last byte), two status values, two readings, two frame numbers, one busy edge per byte (a byte is offered while the UART is busy) |
| `sensor_chain` | `AgeIsExact`, `VerdictIsOnReading`, `SteadyStaysValid`, `SilenceDetected` | two channels, one by sample and one by a window of two; limits 2 and 1 ms, a timebase of 4 ms so that it wraps between updates, two edges per ms |
| `nvs_partition` | `PowerLossLeavesUsableStore`, `ServedSurvivesPowerLoss`, `ServedIsInstalled`, `AckedKept`, refinement of `MonotonicRecord` | usable numbers 1 to 3 and two bodies: a record, its successor, one between and a different record of the same number; both reserved numbers. A ring of two slots and three event numbers, so that it comes round; one erasure |
| `edge_runtime` | `NothingDropped`, `AcceptedAlarmsRecorded`, `WindowIsEarned`, `GatesReopen`, `LossIsNoticed` | reads and a queue of two frames (a read can fill the queue, and bring an alarm with its end or an invalid frame with a valid one), a window of two, four sequence numbers, one alarm (alarms do not affect each other), a loss limit of one tick |
| `provisioning` | `PendingIsCurrent`, `LedgerAccountsForDevice`, `EvidenceIsTrue` | two consecutive packages, two boots, queues of 2, three challenges, three ledger entries: a second run overlaps the leftovers of the first, and a reboot falls between any two steps of it |
| `provisioning_gate_loss`, `provisioning_reconcile` | two documented rules that fail (section 6) | as `provisioning` |
| `evidence_chain` | `WrittenAsApproved`, `DriftBlocksWrite`, `NoStaleWrite`, `ProfileTracesToEvidence` | two runs (a spread between them, one changed and one not), sequences to 3 (an ordinary write and a recovery after it), one edit, damage or foreign write and one artefact rebuilt, anywhere; each kind of file has one to four other contents: other values, malformed, missing, of another campaign |
| `authority_transition` | `LedgerVerifies`, `EvidenceNamesItsPast`, `EntriesHappened`, `HistoryIsKept` | two stations, two keys, a genesis and three entries, two reports, one request, two image installations (there and back), one edit of sources or sdkconfig; stations and keys are symmetric |
| `host_tools` | `NoFrameIsMissed`, `PassMeansIntact`, `EchoesAreOwn`, `ShownStateIsRecent`, `WaitsWithNewest` | three frames, or two heartbeats and the echoes, and one lost or damaged byte, restart or frame heard from its middle; reads of up to three bytes, so that a read ends at every place of a frame; frame numbers that wrap; three probes, two of them of the same value. For the monitor: waits of two ticks, sections accepted to an age of one, two starts of the host, five ticks |

`MAX_BOOTS`, `MAX_QUEUE`, `MAX_CHALLENGES` and `MAX_ENTRIES` bound the provisioning
runs, `SEQUENCE_MAX` the journal's history, `MAX_ERASURES` the erasures of the
partition, `MAX_EDITS` and `MAX_DISCARDS` what happens around the evidence tools,
`MAX_SEQUENCE`, `MAX_ENTRIES`, `MAX_REQUESTS`, `MAX_REPORTS`, `MAX_INSTALLS` and
`MAX_EDITS` the authority transition, `MAX_FRAMES`, `MAX_EARLY`, `MAX_BEATS` and
`MAX_TROUBLE` the board and its line, `MAX_REVISION`, `MAX_TIME` and `MAX_STARTS` the
monitor; they stand in guards and are named at their declaration. No other counter is
capped. Deadlock is checked in every run but `authority_transition` and `host_tools`:
there the bounded world comes to an end (an incomplete entry blocks the ledger for
good, as documented; a tool ends with its report, the clock at `MAX_TIME`).

## 4. Fairness

The FPGA specifications assume weak fairness of `Next`: the clock never stops.
Nothing is assumed about the inputs; where a liveness property needs something of
them it is an antecedent of the property itself: `CanRecover` assumes a lasting
recovery request on healthy pins and healthy frames accepted again and again,
`SensorServed` a status sender that falls quiet again and again (its priority
lets a status storm starve sensor frames, by design), `StatusSettles` a status
that lasts, `SilenceDetected` a channel that stays silent. The edge application
assumes that its task runs and its clock goes on (`app_main` is an endless loop
whose every wait has a timeout); `GatesReopen` has as antecedent that frames
arrive undisturbed, `LossIsNoticed` that receive comes back empty-handed again and
again: status frames come at 2 Hz and the timeout is 100 ms. The store, journal,
provisioning, evidence, ledger and host specifications state safety only and assume no
fairness: the device may be off for ever, people and tools may give up. That time does
not pass over an answer that is due is a guard of `Tick` in `TelemetryMonitor`, with
the delays as constants; the age bound is stated in them.

## 5. What is proved

All proofs are checked by TLAPS without any assumption but the named ones on the
constants (`TimeoutAssumption`: a positive timeout, `StaleAssumption`: a freshness
limit at least two short of the timebase, ...), which TLC evaluates too. The type
invariants are proved and not run: they are conjuncts of the inductive invariants.

**`FpgaProofs`, control path** (any timeout, sequence range, pins, frames)
* `TypeCorrect`: `TypeOK` is inductive by itself.
* `NoStaleOperationHolds`: inductive form `StaleInv`. The property alone is not
  inductive: an enabled load must be tied to the ready latch, the kick to the
  acceptance, and the watchdog's count to the age of the evidence
  (`WatchdogCountsAge`); the last is the heart of the argument.
* `CriticalOnlyHolds`, `ObservationActsHolds`: `ObserveInv` relates the retained
  observation, the ready latch and the history edge by edge.
* `ImplementsLoadAuthority`: initial states map to initial states and each edge
  to an action of `LoadAuthority` or a stutter, using `StaleInv` for the ages.
* `ReplayRejectedHolds`: antisymmetry and irreflexivity of the serial-number
  comparison for every half range, then an invariant on the previous number.

**`FpgaProofs`, transmit path** (any frame length, byte time, inputs)
* `TypeCorrect`.
* `StatusIsReportedHolds`: `Accounted`, what the detector has seen is captured,
  about to trigger, or remembered.
* `FramesIntactHolds`: `FrameInv`. While a frame is in progress its sender holds
  the grant and the UART holds the byte before the next one
  (`StatusInProgress`, `SensorInProgress`); a byte in the UART that is not the
  last of a frame has its frame in progress (`ByteAccounted`).

**`FpgaProofs`, sensor path** (any channels, limits, windows, timebase, clock rate)
* `SensorTypeCorrect`, `AgeIsExactHolds` (inductive over the type invariant, by
  three lemmas about arithmetic modulo the timebase), `VerdictIsOnReadingHolds`
  (`VerdictInv`, which drops freshness), `SteadyStaysValidHolds` (from exact ages).

**`NvsPartitionProofs`** (any sequence range, bodies, ring size, events, history, erasures)
* `PartitionInvariant`, `PartitionTypeCorrect`: store and journal take turns on the
  partition, and each leaves the other's keys alone.
* `UsableStoreHolds`, `ServedSurvivesHolds`, `ServedIsInstalledHolds`: the three
  promises of the store are about a partition that may lose power now, so the invariant
  is about what each key may still become. `StageInv` says, call by call of
  `stage_and_commit`, which keys have moved and to what; from it follows that every mix
  of old and new keys selects the served record or its successor.
* `MonotonicHolds`: the store implements `MonotonicRecord` under the mapping of
  `NvsPartition`: every step shows, hides, advances or erases a record, or stutters.
* `AckedKeptHolds`, `AckedOrderedHolds`: the stored number of the journal is the
  firmware's own or one ahead of it (`NumbersAgree`), and the history is stated relative
  to the firmware's number (`Position`), because the stored number can fall back when
  power is lost. Only the last `RING_SIZE - 1` numbers are safe: a failed append has
  already overwritten the oldest slot.

**`ProvisioningProofs`** (any packages, boots, queues, challenges, entries)
* `ProvisioningInvariant`, with `ProvisioningTypeCorrect` and `PendingIsCurrentHolds` as
  first consequences. None of the properties is inductive: what a run concludes from an
  answer depends on what was under way when the answer was given. The invariant has
  four layers. `DeviceInv`: the records put in service are the history in increasing
  order, and the device serves the last. `StatusesTrue`, `AnswersOrdered`: every status
  in the channel, or read by the run, was true at some point of that history, and those
  further back in the queue of later points. `OffersInv`: no PREPARE under way is for a
  later point than a status not yet read, so that a record offered is new at most once.
  `FreshInv`: a run that found the channel clear is answered only what it asked.
* `EvidenceIsTrueHolds`: needs no assumption about the channel. Evidence names the boot
  nonce, and a record seen in service in the boot that was written in was written there
  (`PostStatusWrote`); a later nonce is a later boot (`RebootIsLater`).
* `LedgerAccountsHolds`: an entry is appended only on the head its run saw at
  preflight, so entries extend each other like installs (`LedgerAppends`); under
  `FreshInv` a PREPARE is sent only where the ledger records all installs (`OneAhead`).

**`EdgeRuntimeProofs`** (any sequence range, queue, read, window and alarms)
* `EdgeTypeCorrect`; `NothingDroppedHolds`: during a read the queue holds no more
  than the read has decoded (`QueueFits`), and a read starts with an empty queue.
  `ReadAssumption` states that the queue holds the frames of one read: 96 bytes
  and what was left of a frame before end at most six frames of 18 bytes or more,
  and the queue holds eight.
* `AcceptedAlarmsRecordedHolds`, `WindowIsEarnedHolds`: `Chained`, the history of
  the frames in the queue continues frame by frame from what the loop remembers.

**`EvidenceChainProofs`** (any number of runs, file contents, edits, bounds)
* `EvidenceInvariant`, of three parts. `Undisturbed`: whatever a running tool has already
  checked still holds as long as nobody touched files, artefacts, damage or device since
  it started; checks only read these (`PassesStable`). `SeenInv`: what a campaign or
  change tool has read, and that a source read twice without an edit was read the same.
  `ArtefactInv`: what each published artefact holds, whatever else was edited, deleted
  or rebuilt since; while a tool runs, an artefact it checked may go but not change.
* `NoDriftIsWritten`: the write's script contains, among its steps, a match of every
  source, policy, approval, safety file and capture (`ApplyCovers`, by lemmas on
  membership in concatenations of scripts), so that at an undisturbed write all hold.
* `ApprovedIsWritten`, `CaptureIsUsedOnce`, `ProfileIsTraced`. The attempt to prove
  `NoStaleWrite` of disturbed writes too failed for a reason: a capture is parsed and
  hashed in two reads, and one edited in between, and again during both later
  verifications, is not the one the package was built for. TLC finds the trace with
  three edits; the property has its antecedent since.

**`AuthorityProofs`** (any stations, keys, bounds)
* `LedgerAlwaysVerifies`, `EvidenceBoundToPast`, `RecordedStatesHappened`,
  `HistoryNeverRewritten`, from one inductive invariant: an entry a station has bound
  or checked continues the ledger as long as its index is still the next one, at most
  one station writes the file of that number, and bound entries carry evidence of the
  head. One lemma per action.

**`HostProofs`, commissioning tools** (any payload, chunk, buffer, probes, damage, restarts)
* `HostInvariant` holds the invariants of both programs. None of the three properties is
  inductive. `NothingDroppedUnseen`: of every place before the decoder's buffer and every
  frame, sent already or not, either the frame was delivered or a byte that was read tells
  that it did not begin there. It speaks of frames not sent yet because a byte is dropped
  before the rest of what it belongs to is written; and a marker in a payload is told from
  a frame by the checksum that follows it. The buffer is the end of what was read, which
  needs `BufferAssumption`: a decoder that waits has room for one more chunk.
* `EveryWholeFrameIsDecoded`: a frame that arrived whole is either behind the buffer, where
  no byte tells against it, or in it, where the decoder would not wait.
* `APassSawNoBreak`: `Numbered`, the number of a frame is that of an earlier one of its
  kind plus some count, which is one only if none is between them, or the board restarted.
  `NumbersAssumption` says that the frames of a session do not use up the numbers: 65535
  frames lost in a row could not be told from none.
* `APassHeardItsEchoes`, from `EchoInv`: until a probe times out, or a damaged byte is
  taken for an echo, there is at most one probe on its way or one echo on the line, that
  of the probe the tool waits for. A late echo exists only after one of the two: after a
  timeout `EchoPass` is false, and a damaged byte that was taken for an echo is the
  exception the property names (section 6).

Damage, here and in the runs, is what `OnLine` says: a byte is lost or becomes a byte of
any class the tool attached tells apart (for the smoke tool every probe's value and the
heartbeat's; for the decoder both markers and every length). It does not add bytes, and
it does not forge a header or a checksum that fits.

**`HostProofs`, monitor** (any times and limits)
* `ShownAgeIsBounded`, `NoChangeIsSleptOver`: each stage (line, packet, store, answer,
  page) bounds the age of what it holds by the sum of what the stages before it may add;
  the clock cannot pass a stage that is due.

Model-checked only: the liveness properties (`CanRecover`, `StatusSettles`,
`SensorServed`, `SilenceDetected`, `GatesReopen`, `LossIsNoticed`), which TLAPS does not
reach.

## 6. Disagreements between documents and code

Shown by a run:

* **Gate loss** (`provisioning_gate_loss`). The gates are read only while PREPARE
  or COMMIT is handled; a loss in between goes unnoticed, although
  `docs/CALIBRATION_MAINTENANCE_PROVISIONING.md:96` says that it clears the
  challenge.
* **Reconciliation order** (`provisioning_reconcile`). Retained write evidence can
  no longer be appended once older reboot evidence has been appended before it:
  it is bound to a ledger head that has moved. The device stays ahead of the
  ledger and later runs fail preflight, against
  `docs/CALIBRATION_AUDIT_LEDGER.md:135`.

Met while modelling, and part of the models:

* **Late answers and the ledger.** "Future writes fail audit preflight because the live
  device is ahead of the ledger" (`docs/CALIBRATION_MAINTENANCE_PROVISIONING.md:447`,
  `docs/CALIBRATION_AUDIT_LEDGER.md:135`). A response is matched by its opcode only
  (`provisioning.py:209`), and `reset_input_buffer` drops only what has already arrived.
  A run started while a dead run's questions are unanswered can pass its preflight on
  answers given before the dead run's COMMIT took effect, and leave the device two
  records ahead. It takes three frames under way: TLC finds it with `MAX_QUEUE = 3`, and
  no violation there of the property as stated, which allows it after `late_answers`
  (8.2 million states, beyond the run's time); the theorem covers every queue.
* **Alarms after an FPGA reset.** The FPGA's frames restart at number 0 and the
  ESP32's gates are never reset, so that up to 32767 status frames are refused and
  their alarms not recorded (`docs/FIRMWARE.md:70`). `GatesReopen` states that this
  ends.
* **Reading and verdict.** On the edge of an update the board shows the new reading
  with the verdict on the old one (`docs/SENSOR_CONTRACT.md:30`).
  `VerdictIsOnReading` bounds this to one edge.
* **Erased calibration.** The floor prevents rollback "while the NVS state remains
  intact" (`docs/CALIBRATION_PROVISIONING.md:226`). The maintenance image does
  not erase, since "calibration state is evidence-bearing persistent data"
  (`app_main.cpp:454-455`); the edge image does, with the floor, when NVS has no free page or is
  of another version. `MonotonicSpec` therefore allows a step back only at an erasure.
* **Parsed and hashed apart.** `run_calibration_campaign.py:204-232` parses a source
  and hashes its file in a second read. `ProfileTracesToEvidence` holds of packages
  whose campaign did not race with an edit, and fails of the others. The device capture
  has the same window (`prepare_calibration_provisioning.py:237` and `269`).
* **Staleness on the page.** `docs/TELEMETRY_API.md` has the state UNKNOWN once it is
  stale; that is true of a snapshot, while a waiting page is not told, and a section
  up to the limit old is stamped anew on arrival (`docs/DEVICE_TELEMETRY.md:35`), so
  that the age shown is up to one limit below the true one. `ShownStateIsRecent` has
  the bound that does hold.
* **A damaged byte taken for an echo.** "Heartbeat or echo failure returns a non-zero
  exit code" (`docs/COMMISSIONING_UTILITY.md:85`). The smoke image's bytes carry no
  checksum: a damaged byte, a heartbeat for one, that reads as the probe awaited is
  taken for its echo (`core.py:141`). The probe's own echo is then filed as unexpected,
  which the verdict does not look at (`core.py:55-56`), and the tool passes. TLC finds this with one damaged byte where `EchoesAreOwn` is stated without
  `AfterStray`.
* **Dashboard fields.** `app.js` reads sensor fields the server does not send, the
  event list reads `timestamp_ms` where the server sends `host_monotonic_ms`, and
  `markDisconnected` leaves the last machine state on the page. Not modelled.

## 7. Not modelled

* Sensor drivers, bus engines, the byte level of the FPGA's receiver and of the
  ESP32's decoder, and `calibration_diag_tx`: planned (section 8).
* The numbering and content of the ESP32's observations, and with it what a restart of
  the ESP32 means for the gate of the FPGA; the wait of a sensor frame in the UART
  buffer, which the age of an observation leaves out (`app_main.cpp:234`).
* Host and device share no transaction: a host that dies after COMMIT and before its
  evidence is saved leaves the device ahead without evidence. The models reach the
  state; `LedgerAccountsForDevice` bounds it to one write.
* Power lost inside `nvs_flash_erase`: the erasure of the edge image is one step. The
  page notices a stopped host at its next poll, at most 250 ms later; the model lets it
  notice at once, and the age bound of `ShownStateIsRecent` covers the difference.
* A telemetry line reaches the host within `DELAY`. A console capture replayed with
  `--stdin` (`docs/DEVICE_TELEMETRY.md:56`) does not honour that, and no bound holds then.
* Damage leaves an artefact's file readable; an unreadable one ends the tool.
* The checks of the bench record other than link integrity: they repeat the remaining
  terms of the verdict. Bytes the line adds; a second smoke test while echoes of the first are
  under way.
* The content of telemetry sections, the event timeline and the rest of the dashboard.
* The statistics of a diagnostic capture, signatures, key encodings and file formats:
  inputs that are well-formed or not.
* The `check_*.py` and release tools, machine learning and the simulator: sequential
  programs without state between calls, or numeric. Board tops are wiring.

## 8. Plan

In this order, most important first; modules marked * are written.

1. `SafetyCore`*, `SafetyMonitor`*, `LoadAuthority`*, `FpgaProofs`*.
2. `CalibrationStore`*, `CalibrationMonitor`*, `MonotonicRecord`*, `NvsPartition`*,
   with proofs*.
3. `MaintenanceDevice`*, `ProvisioningHost`*, `ProvisioningMonitor`*, with proofs*.
4. `LinkTransmit`*, `SensorChain`*, `EventJournal`*, `EdgeRuntime`*, with proofs*.
5. `EvidenceChain`*, `AuthorityTransition`*, `TelemetryMonitor`*,
   `CommissioningTools`*, with proofs*.
6. `SensedCore`: `SensorChain` composed with `SafetyCore` (validity drives the
   pins): the load needs channels that are fresh modulo the timebase.
7. `ObservationLink`: `EdgeRuntime`'s observations against the gate of
   `SafetyCore`: when the plant can be brought back after a restart of the ESP32.
8. `LinkReceiver`: the byte-level parser with resynchronisation, implementing
   `ReceiverEdge` of `SafetyCore`.
9. Sensor drivers over their bus engines: configuration before trust, loss of
   trust on transport error, liveness of polling.

## 9. Running it

    tlasany SafetyCore.tla
    tlc -workers 2 -config MCSafetyCore.cfg MCSafetyCore.tla
    tlapm FpgaProofs.tla

Each cfg belongs to the MC module its name begins with; the longest run is
`evidence_chain` (about 2,100,000 distinct states, some three and a half minutes).
