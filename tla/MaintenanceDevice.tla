-------------------------- MODULE MaintenanceDevice --------------------------
(***************************************************************************)
(* The maintenance firmware of the ESP32: one request at a time from the   *)
(* USB serial queue, two-phase PREPARE / COMMIT of a calibration record,   *)
(* the physical gates, and the calibration store underneath.               *)
(*                                                                         *)
(* The CRC32 in a status, PREPARE or COMMIT response stands for the record *)
(* it was computed from: the model carries the record.  All requests are   *)
(* well formed, the authority key is pinned and every record offered is    *)
(* signed.                                                                 *)
(***************************************************************************)
EXTENDS CalibrationStore, Sequences

CONSTANT MAX_BOOTS   \* bound on the boots (fresh boot nonces) of a behaviour

VARIABLES
    boot_nonce,            \* g_boot_nonce: random in the source, never repeated here
    pending,               \* g_pending_valid, _expected_floor, _record, g_commit_nonce
    nonces_used,           \* the fresh_nonce values drawn for challenges
    gates,                 \* maintenance enable and load inhibit both asserted
    requests, responses    \* the two directions of the USB serial channel

session_vars == <<boot_nonce, pending, nonces_used>>
channel_vars == <<requests, responses>>
device_vars == <<store_vars, session_vars, gates, channel_vars>>

NoPending == [valid |-> FALSE, floor |-> 0, nonce |-> 0, record |-> NoRecord]

DeviceInit ==
    /\ StoreInit
    /\ boot_nonce = 0 /\ pending = NoPending /\ nonces_used = 0
    /\ gates = FALSE
    /\ requests = <<>> /\ responses = <<>>

\* load_active
Serving == IF store_ready /\ has_active THEN active_record ELSE Absent

-----------------------------------------------------------------------------
(* The request loop *)

Ready(op) == pc = "idle" /\ requests # <<>> /\ Head(requests).op = op

Answer(response) ==
    /\ requests' = Tail(requests)
    /\ responses' = Append(responses, response)

ClearPending == pending' = NoPending

HandleQueryStatus ==
    /\ Ready("Status")
    /\ Answer([op |-> "Status", boot |-> boot_nonce, gates |-> gates,
               store_ready |-> store_ready,
               floor |-> IF store_ready THEN installed_floor ELSE 0,
               active |-> Serving,
               pending |-> IF pending.valid THEN pending.record.sequence ELSE 0])
    /\ UNCHANGED <<store_vars, session_vars, gates>>

HandleQueryActive ==
    /\ Ready("Active")
    /\ Answer([op |-> "Active", ok |-> store_ready, active |-> Serving])
    /\ UNCHANGED <<store_vars, session_vars, gates>>

PrepareAcceptable(m) ==
    /\ gates /\ store_ready
    /\ m.boot = boot_nonce
    /\ m.floor = installed_floor
    /\ IsNewer(m.record.sequence, m.floor)

HandlePrepare ==
    /\ Ready("Prepare")
    /\ LET m == Head(requests)
       IN  \/ /\ PrepareAcceptable(m)
              /\ nonces_used' = nonces_used + 1
              /\ pending' = [valid |-> TRUE, floor |-> m.floor,
                             nonce |-> nonces_used', record |-> m.record]
              /\ Answer([op |-> "Prepare", ok |-> TRUE, record |-> m.record,
                         nonce |-> nonces_used'])
           \/ /\ ~PrepareAcceptable(m)
              /\ ClearPending /\ UNCHANGED nonces_used
              /\ Answer([op |-> "Prepare", ok |-> FALSE])
    /\ UNCHANGED <<store_vars, boot_nonce, gates>>

RefuseCommit == Answer([op |-> "Commit", ok |-> FALSE])

\* Checked before the challenge: a failure here also drops it.
CommitPossible(m) == gates /\ store_ready /\ m.boot = boot_nonce

MatchesChallenge(m) ==
    /\ pending.valid
    /\ m.nonce = pending.nonce
    /\ m.sequence = pending.record.sequence

FloorUnmoved ==
    /\ installed_floor = pending.floor
    /\ IsNewer(pending.record.sequence, installed_floor)

\* Only a mismatch with the challenge leaves the challenge in place.
HandleCommitRefused ==
    /\ Ready("Commit")
    /\ LET m == Head(requests)
           possible == CommitPossible(m)
       IN  /\ ~(possible /\ MatchesChallenge(m) /\ FloorUnmoved)
           /\ pending' = IF possible /\ ~MatchesChallenge(m) THEN pending
                                                             ELSE NoPending
    /\ RefuseCommit
    /\ UNCHANGED <<store_vars, boot_nonce, nonces_used, gates>>

\* The request stays at the head of the queue while stage_and_commit runs.
HandleCommit ==
    /\ Ready("Commit")
    /\ CommitPossible(Head(requests)) /\ MatchesChallenge(Head(requests))
    /\ FloorUnmoved
    /\ Stage(pending.record)
    /\ UNCHANGED <<session_vars, gates, channel_vars>>

StoreCall ==
    /\ \/ StageSetSlot \/ StageCommitSlot \/ StageReadback
       \/ WriteActive \/ WriteFloor \/ BeginRepaired \/ BeginRepairFails
    /\ UNCHANGED <<session_vars, gates, channel_vars>>

\* Faulty variant: the challenge is not cleared once its record is installed.
CommitDoneKeepsPending ==
    /\ StageInstalled
    /\ Answer([op |-> "Commit", ok |-> TRUE, record |-> candidate])
    /\ UNCHANGED <<session_vars, gates>>

CommitDone ==
    /\ StageInstalled /\ ClearPending
    /\ Answer([op |-> "Commit", ok |-> TRUE, record |-> candidate])
    /\ UNCHANGED <<boot_nonce, nonces_used, gates>>

CommitFailed ==
    /\ StageFails /\ ClearPending /\ RefuseCommit
    /\ UNCHANGED <<boot_nonce, nonces_used, gates>>

(* app_main up to the loop: the nonce is drawn before the store is opened *)
Boot ==
    /\ boot_nonce < MAX_BOOTS
    /\ Begin
    /\ boot_nonce' = boot_nonce + 1
    /\ UNCHANGED <<pending, nonces_used, gates, channel_vars>>

-----------------------------------------------------------------------------
(* The environment of the device *)

\* Power loss or reset: what the firmware had not read or not sent is gone.
DeviceCrash ==
    /\ Crash /\ ClearPending
    /\ requests' = <<>>
    /\ \E sent \in 0 .. Len(responses) : responses' = SubSeq(responses, 1, sent)
    /\ UNCHANGED <<boot_nonce, nonces_used, gates>>

GateChange ==
    /\ gates' = ~gates
    /\ UNCHANGED <<store_vars, session_vars, channel_vars>>

\* A request cut short or garbled fails its CRC and is skipped.
RequestLost ==
    /\ pc = "idle" /\ requests # <<>>
    /\ requests' = Tail(requests)
    /\ UNCHANGED <<store_vars, session_vars, gates, responses>>

DeviceStep ==
    \/ HandleQueryStatus \/ HandleQueryActive \/ HandlePrepare
    \/ HandleCommitRefused \/ HandleCommit
    \/ StoreCall \/ CommitDone \/ CommitFailed \/ Boot
DeviceEnvironment == DeviceCrash \/ GateChange \/ RequestLost
=============================================================================
