-------------------------- MODULE CalibrationStore --------------------------
(***************************************************************************)
(* The dual-slot calibration store of the ESP32 maintenance firmware       *)
(* (CalibrationNvsStore) on top of the NVS key-value partition, with power *)
(* loss between any two NVS calls and with every NVS call able to fail.    *)
(*                                                                         *)
(* NVS is external.  `cache' is what the running firmware reads back,      *)
(* `flash' what is certainly persistent; a value set and not yet committed *)
(* may or may not survive a power loss, each key for itself, and a call    *)
(* that reports an error may or may not have taken effect.  One key's      *)
(* value is never torn.                                                    *)
(*                                                                         *)
(* pc is the NVS call about to be made: begin and stage_and_commit are one *)
(* step per call, because power may fail between any two of them.          *)
(***************************************************************************)
EXTENDS Integers

CONSTANTS
    Bodies,          \* the calibration coefficients of a record
    SEQUENCE_LIMIT,  \* 16#FFFFFFFF#, which like 0 is not a usable sequence
    Absent,          \* slot content: key not found
    Corrupt          \* slot content: a blob that does not decode

VARIABLES
    flash, cache,                       \* NVS: slot0, slot1, active, floor
    pc,
    installed_floor, active_slot, has_active, active_record, ready,
    store_ready,                        \* g_store_ready of app_main
    candidate                           \* argument of stage_and_commit

nvs_vars == <<flash, cache>>
ram_vars == <<installed_floor, active_slot, has_active, active_record, ready,
              store_ready>>
store_vars == <<nvs_vars, pc, ram_vars, candidate>>

SlotIndex == {0, 1}
Usable == 1 .. (SEQUENCE_LIMIT - 1)
Record == [sequence : 0 .. SEQUENCE_LIMIT, body : Bodies]
NoActiveKey == 2
NoRecord == [sequence |-> 0, body |-> CHOOSE b \in Bodies : TRUE]

Nvs ==
    [slots : [SlotIndex -> Record \cup {Absent, Corrupt}],
     active : SlotIndex \cup {NoActiveKey}, floor : 0 .. SEQUENCE_LIMIT]

\* A missing floor key reads as 0.
BlankNvs ==
    [slots |-> [i \in SlotIndex |-> Absent], active |-> NoActiveKey, floor |-> 0]

ASSUME BodiesAssumption == Bodies # {}
ASSUME LimitAssumption == SEQUENCE_LIMIT \in Nat /\ SEQUENCE_LIMIT >= 2
ASSUME SlotMarksAssumption ==
    Absent # Corrupt /\ Absent \notin Record /\ Corrupt \notin Record

-----------------------------------------------------------------------------
(* NVS *)

\* What a power loss leaves: each key as committed or as last set.
PowerLoss(committed, latest) ==
    [slots : {[i \in SlotIndex |-> IF i \in kept THEN committed.slots[i]
                                                 ELSE latest.slots[i]] :
                kept \in SUBSET SlotIndex},
     active : {committed.active, latest.active},
     floor : {committed.floor, latest.floor}]

SetSlot(i, r) == cache' = [cache EXCEPT !.slots[i] = r] /\ UNCHANGED flash
SetActive(i) == cache' = [cache EXCEPT !.active = i] /\ UNCHANGED flash
SetFloor(n) == cache' = [cache EXCEPT !.floor = n] /\ UNCHANGED flash
NvsCommit == flash' = cache /\ UNCHANGED cache
NvsCommitFails == flash' \in PowerLoss(flash, cache) /\ UNCHANGED cache

-----------------------------------------------------------------------------
(* forgesense_calibration_provisioning *)

\* calibration_sequence_is_newer
IsNewer(sequence, floor) ==
    sequence # 0 /\ sequence # SEQUENCE_LIMIT /\ sequence > floor

Valid(nvs) == {i \in SlotIndex : nvs.slots[i] \in Record}

\* Faulty variant: slot 0 is preferred whenever it decodes.
PreferFirstSlot(nvs) == IF 0 \in Valid(nvs) THEN 0 ELSE 1

\* The slot with the higher sequence; slot 0 when both are equal.
Chosen(nvs) ==
    IF \/ 0 \notin Valid(nvs)
       \/ 1 \in Valid(nvs) /\ nvs.slots[1].sequence > nvs.slots[0].sequence
    THEN 1 ELSE 0

\* select_calibration_slot
Select(nvs) ==
    IF \E i \in SlotIndex : nvs.slots[i] = Corrupt THEN "Corrupt"
    ELSE IF Valid(nvs) = {}
         THEN IF nvs.floor = 0 THEN "Empty" ELSE "RollbackDetected"
    ELSE IF /\ Valid(nvs) = SlotIndex
            /\ nvs.slots[0].sequence = nvs.slots[1].sequence
            /\ nvs.slots[0] # nvs.slots[1]
         THEN "Ambiguous"
    ELSE IF /\ nvs.slots[Chosen(nvs)].sequence \in Usable
            /\ nvs.slots[Chosen(nvs)].sequence >= nvs.floor
         THEN "Selected" ELSE "RollbackDetected"

-----------------------------------------------------------------------------

RamCleared ==
    /\ installed_floor' = 0 /\ active_slot' = 0 /\ has_active' = FALSE
    /\ active_record' = NoRecord /\ ready' = FALSE /\ store_ready' = FALSE

StoreInit ==
    /\ flash = BlankNvs /\ cache = BlankNvs /\ pc = "off"
    /\ installed_floor = 0 /\ active_slot = 0 /\ has_active = FALSE
    /\ active_record = NoRecord /\ ready = FALSE /\ store_ready = FALSE
    /\ candidate = NoRecord

(* begin, called once at boot.  The reads precede every assignment. *)

\* nvs_open or a read fails, or the selection refuses: reset_failed_open.
BeginRefused ==
    /\ pc = "off" /\ pc' = "idle"
    /\ RamCleared /\ UNCHANGED <<nvs_vars, candidate>>

BeginEmpty ==
    /\ pc = "off" /\ Select(cache) = "Empty"
    /\ pc' = "idle"
    /\ installed_floor' = 0 /\ has_active' = FALSE
    /\ ready' = TRUE /\ store_ready' = TRUE
    /\ UNCHANGED <<nvs_vars, active_slot, active_record, candidate>>

\* Faulty variant: a floor left behind by an interrupted commit is not repaired.
RepairsActiveOnly == cache.active # Chosen(cache)

\* metadata_needs_repair (the floor is at most the selected sequence here)
NeedsRepair ==
    \/ cache.active # Chosen(cache)
    \/ cache.floor # cache.slots[Chosen(cache)].sequence

BeginSelected ==
    /\ pc = "off" /\ Select(cache) = "Selected"
    /\ active_slot' = Chosen(cache)
    /\ active_record' = cache.slots[Chosen(cache)]
    /\ installed_floor' = cache.slots[Chosen(cache)].sequence
    /\ has_active' = TRUE
    /\ \/ ~NeedsRepair /\ pc' = "idle" /\ ready' = TRUE /\ store_ready' = TRUE
       \/ NeedsRepair /\ pc' = "set_active" /\ UNCHANGED <<ready, store_ready>>
    /\ UNCHANGED <<nvs_vars, candidate>>

(* stage_and_commit *)

InactiveSlot == IF has_active THEN 1 - active_slot ELSE 0

Stage(r) ==
    /\ pc = "idle" /\ store_ready /\ ready
    /\ IsNewer(r.sequence, installed_floor)
    /\ candidate' = r /\ pc' = "set_slot"
    /\ UNCHANGED <<nvs_vars, ram_vars>>

StageSetSlot ==
    /\ pc = "set_slot" /\ pc' = "commit_slot"
    /\ SetSlot(InactiveSlot, candidate)
    /\ UNCHANGED <<ram_vars, candidate>>

StageCommitSlot ==
    /\ pc = "commit_slot" /\ pc' = "readback"
    /\ NvsCommit
    /\ UNCHANGED <<ram_vars, candidate>>

StageReadback ==
    /\ pc = "readback" /\ cache.slots[InactiveSlot] = candidate
    /\ pc' = "set_active"
    /\ UNCHANGED <<nvs_vars, ram_vars, candidate>>

(* write_metadata, called by begin to repair (ready is false) and by        *)
(* stage_and_commit to install.                                            *)

TargetSlot == IF ready THEN InactiveSlot ELSE active_slot
TargetFloor == IF ready THEN candidate.sequence ELSE installed_floor

WriteActive ==
    /\ pc = "set_active" /\ pc' = "set_floor"
    /\ SetActive(TargetSlot)
    /\ UNCHANGED <<ram_vars, candidate>>

WriteFloor ==
    /\ pc = "set_floor" /\ pc' = "commit_metadata"
    /\ SetFloor(TargetFloor)
    /\ UNCHANGED <<ram_vars, candidate>>

BeginRepaired ==
    /\ pc = "commit_metadata" /\ ~ready /\ pc' = "idle"
    /\ NvsCommit
    /\ ready' = TRUE /\ store_ready' = TRUE
    /\ UNCHANGED <<installed_floor, active_slot, has_active, active_record,
                   candidate>>

StageInstalled ==
    /\ pc = "commit_metadata" /\ ready /\ pc' = "idle"
    /\ NvsCommit
    /\ active_slot' = InactiveSlot /\ active_record' = candidate
    /\ installed_floor' = candidate.sequence /\ has_active' = TRUE
    /\ UNCHANGED <<ready, store_ready, candidate>>

\* What a failing call may have done.
SlotCallFails ==
    \/ pc = "set_slot" /\ SetSlot(InactiveSlot, candidate)
    \/ pc = "commit_slot" /\ NvsCommitFails
    \/ pc \in {"set_slot", "readback"} /\ UNCHANGED nvs_vars

MetadataCallFails ==
    \/ pc = "set_active" /\ SetActive(TargetSlot)
    \/ pc = "set_floor" /\ SetFloor(TargetFloor)
    \/ pc = "commit_metadata" /\ NvsCommitFails
    \/ pc \in {"set_active", "set_floor"} /\ UNCHANGED nvs_vars

\* Faulty variant: the caller keeps the store in service after a failed stage.
StageFailsServing ==
    /\ ready /\ pc' = "idle"
    /\ SlotCallFails \/ MetadataCallFails
    /\ UNCHANGED <<ram_vars, candidate>>

\* stage_and_commit returns false; handle_commit takes the store out of service.
StageFails ==
    /\ ready /\ pc' = "idle"
    /\ SlotCallFails \/ MetadataCallFails
    /\ store_ready' = FALSE
    /\ UNCHANGED <<installed_floor, active_slot, has_active, active_record,
                   ready, candidate>>

BeginRepairFails ==
    /\ ~ready /\ pc' = "idle"
    /\ MetadataCallFails
    /\ RamCleared /\ UNCHANGED candidate

-----------------------------------------------------------------------------
(* The environment *)

Crash ==
    /\ pc # "off" /\ pc' = "off"
    /\ flash' \in PowerLoss(flash, cache) /\ cache' = flash'
    /\ RamCleared /\ candidate' = NoRecord

\* While the device is off a slot is erased or damaged.
LoseSlot(i) ==
    /\ pc = "off"
    /\ flash' \in {[flash EXCEPT !.slots[i] = Absent],
                   [flash EXCEPT !.slots[i] = Corrupt]}
    /\ cache' = flash'
    /\ UNCHANGED <<pc, ram_vars, candidate>>

-----------------------------------------------------------------------------

Begin == BeginRefused \/ BeginEmpty \/ BeginSelected
StoreStep ==
    \/ StageSetSlot \/ StageCommitSlot \/ StageReadback
    \/ WriteActive \/ WriteFloor \/ BeginRepaired \/ StageInstalled
    \/ StageFails \/ BeginRepairFails

StoreNext ==
    \/ Begin \/ StoreStep \/ Crash
    \/ \E r \in Record : Stage(r)
    \/ \E i \in SlotIndex : LoseSlot(i)

=============================================================================
