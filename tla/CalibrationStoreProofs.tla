----------------------- MODULE CalibrationStoreProofs -----------------------
(***************************************************************************)
(* The inductive invariants of the dual-slot calibration store, for every  *)
(* set of record bodies and every range of sequence numbers.  They are     *)
(* stated about the store's own variables, so that the partition and the   *)
(* provisioning session, which both contain the store, can use them.       *)
(***************************************************************************)
EXTENDS CalibrationStore, TLAPS

\* Keys, registers and the call about to be made hold values of their kinds.
StoreTypeOK ==
    /\ flash \in Nvs /\ cache \in Nvs
    /\ pc \in {"off", "idle", "set_slot", "commit_slot", "readback",
               "set_active", "set_floor", "commit_metadata"}
    /\ installed_floor \in 0 .. SEQUENCE_LIMIT /\ active_slot \in SlotIndex
    /\ has_active \in BOOLEAN /\ active_record \in Record
    /\ ready \in BOOLEAN /\ store_ready \in BOOLEAN
    /\ candidate \in Record

-----------------------------------------------------------------------------
(* Inductive form, pc by pc *)

Repairing == ~ready /\ pc \in {"set_active", "set_floor", "commit_metadata"}
Staging == pc \notin {"off", "idle"} /\ ~Repairing

\* Nothing in slot i competes with record r: it is r itself or older.
NoneNewer(nvs, i, r) ==
    nvs.slots[i] \in Record =>
        nvs.slots[i] = r \/ nvs.slots[i].sequence < r.sequence

\* nvs holds what the registers say is installed, the inactive slot aside.
Holds(nvs) ==
    /\ nvs.floor = installed_floor
    /\ has_active =>
         /\ nvs.active = active_slot
         /\ nvs.slots[active_slot] = active_record
         /\ installed_floor = active_record.sequence
         /\ installed_floor \in Usable
    /\ ~has_active => installed_floor = 0 /\ nvs.slots[1] \notin Record

\* ... and the inactive slot holds nothing that competes with it.
Settled(nvs) ==
    /\ Holds(nvs)
    /\ has_active => NoneNewer(nvs, 1 - active_slot, active_record)
    /\ ~has_active => nvs.slots[0] \notin Record

\* The metadata calls made so far in stage_and_commit are in cache alone.
StagedIn(nvs) == nvs.slots[InactiveSlot] = candidate

StageInv ==
    /\ store_ready /\ ready
    /\ IsNewer(candidate.sequence, installed_floor)
    /\ Holds(flash)
    /\ pc = "set_slot" => cache = flash /\ Settled(flash)
    /\ pc = "commit_slot" =>
         /\ Settled(flash) /\ Holds(cache) /\ StagedIn(cache)
    /\ pc \in {"readback", "set_active"} => cache = flash /\ StagedIn(flash)
    /\ pc \in {"set_floor", "commit_metadata"} =>
         /\ StagedIn(flash) /\ cache.slots = flash.slots
         /\ cache.active = InactiveSlot
         /\ cache.floor = IF pc = "set_floor" THEN installed_floor ELSE candidate.sequence

\* A repair writes metadata about the record begin has selected.
RepairInv ==
    /\ ~store_ready /\ has_active
    /\ cache.slots = flash.slots
    /\ flash.slots[active_slot] = active_record
    /\ NoneNewer(flash, 1 - active_slot, active_record)
    /\ installed_floor = active_record.sequence /\ installed_floor \in Usable
    /\ flash.floor <= installed_floor
    /\ cache.floor = IF pc = "commit_metadata" THEN installed_floor ELSE flash.floor
    /\ pc \in {"set_floor", "commit_metadata"} => cache.active = active_slot

StoreInv ==
    /\ pc = "off" => /\ flash = cache
                     /\ ~ready /\ ~store_ready /\ ~has_active
    /\ pc = "idle" /\ store_ready => cache = flash /\ ready /\ Settled(flash)
    /\ Staging => StageInv
    /\ Repairing => RepairInv

\* A store with slots a, b and that floor can be opened: no slot is corrupt, two
\* records differ in their numbers or not at all, and the floor names nothing
\* newer than what is stored.
Openable(a, b, floor) ==
    /\ a # Corrupt /\ b # Corrupt
    /\ a \in Record => a.sequence \in Usable
    /\ b \in Record => b.sequence \in Usable
    /\ a \in Record /\ b \in Record => a = b \/ a.sequence # b.sequence
    /\ \/ floor = 0
       \/ a \in Record /\ a.sequence >= floor
       \/ b \in Record /\ b.sequence >= floor

\* Whichever of its keys survive a loss of power now, the store can be opened.
AlwaysOpenable ==
    \A a \in {flash.slots[0], cache.slots[0]}, b \in {flash.slots[1], cache.slots[1]},
       floor \in {flash.floor, cache.floor} : Openable(a, b, floor)

\* r was served and nothing older can follow it: the floor has reached it and
\* no other record is stored under its number.
Floors(r) == flash.floor >= r.sequence /\ cache.floor >= r.sequence
Unrivalled(r) ==
    \A i \in SlotIndex : \A s \in {flash.slots[i], cache.slots[i]} :
        s \in Record /\ s.sequence = r.sequence => s = r
Outlived(r) == r.sequence \in Usable /\ Floors(r) /\ Unrivalled(r)

-----------------------------------------------------------------------------
(* NVS *)

\* A key that survives a power loss is the one committed or the one last set.
LEMMA PowerLossMember ==
  ASSUME NEW c \in Nvs, NEW l \in Nvs, NEW n \in PowerLoss(c, l)
  PROVE  /\ n \in Nvs
         /\ \A i \in SlotIndex : n.slots[i] \in {c.slots[i], l.slots[i]}
         /\ n.active \in {c.active, l.active} /\ n.floor \in {c.floor, l.floor}
<1>1. PICK kept \in SUBSET SlotIndex :
        n.slots = [i \in SlotIndex |-> IF i \in kept THEN c.slots[i] ELSE l.slots[i]]
  BY DEF PowerLoss
<1>2. n.active \in {c.active, l.active} /\ n.floor \in {c.floor, l.floor}
  BY DEF PowerLoss
<1>3. \A i \in SlotIndex : n.slots[i] \in {c.slots[i], l.slots[i]}
  BY <1>1
<1>4. n.slots \in [SlotIndex -> Record \cup {Absent, Corrupt}]
  BY <1>1 DEF Nvs
<1>5. n = [slots |-> n.slots, active |-> n.active, floor |-> n.floor]
  BY DEF PowerLoss
<1> QED BY <1>2, <1>3, <1>4, <1>5 DEF Nvs

LEMMA NoRecordType == NoRecord \in Record
<1>1. (CHOOSE b \in Bodies : TRUE) \in Bodies
  BY BodiesAssumption
<1> QED BY <1>1, LimitAssumption DEF NoRecord, Record

LEMMA BlankType == BlankNvs \in Nvs
BY LimitAssumption DEF BlankNvs, Nvs, NoActiveKey

\* What begin selects is stored, usable, not below the floor, and the newest.
LEMMA SelectedRecord ==
  ASSUME NEW n \in Nvs, Select(n) = "Selected"
  PROVE  /\ Chosen(n) \in SlotIndex
         /\ n.slots[Chosen(n)] \in Record
         /\ n.slots[Chosen(n)].sequence \in Usable
         /\ n.slots[Chosen(n)].sequence >= n.floor
         /\ NoneNewer(n, 1 - Chosen(n), n.slots[Chosen(n)])
BY DEF Select, Chosen, Valid, SlotIndex, NoneNewer, Nvs, Record

-----------------------------------------------------------------------------
(* The store's steps, with the loss of a slot and without *)

\* What the store and power do; slots are damaged from outside only.
OwnStep == Begin \/ StoreStep \/ Crash \/ \E r \in Record : Stage(r)

\* A commit that fails, like a power loss, leaves each key as it was or as set.
LEMMA CommitFailsMember ==
  ASSUME StoreTypeOK, NvsCommitFails
  PROVE  /\ flash' \in Nvs /\ cache' = cache
         /\ \A i \in SlotIndex : flash'.slots[i] \in {flash.slots[i], cache.slots[i]}
         /\ flash'.floor \in {flash.floor, cache.floor}
BY PowerLossMember DEF NvsCommitFails, StoreTypeOK

LEMMA CrashMember ==
  ASSUME StoreTypeOK, Crash
  PROVE  /\ flash' \in Nvs /\ cache' = flash'
         /\ \A i \in SlotIndex : flash'.slots[i] \in {flash.slots[i], cache.slots[i]}
         /\ flash'.floor \in {flash.floor, cache.floor}
BY PowerLossMember DEF Crash, StoreTypeOK

\* Setting a key changes that key alone.
LEMMA SetKey ==
  ASSUME StoreTypeOK
  PROVE  /\ \A i \in SlotIndex, r \in Record :
              SetSlot(i, r) =>
                /\ cache' \in Nvs /\ flash' = flash
                /\ cache'.slots[i] = r
                /\ \A k \in SlotIndex : k # i => cache'.slots[k] = cache.slots[k]
                /\ cache'.active = cache.active /\ cache'.floor = cache.floor
         /\ \A i \in SlotIndex :
              SetActive(i) =>
                /\ cache' \in Nvs /\ flash' = flash
                /\ cache'.slots = cache.slots
                /\ cache'.active = i /\ cache'.floor = cache.floor
         /\ \A n \in 0 .. SEQUENCE_LIMIT :
              SetFloor(n) =>
                /\ cache' \in Nvs /\ flash' = flash
                /\ cache'.slots = cache.slots
                /\ cache'.active = cache.active /\ cache'.floor = n
BY DEF StoreTypeOK, Nvs, SetSlot, SetActive, SetFloor

LEMMA Targets ==
  ASSUME StoreTypeOK
  PROVE  /\ InactiveSlot \in SlotIndex /\ TargetSlot \in SlotIndex
         /\ TargetFloor \in 0 .. SEQUENCE_LIMIT
BY DEF StoreTypeOK, InactiveSlot, TargetSlot, TargetFloor, SlotIndex, Record

(* What a failing call of stage_and_commit or of the repair may have done. *)
LEMMA FailedCall ==
  ASSUME StoreTypeOK, SlotCallFails \/ MetadataCallFails
  PROVE  /\ flash' \in Nvs /\ cache' \in Nvs
         /\ \/ UNCHANGED nvs_vars
            \/ pc = "set_slot" /\ SetSlot(InactiveSlot, candidate)
            \/ pc = "set_active" /\ SetActive(TargetSlot)
            \/ pc = "set_floor" /\ SetFloor(TargetFloor)
            \/ NvsCommitFails
<1>1. candidate \in Record /\ flash \in Nvs /\ cache \in Nvs
  BY DEF StoreTypeOK
<1> QED
  BY <1>1, SetKey, Targets, CommitFailsMember
  DEF SlotCallFails, MetadataCallFails, nvs_vars

LEMMA ZeroInRange == 0 \in 0 .. SEQUENCE_LIMIT /\ 0 \in SlotIndex
BY LimitAssumption DEF SlotIndex

LEMMA StoreTypeInit == StoreInit => StoreTypeOK
BY BlankType, NoRecordType, ZeroInRange DEF StoreInit, StoreTypeOK

LEMMA StoreTypeStep ==
  ASSUME StoreTypeOK, OwnStep
  PROVE  StoreTypeOK'
<1> USE DEF StoreTypeOK
<1>c. RamCleared => /\ installed_floor' \in 0 .. SEQUENCE_LIMIT
                    /\ active_slot' \in SlotIndex
                    /\ has_active' \in BOOLEAN /\ active_record' \in Record
                    /\ ready' \in BOOLEAN /\ store_ready' \in BOOLEAN
  BY NoRecordType, ZeroInRange DEF RamCleared
<1>1. CASE Begin
  <2>1. CASE BeginRefused
    BY <2>1, <1>c DEF BeginRefused, nvs_vars
  <2>2. CASE BeginEmpty
    BY <2>2, ZeroInRange DEF BeginEmpty, nvs_vars
  <2>3. CASE BeginSelected
    <3>1. Select(cache) = "Selected"
      BY <2>3 DEF BeginSelected
    <3>2. /\ Chosen(cache) \in SlotIndex /\ cache.slots[Chosen(cache)] \in Record
          /\ cache.slots[Chosen(cache)].sequence \in 0 .. SEQUENCE_LIMIT
      BY <3>1, SelectedRecord DEF Record
    <3> QED BY <2>3, <3>2 DEF BeginSelected, nvs_vars
  <2> QED BY <1>1, <2>1, <2>2, <2>3 DEF Begin
<1>2. CASE \E r \in Record : Stage(r)
  BY <1>2 DEF Stage, nvs_vars, ram_vars
<1>3. CASE Crash
  BY <1>3, <1>c, CrashMember, NoRecordType DEF Crash
<1>4. CASE StoreStep
  <2>1. CASE StageSetSlot
    BY <2>1, SetKey, Targets DEF StageSetSlot, ram_vars
  <2>2. CASE StageCommitSlot
    BY <2>2 DEF StageCommitSlot, NvsCommit, ram_vars
  <2>3. CASE StageReadback
    BY <2>3 DEF StageReadback, nvs_vars, ram_vars
  <2>4. CASE WriteActive
    BY <2>4, SetKey, Targets DEF WriteActive, ram_vars
  <2>5. CASE WriteFloor
    BY <2>5, SetKey, Targets DEF WriteFloor, ram_vars
  <2>6. CASE BeginRepaired
    BY <2>6 DEF BeginRepaired, NvsCommit
  <2>7. CASE StageInstalled
    <3>1. InactiveSlot \in SlotIndex /\ candidate.sequence \in 0 .. SEQUENCE_LIMIT
      BY Targets DEF Record
    <3> QED BY <2>7, <3>1 DEF StageInstalled, NvsCommit
  <2>8. CASE StageFails
    BY <2>8, FailedCall DEF StageFails
  <2>9. CASE BeginRepairFails
    BY <2>9, <1>c, FailedCall DEF BeginRepairFails
  <2> QED BY <1>4, <2>1, <2>2, <2>3, <2>4, <2>5, <2>6, <2>7, <2>8, <2>9 DEF StoreStep
<1> QED BY <1>1, <1>2, <1>3, <1>4 DEF OwnStep

LEMMA LoseSlotType ==
  ASSUME StoreTypeOK, NEW i \in SlotIndex, LoseSlot(i)
  PROVE  StoreTypeOK'
<1>1. flash' \in Nvs /\ cache' \in Nvs
  BY DEF LoseSlot, StoreTypeOK, Nvs
<1> QED BY <1>1 DEF LoseSlot, StoreTypeOK, ram_vars

-----------------------------------------------------------------------------
(* Registers and partition agree *)

LEMMA StoreInvInit == StoreInit => StoreInv
BY DEF StoreInit, StoreInv, Staging, Repairing

\* begin selects a record and either serves it or has its metadata repaired.
LEMMA SelectedStep ==
  ASSUME StoreTypeOK, StoreInv, BeginSelected
  PROVE  StoreInv'
<1> DEFINE r == cache.slots[Chosen(cache)]
<1>1. /\ Chosen(cache) \in SlotIndex /\ r \in Record /\ r.sequence \in Usable
      /\ r.sequence >= cache.floor
      /\ NoneNewer(cache, 1 - Chosen(cache), r)
  BY SelectedRecord DEF StoreTypeOK, BeginSelected
<1>2. /\ flash = cache /\ flash' = flash /\ cache' = cache
      /\ ~ready /\ ~store_ready
  BY DEF StoreInv, BeginSelected, nvs_vars
<1>3. /\ active_slot' = Chosen(cache) /\ active_record' = r
      /\ installed_floor' = r.sequence /\ has_active'
  BY DEF BeginSelected
<1>4. CASE ~NeedsRepair /\ pc' = "idle" /\ ready' = TRUE /\ store_ready' = TRUE
  <2>1. cache.active = Chosen(cache) /\ cache.floor = r.sequence
    BY <1>4 DEF NeedsRepair
  <2>2. Settled(flash)'
    BY <1>1, <1>2, <1>3, <2>1 DEF Settled, Holds, NoneNewer
  <2> QED BY <1>2, <1>4, <2>2 DEF StoreInv, Staging, Repairing
<1>5. CASE NeedsRepair /\ pc' = "set_active" /\ UNCHANGED <<ready, store_ready>>
  <2>1. RepairInv'
    BY <1>1, <1>2, <1>3, <1>5 DEF RepairInv, NoneNewer
  <2> QED BY <1>2, <1>5, <2>1 DEF StoreInv, Staging, Repairing
<1> QED BY <1>4, <1>5 DEF BeginSelected

LEMMA BeginInvStep ==
  ASSUME StoreTypeOK, StoreInv, Begin
  PROVE  StoreInv'
<1>1. CASE BeginRefused
  BY <1>1 DEF BeginRefused, RamCleared, StoreInv, Staging, Repairing
<1>2. CASE BeginEmpty
  <2>1. /\ flash = cache /\ flash' = flash /\ cache' = cache
        /\ pc' = "idle" /\ ready' /\ store_ready' /\ ~has_active'
        /\ installed_floor' = 0
    BY <1>2 DEF StoreInv, BeginEmpty, nvs_vars
  <2>2. cache.floor = 0 /\ Valid(cache) = {}
    BY <1>2 DEF BeginEmpty, Select
  <2>3. \A i \in SlotIndex : cache.slots[i] \notin Record
    BY <2>2 DEF Valid
  <2>4. Settled(flash)'
    BY <2>1, <2>2, <2>3 DEF Settled, Holds, SlotIndex
  <2> QED BY <2>1, <2>4 DEF StoreInv, Staging, Repairing
<1> QED BY <1>1, <1>2, SelectedStep DEF Begin

LEMMA StageInvStep ==
  ASSUME StoreTypeOK, StoreInv, NEW r \in Record, Stage(r)
  PROVE  StoreInv'
<1>1. /\ cache = flash /\ ready /\ store_ready /\ Settled(flash)
      /\ IsNewer(r.sequence, installed_floor) /\ candidate' = r
      /\ pc' = "set_slot"
      /\ UNCHANGED <<nvs_vars, ram_vars>>
  BY DEF StoreInv, Stage
<1>2. Settled(flash)' /\ Holds(flash)'
  BY <1>1 DEF Settled, Holds, NoneNewer, nvs_vars, ram_vars
<1>3. StageInv'
  BY <1>1, <1>2 DEF StageInv, nvs_vars, ram_vars
<1> QED BY <1>1, <1>3 DEF StoreInv, Staging, Repairing, ram_vars

\* The calls of stage_and_commit up to the metadata.
LEMMA SlotCallInvStep ==
  ASSUME StoreTypeOK, StoreInv, StageSetSlot \/ StageCommitSlot \/ StageReadback
  PROVE  StoreInv'
<1>1. StageInv
  BY DEF StoreInv, Staging, Repairing, StageSetSlot, StageCommitSlot, StageReadback
<1>2. UNCHANGED ram_vars /\ candidate' = candidate
  BY DEF StageSetSlot, StageCommitSlot, StageReadback
<1>3. store_ready' /\ ready' /\ IsNewer(candidate.sequence, installed_floor)'
  BY <1>1, <1>2 DEF StageInv, ram_vars, IsNewer
<1>a. InactiveSlot' = InactiveSlot /\ InactiveSlot \in SlotIndex
  BY <1>2, Targets DEF InactiveSlot, ram_vars
<1>4. CASE StageSetSlot
  <2>1. /\ pc = "set_slot" /\ pc' = "commit_slot" /\ cache = flash /\ Settled(flash)
        /\ SetSlot(InactiveSlot, candidate)
    BY <1>1, <1>4 DEF StageInv, StageSetSlot
  <2>2. /\ flash' = flash /\ cache'.slots[InactiveSlot] = candidate
        /\ \A k \in SlotIndex : k # InactiveSlot => cache'.slots[k] = flash.slots[k]
        /\ cache'.active = flash.active /\ cache'.floor = flash.floor
    BY <1>a, <2>1, SetKey DEF StoreTypeOK
  <2>3. Settled(flash)' /\ Holds(flash)'
    BY <2>1, <2>2, <1>2 DEF Settled, Holds, NoneNewer, ram_vars
  <2>4. has_active => active_slot \in SlotIndex /\ active_slot # InactiveSlot
    BY DEF InactiveSlot, StoreTypeOK, SlotIndex
  <2>5. ~has_active => InactiveSlot = 0
    BY DEF InactiveSlot
  <2>6. Holds(cache)'
    BY <2>1, <2>2, <2>4, <2>5, <1>2 DEF Settled, Holds, ram_vars, SlotIndex
  <2>7. StageInv'
    BY <2>1, <2>2, <2>3, <2>6, <1>3, <1>a, <1>2 DEF StageInv, StagedIn
  <2> QED BY <2>1, <2>7, <1>3 DEF StoreInv, Staging, Repairing
<1>5. CASE StageCommitSlot
  <2>1. /\ pc' = "readback" /\ Holds(cache) /\ StagedIn(cache)
        /\ flash' = cache /\ cache' = cache
    BY <1>1, <1>5 DEF StageInv, StageCommitSlot, NvsCommit
  <2>2. Holds(flash)' /\ StagedIn(flash)'
    BY <2>1, <1>2, <1>a DEF Holds, StagedIn, ram_vars
  <2>3. StageInv'
    BY <2>1, <2>2, <1>3 DEF StageInv
  <2> QED BY <2>1, <2>3, <1>3 DEF StoreInv, Staging, Repairing
<1>6. CASE StageReadback
  <2>1. /\ pc' = "set_active" /\ cache = flash /\ StagedIn(flash) /\ Holds(flash)
        /\ flash' = flash /\ cache' = cache
    BY <1>1, <1>6 DEF StageInv, StageReadback, nvs_vars
  <2>2. Holds(flash)' /\ StagedIn(flash)'
    BY <2>1, <1>2, <1>a DEF Holds, StagedIn, ram_vars
  <2>3. StageInv'
    BY <2>1, <2>2, <1>3 DEF StageInv
  <2> QED BY <2>1, <2>3, <1>3 DEF StoreInv, Staging, Repairing
<1> QED BY <1>4, <1>5, <1>6

\* The two calls that set metadata, in a repair and in stage_and_commit.
LEMMA MetadataCallInvStep ==
  ASSUME StoreTypeOK, StoreInv, WriteActive \/ WriteFloor
  PROVE  StoreInv'
<1>1. UNCHANGED ram_vars /\ candidate' = candidate /\ flash' = flash
  BY DEF WriteActive, WriteFloor, SetActive, SetFloor
<1>2. InactiveSlot' = InactiveSlot
  BY <1>1 DEF InactiveSlot, ram_vars
<1>3. WriteActive => /\ cache'.slots = cache.slots
                     /\ cache'.active = TargetSlot /\ cache'.floor = cache.floor
                     /\ pc = "set_active" /\ pc' = "set_floor"
  BY SetKey, Targets DEF WriteActive
<1>4. WriteFloor => /\ cache'.slots = cache.slots
                    /\ cache'.active = cache.active /\ cache'.floor = TargetFloor
                    /\ pc = "set_floor" /\ pc' = "commit_metadata"
  BY SetKey, Targets DEF WriteFloor
<1>5. CASE ready
  <2>1. StageInv /\ ready' /\ store_ready'
    BY <1>1, <1>3, <1>4, <1>5 DEF StoreInv, Staging, Repairing, StageInv, ram_vars
  <2>2. TargetSlot = InactiveSlot /\ TargetFloor = candidate.sequence
    BY <1>5 DEF TargetSlot, TargetFloor
  <2>3. IsNewer(candidate.sequence, installed_floor)'
    BY <1>1, <2>1 DEF StageInv, IsNewer, ram_vars
  <2>4. Holds(flash)' /\ (StagedIn(flash) => StagedIn(flash)')
    BY <1>1, <1>2, <2>1 DEF StageInv, Holds, StagedIn, ram_vars
  <2>5. StageInv'
    <3>1. CASE WriteActive
      <4>1. cache = flash /\ StagedIn(flash) /\ flash.floor = installed_floor
        BY <1>3, <2>1, <3>1 DEF StageInv, Holds
      <4> QED BY <1>1, <1>2, <1>3, <2>1, <2>2, <2>3, <2>4, <3>1, <4>1 DEF StageInv, ram_vars
    <3>2. CASE WriteFloor
      BY <1>1, <1>2, <1>4, <2>1, <2>2, <2>3, <2>4, <3>2 DEF StageInv, ram_vars
    <3> QED BY <3>1, <3>2
  <2> QED BY <1>3, <1>4, <2>1, <2>5 DEF StoreInv, Staging, Repairing
<1>6. CASE ~ready
  <2>1. RepairInv /\ ~ready'
    BY <1>1, <1>3, <1>4, <1>6 DEF StoreInv, Repairing, ram_vars
  <2>2. TargetSlot = active_slot /\ TargetFloor = installed_floor
    BY <1>6 DEF TargetSlot, TargetFloor
  <2>3. RepairInv'
    BY <1>1, <1>3, <1>4, <2>1, <2>2 DEF RepairInv, NoneNewer, ram_vars
  <2> QED BY <1>3, <1>4, <2>1, <2>3 DEF StoreInv, Staging, Repairing
<1> QED BY <1>5, <1>6 DEF StoreTypeOK

LEMMA RepairedInvStep ==
  ASSUME StoreTypeOK, StoreInv, BeginRepaired
  PROVE  StoreInv'
<1>1. RepairInv /\ pc = "commit_metadata"
  BY DEF StoreInv, Repairing, BeginRepaired
<1>2. /\ flash' = cache /\ cache' = cache /\ pc' = "idle" /\ ready' /\ store_ready'
      /\ UNCHANGED <<installed_floor, active_slot, has_active, active_record>>
  BY DEF BeginRepaired, NvsCommit
<1>3. Settled(flash)'
  BY <1>1, <1>2 DEF RepairInv, Settled, Holds, NoneNewer
<1> QED BY <1>2, <1>3 DEF StoreInv, Staging, Repairing

LEMMA InstalledInvStep ==
  ASSUME StoreTypeOK, StoreInv, StageInstalled
  PROVE  StoreInv'
<1>1. StageInv /\ pc = "commit_metadata"
  BY DEF StoreInv, Staging, Repairing, StageInstalled
<1>2. /\ flash' = cache /\ cache' = cache /\ pc' = "idle" /\ ready' /\ store_ready'
      /\ active_slot' = InactiveSlot /\ active_record' = candidate
      /\ installed_floor' = candidate.sequence /\ has_active'
  BY <1>1 DEF StageInstalled, NvsCommit, StageInv
<1>3. /\ candidate.sequence \in Usable /\ candidate.sequence > installed_floor
      /\ installed_floor \in Int
  BY <1>1, LimitAssumption DEF StageInv, IsNewer, StoreTypeOK, Record, Usable
<1>4. /\ cache.slots[InactiveSlot] = candidate /\ cache.slots = flash.slots
      /\ cache.active = InactiveSlot /\ cache.floor = candidate.sequence
  BY <1>1 DEF StageInv, StagedIn
<1>5. NoneNewer(cache, 1 - InactiveSlot, candidate)
  <2>1. CASE has_active
    <3>1. 1 - InactiveSlot = active_slot
      BY <2>1 DEF InactiveSlot, StoreTypeOK, SlotIndex
    <3>2. cache.slots[active_slot].sequence < candidate.sequence
      BY <1>1, <1>3, <1>4, <2>1 DEF StageInv, Holds
    <3> QED BY <3>1, <3>2 DEF NoneNewer
  <2>2. CASE ~has_active
    BY <1>1, <1>4, <2>2 DEF StageInv, Holds, NoneNewer, InactiveSlot
  <2> QED BY <2>1, <2>2
<1>6. Settled(flash)'
  BY <1>2, <1>3, <1>4, <1>5 DEF Settled, Holds, NoneNewer
<1> QED BY <1>2, <1>6 DEF StoreInv, Staging, Repairing

LEMMA StoreInvStep ==
  ASSUME StoreTypeOK, StoreInv, OwnStep
  PROVE  StoreInv'
<1>1. CASE StageFails \/ BeginRepairFails
  BY <1>1 DEF StageFails, BeginRepairFails, RamCleared, StoreInv, Staging, Repairing
<1>2. CASE Crash
  BY <1>2, CrashMember DEF Crash, RamCleared, StoreInv, Staging, Repairing
<1> QED
  BY <1>1, <1>2, BeginInvStep, StageInvStep, SlotCallInvStep, MetadataCallInvStep,
     RepairedInvStep, InstalledInvStep DEF OwnStep, StoreStep

LEMMA LoseSlotInv ==
  ASSUME StoreInv, NEW i \in SlotIndex, LoseSlot(i)
  PROVE  StoreInv'
BY DEF LoseSlot, ram_vars, StoreInv, Staging, Repairing

-----------------------------------------------------------------------------
(* What is stored: every step but two mixes keys that are there already *)

KeepsKeys ==
    /\ \A i \in SlotIndex : /\ flash'.slots[i] \in {flash.slots[i], cache.slots[i]}
                            /\ cache'.slots[i] \in {flash.slots[i], cache.slots[i]}
    /\ flash'.floor \in {flash.floor, cache.floor}
    /\ cache'.floor \in {flash.floor, cache.floor}

LEMMA KeysStep ==
  ASSUME StoreTypeOK, OwnStep
  PROVE  \/ KeepsKeys
         \/ pc = "set_slot" /\ SetSlot(InactiveSlot, candidate)
         \/ pc = "set_floor" /\ SetFloor(TargetFloor)
<1>1. CASE Begin \/ StageReadback \/ \E r \in Record : Stage(r)
  BY <1>1 DEF Begin, BeginRefused, BeginEmpty, BeginSelected, StageReadback, Stage,
     nvs_vars, KeepsKeys
<1>2. CASE StageSetSlot \/ WriteFloor
  BY <1>2 DEF StageSetSlot, WriteFloor
<1>3. CASE StageCommitSlot \/ BeginRepaired \/ StageInstalled
  BY <1>3 DEF StageCommitSlot, BeginRepaired, StageInstalled, NvsCommit, KeepsKeys
<1>4. CASE WriteActive
  BY <1>4, SetKey, Targets DEF WriteActive, KeepsKeys
<1>5. CASE StageFails \/ BeginRepairFails
  <2>1. CASE UNCHANGED nvs_vars
    BY <2>1 DEF nvs_vars, KeepsKeys
  <2>2. CASE SetActive(TargetSlot)
    BY <2>2, SetKey, Targets DEF KeepsKeys
  <2>3. CASE NvsCommitFails
    BY <2>3, CommitFailsMember DEF KeepsKeys
  <2> QED BY <1>5, <2>1, <2>2, <2>3, FailedCall DEF StageFails, BeginRepairFails
<1>6. CASE Crash
  BY <1>6, CrashMember DEF KeepsKeys
<1> QED BY <1>1, <1>2, <1>3, <1>4, <1>5, <1>6 DEF OwnStep, StoreStep

\* While a slot is being set, and while the floor is, what is stored is known.
LEMMA BeforeSetSlot ==
  ASSUME StoreTypeOK, StoreInv, pc = "set_slot"
  PROVE  /\ cache = flash /\ Settled(flash)
         /\ candidate \in Record /\ candidate.sequence \in Usable
         /\ candidate.sequence > installed_floor /\ installed_floor \in Int
         /\ has_active => active_slot \in SlotIndex /\ InactiveSlot = 1 - active_slot
         /\ ~has_active => InactiveSlot = 0
<1>1. StageInv
  BY DEF StoreInv, Staging, Repairing
<1> QED BY <1>1, LimitAssumption
        DEF StageInv, IsNewer, StoreTypeOK, Record, Usable, InactiveSlot

LEMMA BeforeSetFloor ==
  ASSUME StoreTypeOK, StoreInv, pc = "set_floor"
  PROVE  /\ cache.slots = flash.slots /\ cache.floor = flash.floor
         /\ TargetFloor \in 0 .. SEQUENCE_LIMIT /\ TargetFloor >= flash.floor
         /\ flash.floor \in Int
         /\ \E i \in SlotIndex : /\ flash.slots[i] \in Record
                                 /\ flash.slots[i].sequence = TargetFloor
<1>t. /\ flash.floor \in Int /\ candidate \in Record /\ active_record \in Record
      /\ active_slot \in SlotIndex /\ InactiveSlot \in SlotIndex
      /\ TargetFloor \in 0 .. SEQUENCE_LIMIT
  BY Targets DEF StoreTypeOK, Nvs
<1>1. CASE ready
  <2>1. StageInv /\ TargetFloor = candidate.sequence
    BY <1>1 DEF StoreInv, Staging, Repairing, TargetFloor
  <2>2. /\ flash.slots[InactiveSlot] = candidate /\ cache.slots = flash.slots
        /\ cache.floor = flash.floor /\ candidate.sequence > flash.floor
    BY <2>1 DEF StageInv, StagedIn, Holds, IsNewer
  <2> QED BY <1>t, <2>1, <2>2
<1>2. CASE ~ready
  <2>1. RepairInv /\ TargetFloor = installed_floor
    BY <1>2 DEF StoreInv, Repairing, TargetFloor
  <2> QED BY <1>t, <2>1 DEF RepairInv
<1> QED BY <1>1, <1>2 DEF StoreTypeOK

LEMMA OpenableInit == StoreInit => AlwaysOpenable
BY SlotMarksAssumption DEF StoreInit, BlankNvs, AlwaysOpenable, Openable, SlotIndex

LEMMA OpenableStep ==
  ASSUME StoreTypeOK, StoreInv, AlwaysOpenable, OwnStep
  PROVE  AlwaysOpenable'
<1>1. CASE KeepsKeys
  BY <1>1 DEF KeepsKeys, AlwaysOpenable, SlotIndex
<1>2. CASE pc = "set_slot" /\ SetSlot(InactiveSlot, candidate)
  <2>1. /\ flash' = flash /\ cache'.slots[InactiveSlot] = candidate
        /\ \A k \in SlotIndex : k # InactiveSlot => cache'.slots[k] = flash.slots[k]
        /\ cache'.floor = flash.floor
    BY <1>2, BeforeSetSlot, SetKey, Targets
  <2>2. SUFFICES ASSUME NEW a \in {flash.slots[0], cache'.slots[0]},
                        NEW b \in {flash.slots[1], cache'.slots[1]}
                 PROVE  Openable(a, b, flash.floor)
    BY <2>1 DEF AlwaysOpenable
  <2>3. /\ Openable(flash.slots[0], flash.slots[1], flash.floor)
        /\ candidate # Corrupt
    BY BeforeSetSlot, <1>2, SlotMarksAssumption DEF AlwaysOpenable
  <2>4. CASE has_active
    <3>1. /\ flash.slots[active_slot] = active_record /\ active_record \in Record
          /\ flash.floor = active_record.sequence /\ active_record.sequence \in Usable
          /\ candidate.sequence > active_record.sequence
      BY <1>2, <2>4, BeforeSetSlot DEF Settled, Holds, StoreTypeOK
    <3>2. CASE active_slot = 0
      BY <1>2, <2>1, <2>3, <2>4, <3>1, <3>2, BeforeSetSlot DEF Openable, SlotIndex, Usable
    <3>3. CASE active_slot = 1
      BY <1>2, <2>1, <2>3, <2>4, <3>1, <3>3, BeforeSetSlot DEF Openable, SlotIndex, Usable
    <3> QED BY <3>2, <3>3, <1>2, <2>4, BeforeSetSlot DEF SlotIndex
  <2>5. CASE ~has_active
    <3>1. flash.floor = 0 /\ flash.slots[1] \notin Record /\ InactiveSlot = 0
      BY <1>2, <2>5, BeforeSetSlot DEF Settled, Holds
    <3> QED BY <1>2, <2>1, <2>3, <3>1, BeforeSetSlot DEF Openable, SlotIndex
  <2> QED BY <2>4, <2>5
<1>3. CASE pc = "set_floor" /\ SetFloor(TargetFloor)
  <2>1. flash' = flash /\ cache'.slots = flash.slots /\ cache'.floor = TargetFloor
    BY <1>3, BeforeSetFloor, SetKey
  <2> QED BY <1>3, <2>1, BeforeSetFloor DEF AlwaysOpenable, Openable, SlotIndex
<1> QED BY <1>1, <1>2, <1>3, KeysStep

-----------------------------------------------------------------------------
(* A record that was served *)

LEMMA OutlivedStep ==
  ASSUME StoreTypeOK, StoreInv, OwnStep, NEW r \in Record, Outlived(r)
  PROVE  Outlived(r)'
<1>t. flash.floor \in Int /\ cache.floor \in Int /\ r.sequence \in Int
  BY DEF StoreTypeOK, Nvs, Record
<1>1. CASE KeepsKeys
  BY <1>1 DEF KeepsKeys, Outlived, Floors, Unrivalled
<1>2. CASE pc = "set_slot" /\ SetSlot(InactiveSlot, candidate)
  <2>1. /\ flash' = flash /\ cache'.slots[InactiveSlot] = candidate
        /\ \A k \in SlotIndex : k # InactiveSlot => cache'.slots[k] = cache.slots[k]
        /\ cache'.floor = cache.floor
    BY <1>2, BeforeSetSlot, SetKey, Targets
  <2>2. candidate.sequence > r.sequence
    BY <1>2, <1>t, BeforeSetSlot DEF Settled, Holds, Outlived, Floors, Usable
  <2>3. Unrivalled(r)'
    BY <1>t, <2>1, <2>2 DEF Unrivalled, Outlived
  <2> QED BY <2>1, <2>3 DEF Outlived, Floors
<1>3. CASE pc = "set_floor" /\ SetFloor(TargetFloor)
  <2>1. flash' = flash /\ cache'.slots = cache.slots /\ cache'.floor = TargetFloor
    BY <1>3, BeforeSetFloor, SetKey
  <2> QED BY <1>3, <1>t, <2>1, BeforeSetFloor DEF Outlived, Floors, Unrivalled
<1> QED BY <1>1, <1>2, <1>3, KeysStep

\* The loss of a slot lowers no floor and stores no record.
LEMMA OutlivedLoseSlot ==
  ASSUME StoreTypeOK, StoreInv, NEW i \in SlotIndex, LoseSlot(i), NEW r, Outlived(r)
  PROVE  Outlived(r)'
<1>1. /\ flash = cache /\ cache' = flash' /\ flash'.floor = flash.floor
      /\ \A k \in SlotIndex : flash'.slots[k] \in {flash.slots[k], Absent, Corrupt}
  BY DEF LoseSlot, StoreInv, StoreTypeOK, Nvs
<1> QED BY <1>1, SlotMarksAssumption DEF Outlived, Floors, Unrivalled

\* What a store in service holds.
LEMMA ServedHolds ==
  ASSUME StoreTypeOK, StoreInv, store_ready
  PROVE  /\ ready /\ pc \notin {"off"} /\ Holds(flash)
         /\ pc = "idle" => flash = cache /\ Settled(flash)
BY DEF StoreInv, StoreTypeOK, Staging, Repairing, StageInv, RepairInv, Settled

\* While a stage runs each slot holds the served record, the candidate, or
\* something older than both.
LEMMA ServedOutlives ==
  ASSUME StoreTypeOK, StoreInv, store_ready, has_active
  PROVE  Outlived(active_record)
<1>t. /\ active_record \in Record /\ candidate \in Record /\ active_slot \in SlotIndex
      /\ active_record.sequence \in Int /\ candidate.sequence \in Int
      /\ installed_floor = active_record.sequence /\ installed_floor \in Usable
      /\ flash.floor = active_record.sequence
      /\ flash.slots[active_slot] = active_record
  BY ServedHolds DEF Holds, StoreTypeOK, Record
<1>i. InactiveSlot = 1 - active_slot /\ SlotIndex = {active_slot, InactiveSlot}
  BY <1>t DEF InactiveSlot, SlotIndex
<1>1. CASE pc = "idle"
  <2>1. flash = cache /\ NoneNewer(flash, 1 - active_slot, active_record)
    BY <1>1, ServedHolds DEF Settled
  <2> QED BY <1>t, <1>i, <2>1 DEF Outlived, Floors, Unrivalled, NoneNewer
<1>2. CASE pc # "idle"
  <2>0. StageInv
    BY <1>2, ServedHolds DEF StoreInv, StoreTypeOK, Staging, Repairing
  <2>1. candidate.sequence > active_record.sequence
    BY <1>t, <2>0 DEF StageInv, IsNewer
  <2>2. /\ cache.slots[active_slot] = active_record
        /\ cache.floor \in {active_record.sequence, candidate.sequence}
    BY <1>2, <1>t, <2>0, ServedHolds DEF StageInv, Holds, StoreTypeOK
  <2>3. \A s \in {flash.slots[InactiveSlot], cache.slots[InactiveSlot]} :
            s \in Record => \/ s = active_record \/ s = candidate
                            \/ s.sequence < active_record.sequence
    BY <1>2, <1>t, <1>i, <2>0, ServedHolds
    DEF StageInv, StagedIn, Settled, NoneNewer, StoreTypeOK
  <2> QED BY <1>t, <1>i, <2>1, <2>2, <2>3 DEF Outlived, Floors, Unrivalled
<1> QED BY <1>1, <1>2

\* A record in service follows whatever was served before.
ServesNothingOlder ==
    \A r \in Record :
        Outlived(r) => active_record = r \/ active_record.sequence > r.sequence

LEMMA ServedFollows ==
  ASSUME StoreTypeOK, StoreInv, store_ready, has_active
  PROVE  ServesNothingOlder
<1> SUFFICES ASSUME NEW r \in Record, Outlived(r)
             PROVE  active_record = r \/ active_record.sequence > r.sequence
  BY DEF ServesNothingOlder
<1>1. /\ active_record \in Record /\ active_slot \in SlotIndex
      /\ active_record.sequence \in Int /\ r.sequence \in Int
      /\ flash.slots[active_slot] = active_record
      /\ flash.floor = active_record.sequence
  BY ServedHolds DEF Holds, StoreTypeOK, Record
<1> QED BY <1>1 DEF Outlived, Floors, Unrivalled

-----------------------------------------------------------------------------
(* What the next boot selects *)

LEMMA OpenableSelects ==
  ASSUME NEW n \in Nvs, Openable(n.slots[0], n.slots[1], n.floor)
  PROVE  Select(n) \in {"Empty", "Selected"}
BY DEF Openable, Select, Chosen, Valid, SlotIndex, Nvs, Record, Usable

LEMMA LossOpenable ==
  ASSUME StoreTypeOK, AlwaysOpenable, NEW n \in PowerLoss(flash, cache)
  PROVE  n \in Nvs /\ Openable(n.slots[0], n.slots[1], n.floor)
BY PowerLossMember DEF StoreTypeOK, AlwaysOpenable, SlotIndex

\* Wherever power is lost, the next boot finds a store it can open.
LEMMA UsableAfterLoss ==
  ASSUME StoreTypeOK, AlwaysOpenable, NEW n \in PowerLoss(flash, cache)
  PROVE  Select(n) \in {"Empty", "Selected"}
BY LossOpenable, OpenableSelects

\* ... and selects what was served before, or something newer.
LEMMA SurvivesLoss ==
  ASSUME StoreTypeOK, AlwaysOpenable, NEW r \in Record, Outlived(r),
         NEW n \in PowerLoss(flash, cache)
  PROVE  /\ Select(n) = "Selected"
         /\ n.slots[Chosen(n)] = r \/ n.slots[Chosen(n)].sequence > r.sequence
<1>1. n \in Nvs /\ Openable(n.slots[0], n.slots[1], n.floor)
  BY LossOpenable
<1>2. /\ n.floor >= r.sequence /\ r.sequence \in Usable /\ n.floor \in Int
      /\ \A i \in SlotIndex : n.slots[i] \in Record /\ n.slots[i].sequence = r.sequence
                                => n.slots[i] = r
  BY PowerLossMember DEF StoreTypeOK, Outlived, Floors, Unrivalled, Nvs
<1>3. Select(n) = "Selected"
  <2>1. n.floor # 0
    BY <1>2 DEF Usable
  <2>2. Valid(n) # {}
    BY <1>1, <2>1 DEF Openable, Valid, SlotIndex
  <2> QED BY <1>1, <2>2, OpenableSelects DEF Select
<1>4. /\ n.slots[Chosen(n)] \in Record /\ Chosen(n) \in SlotIndex
      /\ n.slots[Chosen(n)].sequence >= n.floor
      /\ n.slots[Chosen(n)].sequence \in Int
  BY <1>1, <1>3, SelectedRecord DEF Usable
<1> QED BY <1>2, <1>3, <1>4 DEF Usable
=============================================================================
