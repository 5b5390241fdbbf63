------------------------- MODULE NvsPartitionProofs -------------------------
(***************************************************************************)
(* What one NVS partition promises whatever calls fail, wherever power is  *)
(* lost and whichever image runs, for every set of record bodies, range of *)
(* sequence numbers, ring size and number of erasures.  The journal's      *)
(* invariant comes first; the store's is in CalibrationStoreProofs.        *)
(***************************************************************************)
EXTENDS NvsPartition, CalibrationStoreProofs

LEMMA Multiples ==
  ASSUME NEW r \in Nat \ {0}, NEW d \in Int
  PROVE  /\ d >= 1 => r * d >= r
         /\ d <= 0 => r * d <= 0
  OBVIOUS

LEMMA Division ==
  ASSUME NEW r \in Nat \ {0}, NEW n \in Nat
  PROVE  n \div r \in Int /\ n % r \in 0 .. (r - 1) /\ n = r * (n \div r) + (n % r)
  OBVIOUS

LEMMA SlotsDiffer ==
  ASSUME NEW a \in Nat, NEW b \in Nat, a < b, b < a + RING_SIZE
  PROVE  Slot(a) # Slot(b)
<1> DEFINE qa == a \div RING_SIZE
           qb == b \div RING_SIZE
<1>1. /\ qa \in Int /\ qb \in Int /\ qb - qa \in Int
      /\ a = RING_SIZE * qa + Slot(a) /\ b = RING_SIZE * qb + Slot(b)
  BY RingAssumption, Division DEF Slot
<1>2. RING_SIZE * (qb - qa) = RING_SIZE * qb - RING_SIZE * qa
  BY <1>1, RingAssumption
<1>3. /\ qb - qa >= 1 => RING_SIZE * (qb - qa) >= RING_SIZE
      /\ qb - qa <= 0 => RING_SIZE * (qb - qa) <= 0
  BY <1>1, RingAssumption, Multiples
<1>4. Slot(a) \in Int /\ Slot(b) \in Int
  BY RingAssumption, Division DEF Slot
<1> HIDE DEF qa, qb
<1> QED BY <1>1, <1>2, <1>3, <1>4, RingAssumption

LEMMA SlotInRing == \A n \in Nat : Slot(n) \in Slots
  BY RingAssumption DEF Slot, Slots
-----------------------------------------------------------------------------
(* The inductive invariant.  AckedKept speaks of the stored number, which   *)
(* falls back at a power loss; what is inductive is the same statement      *)
(* about the number the firmware counts with.                               *)

Running == ring_pc \in {"idle", "set_blob", "set_next", "commit"}
Position == IF Running THEN next_sequence ELSE ring_cache.next

\* The stored number is the firmware's own or, from set_next on, one ahead.
NumbersAgree ==
    IF Running
    THEN /\ next_sequence <= ring_flash.next /\ ring_flash.next <= ring_cache.next
         /\ ring_cache.next <= next_sequence + 1
    ELSE ring_flash = ring_cache

PendingIsStored ==
    /\ ring_pc \in {"set_blob", "set_next", "commit"}
         => record.sequence = next_sequence /\ next_sequence <= SEQUENCE_MAX
    /\ ring_pc \in {"set_next", "commit"}
         => ring_cache.slots[Slot(next_sequence)] = record
    /\ ring_pc = "commit" => ring_cache.next = next_sequence + 1

AckedBehind == \A j \in DOMAIN acked : acked[j].sequence < Position

KeptFrom(j) ==
    acked[j].sequence + RING_SIZE > Position
        => /\ ring_flash.slots[Slot(acked[j].sequence)] = acked[j]
           /\ ring_cache.slots[Slot(acked[j].sequence)] = acked[j]

JournalInv ==
    /\ JournalTypeOK /\ NumbersAgree /\ PendingIsStored /\ AckedBehind
    /\ \A j \in DOMAIN acked : KeptFrom(j)
    /\ AckedOrdered

LEMMA JournalInvInit == JournalInit => JournalInv
<1> SUFFICES ASSUME JournalInit PROVE JournalInv
  OBVIOUS
<1> USE DEF JournalInit
<1>1. BlankJournal \in JournalNvs
  BY BoundAssumption DEF BlankJournal, JournalNvs
<1>2. NoEvent \in EventRecord
  BY BoundAssumption, EventsAssumption DEF NoEvent, EventRecord
<1>3. acked \in Seq(EventRecord) /\ next_sequence \in 0 .. (SEQUENCE_MAX + 1)
  BY BoundAssumption
<1>4. JournalTypeOK
  BY <1>1, <1>2, <1>3 DEF JournalTypeOK
<1> QED BY <1>4 DEF JournalInv, NumbersAgree, PendingIsStored, AckedBehind, Running,
        AckedOrdered

\* What the type invariant says of the numbers.
LEMMA JournalNumbers ==
  ASSUME JournalTypeOK
  PROVE  /\ next_sequence \in Nat /\ ring_flash.next \in Nat /\ ring_cache.next \in Nat
         /\ Position \in Nat
         /\ record.sequence \in Nat
         /\ \A j \in DOMAIN acked :
              acked[j] \in EventRecord /\ acked[j].sequence \in Nat
         /\ \A j \in DOMAIN acked : Slot(acked[j].sequence) \in Slots
         /\ Slot(next_sequence) \in Slots
         /\ acked \in Seq(EventRecord)
         /\ DOMAIN acked = 1 .. Len(acked) /\ Len(acked) \in Nat
<1>1. /\ next_sequence \in Nat /\ ring_flash.next \in Nat /\ ring_cache.next \in Nat
      /\ record.sequence \in Nat
  BY BoundAssumption DEF JournalTypeOK, JournalNvs, EventRecord
<1>2. ASSUME NEW j \in DOMAIN acked
      PROVE  acked[j] \in EventRecord /\ acked[j].sequence \in Nat
  <2>1. acked[j] \in EventRecord
    BY DEF JournalTypeOK
  <2> QED BY <2>1, BoundAssumption DEF EventRecord
<1>3. acked \in Seq(EventRecord) /\ DOMAIN acked = 1 .. Len(acked) /\ Len(acked) \in Nat
  BY DEF JournalTypeOK
<1>4. ASSUME NEW j \in DOMAIN acked PROVE Slot(acked[j].sequence) \in Slots
  BY <1>2, SlotInRing
<1>5. Slot(next_sequence) \in Slots /\ Position \in Nat
  BY <1>1, SlotInRing DEF Position
<1> QED BY <1>1, <1>2, <1>3, <1>4, <1>5

-----------------------------------------------------------------------------
(* Each key after a step, for the three things a step can do to NVS. *)

LEMMA LossKeeps ==
  ASSUME JournalTypeOK, FlashAfterLoss
  PROVE  /\ ring_flash' \in JournalNvs
         /\ ring_flash'.next \in {ring_flash.next, ring_cache.next}
         /\ \A i \in Slots :
              ring_flash'.slots[i] \in {ring_flash.slots[i], ring_cache.slots[i]}
<1>1. PICK kept \in SUBSET Slots, n \in {ring_flash.next, ring_cache.next} :
        ring_flash' = Surviving(kept, n)
  BY DEF FlashAfterLoss
<1>2. \A i \in Slots : ring_flash.slots[i] \in EventRecord \cup {NoBlob}
                       /\ ring_cache.slots[i] \in EventRecord \cup {NoBlob}
  BY DEF JournalTypeOK, JournalNvs
<1>3. n \in 0 .. (SEQUENCE_MAX + 1)
  BY DEF JournalTypeOK, JournalNvs
<1> QED BY <1>1, <1>2, <1>3 DEF Surviving, JournalNvs

LEMMA SetBlobKeeps ==
  ASSUME JournalTypeOK, NEW i \in Slots, NEW r \in EventRecord, SetBlob(i, r)
  PROVE  /\ ring_cache' \in JournalNvs
         /\ ring_cache'.next = ring_cache.next /\ ring_cache'.slots[i] = r
         /\ \A k \in Slots : k # i => ring_cache'.slots[k] = ring_cache.slots[k]
         /\ ring_flash' = ring_flash
  BY DEF SetBlob, JournalTypeOK, JournalNvs

LEMMA SetNextKeeps ==
  ASSUME JournalTypeOK, NEW n \in 0 .. (SEQUENCE_MAX + 1), SetNext(n)
  PROVE  /\ ring_cache' \in JournalNvs /\ ring_cache'.next = n
         /\ ring_cache'.slots = ring_cache.slots /\ ring_flash' = ring_flash
  BY DEF SetNext, JournalTypeOK, JournalNvs

-----------------------------------------------------------------------------

LEMMA JournalTypeStep == JournalInv /\ [JournalNext]_journal_vars => JournalTypeOK'
<1> SUFFICES ASSUME JournalInv, [JournalNext]_journal_vars PROVE JournalTypeOK'
  OBVIOUS
<1> USE DEF JournalInv
<1>1. CASE UNCHANGED journal_vars
  BY <1>1 DEF journal_vars, journal_ram, JournalTypeOK
<1>2. CASE JournalBegins \/ JournalBeginFails
  <2>1. ring_cache.next \in 0 .. (SEQUENCE_MAX + 1)
    BY DEF JournalTypeOK, JournalNvs
  <2> QED BY <1>2, <2>1 DEF JournalBegins, JournalBeginFails, journal_ram, JournalTypeOK
<1>3. CASE InitializeErases
  <2>1. BlankJournal \in JournalNvs
    BY BoundAssumption DEF BlankJournal, JournalNvs
  <2>2. <<>> \in Seq(EventRecord)
    OBVIOUS
  <2> QED BY <1>3, <2>1, <2>2 DEF InitializeErases, journal_ram, JournalTypeOK
<1>4. ASSUME NEW e \in Events, AppendEvent(e) PROVE JournalTypeOK'
  <2>1. record' \in EventRecord
    BY <1>4, BoundAssumption DEF AppendEvent, JournalTypeOK, EventRecord
  <2> QED BY <1>4, <2>1 DEF AppendEvent, JournalTypeOK
<1>5. CASE AppendSetBlob
  <2>1. ring_cache' \in JournalNvs /\ ring_flash' = ring_flash
    BY <1>5, JournalNumbers, SetBlobKeeps DEF AppendSetBlob, JournalTypeOK
  <2> QED BY <1>5, <2>1 DEF AppendSetBlob, journal_ram, JournalTypeOK
<1>6. CASE AppendSetNext
  <2>1. next_sequence + 1 \in 0 .. (SEQUENCE_MAX + 1)
    BY <1>6, BoundAssumption, JournalNumbers DEF AppendSetNext, PendingIsStored
  <2>2. ring_cache' \in JournalNvs /\ ring_flash' = ring_flash
    BY <1>6, <2>1, SetNextKeeps DEF AppendSetNext
  <2> QED BY <1>6, <2>2 DEF AppendSetNext, journal_ram, JournalTypeOK
<1>7. CASE AppendCommit
  <2>1. next_sequence + 1 \in 0 .. (SEQUENCE_MAX + 1)
    BY <1>7, BoundAssumption, JournalNumbers DEF AppendCommit, PendingIsStored
  <2>2. acked' \in Seq(EventRecord)
    BY <1>7 DEF AppendCommit, JournalTypeOK
  <2> QED BY <1>7, <2>1, <2>2 DEF AppendCommit, CommitJournal, JournalTypeOK
<1>8. CASE AppendFails
  <2>1. ring_flash' \in JournalNvs /\ ring_cache' \in JournalNvs
    <3>1. CASE ring_pc = "set_blob" /\ SetBlob(Slot(next_sequence), record)
      BY <3>1, JournalNumbers, SetBlobKeeps DEF JournalTypeOK
    <3>2. CASE ring_pc = "set_next" /\ SetNext(next_sequence + 1)
      <4>1. next_sequence + 1 \in 0 .. (SEQUENCE_MAX + 1)
        BY <3>2, BoundAssumption, JournalNumbers DEF PendingIsStored
      <4> QED BY <3>2, <4>1, SetNextKeeps DEF JournalTypeOK
    <3>3. CASE ring_pc = "commit" /\ CommitJournalFails
      BY <3>3, LossKeeps DEF CommitJournalFails, JournalTypeOK
    <3>4. CASE UNCHANGED <<ring_flash, ring_cache>>
      BY <3>4 DEF JournalTypeOK
    <3> QED BY <1>8, <3>1, <3>2, <3>3, <3>4 DEF AppendFails, CallMayHaveWorked
  <2>2. ring_pc' = "idle" /\ UNCHANGED <<opened, next_sequence, record, acked>>
    BY <1>8 DEF AppendFails, journal_ram
  <2>3. JournalTypeOK
    OBVIOUS
  <2> QED BY ONLY <2>1, <2>2, <2>3 DEF JournalTypeOK
<1>9. CASE JournalCrash
  <2>1. NoEvent \in EventRecord
    BY BoundAssumption, EventsAssumption DEF NoEvent, EventRecord
  <2>2. ring_flash' \in JournalNvs /\ ring_cache' \in JournalNvs
    BY <1>9, LossKeeps DEF JournalCrash
  <2>3. next_sequence' \in 0 .. (SEQUENCE_MAX + 1)
    BY <1>9, BoundAssumption DEF JournalCrash
  <2>4. /\ ring_pc' = "off" /\ opened' = FALSE /\ record' = NoEvent
        /\ acked \in Seq(EventRecord) /\ acked' = acked
    BY <1>9 DEF JournalCrash, JournalTypeOK
  <2> QED BY ONLY <2>1, <2>2, <2>3, <2>4 DEF JournalTypeOK
<1> QED BY <1>1, <1>2, <1>3, <1>4, <1>5, <1>6, <1>7, <1>8, <1>9 DEF JournalNext

-----------------------------------------------------------------------------
(* The history: a step that reports nothing new keeps it if the position    *)
(* does not fall back and the slots of recent records only take values they *)
(* had before.                                                              *)

History == AckedBehind /\ (\A j \in DOMAIN acked : KeptFrom(j)) /\ AckedOrdered

LEMMA HistoryKept ==
  ASSUME JournalInv, JournalTypeOK', acked' = acked, Position' >= Position,
         \A j \in DOMAIN acked :
            acked[j].sequence + RING_SIZE > Position =>
              LET s == Slot(acked[j].sequence)
              IN  /\ ring_flash'.slots[s] \in {ring_flash.slots[s], ring_cache.slots[s]}
                  /\ ring_cache'.slots[s] \in {ring_flash.slots[s], ring_cache.slots[s]}
  PROVE  History'
<1>1. Position \in Nat /\ Position' \in Nat /\ RING_SIZE \in Nat
  BY JournalNumbers, RingAssumption DEF JournalInv, Position, JournalTypeOK, JournalNvs
<1>2. \A j \in DOMAIN acked : acked[j].sequence \in Nat /\ acked[j].sequence < Position
  BY JournalNumbers DEF JournalInv, AckedBehind
<1>3. AckedBehind'
  BY <1>1, <1>2 DEF AckedBehind
<1>4. ASSUME NEW j \in DOMAIN acked' PROVE KeptFrom(j)'
  <2>1. SUFFICES ASSUME acked[j].sequence + RING_SIZE > Position'
                 PROVE  /\ ring_flash'.slots[Slot(acked[j].sequence)] = acked[j]
                        /\ ring_cache'.slots[Slot(acked[j].sequence)] = acked[j]
    BY DEF KeptFrom
  <2>2. acked[j].sequence + RING_SIZE > Position
    BY <1>1, <1>2, <2>1
  <2>3. KeptFrom(j)
    BY DEF JournalInv
  <2> QED BY <2>2, <2>3 DEF KeptFrom
<1>5. AckedOrdered'
  BY DEF JournalInv, AckedOrdered
<1> QED BY <1>3, <1>4, <1>5 DEF History

\* A slot about to be written belongs to no recent record.
LEMMA WrittenSlotIsOld ==
  ASSUME JournalInv, Running, NEW j \in DOMAIN acked,
         acked[j].sequence + RING_SIZE > Position
  PROVE  Slot(acked[j].sequence) # Slot(next_sequence)
<1>1. /\ acked[j].sequence \in Nat /\ next_sequence \in Nat
      /\ acked[j].sequence < next_sequence
      /\ next_sequence < acked[j].sequence + RING_SIZE
  BY JournalNumbers, RingAssumption DEF JournalInv, AckedBehind, Position
<1> QED BY <1>1, SlotsDiffer

LEMMA WriteKeeps ==
  ASSUME JournalInv, JournalTypeOK', Running, Running',
         SetBlob(Slot(next_sequence), record),
         UNCHANGED <<next_sequence, acked>>
  PROVE  History'
<1>1. /\ ring_flash' = ring_flash
      /\ \A i \in Slots :
            i # Slot(next_sequence) => ring_cache'.slots[i] = ring_cache.slots[i]
  BY JournalNumbers, SetBlobKeeps DEF JournalInv, JournalTypeOK
<1>2. Position' = Position /\ Position \in Nat
  BY JournalNumbers DEF Position, JournalInv
<1>3. ASSUME NEW j \in DOMAIN acked, acked[j].sequence + RING_SIZE > Position
      PROVE  ring_cache'.slots[Slot(acked[j].sequence)]
                = ring_cache.slots[Slot(acked[j].sequence)]
  BY <1>1, <1>3, JournalNumbers, WrittenSlotIsOld DEF JournalInv
<1> QED BY <1>1, <1>2, <1>3, HistoryKept

LEMMA HistoryStep == JournalInv /\ [JournalNext]_journal_vars => History'
<1> SUFFICES ASSUME JournalInv, [JournalNext]_journal_vars PROVE History'
  OBVIOUS
<1>0. JournalTypeOK' /\ JournalTypeOK /\ Position \in Nat
  BY JournalTypeStep, JournalNumbers DEF JournalInv
<1>1. CASE UNCHANGED journal_vars
  <2>1. Position' = Position
    BY <1>1 DEF journal_vars, journal_ram, Position, Running
  <2> QED BY <1>0, <1>1, <2>1, HistoryKept DEF journal_vars, journal_ram
<1>2. CASE JournalBegins \/ JournalBeginFails
  <2>1. Position' = Position /\ UNCHANGED <<ring_flash, ring_cache, acked>>
    BY <1>2 DEF JournalBegins, JournalBeginFails, Position, Running
  <2> QED BY <1>0, <2>1, HistoryKept
<1>3. CASE InitializeErases
  BY <1>3 DEF InitializeErases, History, AckedBehind, AckedOrdered
<1>4. ASSUME NEW e \in Events, AppendEvent(e) PROVE History'
  <2>1. Position' = Position /\ UNCHANGED <<ring_flash, ring_cache, acked>>
    BY <1>4 DEF AppendEvent, Position, Running
  <2> QED BY <1>0, <2>1, HistoryKept
<1>5. CASE AppendSetBlob
  BY <1>0, <1>5, WriteKeeps DEF AppendSetBlob, journal_ram, Running
<1>6. CASE AppendSetNext
  <2>1. /\ Position' = Position /\ UNCHANGED <<ring_flash, acked>>
        /\ ring_cache'.slots = ring_cache.slots
    <3>1. next_sequence + 1 \in 0 .. (SEQUENCE_MAX + 1)
      BY <1>0, <1>6, BoundAssumption, JournalNumbers
      DEF AppendSetNext, PendingIsStored, JournalInv
    <3> QED BY <1>0, <1>6, <3>1, SetNextKeeps
            DEF AppendSetNext, journal_ram, Position, Running
  <2> QED BY <1>0, <2>1, HistoryKept
<1>7. CASE AppendCommit
  <2>1. /\ Position = next_sequence /\ Position' = next_sequence + 1
        /\ ring_flash' = ring_cache /\ ring_cache' = ring_cache
        /\ acked' = Append(acked, record) /\ record.sequence = next_sequence
        /\ ring_cache.slots[Slot(next_sequence)] = record
    BY <1>7
    DEF AppendCommit, CommitJournal, Position, Running, JournalInv, PendingIsStored
  <2>2. /\ DOMAIN acked = 1 .. Len(acked) /\ Len(acked) \in Nat
        /\ DOMAIN acked' = 1 .. (Len(acked) + 1)
        /\ \A j \in DOMAIN acked : acked'[j] = acked[j]
        /\ acked'[Len(acked) + 1] = record
    BY <1>0, <2>1, JournalNumbers
  <2>3. \A j \in DOMAIN acked :
            acked[j].sequence \in Nat /\ acked[j].sequence < next_sequence
    BY <1>0, <2>1, JournalNumbers DEF JournalInv, AckedBehind
  <2>4. next_sequence \in Nat /\ RING_SIZE \in Nat
    BY <1>0, JournalNumbers, RingAssumption
  <2>5. ASSUME NEW j \in DOMAIN acked'
        PROVE  acked'[j].sequence < Position' /\ KeptFrom(j)'
    <3>1. CASE j \in DOMAIN acked
      <4>1. acked'[j] = acked[j] /\ KeptFrom(j)
        BY <2>2, <3>1 DEF JournalInv
      <4> QED BY <2>1, <2>3, <2>4, <3>1, <4>1 DEF KeptFrom
    <3>2. CASE j = Len(acked) + 1
      BY <2>1, <2>2, <2>4, <3>2 DEF KeptFrom
    <3> QED BY <2>2, <3>1, <3>2
  <2>6. ASSUME NEW j \in DOMAIN acked', NEW k \in DOMAIN acked', j < k
        PROVE  acked'[j].sequence < acked'[k].sequence
    <3>1. j \in DOMAIN acked
      BY <2>2, <2>6
    <3>2. CASE k \in DOMAIN acked
      BY <2>2, <2>6, <3>1, <3>2 DEF JournalInv, AckedOrdered
    <3>3. CASE k = Len(acked) + 1
      BY <2>1, <2>2, <2>3, <3>1, <3>3
    <3> QED BY <2>2, <3>2, <3>3
  <2> QED BY <2>5, <2>6 DEF History, AckedBehind, AckedOrdered
<1>8. CASE AppendFails
  <2>0. Running /\ Running' /\ UNCHANGED <<next_sequence, acked>>
    BY <1>8 DEF AppendFails, journal_ram, Running
  <2>1. Position' = Position
    BY <2>0 DEF Position
  <2>2. CASE ring_pc = "set_blob" /\ SetBlob(Slot(next_sequence), record)
    BY <1>0, <2>0, <2>2, WriteKeeps
  <2>3. CASE ring_pc = "set_next" /\ SetNext(next_sequence + 1)
    <3>1. next_sequence + 1 \in 0 .. (SEQUENCE_MAX + 1)
      BY <1>0, <2>3, BoundAssumption, JournalNumbers DEF PendingIsStored, JournalInv
    <3>2. ring_flash' = ring_flash /\ ring_cache'.slots = ring_cache.slots
      BY <1>0, <2>3, <3>1, SetNextKeeps
    <3> QED BY <1>0, <2>0, <2>1, <3>2, HistoryKept
  <2>4. CASE ring_pc = "commit" /\ CommitJournalFails
    <3>1. /\ ring_cache' = ring_cache
          /\ \A i \in Slots :
                ring_flash'.slots[i] \in {ring_flash.slots[i], ring_cache.slots[i]}
      BY <1>0, <2>4, LossKeeps DEF CommitJournalFails
    <3> QED BY <1>0, <2>0, <2>1, <3>1, JournalNumbers, HistoryKept
  <2>5. CASE UNCHANGED <<ring_flash, ring_cache>>
    BY <1>0, <2>0, <2>1, <2>5, HistoryKept
  <2> QED BY <1>8, <2>2, <2>3, <2>4, <2>5 DEF AppendFails, CallMayHaveWorked
<1>9. CASE JournalCrash
  <2>1. /\ acked' = acked /\ ring_cache' = ring_flash'
        /\ \A i \in Slots :
              ring_flash'.slots[i] \in {ring_flash.slots[i], ring_cache.slots[i]}
        /\ ring_flash'.next \in {ring_flash.next, ring_cache.next}
    BY <1>0, <1>9, LossKeeps DEF JournalCrash
  <2>2. Position' >= Position
    BY <1>0, <1>9, <2>1, JournalNumbers
    DEF JournalCrash, Position, Running, JournalInv, NumbersAgree
  <2> QED BY <1>0, <2>1, <2>2, JournalNumbers, HistoryKept
<1> QED BY <1>1, <1>2, <1>3, <1>4, <1>5, <1>6, <1>7, <1>8, <1>9 DEF JournalNext

-----------------------------------------------------------------------------

LEMMA NumbersStep ==
  ASSUME JournalInv, [JournalNext]_journal_vars
  PROVE  NumbersAgree' /\ PendingIsStored'
<1>0. /\ JournalTypeOK /\ NumbersAgree /\ PendingIsStored
      /\ next_sequence \in Nat /\ ring_flash.next \in Nat /\ ring_cache.next \in Nat
      /\ Slot(next_sequence) \in Slots
  BY JournalNumbers DEF JournalInv
<1>1. CASE UNCHANGED journal_vars
  BY <1>0, <1>1 DEF journal_vars, journal_ram, NumbersAgree, PendingIsStored, Running
<1>2. CASE JournalBegins \/ JournalBeginFails
  BY <1>0, <1>2
  DEF JournalBegins, JournalBeginFails, journal_ram, NumbersAgree, PendingIsStored, Running
<1>3. CASE InitializeErases
  BY <1>3 DEF InitializeErases, journal_ram, NumbersAgree, PendingIsStored, Running
<1>4. ASSUME NEW e \in Events, AppendEvent(e) PROVE NumbersAgree' /\ PendingIsStored'
  BY <1>0, <1>4 DEF AppendEvent, NumbersAgree, PendingIsStored, Running
<1>5. CASE AppendSetBlob
  <2>1. /\ ring_flash' = ring_flash /\ ring_cache'.next = ring_cache.next
        /\ ring_cache'.slots[Slot(next_sequence)] = record
    BY <1>0, <1>5, SetBlobKeeps DEF AppendSetBlob, JournalTypeOK
  <2> QED BY <1>0, <1>5, <2>1
          DEF AppendSetBlob, journal_ram, NumbersAgree, PendingIsStored, Running
<1>6. CASE AppendSetNext
  <2>1. next_sequence + 1 \in 0 .. (SEQUENCE_MAX + 1)
    BY <1>0, <1>6, BoundAssumption DEF AppendSetNext, PendingIsStored
  <2>2. /\ ring_flash' = ring_flash /\ ring_cache'.next = next_sequence + 1
        /\ ring_cache'.slots = ring_cache.slots
    BY <1>0, <1>6, <2>1, SetNextKeeps DEF AppendSetNext
  <2> QED BY <1>0, <1>6, <2>2
          DEF AppendSetNext, journal_ram, NumbersAgree, PendingIsStored, Running
<1>7. CASE AppendCommit
  BY <1>0, <1>7 DEF AppendCommit, CommitJournal, NumbersAgree, PendingIsStored, Running
<1>8. CASE AppendFails
  <2>0. /\ ring_pc' = "idle" /\ next_sequence' = next_sequence
        /\ ring_pc \in {"set_blob", "set_next", "commit"}
    BY <1>8 DEF AppendFails, journal_ram
  <2>1. /\ ring_flash'.next \in {ring_flash.next, ring_cache.next}
        /\ ring_cache'.next \in {ring_cache.next, next_sequence + 1}
        /\ ring_cache'.next >= ring_flash'.next
    <3>1. CASE ring_pc = "set_blob" /\ SetBlob(Slot(next_sequence), record)
      BY <1>0, <3>1, SetBlobKeeps DEF JournalTypeOK, NumbersAgree, Running
    <3>2. CASE ring_pc = "set_next" /\ SetNext(next_sequence + 1)
      <4>1. next_sequence + 1 \in 0 .. (SEQUENCE_MAX + 1)
        BY <1>0, <3>2, BoundAssumption DEF PendingIsStored
      <4> QED BY <1>0, <3>2, <4>1, SetNextKeeps DEF NumbersAgree, Running
    <3>3. CASE ring_pc = "commit" /\ CommitJournalFails
      BY <1>0, <3>3, LossKeeps DEF CommitJournalFails, NumbersAgree, Running
    <3>4. CASE UNCHANGED <<ring_flash, ring_cache>>
      BY <1>0, <2>0, <3>4 DEF NumbersAgree, Running
    <3> QED BY <1>8, <3>1, <3>2, <3>3, <3>4 DEF AppendFails, CallMayHaveWorked
  <2> QED BY <1>0, <2>0, <2>1 DEF NumbersAgree, PendingIsStored, Running
<1>9. CASE JournalCrash
  BY <1>9 DEF JournalCrash, NumbersAgree, PendingIsStored, Running
<1> QED BY <1>1, <1>2, <1>3, <1>4, <1>5, <1>6, <1>7, <1>8, <1>9 DEF JournalNext

LEMMA JournalInvStep == JournalInv /\ [JournalNext]_journal_vars => JournalInv'
  BY JournalTypeStep, NumbersStep, HistoryStep DEF JournalInv, History

-----------------------------------------------------------------------------
(* The partition *)

\* One image runs at a time, and the other one's storage is at rest.
ImageInv ==
    /\ image = "edge" => pc = "off"
    /\ image = "maintenance" => ring_pc = "off"

\* The last record served is the one in service, if one is, and nothing older
\* can follow it, also after a slot has been lost.
NewestInv ==
    /\ newest # Absent => newest \in Record /\ Outlived(newest)
    /\ store_ready /\ has_active => newest = active_record

PartitionInv ==
    /\ StoreTypeOK /\ StoreInv /\ JournalInv
    /\ ImageInv /\ NewestInv
    /\ ~damaged => AlwaysOpenable

LEMMA PartitionInvInit == PartitionInit => PartitionInv
<1> SUFFICES ASSUME PartitionInit PROVE PartitionInv
  OBVIOUS
<1>1. StoreInit /\ JournalInit /\ newest = Absent /\ pc = "off" /\ ring_pc = "off"
      /\ store_ready = FALSE
  BY DEF PartitionInit, MonitorInit, StoreInit, JournalInit
<1> QED
  BY <1>1, StoreTypeInit, StoreInvInit, JournalInvInit, OpenableInit
  DEF PartitionInv, ImageInv, NewestInv

\* The maintenance image's step, by the store's own calls or from outside.
LEMMA MaintenanceInvStep ==
  ASSUME PartitionInv, MaintenanceRuns
  PROVE  PartitionInv'
<1> USE DEF PartitionInv
<1>0. /\ image = "maintenance" /\ UNCHANGED <<image, journal_vars>>
      /\ Remember
  BY DEF MaintenanceRuns, MonitorNext
<1>1. JournalInv'
  BY <1>0, JournalInvStep
<1>2. ImageInv'
  BY <1>0 DEF ImageInv, journal_vars
<1>3. CASE OwnStep /\ UNCHANGED damaged
  <2>1. StoreTypeOK' /\ StoreInv'
    BY <1>3, StoreTypeStep, StoreInvStep
  <2>2. ~damaged' => AlwaysOpenable'
    BY <1>3, OpenableStep
  <2>3. NewestInv'
    <3>1. CASE store_ready' /\ has_active'
      <4>1. newest' = active_record' /\ active_record' \in Record
        BY <1>0, <2>1, <3>1 DEF Remember, StoreTypeOK
      <4>2. Outlived(active_record)'
        BY <2>1, <3>1, ServedOutlives, PTL
      <4> QED BY <4>1, <4>2 DEF NewestInv, Outlived, Floors, Unrivalled
    <3>2. CASE ~(store_ready' /\ has_active')
      <4>1. newest' = newest
        BY <1>0, <3>2 DEF Remember
      <4>2. newest # Absent => newest \in Record /\ Outlived(newest)
        BY DEF NewestInv
      <4>3. ASSUME NEW r \in Record, Outlived(r) PROVE Outlived(r)'
        BY <1>3, <4>3, OutlivedStep
      <4> QED BY <3>2, <4>1, <4>2, <4>3 DEF NewestInv, Outlived, Floors, Unrivalled
    <3> QED BY <3>1, <3>2
  <2> QED BY <1>1, <1>2, <2>1, <2>2, <2>3
<1>4. CASE (\E i \in SlotIndex : LoseSlot(i)) /\ damaged' = TRUE
  <2>1. PICK i \in SlotIndex : LoseSlot(i)
    BY <1>4
  <2>2. StoreTypeOK' /\ StoreInv'
    BY <2>1, LoseSlotType, LoseSlotInv
  <2>3. UNCHANGED <<newest, store_ready, has_active, active_record>> /\ ~store_ready
    BY <1>0, <2>1 DEF LoseSlot, Remember, ram_vars, StoreInv
  <2>4. ASSUME NEW r, Outlived(r) PROVE Outlived(r)'
    BY <2>1, <2>4, OutlivedLoseSlot
  <2>5. NewestInv'
    BY <2>3, <2>4 DEF NewestInv, Outlived, Floors, Unrivalled
  <2> QED BY <1>1, <1>2, <1>4, <2>2, <2>5
<1> QED BY <1>3, <1>4 DEF MaintenanceRuns, MonitorNext, OwnStep

\* The edge image leaves the store alone unless it erases the partition; then
\* nothing that was served is left to outlive.
LEMMA EdgeInvStep ==
  ASSUME PartitionInv, EdgeRuns \/ EdgeErases \/ Flash
  PROVE  PartitionInv'
<1> USE DEF PartitionInv
<1>s. ASSUME UNCHANGED calibration_vars
      PROVE  /\ StoreTypeOK' /\ StoreInv' /\ NewestInv'
             /\ ~damaged' => AlwaysOpenable'
  <2>1. UNCHANGED <<flash, cache, pc, installed_floor, active_slot, has_active>>
        /\ UNCHANGED <<active_record, ready, store_ready, candidate, newest, damaged>>
    BY <1>s DEF calibration_vars, store_vars, nvs_vars, ram_vars
  <2>2. StoreTypeOK'
    BY <2>1 DEF StoreTypeOK
  <2>3. StoreInv'
    BY <2>1 DEF StoreInv, Staging, Repairing, StageInv, RepairInv, Settled, Holds,
       StagedIn, InactiveSlot, NoneNewer
  <2>4. NewestInv'
    BY <2>1 DEF NewestInv, Outlived, Floors, Unrivalled
  <2>5. ~damaged' => AlwaysOpenable'
    BY <2>1 DEF AlwaysOpenable
  <2> QED BY <2>2, <2>3, <2>4, <2>5
<1>1. CASE EdgeRuns
  <2>1. JournalNext /\ UNCHANGED <<image, calibration_vars>>
    BY <1>1 DEF EdgeRuns, JournalNext
  <2>2. ImageInv'
    BY <1>1, <2>1 DEF EdgeRuns, ImageInv, calibration_vars, store_vars
  <2> QED BY <1>s, <2>1, <2>2, JournalInvStep
<1>2. CASE EdgeErases
  <2>1. /\ image = "edge" /\ pc = "off" /\ InitializeErases
        /\ flash' = BlankNvs /\ cache' = BlankNvs /\ newest' = Absent
        /\ UNCHANGED <<image, pc, ram_vars, candidate, damaged>>
    BY <1>2 DEF EdgeErases, ImageInv
  <2>2. JournalInv'
    BY <2>1, JournalInvStep DEF JournalNext
  <2>3. StoreTypeOK'
    BY <2>1, BlankType DEF StoreTypeOK, ram_vars
  <2>4. StoreInv'
    BY <2>1 DEF StoreInv, Staging, Repairing, ram_vars
  <2>5. NewestInv'
    BY <2>1 DEF NewestInv, StoreInv, ram_vars
  <2>6. AlwaysOpenable'
    BY <2>1, SlotMarksAssumption DEF BlankNvs, AlwaysOpenable, Openable, SlotIndex
  <2>7. ImageInv'
    BY <2>1 DEF ImageInv
  <2> QED BY <2>2, <2>3, <2>4, <2>5, <2>6, <2>7
<1>3. CASE Flash
  <2>1. /\ pc = "off" /\ ring_pc = "off"
        /\ UNCHANGED <<calibration_vars, journal_vars>>
    BY <1>3 DEF Flash, Off
  <2>2. JournalInv'
    BY <2>1, JournalInvStep
  <2>3. ImageInv'
    BY <2>1 DEF ImageInv, calibration_vars, store_vars, journal_vars
  <2> QED BY <1>s, <2>1, <2>2, <2>3
<1> QED BY <1>1, <1>2, <1>3

LEMMA PartitionStutter ==
  ASSUME PartitionInv, UNCHANGED partition_vars
  PROVE  PartitionInv'
<1> USE DEF PartitionInv
<1>1. /\ UNCHANGED <<flash, cache, pc, installed_floor, active_slot, has_active>>
      /\ UNCHANGED <<active_record, ready, store_ready, candidate, newest, damaged>>
      /\ UNCHANGED <<image, journal_vars>>
  BY DEF partition_vars, calibration_vars, store_vars, nvs_vars, ram_vars
<1>2. JournalInv'
  BY <1>1, JournalInvStep
<1>3. StoreTypeOK'
  BY <1>1 DEF StoreTypeOK
<1>4. StoreInv'
  BY <1>1 DEF StoreInv, Staging, Repairing, StageInv, RepairInv, Settled, Holds,
     StagedIn, InactiveSlot, NoneNewer
<1>5. NewestInv' /\ ImageInv'
  BY <1>1 DEF NewestInv, Outlived, Floors, Unrivalled, ImageInv, journal_vars
<1>6. ~damaged' => AlwaysOpenable'
  BY <1>1 DEF AlwaysOpenable
<1> QED BY <1>2, <1>3, <1>4, <1>5, <1>6

LEMMA PartitionInvStep == PartitionInv /\ [PartitionNext]_partition_vars => PartitionInv'
BY MaintenanceInvStep, EdgeInvStep, PartitionStutter DEF PartitionNext

\* The inductive invariant holds of every reachable state of the partition.
THEOREM PartitionInvariant == PartitionSpec => []PartitionInv
BY PartitionInvInit, PartitionInvStep, PTL DEF PartitionSpec

\* Keys, registers and history stay in their types through every failure.
THEOREM PartitionTypeCorrect == PartitionSpec => [](StoreTypeOK /\ JournalTypeOK)
<1>1. PartitionInv => StoreTypeOK /\ JournalTypeOK
  BY DEF PartitionInv, JournalInv
<1> QED BY <1>1, PartitionInvariant, PTL

\* Whatever NVS call of begin, repair or staging fails, and wherever power is
\* lost, the next boot finds a store it can open.
THEOREM UsableStoreHolds == PartitionSpec => []PowerLossLeavesUsableStore
<1>1. PartitionInv => PowerLossLeavesUsableStore
  BY UsableAfterLoss DEF PartitionInv, PowerLossLeavesUsableStore
<1> QED BY <1>1, PartitionInvariant, PTL

\* A record that was ever served is selected by the next boot, or a newer one
\* is, wherever power is lost.
THEOREM ServedSurvivesHolds == PartitionSpec => []ServedSurvivesPowerLoss
<1>1. PartitionInv => ServedSurvivesPowerLoss
  <2> SUFFICES ASSUME PartitionInv, ~damaged, newest # Absent,
                      NEW n \in PowerLoss(flash, cache)
               PROVE  /\ Select(n) = "Selected"
                      /\ \/ n.slots[Chosen(n)] = newest
                         \/ n.slots[Chosen(n)].sequence > newest.sequence
    BY DEF ServedSurvivesPowerLoss
  <2>1. newest \in Record /\ Outlived(newest) /\ StoreTypeOK /\ AlwaysOpenable
    BY DEF PartitionInv, NewestInv
  <2> QED BY <2>1, SurvivesLoss
<1> QED BY <1>1, PartitionInvariant, PTL

\* A record in service is the one the partition's metadata and floor name.
THEOREM ServedIsInstalledHolds == PartitionSpec => []ServedIsInstalled
<1>1. PartitionInv => ServedIsInstalled
  BY ServedHolds DEF PartitionInv, ServedIsInstalled, Holds
<1> QED BY <1>1, PartitionInvariant, PTL

\* Reported records of the last RING_SIZE - 1 numbers are in their slots, in
\* what the firmware reads and in what a power loss leaves.
THEOREM AckedKeptHolds == PartitionSpec => []AckedKept
<1>1. JournalInv => AckedKept
  <2> SUFFICES ASSUME JournalInv, NEW j \in DOMAIN acked,
                      acked[j].sequence + RING_SIZE > ring_cache.next
               PROVE  /\ ring_flash.slots[Slot(acked[j].sequence)] = acked[j]
                      /\ ring_cache.slots[Slot(acked[j].sequence)] = acked[j]
    BY DEF AckedKept
  <2>1. acked[j].sequence + RING_SIZE > Position
    BY JournalNumbers, RingAssumption DEF JournalInv, NumbersAgree, Position
  <2> QED BY <2>1 DEF JournalInv, KeptFrom
<1>2. PartitionInv => JournalInv
  BY DEF PartitionInv
<1> QED BY <1>1, <1>2, PartitionInvariant, PTL

\* No number is reported twice and later reports have higher numbers.
THEOREM AckedOrderedHolds == PartitionSpec => []AckedOrdered
<1>1. PartitionInv => AckedOrdered
  BY DEF PartitionInv, JournalInv
<1> QED BY <1>1, PartitionInvariant, PTL

-----------------------------------------------------------------------------
(* The partition implements MonotonicRecord *)

LEMMA StoreStepsPromise ==
  ASSUME PartitionInv, PartitionInv', MaintenanceRuns
  PROVE  [Promise!Next]_Promise!vars
<1>0. UNCHANGED erasures /\ Remember /\ (newest # Absent => newest \in Record)
  BY DEF MaintenanceRuns, MonitorNext, PartitionInv, NewestInv
<1>1. CASE ~(store_ready' /\ has_active')
  <2>1. newest' = newest /\ Serving' = Absent
    BY <1>1 DEF Remember, Serving, MaintenanceRuns, MonitorNext
  <2> QED BY <1>0, <2>1 DEF Promise!Next, Promise!Hide
<1>2. CASE store_ready' /\ has_active'
  <2>1. /\ newest' = active_record' /\ Serving' = active_record'
        /\ active_record' \in Record
    BY <1>0, <1>2 DEF Remember, Serving, PartitionInv, StoreTypeOK
  <2>2. newest # Absent
          => active_record' = newest \/ active_record'.sequence > newest.sequence
    <3>1. OwnStep
      BY <1>2 DEF MaintenanceRuns, MonitorNext, OwnStep, LoseSlot, ram_vars,
         PartitionInv, StoreInv
    <3>2. ASSUME NEW r \in Record, Outlived(r)
          PROVE  active_record' = r \/ active_record'.sequence > r.sequence
      <4>1. Outlived(r)'
        BY <3>1, <3>2, OutlivedStep DEF PartitionInv
      <4>2. StoreTypeOK' /\ StoreInv'
        BY DEF PartitionInv
      <4>3. ServesNothingOlder'
        BY <1>2, <4>2, ServedFollows, PTL
      <4> QED BY <4>1, <4>3 DEF ServesNothingOlder
    <3> QED BY <3>2 DEF PartitionInv, NewestInv
  <2>3. CASE Serving = Absent
    BY <1>0, <2>1, <2>2, <2>3 DEF Promise!Next, Promise!Show
  <2>4. CASE Serving # Absent
    <3>1. Serving = newest /\ newest # Absent
      BY <2>4, SlotMarksAssumption DEF Serving, PartitionInv, NewestInv
    <3> QED BY <1>0, <2>1, <2>2, <3>1 DEF Promise!Next, Promise!Advance, Promise!vars
  <2> QED BY <2>3, <2>4
<1> QED BY <1>1, <1>2

\* Every step of the partition is a step of the promise or changes none of it.
LEMMA StepsPromise ==
  ASSUME PartitionInv, PartitionInv', [PartitionNext]_partition_vars
  PROVE  [Promise!Next]_Promise!vars
<1>1. CASE MaintenanceRuns
  BY <1>1, StoreStepsPromise
<1>2. CASE EdgeRuns \/ Flash \/ UNCHANGED partition_vars
  <2>1. UNCHANGED <<erasures, newest, store_ready, has_active, active_record>>
    BY <1>2 DEF EdgeRuns, Flash, partition_vars, calibration_vars, store_vars, ram_vars
  <2> QED BY <2>1 DEF Serving, Promise!vars
<1>3. CASE EdgeErases
  <2>1. /\ ~store_ready /\ UNCHANGED <<store_ready, has_active, active_record>>
        /\ newest' = Absent /\ erasures' = erasures + 1
    BY <1>3 DEF EdgeErases, ram_vars, PartitionInv, ImageInv, StoreInv
  <2> QED BY <2>1 DEF Serving, Promise!Next, Promise!Erase
<1> QED BY <1>1, <1>2, <1>3 DEF PartitionNext

\* What is served only moves forward, through every failure, power loss and
\* lost slot; an erasure by the other image alone ends the promise.
THEOREM MonotonicHolds == PartitionSpec => MonotonicSpec
<1>1. PartitionInit => Promise!Init
  BY DEF PartitionInit, MonitorInit, StoreInit, Serving, Promise!Init
<1> QED BY <1>1, StepsPromise, PartitionInvariant, PTL
        DEF PartitionSpec, MonotonicSpec, Promise!Spec
=============================================================================
