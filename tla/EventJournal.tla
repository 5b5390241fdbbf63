---------------------------- MODULE EventJournal ----------------------------
(***************************************************************************)
(* The persistent event ring of the ESP32 edge application (NvsEventStore)  *)
(* with power loss between any two NVS calls and any call able to fail.     *)
(*                                                                         *)
(* NVS is external and as in CalibrationStore: `ring_cache' is what the     *)
(* running firmware reads back, `ring_flash' what is certainly persistent,  *)
(* and a key set but not committed may or may not survive a power loss.     *)
(* ring_pc is the call about to be made.                                    *)
(*                                                                         *)
(* acked is history: the records append returned true for, oldest first.   *)
(***************************************************************************)
EXTENDS Integers, Sequences

CONSTANTS
    RING_SIZE,      \* CONFIG_FORGESENSE_EVENT_RING_SIZE
    Events,         \* what a record says, its sequence number aside
    SEQUENCE_MAX,   \* bound: records numbered in one history, below 2^32
    NoBlob          \* slot content: key not found

Slots == 0 .. (RING_SIZE - 1)
EventRecord == [sequence : 0 .. SEQUENCE_MAX, event : Events]
NoEvent == [sequence |-> 0, event |-> CHOOSE e \in Events : TRUE]

ASSUME RingAssumption == RING_SIZE \in Nat \ {0}
ASSUME EventsAssumption == Events # {}
ASSUME BoundAssumption == SEQUENCE_MAX \in Nat
ASSUME NoBlobAssumption == NoBlob \notin EventRecord

VARIABLES
    ring_flash, ring_cache,   \* NVS: slots e000.., next
    ring_pc,
    opened, next_sequence,    \* NvsEventStore
    record,                   \* argument of append
    acked

journal_ram == <<opened, next_sequence, record>>
journal_vars == <<ring_flash, ring_cache, ring_pc, journal_ram, acked>>

\* A missing `next' key reads as 0.
JournalNvs ==
    [slots : [Slots -> EventRecord \cup {NoBlob}], next : 0 .. (SEQUENCE_MAX + 1)]
BlankJournal == [slots |-> [i \in Slots |-> NoBlob], next |-> 0]

-----------------------------------------------------------------------------
(* NVS *)

\* What a power loss leaves: each key as committed or as last set.
Surviving(kept, next) ==
    [slots |-> [i \in Slots |->
                   IF i \in kept THEN ring_flash.slots[i] ELSE ring_cache.slots[i]],
     next |-> next]
FlashAfterLoss ==
    \E kept \in SUBSET Slots, next \in {ring_flash.next, ring_cache.next} :
        ring_flash' = Surviving(kept, next)

SetBlob(i, r) ==
    ring_cache' = [ring_cache EXCEPT !.slots[i] = r] /\ UNCHANGED ring_flash
SetNext(n) == ring_cache' = [ring_cache EXCEPT !.next = n] /\ UNCHANGED ring_flash
CommitJournal == ring_flash' = ring_cache /\ UNCHANGED ring_cache
CommitJournalFails == FlashAfterLoss /\ UNCHANGED ring_cache

-----------------------------------------------------------------------------

JournalInit ==
    /\ ring_flash = BlankJournal /\ ring_cache = BlankJournal /\ ring_pc = "off"
    /\ opened = FALSE /\ next_sequence = 0 /\ record = NoEvent
    /\ acked = <<>>

(* begin *)

JournalBegins ==
    /\ ring_pc = "off" /\ ring_pc' = "idle"
    /\ opened' = TRUE /\ next_sequence' = ring_cache.next
    /\ UNCHANGED <<ring_flash, ring_cache, record, acked>>

\* nvs_open or nvs_get_u32 fails; app_main returns and nothing is appended.
JournalBeginFails ==
    /\ ring_pc = "off" /\ ring_pc' = "stopped"
    /\ UNCHANGED <<ring_flash, ring_cache, journal_ram, acked>>

\* initialize_nvs erases a partition whose format it does not know or that has
\* no free page, and the journal begins anew.
InitializeErases ==
    /\ ring_pc = "off"
    /\ ring_flash' = BlankJournal /\ ring_cache' = BlankJournal /\ acked' = <<>>
    /\ UNCHANGED <<ring_pc, journal_ram>>

(* append *)

Slot(sequence) == sequence % RING_SIZE

AppendEvent(e) ==
    /\ ring_pc = "idle" /\ opened /\ next_sequence <= SEQUENCE_MAX
    /\ record' = [sequence |-> next_sequence, event |-> e]
    /\ ring_pc' = "set_blob"
    /\ UNCHANGED <<ring_flash, ring_cache, opened, next_sequence, acked>>

AppendSetBlob ==
    /\ ring_pc = "set_blob" /\ ring_pc' = "set_next"
    /\ SetBlob(Slot(next_sequence), record)
    /\ UNCHANGED <<journal_ram, acked>>

AppendSetNext ==
    /\ ring_pc = "set_next" /\ ring_pc' = "commit"
    /\ SetNext(next_sequence + 1)
    /\ UNCHANGED <<journal_ram, acked>>

AppendCommit ==
    /\ ring_pc = "commit" /\ ring_pc' = "idle"
    /\ CommitJournal
    /\ next_sequence' = next_sequence + 1
    /\ acked' = Append(acked, record)
    /\ UNCHANGED <<opened, record>>

CallMayHaveWorked ==
    \/ ring_pc = "set_blob" /\ SetBlob(Slot(next_sequence), record)
    \/ ring_pc = "set_next" /\ SetNext(next_sequence + 1)
    \/ ring_pc = "commit" /\ CommitJournalFails
    \/ ring_pc \in {"set_blob", "set_next"} /\ UNCHANGED <<ring_flash, ring_cache>>

\* Faulty variant: the number is given up with the record that failed.
FailureSkipsNumber ==
    /\ ring_pc \in {"set_blob", "set_next", "commit"} /\ ring_pc' = "idle"
    /\ CallMayHaveWorked
    /\ next_sequence' = next_sequence + 1
    /\ UNCHANGED <<opened, record, acked>>

\* append returns false, which app_main ignores; next_sequence_ stays.
AppendFails ==
    /\ ring_pc \in {"set_blob", "set_next", "commit"} /\ ring_pc' = "idle"
    /\ CallMayHaveWorked
    /\ UNCHANGED <<journal_ram, acked>>

JournalCrash ==
    /\ ring_pc # "off" /\ ring_pc' = "off"
    /\ FlashAfterLoss /\ ring_cache' = ring_flash'
    /\ opened' = FALSE /\ next_sequence' = 0 /\ record' = NoEvent
    /\ UNCHANGED acked

-----------------------------------------------------------------------------

JournalNext ==
    \/ JournalBegins \/ JournalBeginFails \/ InitializeErases
    \/ \E e \in Events : AppendEvent(e)
    \/ AppendSetBlob \/ AppendSetNext \/ AppendCommit \/ AppendFails
    \/ JournalCrash

-----------------------------------------------------------------------------

\* Keys, registers and history hold values of their kinds.
JournalTypeOK ==
    /\ ring_flash \in JournalNvs /\ ring_cache \in JournalNvs
    /\ ring_pc \in {"off", "stopped", "idle", "set_blob", "set_next", "commit"}
    /\ opened \in BOOLEAN /\ next_sequence \in 0 .. (SEQUENCE_MAX + 1)
    /\ record \in EventRecord
    /\ acked \in Seq(EventRecord)

\* A record append reported as stored is the one found in its slot, now and
\* after a power loss at this instant, until the ring has come round to it:
\* neither failing calls nor interrupted appends cost a record of the last
\* RING_SIZE - 1 numbers.
AckedKept ==
    \A j \in DOMAIN acked :
        acked[j].sequence + RING_SIZE > ring_cache.next
            => /\ ring_flash.slots[Slot(acked[j].sequence)] = acked[j]
               /\ ring_cache.slots[Slot(acked[j].sequence)] = acked[j]

\* The numbers of reported records increase across failures and reboots, so a
\* reader of the ring can put them in order, and no number is given out twice.
AckedOrdered ==
    \A j, k \in DOMAIN acked : j < k => acked[j].sequence < acked[k].sequence
=============================================================================
