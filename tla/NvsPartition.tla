---------------------------- MODULE NvsPartition -----------------------------
(***************************************************************************)
(* The NVS partition of one ESP32: the calibration store is written by the *)
(* maintenance image, the event journal by the edge image, and flashing    *)
(* exchanges the images while the device is off.  Each image opens its own *)
(* namespace, but an edge image that finds a partition without free pages, *)
(* or of an unknown version, erases all of it at boot.                     *)
(***************************************************************************)
EXTENDS CalibrationMonitor, EventJournal

CONSTANT MAX_ERASURES   \* bound

VARIABLES
    image,     \* the image flashed
    erasures   \* of the whole partition

partition_vars == <<image, erasures, calibration_vars, journal_vars>>

PartitionInit ==
    /\ image \in {"maintenance", "edge"} /\ erasures = 0
    /\ MonitorInit /\ JournalInit

Off == pc = "off" /\ ring_pc = "off"

Flash ==
    /\ Off /\ image' \in {"maintenance", "edge"} \ {image}
    /\ UNCHANGED <<erasures, calibration_vars, journal_vars>>

MaintenanceRuns ==
    /\ image = "maintenance" /\ MonitorNext
    /\ UNCHANGED <<image, erasures, journal_vars>>

EdgeRuns ==
    /\ image = "edge"
    /\ \/ JournalBegins \/ JournalBeginFails
       \/ \E e \in Events : AppendEvent(e)
       \/ AppendSetBlob \/ AppendSetNext \/ AppendCommit \/ AppendFails
       \/ JournalCrash
    /\ UNCHANGED <<image, erasures, calibration_vars>>

\* Faulty variant: the event namespace alone is erased and counted.
ErasesEventsOnly ==
    /\ image = "edge" /\ erasures < MAX_ERASURES /\ InitializeErases
    /\ erasures' = erasures + 1
    /\ UNCHANGED <<image, calibration_vars>>

\* initialize_nvs: nvs_flash_erase knows no namespaces.
EdgeErases ==
    /\ image = "edge" /\ erasures < MAX_ERASURES /\ InitializeErases
    /\ erasures' = erasures + 1
    /\ flash' = BlankNvs /\ cache' = BlankNvs
    /\ newest' = Absent
    /\ UNCHANGED <<image, pc, ram_vars, candidate, damaged>>

PartitionNext == Flash \/ MaintenanceRuns \/ EdgeRuns \/ EdgeErases

PartitionSpec == PartitionInit /\ [][PartitionNext]_partition_vars

-----------------------------------------------------------------------------

\* The served record never goes back, even when slots are lost while off; only
\* an erasure of the partition, by the other image, makes it forget its floor.
Promise == INSTANCE MonotonicRecord WITH
    Records <- Record, None <- Absent, serving <- Serving
MonotonicSpec == Promise!Spec
=============================================================================
