------------------------- MODULE CalibrationMonitor -------------------------
(***************************************************************************)
(* CalibrationStore with the history its promises are about: the newest    *)
(* record ever served and whether a slot was damaged from outside.         *)
(***************************************************************************)
EXTENDS CalibrationStore

VARIABLES
    newest,    \* the last record served, Absent if none
    damaged    \* some slot was erased or damaged while the device was off

calibration_vars == <<store_vars, newest, damaged>>

Serving == IF store_ready /\ has_active THEN active_record ELSE Absent

MonitorInit == StoreInit /\ newest = Absent /\ damaged = FALSE

Remember ==
    newest' = IF store_ready' /\ has_active' THEN active_record' ELSE newest

MonitorNext ==
    \/ /\ Begin \/ StoreStep \/ Crash \/ \E r \in Record : Stage(r)
       /\ Remember /\ UNCHANGED damaged
    \/ /\ \E i \in SlotIndex : LoseSlot(i)
       /\ Remember /\ damaged' = TRUE

-----------------------------------------------------------------------------

\* Whatever NVS call of begin, repair or staging fails, in whatever sequence of
\* failures and retries, and wherever power is lost, the next boot finds a
\* store it can open: never a rollback, an ambiguity or a corruption of its
\* own making.
PowerLossLeavesUsableStore ==
    ~damaged => \A n \in PowerLoss(flash, cache) : Select(n) \in {"Empty", "Selected"}

\* A record that was ever served outlives every power loss, during the staging
\* of its successor too: the next boot selects it or a newer one.
ServedSurvivesPowerLoss ==
    ~damaged /\ newest # Absent =>
        \A n \in PowerLoss(flash, cache) :
            /\ Select(n) = "Selected"
            /\ LET r == n.slots[Chosen(n)]
               IN  r = newest \/ r.sequence > newest.sequence

\* A record in service is the one its metadata names, and the persistent floor
\* already excludes anything older, so that losing a slot later cannot bring
\* an older record back.
ServedIsInstalled ==
    store_ready /\ pc = "idle" /\ has_active =>
        /\ flash = cache
        /\ flash.active = active_slot
        /\ flash.slots[active_slot] = active_record
        /\ flash.floor = installed_floor
        /\ installed_floor = active_record.sequence
=============================================================================
