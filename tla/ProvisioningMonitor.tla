------------------------ MODULE ProvisioningMonitor ------------------------
(***************************************************************************)
(* Device, host and ledger together, with the history their promises are   *)
(* about, and those promises.                                              *)
(***************************************************************************)
EXTENDS ProvisioningHost, FiniteSets

VARIABLES
    installs,      \* every record the device has put in service: record, boot
    gate_lost,     \* a physical gate was open since the pending PREPARE
    late_answers   \* a run opened the port with questions of an earlier run,
                   \* or answers to them, still under way

history_vars == <<installs, gate_lost, late_answers>>
monitor_vars == <<provisioning_vars, history_vars>>

MonitorInit ==
    /\ ProvisioningInit
    /\ installs = <<>> /\ gate_lost = FALSE /\ late_answers = FALSE

Observe ==
    /\ installs' =
           IF \/ Serving' = Absent
              \/ installs # <<>> /\ Serving' = installs[Len(installs)].record
           THEN installs
           ELSE Append(installs, [record |-> Serving', boot |-> boot_nonce'])
    /\ gate_lost' = (pending'.valid /\ (gate_lost \/ ~gates')
                        /\ pending'.nonce = pending.nonce)
    /\ late_answers' =
           (late_answers \/ (/\ phase = "closed" /\ phase' # "closed"
                             /\ requests # <<>> \/ responses' # <<>>))

MonitorNext == ProvisioningNext /\ Observe

MonitorSpec == MonitorInit /\ [][MonitorNext]_monitor_vars

-----------------------------------------------------------------------------

\* A challenge that can still be answered is about the floor in force and a
\* record not yet installed: whatever is retried, a COMMIT cannot install
\* twice or against a floor its signature does not name.
PendingIsCurrent ==
    pending.valid =>
        /\ store_ready
        /\ pending.floor = installed_floor
        /\ IsNewer(pending.record.sequence, installed_floor)

WriteEntries == {i \in DOMAIN ledger : ledger[i].event = "write_commit"}

\* The ledger is a gap-free account of what the device has put in service, its
\* n-th write being the n-th record installed, whichever run, device boot, NVS
\* call, response or append fails; and unless a run takes answers to an earlier
\* run's questions for its own, the device is never more than one write ahead.
LedgerAccountsForDevice ==
    /\ \A i \in WriteEntries :
           LET n == Cardinality({j \in WriteEntries : j <= i})
           IN  n \in DOMAIN installs /\ ledger[i].record = installs[n].record
    /\ ~late_answers => Len(installs) <= Cardinality(WriteEntries) + 1

\* Retained evidence is true: the record was put in service on top of the
\* sequence it names, in the boot it names, and a reboot it reports is a later
\* boot that still served it.
EvidenceIsTrue ==
    \A e \in evidence :
        \E i \in DOMAIN installs :
            /\ installs[i].record = e.record
            /\ e.from = IF i = 1 THEN 0 ELSE installs[i - 1].record.sequence
            /\ e.boot = installs[i].boot
            /\ e.event = "reboot_verified" => e.observed_boot > installs[i].boot

\* docs/CALIBRATION_MAINTENANCE_PROVISIONING.md:96: losing a gate requires a
\* new PREPARE, so no COMMIT is executed for a challenge a gate was lost under.
GateLossRequiresNewPrepare == [][HandleCommit => ~gate_lost]_monitor_vars

Unrecorded(e) ==
    e.event = "write_commit" /\ \A i \in DOMAIN ledger : ledger[i].record # e.record

\* docs/CALIBRATION_AUDIT_LEDGER.md:135: evidence retained when the append of a
\* committed write fails can be reconciled explicitly, whatever else has been
\* reconciled before it.
RetainedWriteReconciles == \A e \in evidence : Unrecorded(e) => Appendable(e)
=============================================================================
