-------------------------- MODULE ProvisioningHost --------------------------
(***************************************************************************)
(* run_physical_calibration_provisioning on the host, talking to the       *)
(* maintenance device: the audit-ledger preflight, one signed write, the   *)
(* reboot verification, the retained evidence files and the append-only    *)
(* ledger.  A run may time out, be killed or fail at any point; evidence   *)
(* files and ledger entries persist.                                       *)
(*                                                                         *)
(* A response is recognised by its opcode only.  The authority queries     *)
(* compare constants here and are left out; the hash chain of the ledger   *)
(* is its sequence of entries, a head hash the number of entries.          *)
(***************************************************************************)
EXTENDS MaintenanceDevice

CONSTANTS
    Packages,      \* the verified and signed provisioning packages
    MAX_QUEUE,     \* bound on the unread requests and responses
    MAX_CHALLENGES,  \* bound on the challenges drawn before a new write is tried
    MAX_ENTRIES    \* bound on the ledger entries

ASSUME PackagesAssumption ==
    Packages \subseteq [installed : 0 .. SEQUENCE_LIMIT, record : Record]

VARIABLES
    phase,              \* what the run waits for, or does next
    package,            \* apply: the package being written
    prior,              \* verify-reboot: the write evidence being verified
    seen,               \* the device status the run relies on
    entries_before,     \* ledger entries at the live preflight
    evidence,           \* retained evidence files
    ledger, torn        \* complete entries; an entry file was left incomplete

run_vars == <<phase, package, prior, seen, entries_before>>
ledger_vars == <<ledger, torn>>
provisioning_vars == <<device_vars, run_vars, evidence, ledger_vars>>

NoStatus ==
    [op |-> "Status", boot |-> 0, gates |-> FALSE, store_ready |-> FALSE,
     floor |-> 0, active |-> Absent, pending |-> 0]
NoPackage == [installed |-> 0, record |-> NoRecord]
NoEvidence ==
    [event |-> "write_commit", record |-> NoRecord, from |-> 0, boot |-> 0,
     observed_boot |-> 0, entries |-> 0]

\* The state the ledger's head asserts; the genesis entry is no entry here.
LedgerRecord == IF ledger = <<>> THEN Absent ELSE ledger[Len(ledger)].record
LedgerSequence == IF ledger = <<>> THEN 0 ELSE ledger[Len(ledger)].record.sequence

HostInit ==
    /\ phase = "closed" /\ package = NoPackage /\ prior = NoEvidence
    /\ seen = NoStatus /\ entries_before = 0
    /\ evidence = {} /\ ledger = <<>> /\ torn = FALSE

ProvisioningInit == DeviceInit /\ HostInit

-----------------------------------------------------------------------------
(* Channel *)

Ask(request) == requests' = Append(requests, request)

\* The first response with the awaited opcode; responses read in the same chunk
\* are dropped with it.
Receives(op) == responses # <<>> /\ Head(responses).op = op
Consume ==
    \E next \in 2 .. (Len(responses) + 1) :
        responses' = SubSeq(responses, next, Len(responses))

\* The run ends; nothing of it persists.
Close ==
    /\ phase' = "closed" /\ package' = NoPackage /\ prior' = NoEvidence
    /\ seen' = NoStatus /\ entries_before' = 0

Untouched == UNCHANGED <<store_vars, session_vars, gates, evidence, ledger_vars>>

\* A response that fails a check of the run raises an error: like a timeout, a
\* lost port, a signal or a full disk it ends the run, and leaves whatever the
\* device still has to say in the channel.
Abort ==
    /\ phase # "closed" /\ Close
    /\ UNCHANGED channel_vars /\ Untouched

-----------------------------------------------------------------------------
(* main *)

\* verify_ledger, open the port, reset_input_buffer, first query.
OpenPort ==
    /\ phase = "closed" /\ ~torn
    /\ Len(requests) < MAX_QUEUE /\ Len(responses) < MAX_QUEUE
    /\ phase' = "preflight_status"
    /\ Ask([op |-> "Status"])
    /\ \E first \in 1 .. (Len(responses) + 1) :
           responses' = SubSeq(responses, first, Len(responses))
    /\ UNCHANGED <<seen, entries_before>> /\ Untouched

Apply(p) ==
    /\ nonces_used < MAX_CHALLENGES
    /\ OpenPort /\ package' = p /\ UNCHANGED prior

VerifyReboot(e) ==
    /\ OpenPort /\ prior' = e /\ UNCHANGED package

Awaited ==
    CASE phase \in {"preflight_status", "pre_status", "post_status", "reboot_status"}
             -> "Status"
      [] phase \in {"preflight_active", "post_active", "reboot_active"} -> "Active"
      [] phase = "prepare" -> "Prepare"
      [] phase = "commit" -> "Commit"
      [] OTHER -> "none"

SkipOther ==
    /\ Awaited # "none" /\ responses # <<>> /\ Head(responses).op # Awaited
    /\ responses' = Tail(responses)
    /\ UNCHANGED <<run_vars, requests>> /\ Untouched

(* _preflight_audit_ledger *)

PreflightStatus ==
    /\ phase = "preflight_status" /\ Receives("Status") /\ Consume
    /\ seen' = Head(responses)
    /\ phase' = "preflight_active" /\ Ask([op |-> "Active"])
    /\ UNCHANGED <<package, prior, entries_before>> /\ Untouched

\* Faulty variant: the live state is not compared with the ledger.
LiveReadbackOnly(m) == m.ok /\ m.active = seen.active

\* The exact record agrees with the status, and both with the ledger's head.
LiveStateMatches(m) ==
    /\ m.ok /\ m.active = seen.active
    /\ seen.floor = LedgerSequence /\ m.active = LedgerRecord

PreflightActive ==
    /\ phase = "preflight_active" /\ Receives("Active") /\ Consume
    /\ LiveStateMatches(Head(responses))
    /\ entries_before' = Len(ledger)
    /\ phase' = IF prior = NoEvidence THEN "pre_status" ELSE "reboot_status"
    /\ Ask([op |-> "Status"])
    /\ UNCHANGED <<package, prior, seen>> /\ Untouched

(* apply_signed_provisioning *)

MayWrite(m) ==
    /\ m.store_ready /\ m.gates
    /\ m.floor = package.installed
    /\ package.record.sequence > m.floor
    /\ m.pending = 0

PreStatus ==
    /\ phase = "pre_status" /\ Receives("Status") /\ Consume
    /\ LET m == Head(responses)
       IN  /\ MayWrite(m)
           /\ seen' = m
           /\ Ask([op |-> "Prepare", boot |-> m.boot, floor |-> m.floor,
                   record |-> package.record])
    /\ phase' = "prepare"
    /\ UNCHANGED <<package, prior, entries_before>> /\ Untouched

Acknowledges(m) == m.ok /\ m.record = package.record

Prepared ==
    /\ phase = "prepare" /\ Receives("Prepare") /\ Consume
    /\ Acknowledges(Head(responses))
    /\ phase' = "commit"
    /\ Ask([op |-> "Commit", boot |-> seen.boot, nonce |-> Head(responses).nonce,
            sequence |-> package.record.sequence])
    /\ UNCHANGED <<package, prior, seen, entries_before>> /\ Untouched

Committed ==
    /\ phase = "commit" /\ Receives("Commit") /\ Consume
    /\ Acknowledges(Head(responses))
    /\ phase' = "post_status" /\ Ask([op |-> "Status"])
    /\ UNCHANGED <<package, prior, seen, entries_before>> /\ Untouched

PostMatches(m) ==
    /\ m.boot = seen.boot
    /\ m.store_ready /\ m.active = package.record
    /\ m.floor = package.record.sequence
    /\ m.pending = 0

PostStatus ==
    /\ phase = "post_status" /\ Receives("Status") /\ Consume
    /\ PostMatches(Head(responses))
    /\ phase' = "post_active" /\ Ask([op |-> "Active"])
    /\ UNCHANGED <<package, prior, seen, entries_before>> /\ Untouched

PostActive ==
    /\ phase = "post_active" /\ Receives("Active") /\ Consume
    /\ Head(responses).ok /\ Head(responses).active = package.record
    /\ phase' = "save"
    /\ UNCHANGED <<package, prior, seen, entries_before, requests>> /\ Untouched

(* verify_recovery_aware_reboot *)

\* Faulty variant: the boot nonce need not have changed.
RebootStateOnly(m) ==
    /\ m.store_ready /\ m.active = prior.record
    /\ m.floor = prior.record.sequence
    /\ m.pending = 0

RebootMatches(m) ==
    /\ m.boot # prior.boot
    /\ m.store_ready /\ m.active = prior.record
    /\ m.floor = prior.record.sequence
    /\ m.pending = 0

RebootStatus ==
    /\ phase = "reboot_status" /\ Receives("Status") /\ Consume
    /\ RebootMatches(Head(responses))
    /\ seen' = Head(responses)
    /\ phase' = "reboot_active" /\ Ask([op |-> "Active"])
    /\ UNCHANGED <<package, prior, entries_before>> /\ Untouched

RebootActive ==
    /\ phase = "reboot_active" /\ Receives("Active") /\ Consume
    /\ Head(responses).ok /\ Head(responses).active = prior.record
    /\ phase' = "save"
    /\ UNCHANGED <<package, prior, seen, entries_before, requests>> /\ Untouched

(* _save_json replaces the file atomically; the append comes after it. *)

Report ==
    IF prior = NoEvidence
    THEN [event |-> "write_commit", record |-> package.record,
          from |-> seen.floor, boot |-> seen.boot, observed_boot |-> seen.boot,
          entries |-> entries_before]
    ELSE [prior EXCEPT !.event = "reboot_verified",
                       !.observed_boot = seen.boot, !.entries = entries_before]

SaveEvidence ==
    /\ phase = "save" /\ phase' = "append"
    /\ evidence' = evidence \cup {Report}
    /\ UNCHANGED <<package, prior, seen, entries_before, ledger_vars>>
    /\ UNCHANGED device_vars

\* append_write_evidence and append_reboot_evidence: the evidence was produced
\* under the ledger as it stands and continues it.
Appendable(e) ==
    /\ e.entries = Len(ledger)
    /\ e.event = "write_commit" =>
           e.from = LedgerSequence /\ e.record.sequence > LedgerSequence
    /\ e.event = "reboot_verified" => e.record = LedgerRecord

\* The last step of a run, or a later append-write or append-reboot.
AppendEntry(e) ==
    /\ \/ phase = "append" /\ e = Report
       \/ phase = "closed"
    /\ e \in evidence /\ ~torn /\ Len(ledger) < MAX_ENTRIES
    /\ Appendable(e)
    /\ \/ ledger' = Append(ledger, e) /\ UNCHANGED torn
       \/ torn' = TRUE /\ UNCHANGED ledger    \* the entry is not written out in full
    /\ Close
    /\ UNCHANGED <<device_vars, evidence>>

HostStep ==
    \/ \E p \in Packages : Apply(p)
    \/ \E e \in evidence : VerifyReboot(e) \/ AppendEntry(e)
    \/ SkipOther \/ PreflightStatus \/ PreflightActive
    \/ PreStatus \/ Prepared \/ Committed \/ PostStatus \/ PostActive
    \/ RebootStatus \/ RebootActive
    \/ SaveEvidence \/ Abort

ProvisioningNext ==
    \/ HostStep
    \/ (DeviceStep \/ DeviceEnvironment)
       /\ UNCHANGED <<run_vars, evidence, ledger_vars>>
=============================================================================
