-------------------------- MODULE EvidenceMonitor ---------------------------
(* Properties of the calibration chain, with observers: the packages a        *)
(* reviewer has approved so far, and what changed under a running tool.     *)
EXTENDS EvidenceChain

VARIABLES reviewed,     \* packages approved so far
          touched,      \* a file, an artefact or the device changed during the job
          raced         \* a file was edited while a campaign was reading
monitorVars == <<vars, reviewed, touched, raced>>

Approved == IF files[Approval] = Absent THEN {} ELSE {files[Approval].package}

MonitorInit == Init /\ reviewed = Approved /\ touched = FALSE /\ raced = FALSE

Surroundings == <<files, artefacts, damaged, device>>

MonitorNext ==
    /\ Next
    /\ reviewed' = reviewed \cup Approved'
    /\ touched' = IF job = Idle THEN FALSE
                  ELSE touched \/ (job' = job /\ Surroundings' # Surroundings)
    /\ raced' = (raced \/ (job.tool = "campaign" /\ files' # files))

MonitorSpec == MonitorInit /\ [][MonitorNext]_monitorVars

-----------------------------------------------------------------------------

(* Whatever is edited, rebuilt or interleaved, a record the chain writes    *)
(* holds the coefficient of a package some reviewer approved, of evidence   *)
(* that was ready for review (verify_source_derivation,                     *)
(* verify_provisioning_bundle, verify_authorization_bundle).                *)
WrittenAsApproved ==
    [][WriteRecord =>
         \E package \in reviewed :
            /\ device'.body = Rounded(package.candidate)
            /\ package.root.review.ready]_monitorVars

Recorded(f) == artefacts[Holder(f)] # Absent /\ artefacts[Holder(f)].hash[f] = files[f]

Written == {Bundle, Package, Change, Provisioning, Authorization}

(* "Any drift after package generation fails verification"                  *)
(* (docs/CALIBRATION_SOURCE_CHANGE.md): while nobody touches anything       *)
(* during the run itself, the physical write happens only if every source,  *)
(* policy, approval, safety file and device capture is still what the chain *)
(* recorded, no artefact on the way is damaged, and the profile's target is *)
(* vacant or holds the approved profile.                                    *)
DriftBlocksWrite ==
    [][WriteRecord /\ ~touched =>
         /\ \A f \in Sources \cup {Approval, ChangePolicy, Safety, DeviceState} : Recorded(f)
         /\ StrictWritePolicy(files[WritePolicy])
         /\ WithinPolicy(device'.sequence, files[WritePolicy])
         /\ Written \cap damaged = {}
         /\ files[Target] \in {Absent, artefacts[Change].profile}
         /\ files[Approval].package = artefacts[Package]]_monitorVars

(* A capture of the device is used once: the write replaces exactly the     *)
(* sequence, a recovery exactly the record, that the capture named in the   *)
(* package shows; and a recovery takes the very next sequence and changes   *)
(* the coefficients (build_recovery_bundle,                                 *)
(* validate_recovery_runtime_binding).  The capture is parsed and hashed in *)
(* two reads, so that one edited in between, and again at both later        *)
(* checks, is not the one the package was built for.                        *)
NoStaleWrite ==
    [][WriteRecord =>
         LET prov == artefacts[Provisioning] IN
         /\ device'.sequence > device.sequence
         /\ ~touched => device.sequence = prov.hash[DeviceState].record.sequence
         /\ prov.intent # Absent =>
              /\ ~touched => device = prov.hash[DeviceState].record
              /\ device'.sequence = device.sequence + 1
              /\ device'.body # device.body]_monitorVars

(* "The full verification therefore binds the final profile back to the     *)
(* same original evidence chain" (docs/CALIBRATION_SOURCE_CHANGE.md): what  *)
(* a provisioning package is built of is what the tools compute from the    *)
(* very sources whose hashes the bundle holds, however often bundle,        *)
(* package and change were rebuilt.  Not so when a source was edited while  *)
(* a campaign read it: it parses a file and hashes it in two reads.         *)
Recomputed(bundle) ==
    Review([r \in Runs |-> Proposal(Capture(bundle.hash[Session(r)], bundle.hash[Diagnostic(r)]))],
           bundle.hash[Policy])
ProfileTracesToEvidence ==
    [][PublishProvisioning /\ ~touched /\ ~raced =>
         artefacts[Change].profile.body
           = Rounded(Recomputed(artefacts[Bundle]).candidate)]_monitorVars
=============================================================================
