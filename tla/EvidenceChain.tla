--------------------------- MODULE EvidenceChain ----------------------------
(***************************************************************************)
(* The offline calibration chain (tools/*.py) and the write that ends it.  *)
(* Every tool is a script: it reads files and published artefacts one at a *)
(* time, stops at the first check that fails, and publishes its own        *)
(* artefact by one rename.  Between two reads anybody may edit a source    *)
(* file, damage or delete an artefact, approve, capture the device's state *)
(* or write the device from another station.  A SHA-256 is the content it  *)
(* was taken of; one operator runs one tool at a time.                     *)
(***************************************************************************)
EXTENDS CalibrationEvidence, Sequences

CONSTANTS Nominal,      \* [file -> content] when the campaign starts
          Contents,     \* [kind of file -> what an edit may put there]
          ApprovalIds,  \* identifiers a reviewer may give an approval
          MAX_SEQUENCE, \* policy: largest calibration sequence
          MAX_EDITS,    \* bound: edits, damages, foreign writes
          MAX_DISCARDS  \* bound: artefacts deleted to be rebuilt

Manifest      == <<"manifest", 0>>
Policy        == <<"policy", 0>>
Session(r)    == <<"session", r>>
Diagnostic(r) == <<"diagnostic", r>>
Approval      == <<"approval", 0>>
ChangePolicy  == <<"change policy", 0>>
Safety        == <<"safety", 0>>
WritePolicy   == <<"write policy", 0>>
Target        == <<"target", 0>>
DeviceState   == <<"device state", 0>>
Signature     == <<"signature", 0>>

Sources == {Manifest, Policy} \cup {Session(r) : r \in Runs} \cup {Diagnostic(r) : r \in Runs}
Files   == Sources \cup {Approval, ChangePolicy, Safety, WritePolicy, Target,
                       DeviceState, Signature}

Bundle        == <<"bundle", 0>>
Package       == <<"package", 0>>
Change        == <<"change", 0>>
Provisioning  == <<"provisioning", 0>>
Request       == <<"request", 0>>
Authorization == <<"authorization", 0>>
Artefacts == {Bundle, Package, Change, Provisioning, Request, Authorization}

Tools == {"campaign", "package", "change", "provisioning", "recovery",
          "request", "authorization", "apply"}

VARIABLES files,        \* [Files -> content or Absent]
          artefacts,    \* [Artefacts -> content or Absent]
          damaged,      \* artefacts whose bytes no longer match their index
          job,          \* the tool at work: what it has left to do, what it read
          device,       \* the calibration record in the device
          edits, discards
vars == <<files, artefacts, damaged, job, device, edits, discards>>

Idle == [tool |-> "none", todo |-> <<>>, seen |-> <<>>]

-----------------------------------------------------------------------------
(* The steps of the scripts.                                                *)
Load(f)    == <<"load", f>>       \* parse a file and use its content
Hash(f)    == <<"hash", f>>       \* hash the same file for the record
Match(f)   == <<"match", f>>      \* hash it again and compare
Intact(a)  == <<"intact", a>>     \* an artefact against its own index
Check(c)   == <<"check", c>>      \* a semantic check

RunReads(r) == <<Load(Session(r)), Load(Diagnostic(r)), Hash(Diagnostic(r)), Hash(Session(r))>>

(* The four reads of one run after those of the other.                      *)
ReadRuns ==
    [k \in 1..(4 * RUNS) |-> RunReads((k + 3) \div 4)[((k + 3) % 4) + 1]]

CampaignScript == <<Load(Manifest), Load(Policy), Hash(Policy)>> \o ReadRuns

(* Session and diagnostic of one run after the other.                       *)
MatchRuns ==
    [k \in 1..(2 * RUNS) |->
        IF k % 2 = 1 THEN Match(Session((k + 1) \div 2)) ELSE Match(Diagnostic(k \div 2))]

VerifyBundleMissesDiagnostics ==
    <<Intact(Bundle), Check("consistent"), Match(Manifest), Match(Policy)>>
        \o [r \in Runs |-> Match(Session(r))]
        \o <<Check("ready")>>
VerifyBundle ==
    <<Intact(Bundle), Check("consistent"), Match(Manifest), Match(Policy)>>
        \o MatchRuns
        \o <<Check("ready")>>

ChangeScript ==
    VerifyBundle \o
    <<Check("package"), Load(Approval), Load(ChangePolicy), Load(Safety),
      Check("vacant"), Hash(Approval), Hash(ChangePolicy)>>

VerifyChange ==
    <<Intact(Change), Intact(Package), Match(Approval), Match(ChangePolicy),
      Check("bound"), Match(Safety), Check("target")>>

VerifyDerivationTrustsPackage ==
    VerifyChange \o VerifyBundle \o <<Check("requantised"), Check("approved")>>
VerifyDerivation ==
    VerifyChange \o VerifyBundle \o <<Check("package"), Check("requantised"), Check("approved")>>

ProvisioningScript ==
    VerifyDerivation \o <<Load(WritePolicy), Load(DeviceState), Hash(DeviceState)>>

VerifyProvisioning ==
    <<Intact(Provisioning), Check("in policy"), Check("installed")>>
        \o VerifyDerivation
        \o <<Check("record"), Match(DeviceState)>>

(* A recovery reads the active record first and the state again later.      *)
RecoveryScript == <<Check("strict"), <<"active", DeviceState>>>> \o ProvisioningScript

VerifyRecovery == VerifyProvisioning \o <<Check("recovery")>>

IsRecovery == artefacts[Provisioning] # Absent /\ artefacts[Provisioning].intent # Absent

VerifyWrite ==
    <<Check("strict")>> \o VerifyProvisioning
        \o (IF IsRecovery THEN <<Check("strict")>> \o VerifyRecovery ELSE <<>>)

Script(tool) ==
    CASE tool = "campaign"      -> CampaignScript
      [] tool = "package"       -> VerifyBundle
      [] tool = "change"        -> ChangeScript
      [] tool = "provisioning"  -> ProvisioningScript
      [] tool = "recovery"      -> RecoveryScript
      [] tool = "request"       -> VerifyWrite
      [] tool = "authorization" -> <<Intact(Request), Load(Signature)>>
      [] tool = "apply"         -> VerifyWrite \o <<Intact(Authorization), Check("authorised")>>

Output(tool) ==
    CASE tool = "campaign" -> Bundle
      [] tool \in {"provisioning", "recovery"} -> Provisioning
      [] OTHER -> <<tool, 0>>

-----------------------------------------------------------------------------
(* What each step tests.                                                    *)
Sound(a) == artefacts[a] # Absent /\ a \notin damaged

(* The artefact that holds the hash of a file.                              *)
Holder(f) ==
    CASE f \in Sources     -> Bundle
      [] f = DeviceState   -> Provisioning
      [] OTHER             -> Change

Unchanged(f) == artefacts[Holder(f)] # Absent /\ artefacts[Holder(f)].hash[f] = files[f]

Consistent(bundle) == DOMAIN bundle.hash = Sources /\ bundle.review.runs = RUNS

PackageOf(bundle) == [root |-> bundle, candidate |-> bundle.review.candidate]

ApprovalUnbound(approval, package) == approval # Absent
ApprovalBinds(approval, package) == approval # Absent /\ approval.package = package

TargetAgrees(change) == files[Target] \in {Absent, change.profile}

Requantised(change, package, policy) ==
    /\ WellFormedChangePolicy(policy)
    /\ Quantisable(package.candidate, policy)
    /\ change.profile = Quantised(package.candidate, policy)

WithinPolicy(sequence, policy) == policy # Absent /\ sequence \in 1..policy.maximum

StrictWritePolicy(policy) == policy # Absent /\ policy.strict

GatesConfirmed(state) == state # Absent /\ state.gates

(* The package was built for the sequence the capture reports.              *)
BuiltFor(prov, state) ==
    /\ GatesConfirmed(state)
    /\ prov.installed = state.record.sequence
    /\ prov.record.sequence > state.record.sequence

(* A recovery is bound to the active record, takes the next sequence and    *)
(* changes the coefficients.                                                *)
RecoveryBound(prov, state) ==
    /\ state # Absent
    /\ prov.intent = state.record
    /\ prov.record.sequence = prov.installed + 1
    /\ prov.record.body # state.record.body

Payload(prov) == [root |-> prov, installed |-> prov.installed, record |-> prov.record]
SignatureValid(signature, payload) == signature = payload

Holds(c) ==
    LET bundle  == artefacts[Bundle]
        package == artefacts[Package]
        change  == artefacts[Change]
        prov    == artefacts[Provisioning]
    IN
    \/ c = "consistent"  /\ bundle # Absent /\ Consistent(bundle)
    \/ c = "ready"       /\ bundle # Absent /\ bundle.review.ready
    \/ c = "package"     /\ bundle # Absent /\ package = PackageOf(bundle)
    \/ c = "vacant"      /\ files[Target] = Absent
    \/ c = "bound"       /\ change # Absent /\ change.package = package
                         /\ ApprovalBinds(files[Approval], package)
    \/ c = "target"      /\ change # Absent /\ TargetAgrees(change)
    \/ c = "requantised" /\ change # Absent /\ package # Absent
                         /\ Requantised(change, package, files[ChangePolicy])
    \/ c = "approved"    /\ change # Absent /\ ApprovalBinds(files[Approval], package)
                         /\ change.approval = files[Approval].id
    \/ c = "strict"      /\ StrictWritePolicy(files[WritePolicy])
    \/ c = "in policy"   /\ prov # Absent /\ WithinPolicy(prov.record.sequence, files[WritePolicy])
    \/ c = "installed"   /\ prov # Absent /\ BuiltFor(prov, files[DeviceState])
    \/ c = "record"      /\ prov # Absent /\ change # Absent
                         /\ prov.record = NumberedRecord(prov.record.sequence, change.profile)
    \/ c = "recovery"    /\ prov # Absent /\ RecoveryBound(prov, files[DeviceState])
    \/ c = "authorised"  /\ prov # Absent
                         /\ SignatureValid(artefacts[Authorization], Payload(prov))

IsRead(s) == s[1] \in {"load", "hash", "active"}

Passes(s) ==
    \/ IsRead(s)       /\ (files[s[2]] # Absent)
    \/ s[1] = "intact" /\ Sound(s[2])
    \/ s[1] = "match"  /\ Unchanged(s[2])
    \/ s[1] = "check"  /\ Holds(s[2])

-----------------------------------------------------------------------------
(* What a finished script publishes, from what it read.                     *)
Captured(seen) ==
    [r \in Runs |-> Proposal(Capture(seen[Load(Session(r))], seen[Load(Diagnostic(r))]))]

CampaignAccepts(seen) ==
    /\ WellFormedCampaign(seen[Load(Manifest)])
    /\ WellFormedReviewPolicy(seen[Load(Policy)])
    /\ AcceptsRuns(seen[Load(Policy)])
    /\ \A r \in Runs : /\ WellFormedSession(seen[Load(Session(r))])
                       /\ InScope(seen[Load(Session(r))], seen[Load(Manifest)])
                       /\ Usable(seen[Load(Diagnostic(r))])

(* The manifest is hashed from the parsed content, every other source from  *)
(* a second read of its file.                                               *)
BundleOf(seen) ==
    [hash |-> [f \in Sources |-> IF f = Manifest THEN seen[Load(f)] ELSE seen[Hash(f)]],
     review |-> Review(Captured(seen), seen[Load(Policy)])]

ChangeAccepts(seen) ==
    /\ ApprovalBinds(seen[Load(Approval)], artefacts[Package])
    /\ WellFormedChangePolicy(seen[Load(ChangePolicy)])
    /\ Quantisable(artefacts[Package].candidate, seen[Load(ChangePolicy)])

BaselineOf(seen) == seen[Load(Safety)]

ChangeOf(seen) ==
    [package  |-> artefacts[Package],
     approval |-> seen[Load(Approval)].id,
     profile  |-> Quantised(artefacts[Package].candidate, seen[Load(ChangePolicy)]),
     hash     |-> [f \in {Approval, ChangePolicy, Safety} |->
                     IF f = Safety THEN BaselineOf(seen) ELSE seen[Hash(f)]]]

ProvisioningAccepts(sequence, seen) ==
    LET state == seen[Load(DeviceState)] IN
    /\ GatesConfirmed(state)
    /\ WithinPolicy(sequence, seen[Load(WritePolicy)])
    /\ sequence > state.record.sequence

ProvisioningOf(sequence, seen, intent) ==
    [installed |-> seen[Load(DeviceState)].record.sequence,
     record    |-> NumberedRecord(sequence, artefacts[Change].profile),
     intent    |-> intent,
     hash      |-> [f \in {DeviceState} |-> seen[Hash(f)]]]

(* A recovery restores an approved profile under the next sequence, and     *)
(* only when that changes the coefficients.                                 *)
HasActiveRecord(active) == active.sequence > 0
RecoveryAccepts(active) ==
    HasActiveRecord(active) /\ active.body # artefacts[Change].profile.body

-----------------------------------------------------------------------------
Start(tool) ==
    /\ job = Idle
    /\ tool # "apply" => artefacts[Output(tool)] = Absent
    /\ job' = [tool |-> tool, todo |-> Script(tool), seen |-> <<>>]
    /\ UNCHANGED <<files, artefacts, damaged, device, edits, discards>>

Noted(seen, s, content) ==
    [x \in DOMAIN seen \cup {s} |-> IF x = s THEN content ELSE seen[x]]

Step ==
    /\ job.todo # <<>>
    /\ Passes(Head(job.todo))
    /\ job' = [job EXCEPT !.todo = Tail(@),
                          !.seen = IF IsRead(Head(job.todo))
                                   THEN Noted(@, Head(job.todo), files[Head(job.todo)[2]])
                                   ELSE @]
    /\ UNCHANGED <<files, artefacts, damaged, device, edits, discards>>

(* A check failed, or the operator or the host stopped the tool: nothing it *)
(* staged is left.                                                          *)
Abandon ==
    /\ job # Idle
    /\ job' = Idle
    /\ UNCHANGED <<files, artefacts, damaged, device, edits, discards>>

Finished(tool) == job.tool = tool /\ job.todo = <<>>

Publish(a, content) ==
    /\ artefacts[a] = Absent
    /\ artefacts' = [artefacts EXCEPT ![a] = content]
    /\ damaged' = damaged \ {a}
    /\ job' = Idle
    /\ UNCHANGED <<files, device, edits, discards>>

PublishBundle ==
    /\ Finished("campaign")
    /\ CampaignAccepts(job.seen)
    /\ Publish(Bundle, BundleOf(job.seen))

PublishPackage ==
    /\ Finished("package")
    /\ artefacts[Bundle] # Absent
    /\ Publish(Package, PackageOf(artefacts[Bundle]))

PublishChange ==
    /\ Finished("change")
    /\ artefacts[Package] # Absent
    /\ ChangeAccepts(job.seen)
    /\ Publish(Change, ChangeOf(job.seen))

PublishProvisioning ==
    /\ Finished("provisioning")
    /\ artefacts[Change] # Absent
    /\ \E sequence \in 1..MAX_SEQUENCE :
         /\ ProvisioningAccepts(sequence, job.seen)
         /\ Publish(Provisioning, ProvisioningOf(sequence, job.seen, Absent))

PublishRecovery ==
    /\ Finished("recovery")
    /\ artefacts[Change] # Absent
    /\ LET active == job.seen[<<"active", DeviceState>>].record IN
         /\ RecoveryAccepts(active)
         /\ ProvisioningAccepts(active.sequence + 1, job.seen)
         /\ Publish(Provisioning, ProvisioningOf(active.sequence + 1, job.seen, active))

PublishRequest ==
    /\ Finished("request")
    /\ artefacts[Provisioning] # Absent
    /\ Publish(Request, Payload(artefacts[Provisioning]))

PublishAuthorization ==
    /\ Finished("authorization")
    /\ artefacts[Request] # Absent
    /\ SignatureValid(job.seen[Load(Signature)], artefacts[Request])
    /\ Publish(Authorization, artefacts[Request])

LiveRecordBound(prov) ==
    prov.intent = device /\ prov.record.sequence = device.sequence + 1

WriteWithoutLiveCheck ==
    /\ Finished("apply")
    /\ artefacts[Provisioning] # Absent
    /\ device' = artefacts[Provisioning].record
    /\ job' = Idle
    /\ UNCHANGED <<files, artefacts, damaged, edits, discards>>
(* The port is open from the last check to the answer: the live device is   *)
(* compared once more and written.                                          *)
WriteRecord ==
    /\ Finished("apply")
    /\ artefacts[Provisioning] # Absent
    /\ LET prov == artefacts[Provisioning] IN
         /\ device.sequence = prov.installed
         /\ prov.record.sequence > device.sequence
         /\ prov.intent # Absent => LiveRecordBound(prov)
         /\ device' = prov.record
    /\ job' = Idle
    /\ UNCHANGED <<files, artefacts, damaged, edits, discards>>

-----------------------------------------------------------------------------
(* What goes on around the tools.                                           *)
Approve ==
    /\ artefacts[Package] # Absent
    /\ files[Approval] = Absent
    /\ \E id \in ApprovalIds :
         files' = [files EXCEPT ![Approval] = [package |-> artefacts[Package], id |-> id]]
    /\ UNCHANGED <<artefacts, damaged, job, device, edits, discards>>

Sign ==
    /\ artefacts[Request] # Absent
    /\ files[Signature] # artefacts[Request]
    /\ files' = [files EXCEPT ![Signature] = artefacts[Request]]
    /\ UNCHANGED <<artefacts, damaged, job, device, edits, discards>>

(* The reviewed patch is merged: the profile appears at its target.         *)
ApplyPatch ==
    /\ artefacts[Change] # Absent
    /\ files[Target] = Absent
    /\ files' = [files EXCEPT ![Target] = artefacts[Change].profile]
    /\ UNCHANGED <<artefacts, damaged, job, device, edits, discards>>

(* The status command: exact readback of the device and its two gates.      *)
CaptureState ==
    /\ job = Idle
    /\ \E gates \in BOOLEAN :
         LET state == [record |-> device, gates |-> gates] IN
         /\ files[DeviceState] # state
         /\ files' = [files EXCEPT ![DeviceState] = state]
    /\ UNCHANGED <<artefacts, damaged, job, device, edits, discards>>

Disturb ==
    /\ edits < MAX_EDITS
    /\ edits' = edits + 1
    /\ UNCHANGED <<job, discards>>

EditFile(f) ==
    /\ Disturb
    /\ \E content \in Contents[f[1]] \ {files[f]} : files' = [files EXCEPT ![f] = content]
    /\ UNCHANGED <<artefacts, damaged, device>>

DamageArtefact(a) ==
    /\ Disturb
    /\ Sound(a)
    /\ damaged' = damaged \cup {a}
    /\ UNCHANGED <<files, artefacts, device>>

(* Another station provisions the device; not while this one has its port.  *)
OtherStationWrites ==
    /\ Disturb
    /\ ~Finished("apply")
    /\ device.sequence < MAX_SEQUENCE
    /\ \E body \in Contents["body"] :
         device' = [sequence |-> device.sequence + 1, body |-> body]
    /\ UNCHANGED <<files, artefacts, damaged>>

Discard(a) ==
    /\ discards < MAX_DISCARDS
    /\ artefacts[a] # Absent
    /\ artefacts' = [artefacts EXCEPT ![a] = Absent]
    /\ damaged' = damaged \ {a}
    /\ discards' = discards + 1
    /\ UNCHANGED <<files, job, device, edits>>

-----------------------------------------------------------------------------
Init ==
    /\ files = Nominal
    /\ artefacts = [a \in Artefacts |-> Absent]
    /\ damaged = {}
    /\ job = Idle
    /\ device = [sequence |-> 1, body |-> 0]
    /\ edits = 0 /\ discards = 0

PublishAny ==
    \/ PublishBundle \/ PublishPackage \/ PublishChange \/ PublishProvisioning
    \/ PublishRecovery \/ PublishRequest \/ PublishAuthorization

Next ==
    \/ \E tool \in Tools : Start(tool)
    \/ Step
    \/ Abandon
    \/ PublishAny
    \/ WriteRecord
    \/ Approve \/ Sign \/ ApplyPatch \/ CaptureState
    \/ \E f \in Files : EditFile(f)
    \/ \E a \in Artefacts : DamageArtefact(a) \/ Discard(a)
    \/ OtherStationWrites

Spec == Init /\ [][Next]_vars
=============================================================================
