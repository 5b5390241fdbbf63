------------------------ MODULE EvidenceChainProofs -------------------------
(***************************************************************************)
(* DriftBlocksWrite for every number of runs, every content and every      *)
(* bound: the checks of a script that nobody disturbed hold together when  *)
(* the script ends, and the script of a physical write checks everything   *)
(* the chain recorded.                                                     *)
(***************************************************************************)
EXTENDS EvidenceMonitor, TLAPS

(* A step is in a script.                                                   *)
In(s, script) == \E i \in DOMAIN script : script[i] = s

Names == Files \cup Artefacts \cup
    {"consistent", "ready", "package", "vacant", "bound", "target", "requantised",
     "approved", "strict", "in policy", "installed", "record", "recovery", "authorised"}
Steps == {"load", "hash", "active", "match", "intact", "check"} \X Names

JobTypeOK ==
    /\ job = Idle \/ job.tool \in Tools
    /\ job = [tool |-> job.tool, todo |-> job.todo, seen |-> job.seen]
    /\ job.todo \in Seq(Steps)

(* What the script that runs now has done still holds.                      *)
Undisturbed ==
    job.tool \in Tools /\ ~touched =>
        \A s \in Steps : In(s, Script(job.tool)) => In(s, job.todo) \/ Passes(s)

-----------------------------------------------------------------------------
(* Membership in a concatenation.                                           *)
LEMMA InConcat ==
    ASSUME NEW S, NEW a \in Seq(S), NEW b \in Seq(S), NEW s
    PROVE  /\ a \o b \in Seq(S)
           /\ In(s, a) => In(s, a \o b)
           /\ In(s, b) => In(s, a \o b)
<1>1. a \o b \in Seq(S)
  OBVIOUS
<1>2. In(s, a) => In(s, a \o b)
  <2> SUFFICES ASSUME NEW i \in DOMAIN a, a[i] = s PROVE In(s, a \o b)
    BY DEF In
  <2>1. i \in 1..Len(a) /\ i \in DOMAIN (a \o b) /\ (a \o b)[i] = a[i]
    OBVIOUS
  <2> QED BY <2>1 DEF In
<1>3. In(s, b) => In(s, a \o b)
  <2> SUFFICES ASSUME NEW i \in DOMAIN b, b[i] = s PROVE In(s, a \o b)
    BY DEF In
  <2>1. i \in 1..Len(b) /\ Len(a) \in Nat
    OBVIOUS
  <2>2. Len(a) + i \in DOMAIN (a \o b) /\ (a \o b)[Len(a) + i] = b[i]
    BY <2>1
  <2> QED BY <2>2 DEF In
<1> QED BY <1>1, <1>2, <1>3

(* Taking the first step off a script leaves the others in it.              *)
LEMMA InTail ==
    ASSUME NEW S, NEW a \in Seq(S), a # <<>>, NEW s, In(s, a), s # Head(a)
    PROVE  In(s, Tail(a))
<1>1. PICK i \in 1..Len(a) : a[i] = s
  BY DEF In
<1>2. i # 1 /\ i - 1 \in 1..(Len(a) - 1)
  BY <1>1
<1>3. Tail(a)[i - 1] = a[i] /\ DOMAIN Tail(a) = 1..(Len(a) - 1)
  BY <1>2
<1> QED BY <1>1, <1>2, <1>3 DEF In
-----------------------------------------------------------------------------
(* The scripts of the verifications are scripts, and what they check.       *)
LEMMA StepTypes ==
    ASSUME NEW f \in Files, NEW a \in Artefacts
    PROVE  /\ Load(f) \in Steps /\ Hash(f) \in Steps /\ Match(f) \in Steps
           /\ Intact(a) \in Steps
  BY DEF Load, Hash, Match, Intact, Steps, Names

LEMMA CheckTypes ==
    /\ Check("consistent") \in Steps /\ Check("ready") \in Steps
    /\ Check("package") \in Steps /\ Check("bound") \in Steps
    /\ Check("target") \in Steps /\ Check("requantised") \in Steps
    /\ Check("approved") \in Steps /\ Check("strict") \in Steps
    /\ Check("in policy") \in Steps /\ Check("installed") \in Steps
    /\ Check("record") \in Steps /\ Check("recovery") \in Steps
    /\ Check("authorised") \in Steps /\ Check("vacant") \in Steps
  BY DEF Check, Steps, Names

LEMMA FileNames ==
    /\ \A r \in Runs : Session(r) \in Files /\ Diagnostic(r) \in Files
    /\ {Manifest, Policy, Approval, ChangePolicy, Safety, WritePolicy, DeviceState,
        Signature} \subseteq Files
    /\ {Bundle, Package, Change, Provisioning, Request, Authorization} \subseteq Artefacts
  BY DEF Files, Sources, Artefacts

(* Short scripts.                                                           *)
LEMMA InOne ==
    ASSUME NEW S, NEW x \in S
    PROVE  <<x>> \in Seq(S) /\ In(x, <<x>>)
<1> DEFINE t == <<x>>
<1>1. t \in Seq(S) /\ DOMAIN t = 1..1 /\ t[1] = x
  OBVIOUS
<1> HIDE DEF t
<1>2. In(x, t)
  BY <1>1 DEF In
<1> QED BY <1>1, <1>2 DEF t

LEMMA InPair ==
    ASSUME NEW S, NEW x \in S, NEW y \in S
    PROVE  <<x, y>> \in Seq(S) /\ In(x, <<x, y>>) /\ In(y, <<x, y>>)
<1> DEFINE t == <<x, y>>
<1>1. t \in Seq(S) /\ DOMAIN t = 1..2 /\ t[1] = x /\ t[2] = y
  OBVIOUS
<1> HIDE DEF t
<1>2. In(x, t) /\ In(y, t)
  BY <1>1 DEF In
<1> QED BY <1>1, <1>2 DEF t

LEMMA InTriple ==
    ASSUME NEW S, NEW x \in S, NEW y \in S, NEW z \in S
    PROVE  /\ <<x, y, z>> \in Seq(S)
           /\ In(x, <<x, y, z>>) /\ In(y, <<x, y, z>>) /\ In(z, <<x, y, z>>)
<1> DEFINE t == <<x, y, z>>
<1>1. t \in Seq(S) /\ DOMAIN t = 1..3 /\ t[1] = x /\ t[2] = y /\ t[3] = z
  OBVIOUS
<1> HIDE DEF t
<1>2. In(x, t) /\ In(y, t) /\ In(z, t)
  BY <1>1 DEF In
<1> QED BY <1>1, <1>2 DEF t

LEMMA MatchRunsCovers ==
    /\ MatchRuns \in Seq(Steps)
    /\ \A r \in Runs : /\ In(Match(Session(r)), MatchRuns)
                       /\ In(Match(Diagnostic(r)), MatchRuns)
<1>1. ASSUME NEW k \in 1..(2 * RUNS)
      PROVE  /\ k % 2 = 1 => (k + 1) \div 2 \in Runs
             /\ k % 2 # 1 => k \div 2 \in Runs
  BY RunsAssumption DEF Runs
<1>2. ASSUME NEW k \in 1..(2 * RUNS)
      PROVE  (IF k % 2 = 1 THEN Match(Session((k + 1) \div 2)) ELSE Match(Diagnostic(k \div 2))) \in Steps
  <2>1. CASE k % 2 = 1
    BY <1>1, <2>1, StepTypes, FileNames
  <2>2. CASE k % 2 # 1
    BY <1>1, <2>2, StepTypes, FileNames
  <2> QED BY <2>1, <2>2
<1>3. MatchRuns \in [1..(2 * RUNS) -> Steps]
  BY <1>2 DEF MatchRuns
<1>4. MatchRuns \in Seq(Steps)
  BY <1>3, RunsAssumption
<1>5. ASSUME NEW r \in Runs
      PROVE  In(Match(Session(r)), MatchRuns) /\ In(Match(Diagnostic(r)), MatchRuns)
  <2>1. /\ 2 * r - 1 \in 1..(2 * RUNS) /\ (2 * r - 1) % 2 = 1 /\ ((2 * r - 1) + 1) \div 2 = r
        /\ 2 * r \in 1..(2 * RUNS) /\ (2 * r) % 2 # 1 /\ (2 * r) \div 2 = r
    BY RunsAssumption DEF Runs
  <2>2. DOMAIN MatchRuns = 1..(2 * RUNS)
    BY DEF MatchRuns
  <2>3. MatchRuns[2 * r - 1] = Match(Session(r))
    BY <2>1 DEF MatchRuns
  <2>4. MatchRuns[2 * r] = Match(Diagnostic(r))
    BY <2>1 DEF MatchRuns
  <2> QED BY <2>1, <2>2, <2>3, <2>4 DEF In
<1> QED BY <1>4, <1>5

LEMMA VerifyBundleCovers ==
    /\ VerifyBundle \in Seq(Steps)
    /\ \A f \in Sources : In(Match(f), VerifyBundle)
    /\ In(Intact(Bundle), VerifyBundle) /\ In(Check("ready"), VerifyBundle)
<1> DEFINE head == <<Intact(Bundle), Check("consistent"), Match(Manifest), Match(Policy)>>
           last == <<Check("ready")>>
<1>0. /\ Intact(Bundle) \in Steps /\ Check("consistent") \in Steps
      /\ Match(Manifest) \in Steps /\ Match(Policy) \in Steps /\ Check("ready") \in Steps
  BY StepTypes, CheckTypes, FileNames
<1>1. head \in Seq(Steps) /\ last \in Seq(Steps)
  BY <1>0
<1>2. In(Intact(Bundle), head) /\ In(Match(Manifest), head) /\ In(Match(Policy), head)
  <2>1. DOMAIN head = 1..4 /\ head[1] = Intact(Bundle) /\ head[3] = Match(Manifest) /\ head[4] = Match(Policy)
    OBVIOUS
  <2> HIDE DEF head
  <2> QED BY <2>1 DEF In
<1>7. In(Check("ready"), last)
  <2>1. DOMAIN last = 1..1 /\ last[1] = Check("ready")
    OBVIOUS
  <2> HIDE DEF last
  <2> QED BY <2>1 DEF In
<1> HIDE DEF head, last
<1>3. head \o MatchRuns \in Seq(Steps)
  BY <1>1, MatchRunsCovers, InConcat
<1>8. In(Check("ready"), (head \o MatchRuns) \o last)
  BY <1>1, <1>3, <1>7, InConcat
<1>4. ASSUME NEW s, In(s, head) \/ In(s, MatchRuns)
      PROVE  In(s, (head \o MatchRuns) \o last)
  BY <1>1, <1>3, <1>4, MatchRunsCovers, InConcat
<1>5. VerifyBundle = (head \o MatchRuns) \o last
  BY DEF VerifyBundle, head, last
<1>6. \A f \in Sources : In(Match(f), VerifyBundle)
  BY <1>2, <1>4, <1>5, MatchRunsCovers DEF Sources
<1> QED BY <1>1, <1>2, <1>3, <1>4, <1>5, <1>6, <1>8, InConcat

LEMMA VerifyDerivationCovers ==
    /\ VerifyDerivation \in Seq(Steps)
    /\ \A f \in Sources \cup {Approval, ChangePolicy, Safety} : In(Match(f), VerifyDerivation)
    /\ \A a \in {Bundle, Change, Package} : In(Intact(a), VerifyDerivation)
    /\ In(Check("bound"), VerifyDerivation) /\ In(Check("target"), VerifyDerivation)
    /\ In(Check("package"), VerifyDerivation) /\ In(Check("requantised"), VerifyDerivation)
<1> DEFINE last == <<Check("package"), Check("requantised"), Check("approved")>>
<1>0. /\ Intact(Change) \in Steps /\ Intact(Package) \in Steps
      /\ Match(Approval) \in Steps /\ Match(ChangePolicy) \in Steps
      /\ Check("bound") \in Steps /\ Match(Safety) \in Steps
      /\ Check("target") \in Steps /\ Check("package") \in Steps
      /\ Check("requantised") \in Steps /\ Check("approved") \in Steps
  BY StepTypes, CheckTypes, FileNames
<1>1. VerifyChange \in Seq(Steps) /\ last \in Seq(Steps)
  BY <1>0 DEF VerifyChange
<1>2. /\ DOMAIN VerifyChange = 1..7
      /\ VerifyChange[1] = Intact(Change) /\ VerifyChange[2] = Intact(Package)
      /\ VerifyChange[3] = Match(Approval) /\ VerifyChange[4] = Match(ChangePolicy)
      /\ VerifyChange[5] = Check("bound") /\ VerifyChange[6] = Match(Safety)
      /\ VerifyChange[7] = Check("target")
  BY DEF VerifyChange
<1>3. /\ In(Intact(Change), VerifyChange) /\ In(Intact(Package), VerifyChange)
      /\ In(Match(Approval), VerifyChange) /\ In(Match(ChangePolicy), VerifyChange)
      /\ In(Check("bound"), VerifyChange) /\ In(Match(Safety), VerifyChange)
      /\ In(Check("target"), VerifyChange)
  BY <1>2 DEF In
<1>7. In(Check("package"), last) /\ In(Check("requantised"), last)
  BY <1>0, InTriple
<1> HIDE DEF last
<1>4. VerifyChange \o VerifyBundle \in Seq(Steps)
  BY <1>1, VerifyBundleCovers, InConcat
<1>5. ASSUME NEW s, In(s, VerifyChange) \/ In(s, VerifyBundle)
      PROVE  In(s, (VerifyChange \o VerifyBundle) \o last)
  BY <1>1, <1>4, <1>5, VerifyBundleCovers, InConcat
<1>6. VerifyDerivation = (VerifyChange \o VerifyBundle) \o last
  BY DEF VerifyDerivation, last
<1>8. /\ In(Check("package"), (VerifyChange \o VerifyBundle) \o last)
      /\ In(Check("requantised"), (VerifyChange \o VerifyBundle) \o last)
  BY <1>1, <1>4, <1>7, InConcat
<1> QED BY <1>1, <1>3, <1>4, <1>5, <1>6, <1>8, VerifyBundleCovers, InConcat

LEMMA VerifyProvisioningCovers ==
    /\ VerifyProvisioning \in Seq(Steps)
    /\ \A s : In(s, VerifyDerivation) => In(s, VerifyProvisioning)
    /\ In(Match(DeviceState), VerifyProvisioning)
    /\ In(Intact(Provisioning), VerifyProvisioning)
    /\ In(Check("in policy"), VerifyProvisioning)
    /\ In(Check("installed"), VerifyProvisioning)
<1> DEFINE head == <<Intact(Provisioning), Check("in policy"), Check("installed")>>
           last == <<Check("record"), Match(DeviceState)>>
<1>1. /\ Intact(Provisioning) \in Steps /\ Check("in policy") \in Steps
      /\ Check("installed") \in Steps /\ Check("record") \in Steps
      /\ Match(DeviceState) \in Steps
  BY StepTypes, CheckTypes, FileNames
<1>2. /\ head \in Seq(Steps) /\ In(Intact(Provisioning), head)
      /\ In(Check("in policy"), head) /\ In(Check("installed"), head)
  BY <1>1, InTriple
<1>3. last \in Seq(Steps) /\ In(Match(DeviceState), last)
  BY <1>1, InPair
<1> HIDE DEF head, last
<1>5. head \o VerifyDerivation \in Seq(Steps)
  BY <1>2, VerifyDerivationCovers, InConcat
<1>6. ASSUME NEW s, In(s, head) \/ In(s, VerifyDerivation) \/ In(s, last)
      PROVE  In(s, (head \o VerifyDerivation) \o last)
  BY <1>2, <1>3, <1>5, <1>6, VerifyDerivationCovers, InConcat
<1>7. VerifyProvisioning = (head \o VerifyDerivation) \o last
  BY DEF VerifyProvisioning, head, last
<1> QED BY <1>2, <1>3, <1>5, <1>6, <1>7, InConcat

LEMMA WriteCovers ==
    /\ VerifyWrite \in Seq(Steps)
    /\ \A s : In(s, VerifyProvisioning) => In(s, VerifyWrite)
    /\ In(Check("strict"), VerifyWrite)
    /\ IsRecovery => In(Check("recovery"), VerifyWrite)
<1> DEFINE strict == <<Check("strict")>>
           last   == <<Check("recovery")>>
           again  == IF IsRecovery THEN strict \o VerifyRecovery ELSE <<>>
<1>1. /\ strict \in Seq(Steps) /\ In(Check("strict"), strict)
      /\ last \in Seq(Steps) /\ In(Check("recovery"), last)
  BY CheckTypes, InOne
<1>2. VerifyRecovery = VerifyProvisioning \o last
  BY DEF VerifyRecovery, last
<1> HIDE DEF strict, last
<1>3. VerifyRecovery \in Seq(Steps) /\ In(Check("recovery"), VerifyRecovery)
  BY <1>1, <1>2, VerifyProvisioningCovers, InConcat
<1>4. strict \o VerifyRecovery \in Seq(Steps) /\ In(Check("recovery"), strict \o VerifyRecovery)
  BY <1>1, <1>3, InConcat
<1>5. again \in Seq(Steps) /\ (IsRecovery => In(Check("recovery"), again))
  BY <1>4
<1>6. VerifyWrite = (strict \o VerifyProvisioning) \o again
  BY DEF VerifyWrite, strict, again
<1> HIDE DEF again
<1>7. strict \o VerifyProvisioning \in Seq(Steps)
  BY <1>1, VerifyProvisioningCovers, InConcat
<1>8. ASSUME NEW s, In(s, strict) \/ In(s, VerifyProvisioning) \/ In(s, again)
      PROVE  In(s, (strict \o VerifyProvisioning) \o again)
  BY <1>1, <1>5, <1>7, <1>8, VerifyProvisioningCovers, InConcat
<1> QED BY <1>1, <1>5, <1>6, <1>7, <1>8, InConcat

LEMMA ApplyCovers ==
    /\ Script("apply") \in Seq(Steps)
    /\ \A s : In(s, VerifyWrite) => In(s, Script("apply"))
    /\ In(Intact(Authorization), Script("apply"))
<1> DEFINE last == <<Intact(Authorization), Check("authorised")>>
<1>1. last \in Seq(Steps) /\ In(Intact(Authorization), last)
  BY StepTypes, CheckTypes, FileNames, InPair
<1>2. Script("apply") = VerifyWrite \o last
  BY DEF Script, last
<1> HIDE DEF last
<1> QED BY <1>1, <1>2, WriteCovers, InConcat

LEMMA ChangeCovers ==
    /\ Script("change") \in Seq(Steps)
    /\ In(Load(Approval), Script("change"))
<1> DEFINE last == <<Check("package"), Load(Approval), Load(ChangePolicy), Load(Safety),
                    Check("vacant"), Hash(Approval), Hash(ChangePolicy)>>
<1>1. /\ Check("package") \in Steps /\ Check("vacant") \in Steps
      /\ Load(Approval) \in Steps /\ Load(ChangePolicy) \in Steps /\ Load(Safety) \in Steps
      /\ Hash(Approval) \in Steps /\ Hash(ChangePolicy) \in Steps
  BY StepTypes, CheckTypes, FileNames
<1>2. last \in Seq(Steps) /\ DOMAIN last = 1..7 /\ last[2] = Load(Approval)
  BY <1>1
<1>3. Script("change") = VerifyBundle \o last
  BY DEF Script, ChangeScript, last
<1> HIDE DEF last
<1>4. In(Load(Approval), last)
  BY <1>2 DEF In
<1> QED BY <1>2, <1>3, <1>4, VerifyBundleCovers, InConcat

LEMMA ProvisioningCovers ==
    /\ Script("provisioning") \in Seq(Steps) /\ Script("recovery") \in Seq(Steps)
    /\ \A s : In(s, VerifyDerivation) => In(s, Script("provisioning"))
<1> DEFINE last == <<Load(WritePolicy), Load(DeviceState), Hash(DeviceState)>>
           head == <<Check("strict"), <<"active", DeviceState>>>>
<1>1. last \in Seq(Steps)
  BY StepTypes, FileNames, InTriple
<1>2. <<"active", DeviceState>> \in Steps
  BY FileNames DEF Steps, Names
<1>3. head \in Seq(Steps)
  BY <1>2, CheckTypes, InPair
<1>4. /\ Script("provisioning") = VerifyDerivation \o last
      /\ Script("recovery") = head \o (VerifyDerivation \o last)
  BY DEF Script, RecoveryScript, ProvisioningScript, last, head
<1> HIDE DEF last, head
<1>5. VerifyDerivation \o last \in Seq(Steps)
  BY <1>1, VerifyDerivationCovers, InConcat
<1> QED BY <1>1, <1>3, <1>4, <1>5, VerifyDerivationCovers, InConcat

(* A campaign parses and hashes every source; the manifest it parses only.  *)
LEMMA ReadRunsCovers ==
    /\ ReadRuns \in Seq(Steps)
    /\ \A r \in Runs : /\ In(Load(Session(r)), ReadRuns) /\ In(Hash(Session(r)), ReadRuns)
                       /\ In(Load(Diagnostic(r)), ReadRuns)
                       /\ In(Hash(Diagnostic(r)), ReadRuns)
<1>1. ASSUME NEW r \in Runs
      PROVE  /\ RunReads(r) \in [1..4 -> Steps]
             /\ RunReads(r)[1] = Load(Session(r)) /\ RunReads(r)[2] = Load(Diagnostic(r))
             /\ RunReads(r)[3] = Hash(Diagnostic(r)) /\ RunReads(r)[4] = Hash(Session(r))
  <2>1. /\ Load(Session(r)) \in Steps /\ Load(Diagnostic(r)) \in Steps
        /\ Hash(Session(r)) \in Steps /\ Hash(Diagnostic(r)) \in Steps
    BY StepTypes, FileNames
  <2> QED BY <2>1 DEF RunReads
<1>2. ASSUME NEW k \in 1..(4 * RUNS)
      PROVE  (k + 3) \div 4 \in Runs /\ ((k + 3) % 4) + 1 \in 1..4
  BY RunsAssumption DEF Runs
<1>3. ReadRuns \in [1..(4 * RUNS) -> Steps]
  BY <1>1, <1>2 DEF ReadRuns
<1>4. ReadRuns \in Seq(Steps)
  BY <1>3, RunsAssumption
<1>5. ASSUME NEW r \in Runs, NEW n \in 1..4
      PROVE  In(RunReads(r)[n], ReadRuns)
  <2> DEFINE k == 4 * (r - 1) + n
  <2>1. k \in 1..(4 * RUNS) /\ (k + 3) \div 4 = r /\ ((k + 3) % 4) + 1 = n
    BY RunsAssumption DEF Runs
  <2> HIDE DEF k
  <2>2. DOMAIN ReadRuns = 1..(4 * RUNS) /\ ReadRuns[k] = RunReads(r)[n]
    BY <2>1 DEF ReadRuns
  <2> QED BY <2>1, <2>2 DEF In
<1>6. ASSUME NEW r \in Runs
      PROVE  /\ In(Load(Session(r)), ReadRuns) /\ In(Hash(Session(r)), ReadRuns)
             /\ In(Load(Diagnostic(r)), ReadRuns) /\ In(Hash(Diagnostic(r)), ReadRuns)
  <2>1. 1 \in 1..4 /\ 2 \in 1..4 /\ 3 \in 1..4 /\ 4 \in 1..4
    OBVIOUS
  <2> QED BY <1>1, <1>5, <2>1
<1> QED BY <1>4, <1>6

LEMMA CampaignCovers ==
    /\ Script("campaign") \in Seq(Steps)
    /\ \A f \in Sources : In(Load(f), Script("campaign"))
    /\ \A f \in Sources \ {Manifest} : In(Hash(f), Script("campaign"))
<1> DEFINE head == <<Load(Manifest), Load(Policy), Hash(Policy)>>
<1>1. /\ head \in Seq(Steps) /\ In(Load(Manifest), head)
      /\ In(Load(Policy), head) /\ In(Hash(Policy), head)
  BY StepTypes, FileNames, InTriple
<1>2. Script("campaign") = head \o ReadRuns
  BY DEF Script, CampaignScript, head
<1> HIDE DEF head
<1>3. ASSUME NEW s, In(s, head) \/ In(s, ReadRuns) PROVE In(s, Script("campaign"))
  BY <1>1, <1>2, <1>3, ReadRunsCovers, InConcat
<1>4. Script("campaign") \in Seq(Steps)
  BY <1>1, <1>2, ReadRunsCovers, InConcat
<1> QED BY <1>1, <1>3, <1>4, ReadRunsCovers DEF Sources

LEMMA ScriptTypes ==
    ASSUME NEW tool \in Tools
    PROVE  Script(tool) \in Seq(Steps)
<1>1. CASE tool = "package"
  BY <1>1, VerifyBundleCovers DEF Script
<1>2. CASE tool = "request"
  BY <1>2, WriteCovers DEF Script
<1>3. CASE tool = "authorization"
  <2>1. <<Intact(Request), Load(Signature)>> \in Seq(Steps)
    BY StepTypes, FileNames, InPair
  <2> QED BY <1>3, <2>1 DEF Script
<1> QED BY <1>1, <1>2, <1>3, CampaignCovers, ChangeCovers, ProvisioningCovers, ApplyCovers
        DEF Tools

-----------------------------------------------------------------------------
(* The inductive invariant.                                                 *)
LEMMA PassesStable ==
    ASSUME Surroundings' = Surroundings, NEW s
    PROVE  Passes(s)' <=> Passes(s)
  BY DEF Surroundings, Passes, IsRead, Sound, Unchanged, Holder, Holds, Consistent,
         PackageOf, ApprovalBinds, TargetAgrees, Requantised, WellFormedChangePolicy,
         WithinPolicy, StrictWritePolicy, GatesConfirmed, BuiltFor, RecoveryBound,
         Payload, SignatureValid

LEMMA ScriptStable ==
    ASSUME Surroundings' = Surroundings, job'.tool = job.tool
    PROVE  Script(job.tool)' = Script(job.tool)
  BY DEF Surroundings, Script, VerifyWrite, IsRecovery

(* A tool starts, takes a step or ends; otherwise it waits.                 *)
LEMMA JobKinds ==
    ASSUME MonitorNext
    PROVE  \/ \E tool \in Tools : Start(tool)
           \/ Step
           \/ job' = Idle
           \/ job' = job
<1>1. CASE Abandon \/ PublishAny \/ WriteRecord
  BY <1>1 DEF Abandon, PublishAny, WriteRecord, Publish, PublishBundle, PublishPackage,
       PublishChange, PublishProvisioning, PublishRecovery, PublishRequest, PublishAuthorization
<1>2. CASE \/ Approve \/ Sign \/ ApplyPatch \/ CaptureState
           \/ \E f \in Files : EditFile(f)
           \/ \E a \in Artefacts : DamageArtefact(a) \/ Discard(a)
           \/ OtherStationWrites
  BY <1>2 DEF Approve, Sign, ApplyPatch, CaptureState, EditFile, DamageArtefact,
       Discard, OtherStationWrites, Disturb
<1> QED BY <1>1, <1>2 DEF MonitorNext, Next

LEMMA StartTakes ==
    ASSUME NEW tool \in Tools, Start(tool)
    PROVE  /\ job = Idle /\ Surroundings' = Surroundings
           /\ job' = [tool |-> tool, todo |-> Script(tool), seen |-> <<>>]
           /\ job'.tool = tool /\ job'.todo = Script(tool)
           /\ DOMAIN job'.seen = {}
  BY DEF Start, Surroundings

LEMMA StepTakes ==
    ASSUME JobTypeOK, Step
    PROVE  /\ job.todo # <<>> /\ Passes(Head(job.todo)) /\ job.tool \in Tools
           /\ job' = [tool |-> job.tool, todo |-> Tail(job.todo), seen |-> job'.seen]
           /\ job'.seen = IF IsRead(Head(job.todo))
                          THEN Noted(job.seen, Head(job.todo), files[Head(job.todo)[2]])
                          ELSE job.seen
           /\ Surroundings' = Surroundings
           /\ \A s : In(s, job.todo) => s = Head(job.todo) \/ In(s, job'.todo)
<1>1. job.todo # <<>> /\ Passes(Head(job.todo)) /\ Surroundings' = Surroundings
  BY DEF Step, Surroundings
<1>2. job.tool \in Tools
  BY <1>1 DEF JobTypeOK, Idle
<1>3. /\ job' = [tool |-> job.tool, todo |-> Tail(job.todo), seen |-> job'.seen]
      /\ job'.seen = IF IsRead(Head(job.todo))
                     THEN Noted(job.seen, Head(job.todo), files[Head(job.todo)[2]])
                     ELSE job.seen
  BY DEF Step, JobTypeOK
<1>4. job'.todo = Tail(job.todo)
  BY <1>3
<1> QED BY <1>1, <1>2, <1>3, <1>4, InTail DEF JobTypeOK

LEMMA JobTypeStep ==
    ASSUME JobTypeOK, MonitorNext
    PROVE  JobTypeOK'
<1>1. ASSUME NEW tool \in Tools, Start(tool) PROVE JobTypeOK'
  <2>1. Script(tool) \in Seq(Steps)
    BY ScriptTypes
  <2> QED BY <1>1, <2>1, StartTakes DEF JobTypeOK
<1>2. CASE Step
  <2>1. Tail(job.todo) \in Seq(Steps)
    BY <1>2, StepTakes DEF JobTypeOK
  <2> QED BY <1>2, <2>1, StepTakes DEF JobTypeOK
<1>3. CASE job' = Idle
  BY <1>3 DEF JobTypeOK, Idle
<1>4. CASE job' = job
  BY <1>4 DEF JobTypeOK
<1> QED BY <1>1, <1>2, <1>3, <1>4, JobKinds

LEMMA UndisturbedStep ==
    ASSUME JobTypeOK, Undisturbed, MonitorNext
    PROVE  Undisturbed'
<1> SUFFICES ASSUME job'.tool \in Tools, ~touched', NEW s \in Steps,
                    In(s, Script(job.tool)')
             PROVE  In(s, job'.todo) \/ Passes(s)'
  BY DEF Undisturbed, In
<1>0. job' # Idle
  BY DEF Idle, Tools
<1>1. ASSUME NEW tool \in Tools, Start(tool) PROVE In(s, job'.todo)
  <2>1. Script(job.tool)' = Script(tool)
    BY <1>1, StartTakes DEF Surroundings, Script, VerifyWrite, IsRecovery
  <2> QED BY <1>1, <2>1, StartTakes
<1>2. CASE job' = job
  <2>1. ~touched /\ Surroundings' = Surroundings
    BY <1>0, <1>2 DEF MonitorNext
  <2> QED BY <1>2, <2>1, PassesStable, ScriptStable DEF Undisturbed
<1>3. CASE Step
  <2>1. ~touched
    <3>1. job.tool \in Tools
      BY <1>3, StepTakes
    <3>2. job # Idle
      BY <3>1 DEF Idle, Tools
    <3> QED BY <3>2 DEF MonitorNext
  <2>2. In(s, job.todo) \/ Passes(s)
    <3>1. job'.tool = job.tool
      BY <1>3, StepTakes
    <3> QED BY <1>3, <2>1, <3>1, StepTakes, ScriptStable DEF Undisturbed
  <2> QED BY <1>3, <2>2, StepTakes, PassesStable
<1> QED BY <1>0, <1>1, <1>2, <1>3, JobKinds

(* What a tool that nobody disturbed has checked when it ends.              *)
LEMMA Checked ==
    ASSUME Undisturbed, NEW tool \in Tools, Finished(tool), ~touched,
           NEW s \in Steps, In(s, Script(tool))
    PROVE  Passes(s)
<1>1. job.tool = tool /\ job.todo = <<>>
  BY DEF Finished
<1>2. In(s, job.todo) \/ Passes(s)
  BY <1>1 DEF Undisturbed
<1>3. ~In(s, <<>>)
  BY DEF In
<1> QED BY <1>1, <1>2, <1>3

-----------------------------------------------------------------------------
(* What the tools have read.                                                *)
Rereads == {"campaign", "change"}

SeenInv ==
    /\ job.tool \in Rereads =>
         \A s \in Steps : IsRead(s) /\ In(s, Script(job.tool))
             => In(s, job.todo) \/ s \in DOMAIN job.seen
    /\ Load(Approval) \in DOMAIN job.seen =>
         /\ job.seen[Load(Approval)] # Absent
         /\ job.seen[Load(Approval)].package \in reviewed
    /\ job.tool = "campaign" /\ ~raced =>
         \A s \in DOMAIN job.seen : job.seen[s] = files[s[2]]
    /\ Approved \subseteq reviewed

LEMMA FixedScripts ==
    Script("campaign")' = Script("campaign") /\ Script("change")' = Script("change")
  BY DEF Script

LEMMA SeenStep ==
    ASSUME JobTypeOK, SeenInv, MonitorNext
    PROVE  SeenInv'
<1>0. /\ reviewed \subseteq reviewed' /\ (Approved \subseteq reviewed)'
      /\ ~raced' => ~raced /\ (job.tool = "campaign" => files' = files)
  BY DEF MonitorNext
<1>1. ASSUME NEW tool \in Tools, Start(tool) PROVE SeenInv'
  <2>1. job'.tool \in Rereads => job'.todo = Script(job.tool)'
    BY <1>1, StartTakes, FixedScripts DEF Rereads
  <2>2. job'.tool \in Rereads =>
          \A s \in Steps : In(s, Script(job.tool)') => In(s, job'.todo)
    BY <2>1
  <2>3. DOMAIN job'.seen = {}
    BY <1>1, StartTakes
  <2> QED BY <1>0, <2>2, <2>3 DEF SeenInv, In
<1>2. CASE job' = Idle
  <2>1. job'.tool \notin Rereads /\ DOMAIN job'.seen = {}
    BY <1>2 DEF Idle, Rereads
  <2> QED BY <1>0, <2>1 DEF SeenInv, Rereads
<1>3. CASE job' = job
  <2>1. job.tool \in Rereads => Script(job.tool)' = Script(job.tool)
    BY <1>3, FixedScripts DEF Rereads
  <2> QED BY <1>0, <1>3, <2>1 DEF SeenInv, In
<1>4. CASE Step
  <2> DEFINE h == Head(job.todo)
  <2>1. /\ job'.tool = job.tool /\ Passes(h) /\ files' = files
        /\ job'.seen = IF IsRead(h) THEN Noted(job.seen, h, files[h[2]]) ELSE job.seen
        /\ \A s : In(s, job.todo) => s = h \/ In(s, job'.todo)
    BY <1>4, StepTakes DEF Surroundings
  <2> HIDE DEF h
  <2>2. ASSUME NEW s
        PROVE  s \in DOMAIN job'.seen <=> s \in DOMAIN job.seen \/ (s = h /\ IsRead(h))
    BY <2>1 DEF Noted
  <2>3. ASSUME NEW s \in DOMAIN job'.seen
        PROVE  \/ s \in DOMAIN job.seen /\ job'.seen[s] = job.seen[s]
               \/ s = h /\ IsRead(h) /\ job'.seen[s] = files[s[2]]
    BY <2>1, <2>3 DEF Noted
  <2>4. job'.tool \in Rereads =>
          \A s \in Steps : IsRead(s) /\ In(s, Script(job.tool)')
             => In(s, job'.todo) \/ s \in DOMAIN job'.seen
    <3>1. job.tool \in Rereads => Script(job.tool)' = Script(job.tool)
      BY <2>1, FixedScripts DEF Rereads
    <3> QED BY <2>1, <2>2, <3>1 DEF SeenInv
  <2>5. Load(Approval) \in DOMAIN job'.seen =>
          /\ job'.seen[Load(Approval)] # Absent
          /\ job'.seen[Load(Approval)].package \in reviewed'
    <3>1. ASSUME h = Load(Approval)
          PROVE  files[Approval] # Absent /\ files[Approval].package \in reviewed
      <4>1. files[Approval] # Absent
        BY <2>1, <3>1 DEF Passes, IsRead, Load
      <4> QED BY <4>1 DEF SeenInv, Approved
    <3>2. Load(Approval)[2] = Approval
      BY DEF Load
    <3> QED BY <1>0, <2>3, <3>1, <3>2 DEF SeenInv
  <2>6. job'.tool = "campaign" /\ ~raced' =>
          \A s \in DOMAIN job'.seen : job'.seen[s] = files'[s[2]]
    BY <1>0, <2>1, <2>3 DEF SeenInv
  <2> QED BY <1>0, <2>4, <2>5, <2>6 DEF SeenInv, In, IsRead
<1> QED BY <1>1, <1>2, <1>3, <1>4, JobKinds

(* What a campaign or a change tool has read when it ends.                  *)
LEMMA HasRead ==
    ASSUME SeenInv, NEW tool \in Rereads, Finished(tool), NEW s \in Steps,
           IsRead(s), In(s, Script(tool))
    PROVE  s \in DOMAIN job.seen
<1>1. job.tool = tool /\ job.todo = <<>> /\ ~In(s, <<>>)
  BY DEF Finished, In
<1> QED BY <1>1 DEF SeenInv

-----------------------------------------------------------------------------
(* What the artefacts hold.                                                 *)
FromApproved(body) ==
    \E package \in reviewed : body = Rounded(package.candidate) /\ package.root.review.ready

ReadyInv ==
    job.tool = "package" =>
        \/ In(Check("ready"), job.todo)
        \/ artefacts[Bundle] = Absent
        \/ artefacts[Bundle].review.ready

BundleInv ==
    artefacts[Bundle] # Absent /\ ~raced
        => artefacts[Bundle].review = Recomputed(artefacts[Bundle])

PackageInv == artefacts[Package] # Absent => artefacts[Package].root.review.ready

ChangeInv == artefacts[Change] # Absent => FromApproved(artefacts[Change].profile.body)

ProvisioningInv ==
    artefacts[Provisioning] # Absent =>
        LET prov == artefacts[Provisioning] IN
        /\ FromApproved(prov.record.body)
        /\ prov.intent # Absent => prov.record.body # prov.intent.body

ArtefactTypeOK == artefacts = [a \in Artefacts |-> artefacts[a]]

ArtefactInv ==
    ArtefactTypeOK /\ ReadyInv /\ BundleInv /\ PackageInv /\ ChangeInv /\ ProvisioningInv

LEMMA PublishPuts ==
    ASSUME ArtefactTypeOK, NEW a \in Artefacts, NEW content, Publish(a, content)
    PROVE  /\ ArtefactTypeOK' /\ artefacts'[a] = content
           /\ \A b \in Artefacts \ {a} : artefacts'[b] = artefacts[b]
           /\ job' = Idle /\ files' = files
  BY DEF Publish, ArtefactTypeOK

LEMMA ArtefactNames ==
    /\ Artefacts = {Bundle, Package, Change, Provisioning, Request, Authorization}
    /\ Bundle \notin {Package, Change, Provisioning, Request, Authorization}
    /\ Package \notin {Change, Provisioning, Request, Authorization}
    /\ Change \notin {Provisioning, Request, Authorization}
    /\ Provisioning \notin {Request, Authorization}
  BY DEF Artefacts, Bundle, Package, Change, Provisioning, Request, Authorization

(* An artefact stays, is deleted, or is published by its own tool.          *)
LEMMA ArtefactsStep ==
    ASSUME ArtefactTypeOK, MonitorNext
    PROVE  /\ ArtefactTypeOK'
           /\ artefacts'[Bundle] \in {Absent, artefacts[Bundle]} \/ PublishBundle
           /\ artefacts'[Package] \in {Absent, artefacts[Package]} \/ PublishPackage
           /\ artefacts'[Change] \in {Absent, artefacts[Change]} \/ PublishChange
           /\ \/ artefacts'[Provisioning] \in {Absent, artefacts[Provisioning]}
              \/ PublishProvisioning \/ PublishRecovery
<1>1. CASE artefacts' = artefacts
  BY <1>1 DEF ArtefactTypeOK
<1>2. ASSUME NEW a \in Artefacts, artefacts' = [artefacts EXCEPT ![a] = Absent]
      PROVE  ArtefactTypeOK' /\ \A b \in Artefacts : artefacts'[b] \in {Absent, artefacts[b]}
  BY <1>2 DEF ArtefactTypeOK
<1>3. CASE PublishBundle
  BY <1>3, PublishPuts, ArtefactNames DEF PublishBundle
<1>4. CASE PublishPackage
  BY <1>4, PublishPuts, ArtefactNames DEF PublishPackage
<1>5. CASE PublishChange
  BY <1>5, PublishPuts, ArtefactNames DEF PublishChange
<1>6. CASE PublishProvisioning
  <2>1. PICK n \in 1..MAX_SEQUENCE :
          Publish(Provisioning, ProvisioningOf(n, job.seen, Absent))
    BY <1>6 DEF PublishProvisioning
  <2> QED BY <1>6, <2>1, PublishPuts, ArtefactNames
<1>7. CASE PublishRecovery
  <2>1. PICK content : Publish(Provisioning, content)
    BY <1>7 DEF PublishRecovery
  <2> QED BY <1>7, <2>1, PublishPuts, ArtefactNames
<1>8. CASE PublishRequest \/ PublishAuthorization
  <2>1. PICK a \in {Request, Authorization} : \E content : Publish(a, content)
    BY <1>8 DEF PublishRequest, PublishAuthorization
  <2> QED BY <2>1, PublishPuts, ArtefactNames
<1>9. \/ PublishAny \/ artefacts' = artefacts
      \/ \E a \in Artefacts : artefacts' = [artefacts EXCEPT ![a] = Absent]
  <2>1. CASE (\E tool \in Tools : Start(tool)) \/ Step \/ Abandon \/ WriteRecord
    BY <2>1 DEF Start, Step, Abandon, WriteRecord
  <2>2. CASE \/ Approve \/ Sign \/ ApplyPatch \/ CaptureState
             \/ \E f \in Files : EditFile(f)
             \/ \E a \in Artefacts : DamageArtefact(a) \/ Discard(a)
             \/ OtherStationWrites
    BY <2>2 DEF Approve, Sign, ApplyPatch, CaptureState, EditFile, DamageArtefact, Discard,
         OtherStationWrites, Disturb
  <2> QED BY <2>1, <2>2 DEF MonitorNext, Next
<1> QED BY <1>1, <1>2, <1>3, <1>4, <1>5, <1>6, <1>7, <1>8, <1>9, ArtefactNames DEF PublishAny

(* While the package tool runs, the bundle it checked may go but not change. *)
LEMMA ReadyStep ==
    ASSUME JobTypeOK, ArtefactTypeOK, ReadyInv, MonitorNext
    PROVE  ReadyInv'
<1>1. ASSUME NEW tool \in Tools, Start(tool) PROVE ReadyInv'
  <2>1. tool = "package" => In(Check("ready"), job'.todo)
    BY <1>1, StartTakes, VerifyBundleCovers DEF Script
  <2> QED BY <1>1, <2>1, StartTakes DEF ReadyInv, In
<1>2. CASE Step
  <2>1. /\ job'.tool = job.tool /\ artefacts' = artefacts /\ Passes(Head(job.todo))
        /\ \A s : In(s, job.todo) => s = Head(job.todo) \/ In(s, job'.todo)
    BY <1>2, StepTakes DEF Surroundings
  <2>2. Passes(Check("ready")) => artefacts[Bundle].review.ready
    BY DEF Passes, IsRead, Check, Holds
  <2> QED BY <2>1, <2>2 DEF ReadyInv, In
<1>3. CASE job' = Idle
  BY <1>3 DEF ReadyInv, Idle
<1>4. CASE job' = job
  <2>1. PublishBundle => job' = Idle
    BY PublishPuts, ArtefactNames DEF PublishBundle
  <2>2. job'.tool = "package" => artefacts'[Bundle] \in {Absent, artefacts[Bundle]}
    BY <2>1, ArtefactsStep DEF Idle
  <2> QED BY <1>4, <2>2 DEF ReadyInv, In
<1> QED BY <1>1, <1>2, <1>3, <1>4, JobKinds

(* What a campaign computed is what its recorded sources give: it read each *)
(* of them twice, and both times the same.                                  *)
LEMMA BundleStep ==
    ASSUME JobTypeOK, SeenInv, ArtefactTypeOK, BundleInv, MonitorNext
    PROVE  BundleInv'
<1>0. ~raced' => ~raced
  BY DEF MonitorNext
<1>1. CASE artefacts'[Bundle] \in {Absent, artefacts[Bundle]}
  BY <1>0, <1>1 DEF BundleInv, Recomputed
<1>2. CASE PublishBundle
  <2> SUFFICES ASSUME ~raced PROVE artefacts'[Bundle].review = Recomputed(artefacts'[Bundle])
    BY <1>0 DEF BundleInv, Recomputed
  <2> DEFINE bundle == BundleOf(job.seen)
  <2>1. Finished("campaign") /\ artefacts'[Bundle] = bundle
    BY <1>2, PublishPuts, ArtefactNames DEF PublishBundle
  <2>2. ASSUME NEW f \in Sources \ {Manifest}
        PROVE  bundle.hash[f] = job.seen[Load(f)]
    <3>1. f \in Files /\ Load(f) \in Steps /\ Hash(f) \in Steps
          /\ IsRead(Load(f)) /\ IsRead(Hash(f))
      BY StepTypes, FileNames DEF Files, IsRead, Load, Hash
    <3>2. Load(f) \in DOMAIN job.seen /\ Hash(f) \in DOMAIN job.seen
      BY <2>1, <3>1, CampaignCovers, HasRead DEF Rereads
    <3>3. job.seen[Load(f)] = files[f] /\ job.seen[Hash(f)] = files[f]
      BY <2>1, <3>2 DEF SeenInv, Finished, Load, Hash
    <3> QED BY <3>3 DEF BundleOf
  <2>3. /\ Policy \in Sources \ {Manifest}
        /\ \A r \in Runs : /\ Session(r) \in Sources \ {Manifest}
                           /\ Diagnostic(r) \in Sources \ {Manifest}
    BY DEF Sources, Policy, Manifest, Session, Diagnostic
  <2>4. /\ bundle.hash[Policy] = job.seen[Load(Policy)]
        /\ \A r \in Runs : /\ bundle.hash[Session(r)] = job.seen[Load(Session(r))]
                           /\ bundle.hash[Diagnostic(r)] = job.seen[Load(Diagnostic(r))]
    BY <2>2, <2>3
  <2>5. bundle.review = Review(Captured(job.seen), job.seen[Load(Policy)])
    BY DEF BundleOf
  <2> HIDE DEF bundle
  <2>6. [r \in Runs |-> Proposal(Capture(bundle.hash[Session(r)], bundle.hash[Diagnostic(r)]))]
          = Captured(job.seen)
    BY <2>4 DEF Captured
  <2> QED BY <2>1, <2>4, <2>5, <2>6 DEF Recomputed
<1> QED BY <1>1, <1>2, ArtefactsStep

LEMMA PackageStep ==
    ASSUME JobTypeOK, ArtefactTypeOK, ReadyInv, PackageInv, MonitorNext
    PROVE  PackageInv'
<1>1. CASE artefacts'[Package] \in {Absent, artefacts[Package]}
  BY <1>1 DEF PackageInv
<1>2. CASE PublishPackage
  <2>1. /\ Finished("package") /\ artefacts[Bundle] # Absent
        /\ artefacts'[Package] = PackageOf(artefacts[Bundle])
    BY <1>2, PublishPuts, ArtefactNames DEF PublishPackage
  <2>2. artefacts[Bundle].review.ready
    BY <2>1 DEF ReadyInv, Finished, In
  <2> QED BY <2>1, <2>2 DEF PackageInv, PackageOf
<1> QED BY <1>1, <1>2, ArtefactsStep

LEMMA ChangeStep ==
    ASSUME JobTypeOK, SeenInv, ArtefactTypeOK, PackageInv, ChangeInv, MonitorNext
    PROVE  ChangeInv'
<1>0. reviewed \subseteq reviewed'
  BY DEF MonitorNext
<1>1. CASE artefacts'[Change] \in {Absent, artefacts[Change]}
  BY <1>0, <1>1 DEF ChangeInv, FromApproved
<1>2. CASE PublishChange
  <2> DEFINE package == artefacts[Package]
  <2>1. /\ Finished("change") /\ package # Absent /\ ChangeAccepts(job.seen)
        /\ artefacts'[Change] = ChangeOf(job.seen)
    BY <1>2, PublishPuts, ArtefactNames DEF PublishChange
  <2>2. Load(Approval) \in DOMAIN job.seen
    <3>1. Load(Approval) \in Steps /\ IsRead(Load(Approval))
      BY StepTypes, FileNames DEF IsRead, Load
    <3> QED BY <2>1, <3>1, ChangeCovers, HasRead DEF Rereads
  <2>3. package \in reviewed
    BY <2>1, <2>2 DEF SeenInv, ChangeAccepts, ApprovalBinds
  <2>4. package.root.review.ready
    BY <2>1 DEF PackageInv
  <2>5. artefacts'[Change].profile.body = Rounded(package.candidate)
    BY <2>1 DEF ChangeOf, Quantised
  <2> QED BY <1>0, <2>3, <2>4, <2>5 DEF ChangeInv, FromApproved
<1> QED BY <1>1, <1>2, ArtefactsStep

LEMMA ProvisioningStep ==
    ASSUME ArtefactTypeOK, ChangeInv, ProvisioningInv, MonitorNext
    PROVE  ProvisioningInv'
<1>0. reviewed \subseteq reviewed'
  BY DEF MonitorNext
<1>1. CASE artefacts'[Provisioning] \in {Absent, artefacts[Provisioning]}
  BY <1>0, <1>1 DEF ProvisioningInv, FromApproved
<1>2. ASSUME NEW n, NEW intent, artefacts[Change] # Absent,
             intent # Absent => artefacts[Change].profile.body # intent.body,
             artefacts'[Provisioning] = ProvisioningOf(n, job.seen, intent)
      PROVE  ProvisioningInv'
  <2>1. /\ artefacts'[Provisioning].record.body = artefacts[Change].profile.body
        /\ artefacts'[Provisioning].intent = intent
    BY <1>2 DEF ProvisioningOf, NumberedRecord
  <2>2. PICK package \in reviewed : /\ artefacts[Change].profile.body = Rounded(package.candidate)
                                    /\ package.root.review.ready
    BY <1>2 DEF ChangeInv, FromApproved
  <2> QED BY <1>0, <1>2, <2>1, <2>2 DEF ProvisioningInv, FromApproved
<1>3. CASE PublishProvisioning
  <2>1. PICK n \in 1..MAX_SEQUENCE :
          artefacts'[Provisioning] = ProvisioningOf(n, job.seen, Absent)
    BY <1>3, PublishPuts, ArtefactNames DEF PublishProvisioning
  <2>2. artefacts[Change] # Absent
    BY <1>3 DEF PublishProvisioning
  <2> QED BY <1>2, <2>1, <2>2
<1>4. CASE PublishRecovery
  <2> DEFINE active == job.seen[<<"active", DeviceState>>].record
  <2>1. /\ artefacts'[Provisioning] = ProvisioningOf(active.sequence + 1, job.seen, active)
        /\ artefacts[Change] # Absent /\ active.body # artefacts[Change].profile.body
    BY <1>4, PublishPuts, ArtefactNames DEF PublishRecovery, RecoveryAccepts
  <2> HIDE DEF active
  <2> QED BY <1>2, <2>1
<1> QED BY <1>1, <1>3, <1>4, ArtefactsStep

-----------------------------------------------------------------------------
EvidenceInv == JobTypeOK /\ Undisturbed /\ SeenInv /\ ArtefactInv

(* What a running tool has checked or read stays true as long as nobody     *)
(* touches its surroundings, and what it publishes is of approved and ready *)
(* evidence, whoever edits, deletes or rebuilds what around it.             *)
THEOREM EvidenceInvariant == MonitorSpec => []EvidenceInv
<1>1. MonitorInit => EvidenceInv
  <2> SUFFICES ASSUME MonitorInit PROVE EvidenceInv
    OBVIOUS
  <2>1. JobTypeOK /\ Undisturbed
    BY DEF MonitorInit, Init, Idle, JobTypeOK, Undisturbed, Tools
  <2>2. SeenInv
    <3>1. job.tool = "none" /\ DOMAIN job.seen = {} /\ reviewed = Approved
      BY DEF MonitorInit, Init, Idle
    <3> QED BY <3>1 DEF SeenInv, Rereads
  <2>3. ArtefactInv
    <3>1. ArtefactTypeOK /\ job.tool = "none" /\ \A a \in Artefacts : artefacts[a] = Absent
      BY DEF MonitorInit, Init, Idle, ArtefactTypeOK
    <3> QED BY <3>1, ArtefactNames
            DEF ArtefactInv, ReadyInv, BundleInv, PackageInv, ChangeInv, ProvisioningInv
  <2> QED BY <2>1, <2>2, <2>3 DEF EvidenceInv
<1>2. EvidenceInv /\ [MonitorNext]_monitorVars => EvidenceInv'
  <2>1. ASSUME EvidenceInv, MonitorNext PROVE EvidenceInv'
    BY <2>1, JobTypeStep, UndisturbedStep, SeenStep, ArtefactsStep, ReadyStep, BundleStep,
       PackageStep, ChangeStep, ProvisioningStep DEF EvidenceInv, ArtefactInv
  <2>2. ASSUME EvidenceInv, UNCHANGED monitorVars PROVE EvidenceInv'
    <3> USE <2>2 DEF monitorVars, vars
    <3>1. Surroundings' = Surroundings /\ job' = job
      BY DEF Surroundings
    <3>2. JobTypeOK' /\ Undisturbed'
      BY <3>1, PassesStable, ScriptStable DEF EvidenceInv, JobTypeOK, Undisturbed, In
    <3>3. SeenInv'
      BY <3>1, ScriptStable DEF EvidenceInv, SeenInv, In, IsRead, Approved
    <3>4. ArtefactInv'
      BY DEF EvidenceInv, ArtefactInv, ArtefactTypeOK, ReadyInv, BundleInv, PackageInv,
         ChangeInv, ProvisioningInv, FromApproved, Recomputed, In
    <3> QED BY <3>2, <3>3, <3>4 DEF EvidenceInv
  <2> QED BY <2>1, <2>2
<1> QED BY <1>1, <1>2, PTL DEF MonitorSpec

(* No drift since the chain recorded it reaches the device: see             *)
(* DriftBlocksWrite (tools/run_physical_calibration_provisioning.py and the *)
(* verifications it calls).                                                 *)
THEOREM NoDriftIsWritten == MonitorSpec => DriftBlocksWrite
<1> DEFINE Drift ==
      WriteRecord /\ ~touched =>
         /\ \A f \in Sources \cup {Approval, ChangePolicy, Safety, DeviceState} : Recorded(f)
         /\ StrictWritePolicy(files[WritePolicy])
         /\ WithinPolicy(device'.sequence, files[WritePolicy])
         /\ Written \cap damaged = {}
         /\ files[Target] \in {Absent, artefacts[Change].profile}
         /\ files[Approval].package = artefacts[Package]
<1>1. EvidenceInv /\ [MonitorNext]_monitorVars => [Drift]_monitorVars
  <2> SUFFICES ASSUME Undisturbed, WriteRecord, ~touched PROVE Drift
    BY DEF EvidenceInv
  <2>0. ASSUME NEW s \in Steps, In(s, Script("apply"))
        PROVE  Passes(s)
    BY <2>0, Checked DEF WriteRecord, Tools
  <2>1. ASSUME NEW s \in Steps, In(s, VerifyProvisioning)
        PROVE  Passes(s)
    BY <2>0, <2>1, WriteCovers, ApplyCovers
  <2>2. ASSUME NEW f \in Sources \cup {Approval, ChangePolicy, Safety, DeviceState}
        PROVE  Recorded(f)
    <3>1. f \in Files /\ Match(f) \in Steps
      BY FileNames, StepTypes DEF Files
    <3>2. In(Match(f), VerifyProvisioning)
      BY VerifyDerivationCovers, VerifyProvisioningCovers
    <3>3. Passes(Match(f))
      BY <2>1, <3>1, <3>2
    <3> QED BY <3>3 DEF Passes, IsRead, Match, Unchanged, Recorded
  <2>3. ASSUME NEW a \in Written
        PROVE  a \notin damaged
    <3>1. a \in Artefacts /\ Intact(a) \in Steps
      BY FileNames, StepTypes DEF Written
    <3>2. In(Intact(a), Script("apply"))
      BY VerifyDerivationCovers, VerifyProvisioningCovers, WriteCovers, ApplyCovers DEF Written
    <3>3. Passes(Intact(a))
      BY <2>0, <3>1, <3>2
    <3> QED BY <3>3 DEF Passes, IsRead, Intact, Sound
  <2>4. Holds("strict") /\ Holds("in policy") /\ Holds("target") /\ Holds("bound")
    <3>1. Passes(Check("strict")) /\ Passes(Check("in policy"))
          /\ Passes(Check("target")) /\ Passes(Check("bound"))
      BY <2>0, <2>1, CheckTypes, WriteCovers, ApplyCovers, VerifyDerivationCovers,
         VerifyProvisioningCovers
    <3> QED BY <3>1 DEF Passes, IsRead, Check
  <2>5. StrictWritePolicy(files[WritePolicy])
    BY <2>4 DEF Holds
  <2>6. WithinPolicy(device'.sequence, files[WritePolicy])
    BY <2>4 DEF Holds, WriteRecord
  <2>7. files[Target] \in {Absent, artefacts[Change].profile}
    BY <2>4 DEF Holds, TargetAgrees
  <2>8. files[Approval].package = artefacts[Package]
    BY <2>4 DEF Holds, ApprovalBinds
  <2> QED BY <2>2, <2>3, <2>5, <2>6, <2>7, <2>8
<1> QED BY <1>1, EvidenceInvariant, PTL DEF MonitorSpec, DriftBlocksWrite

(* Nothing is written that no reviewer approved, or that was not ready for  *)
(* review, whatever is edited, deleted and rebuilt along the chain          *)
(* (verify_source_derivation, verify_provisioning_bundle).                  *)
THEOREM ApprovedIsWritten == MonitorSpec => WrittenAsApproved
<1> DEFINE Write ==
      WriteRecord => \E package \in reviewed :
                        /\ device'.body = Rounded(package.candidate)
                        /\ package.root.review.ready
<1>1. EvidenceInv /\ [MonitorNext]_monitorVars => [Write]_monitorVars
  BY DEF EvidenceInv, ArtefactInv, ProvisioningInv, FromApproved, WriteRecord
<1> QED BY <1>1, EvidenceInvariant, PTL DEF MonitorSpec, WrittenAsApproved

(* A capture of the device is good for one write, and a recovery for the    *)
(* very record it was bound to (NoStaleWrite; apply_signed_provisioning,    *)
(* validate_recovery_runtime_binding).                                      *)
THEOREM CaptureIsUsedOnce == MonitorSpec => NoStaleWrite
<1> DEFINE Write ==
      WriteRecord =>
         LET prov == artefacts[Provisioning] IN
         /\ device'.sequence > device.sequence
         /\ ~touched => device.sequence = prov.hash[DeviceState].record.sequence
         /\ prov.intent # Absent =>
              /\ ~touched => device = prov.hash[DeviceState].record
              /\ device'.sequence = device.sequence + 1
              /\ device'.body # device.body
<1>1. EvidenceInv /\ [MonitorNext]_monitorVars => [Write]_monitorVars
  <2> SUFFICES ASSUME EvidenceInv, WriteRecord PROVE Write
    OBVIOUS
  <2> DEFINE prov == artefacts[Provisioning]
  <2>1. /\ prov # Absent /\ device.sequence = prov.installed /\ device' = prov.record
        /\ prov.record.sequence > device.sequence
        /\ prov.intent # Absent => LiveRecordBound(prov)
    BY DEF WriteRecord
  <2>2. prov.intent # Absent =>
          /\ device = prov.intent /\ device'.sequence = device.sequence + 1
          /\ device'.body # device.body
    BY <2>1 DEF LiveRecordBound, EvidenceInv, ArtefactInv, ProvisioningInv
  <2>3. ASSUME ~touched, NEW s \in Steps, In(s, VerifyWrite)
        PROVE  Passes(s)
    BY <2>3, ApplyCovers, Checked DEF EvidenceInv, WriteRecord, Tools
  <2>4. ASSUME ~touched
        PROVE  /\ prov.hash[DeviceState] = files[DeviceState]
               /\ BuiltFor(prov, files[DeviceState])
    <3>1. Match(DeviceState) \in Steps /\ Check("installed") \in Steps
      BY StepTypes, CheckTypes, FileNames
    <3>2. Passes(Match(DeviceState)) /\ Passes(Check("installed"))
      BY <2>3, <2>4, <3>1, VerifyProvisioningCovers, WriteCovers
    <3>3. Holder(DeviceState) = Provisioning
      BY DEF Holder, DeviceState, Sources, Manifest, Policy, Session, Diagnostic
    <3> QED BY <3>2, <3>3 DEF Passes, IsRead, Match, Check, Unchanged, Holds
  <2>5. ASSUME ~touched, prov.intent # Absent
        PROVE  prov.intent = files[DeviceState].record
    <3>1. IsRecovery /\ Check("recovery") \in Steps
      BY <2>1, <2>5, CheckTypes DEF IsRecovery
    <3>2. Passes(Check("recovery"))
      BY <2>3, <2>5, <3>1, WriteCovers
    <3> QED BY <3>2 DEF Passes, IsRead, Check, Holds, RecoveryBound
  <2> QED BY <2>1, <2>2, <2>4, <2>5 DEF BuiltFor
<1> QED BY <1>1, EvidenceInvariant, PTL DEF MonitorSpec, NoStaleWrite

(* The record of a package comes from the very sources whose hashes the     *)
(* bundle holds (ProfileTracesToEvidence; verify_source_derivation), once   *)
(* the campaign has read each of them the same twice.                       *)
THEOREM ProfileIsTraced == MonitorSpec => ProfileTracesToEvidence
<1> DEFINE Trace ==
      PublishProvisioning /\ ~touched /\ ~raced =>
         artefacts[Change].profile.body = Rounded(Recomputed(artefacts[Bundle]).candidate)
<1>1. EvidenceInv /\ [MonitorNext]_monitorVars => [Trace]_monitorVars
  <2> SUFFICES ASSUME EvidenceInv, PublishProvisioning, ~touched, ~raced PROVE Trace
    OBVIOUS
  <2>1. Holds("package") /\ Holds("requantised")
    <3>1. Passes(Check("package")) /\ Passes(Check("requantised"))
      BY CheckTypes, VerifyDerivationCovers, ProvisioningCovers, Checked
      DEF EvidenceInv, PublishProvisioning, Tools
    <3> QED BY <3>1 DEF Passes, IsRead, Check
  <2>2. /\ artefacts[Bundle] # Absent
        /\ artefacts[Package].candidate = artefacts[Bundle].review.candidate
    BY <2>1 DEF Holds, PackageOf
  <2>3. artefacts[Change].profile.body = Rounded(artefacts[Package].candidate)
    BY <2>1 DEF Holds, Requantised, Quantised
  <2>4. artefacts[Bundle].review = Recomputed(artefacts[Bundle])
    BY <2>2 DEF EvidenceInv, ArtefactInv, BundleInv
  <2> QED BY <2>2, <2>3, <2>4
<1> QED BY <1>1, EvidenceInvariant, PTL DEF MonitorSpec, ProfileTracesToEvidence
=============================================================================
