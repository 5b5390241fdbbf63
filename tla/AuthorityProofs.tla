-------------------------- MODULE AuthorityProofs --------------------------
(***************************************************************************)
(* Proofs about AuthorityTransition for any number of stations, keys,      *)
(* entries and requests.  An entry on its way into the ledger is tied to   *)
(* the entry it was checked against (JobOK); because entries are only ever *)
(* added, and only one station at a time owns the file of the next number, *)
(* that entry is still the last one when the file is complete.             *)
(***************************************************************************)
EXTENDS AuthorityTransition, TLAPS

Report ==
    [kind : {"write_commit", "recovery_commit", "reboot_verified"}, head : Nat,
     count : Nat, from : 0 .. MAX_SEQUENCE, to : 0 .. MAX_SEQUENCE, signer : Keys]
Request ==
    [head : Nat, count : Nat, state : DeviceState, new : Keys, clean : BOOLEAN,
     pin : Keys, edited : BOOLEAN]
Events ==
    {"genesis", "write_commit", "recovery_commit", "reboot_verified",
     "authority_transition"}
Evidence == Report \cup Request \cup {NoEvidence}
Entry ==
    [event : Events, previous : Nat, hash : Nat, before : DeviceState,
     after : DeviceState, evidence : Evidence]
Core ==
    [event : Events, previous : Nat, before : DeviceState, after : DeviceState,
     evidence : Evidence]

WriteJob == [phase : {"write"}, head : Nat, count : Nat, state : DeviceState]
BuildJob ==
    [phase : {"sdkconfig", "checkout", "hash"}, head : Nat, count : Nat,
     state : DeviceState, new : Keys, edits : Nat]
AppendJob == [phase : {"bound", "checked", "writing"}, index : Nat, entry : Core]
Jobs == {Idle} \cup WriteJob \cup BuildJob \cup AppendJob

TypeOK ==
    /\ entries \in Seq(Entry) /\ torn \in Stations \cup {NoOne, Left} /\ written \in Nat
    /\ device \in DeviceState /\ held \subseteq DeviceState /\ captures \subseteq DeviceState
    /\ reports \subseteq Report /\ requests \subseteq Request
    /\ signatures \subseteq Request \X Keys /\ packages \subseteq Request
    /\ clean \in BOOLEAN /\ pin \in Keys /\ edits \in Nat
    /\ job \in [Stations -> Jobs]

-----------------------------------------------------------------------------
(* The inductive invariant *)

\* A package states reviewed sources and the key it installs.
Reviewed(r) == r.edited \/ (r.clean /\ r.pin = r.new)

\* What an entry says is true and, if it changes the authority, signed for.
Sound(f) ==
    /\ f.after \in held
    /\ f.event = "authority_transition" =>
          /\ SignedByBoth(f.evidence)
          /\ f.evidence.edited \/ (f.evidence.clean /\ f.evidence.pin = f.after.authority)

\* f was checked against e as entry number i of the ledger.
Follows(e, i, f) ==
    /\ f.previous = e.hash /\ f.before = e.after
    /\ Permitted(f.event, f.before, f.after)
    /\ f.evidence.head = e.hash /\ f.evidence.count = i - 1

LedgerOK ==
    /\ entries # <<>> => Genesis(entries[1])
    /\ \A i \in 1 .. Len(entries) : Sound(entries[i])
    /\ \A i \in 2 .. Len(entries) : Follows(entries[i - 1], i, entries[i])

Appending(s) == job[s].phase \in {"bound", "checked", "writing"}

AppendOK(s) ==
    Appending(s) =>
        /\ job[s].index \in 2 .. (Len(entries) + 1)
        /\ Sound(job[s].entry)
        /\ Follows(entries[job[s].index - 1], job[s].index, job[s].entry)
        /\ job[s].phase = "writing" => torn = s /\ job[s].index = Len(entries) + 1

BuildOK(s) ==
    job[s].phase \in {"sdkconfig", "checkout", "hash"} =>
        /\ job[s].edits <= edits
        /\ job[s].phase # "sdkconfig" /\ edits = job[s].edits => pin = job[s].new
        /\ job[s].phase = "hash" /\ edits = job[s].edits => clean

DeviceOK == device \in held /\ captures \subseteq held

EvidenceOK ==
    /\ \A r \in reports : [sequence |-> r.to, authority |-> r.signer] \in held
    /\ \A r \in requests : Reviewed(r)
    /\ packages \subseteq requests
    /\ \A r \in packages : SignedByBoth(r)

IInv ==
    /\ TypeOK /\ LedgerOK /\ DeviceOK /\ EvidenceOK
    /\ \A s \in Stations : AppendOK(s) /\ BuildOK(s)

-----------------------------------------------------------------------------
(* Types *)

LEMMA LastIsEntry ==
    ASSUME TypeOK, entries # <<>>
    PROVE  /\ Len(entries) \in Nat \ {0} /\ Last \in Entry
           /\ Last.after \in DeviceState /\ Last.hash \in Nat
  <1>1. entries \in Seq(Entry) BY DEF TypeOK
  <1>2. Len(entries) \in Nat \ {0} /\ Last \in Entry BY <1>1 DEF Last
  <1> QED BY <1>2 DEF Entry

LEMMA VerifiedNotEmpty == VerifyLedger => entries # <<>> /\ torn = NoOne
  BY DEF VerifyLedger, Verifies

LEMMA JobTypes ==
    ASSUME TypeOK, NEW s \in Stations
    PROVE  /\ job[s] \in Jobs
           /\ job[s].phase = "write" => job[s] \in WriteJob
           /\ job[s].phase \in {"sdkconfig", "checkout", "hash"} => job[s] \in BuildJob
           /\ Appending(s) => job[s] \in AppendJob
  <1>1. job[s] \in Jobs BY DEF TypeOK
  <1> QED BY <1>1 DEF Jobs, Idle, WriteJob, BuildJob, AppendJob, Appending

LEMMA OneJob ==
    ASSUME TypeOK, NEW s \in Stations, NEW j \in Jobs, job' = [job EXCEPT ![s] = j]
    PROVE  /\ job' \in [Stations -> Jobs] /\ job'[s] = j
           /\ \A t \in Stations \ {s} : job'[t] = job[t]
  BY DEF TypeOK

-----------------------------------------------------------------------------
(* What stays true of the parts an action leaves alone *)

LEMMA LedgerFrame ==
    ASSUME LedgerOK, entries' = entries, held \subseteq held',
           signatures \subseteq signatures'
    PROVE  LedgerOK'
  BY DEF LedgerOK, Sound, SignedByBoth, Follows

LEMMA AppendFrame ==
    ASSUME NEW s \in Stations, AppendOK(s), job'[s] = job[s], entries' = entries,
           held \subseteq held', signatures \subseteq signatures', torn' = torn
    PROVE  AppendOK(s)'
  BY DEF AppendOK, Appending, Sound, SignedByBoth, Follows

LEMMA BuildFrame ==
    ASSUME NEW s \in Stations, BuildOK(s), job'[s] = job[s], UNCHANGED build_vars
    PROVE  BuildOK(s)'
  BY DEF BuildOK, build_vars

LEMMA ReportsFrame ==
    ASSUME EvidenceOK, UNCHANGED transition_vars, reports' = reports,
           held \subseteq held'
    PROVE  EvidenceOK'
  BY DEF EvidenceOK, transition_vars, SignedByBoth

\* The jobs when one station takes up another and the ledger rests.
LEMMA JobsFrame ==
    ASSUME IInv, NEW s \in Stations, NEW j \in Jobs, job' = [job EXCEPT ![s] = j],
           entries' = entries, torn' = torn, held \subseteq held',
           signatures \subseteq signatures', UNCHANGED build_vars,
           AppendOK(s)', BuildOK(s)'
    PROVE  \A t \in Stations : AppendOK(t)' /\ BuildOK(t)'
  <1>1. \A t \in Stations \ {s} : job'[t] = job[t] BY OneJob DEF IInv
  <1> SUFFICES ASSUME NEW t \in Stations \ {s} PROVE AppendOK(t)' /\ BuildOK(t)'
    OBVIOUS
  <1>2. AppendOK(t)' BY <1>1, AppendFrame DEF IInv
  <1>3. BuildOK(t)' BY <1>1, BuildFrame DEF IInv
  <1> QED BY <1>2, <1>3

\* The jobs when none is touched and the ledger rests.
LEMMA NoJobFrame ==
    ASSUME IInv, job' = job, entries' = entries, torn' = torn, held \subseteq held',
           signatures \subseteq signatures', UNCHANGED build_vars
    PROVE  \A t \in Stations : AppendOK(t)' /\ BuildOK(t)'
  <1> SUFFICES ASSUME NEW t \in Stations PROVE AppendOK(t)' /\ BuildOK(t)'
    OBVIOUS
  <1>2. AppendOK(t)' BY AppendFrame DEF IInv
  <1>3. BuildOK(t)' BY BuildFrame DEF IInv
  <1> QED BY <1>2, <1>3

-----------------------------------------------------------------------------
(* The device *)

LEMMA InstallStep ==
    ASSUME IInv, NEW k \in Keys, InstallImage(k)
    PROVE  IInv'
  <1> USE DEF InstallImage
  <1>1. device' \in DeviceState BY DEF IInv, TypeOK, DeviceState
  <1>2. TypeOK'
    BY <1>1 DEF IInv, TypeOK, ledger_vars, transition_vars, build_vars
  <1>3. LedgerOK' BY LedgerFrame DEF IInv, ledger_vars, transition_vars
  <1>4. DeviceOK' BY DEF IInv, DeviceOK
  <1>5. EvidenceOK' BY ReportsFrame DEF IInv
  <1>6. \A t \in Stations : AppendOK(t)' /\ BuildOK(t)'
    BY NoJobFrame DEF ledger_vars, transition_vars
  <1> QED BY <1>2, <1>3, <1>4, <1>5, <1>6 DEF IInv

LEMMA CaptureStep ==
    ASSUME IInv, CaptureState
    PROVE  IInv'
  <1> USE DEF CaptureState, device_vars
  <1>2. TypeOK'
    BY DEF IInv, TypeOK, ledger_vars, transition_vars, build_vars
  <1>3. LedgerOK' BY LedgerFrame DEF IInv, ledger_vars, transition_vars
  <1>4. DeviceOK' BY DEF IInv, DeviceOK
  <1>5. EvidenceOK' BY ReportsFrame DEF IInv
  <1>6. \A t \in Stations : AppendOK(t)' /\ BuildOK(t)'
    BY NoJobFrame DEF ledger_vars, transition_vars
  <1> QED BY <1>2, <1>3, <1>4, <1>5, <1>6 DEF IInv

\* A write reaches the device, whether or not its evidence is kept.
LEMMA WriteKeeps ==
    ASSUME IInv, NEW s \in Stations, NEW n \in 1 .. MAX_SEQUENCE,
           device' = [device EXCEPT !.sequence = n], held' = held \cup {device'},
           job' = [job EXCEPT ![s] = Idle],
           UNCHANGED <<ledger_vars, captures, transition_vars, build_vars>>
    PROVE  /\ device' \in DeviceState /\ LedgerOK' /\ DeviceOK'
           /\ job' \in [Stations -> Jobs]
           /\ \A t \in Stations : AppendOK(t)' /\ BuildOK(t)'
           /\ [sequence |-> n, authority |-> device.authority] \in held'
  <1>1. device' \in DeviceState /\ device' = [sequence |-> n, authority |-> device.authority]
    BY BoundAssumption DEF IInv, TypeOK, DeviceState
  <1>3. LedgerOK' BY LedgerFrame DEF IInv, ledger_vars, transition_vars
  <1>4. DeviceOK' BY DEF IInv, DeviceOK
  <1>5. Idle \in Jobs BY DEF Jobs
  <1>6. job' \in [Stations -> Jobs] /\ job'[s] = Idle BY <1>5, OneJob DEF IInv
  <1>7. AppendOK(s)' /\ BuildOK(s)' BY <1>6 DEF AppendOK, BuildOK, Appending, Idle
  <1>8. \A t \in Stations : AppendOK(t)' /\ BuildOK(t)'
    BY <1>5, <1>7, JobsFrame DEF ledger_vars, transition_vars
  <1> QED BY <1>1, <1>3, <1>4, <1>6, <1>8

LEMMA StopAfterCommitStep ==
    ASSUME IInv, NEW s \in Stations, NEW n \in 1 .. MAX_SEQUENCE, StopAfterCommit(s, n)
    PROVE  IInv'
  <1> USE DEF StopAfterCommit
  <1>1. /\ device' \in DeviceState /\ LedgerOK' /\ DeviceOK'
        /\ job' \in [Stations -> Jobs]
        /\ \A t \in Stations : AppendOK(t)' /\ BuildOK(t)'
    BY WriteKeeps
  <1>2. TypeOK' BY <1>1 DEF IInv, TypeOK, ledger_vars, transition_vars, build_vars
  <1>3. EvidenceOK' BY ReportsFrame DEF IInv
  <1> QED BY <1>1, <1>2, <1>3 DEF IInv

LEMMA CommitWriteStep ==
    ASSUME IInv, NEW s \in Stations, NEW kind \in {"write_commit", "recovery_commit"},
           NEW n \in 1 .. MAX_SEQUENCE, CommitWrite(s, kind, n)
    PROVE  IInv'
  <1> USE DEF CommitWrite
  <1> DEFINE r == [kind |-> kind, head |-> job[s].head, count |-> job[s].count,
                   from |-> device.sequence, to |-> n, signer |-> device.authority]
  <1>1. /\ device' \in DeviceState /\ LedgerOK' /\ DeviceOK'
        /\ job' \in [Stations -> Jobs]
        /\ \A t \in Stations : AppendOK(t)' /\ BuildOK(t)'
        /\ [sequence |-> n, authority |-> device.authority] \in held'
    BY WriteKeeps
  <1>2. r \in Report
    <2>1. job[s] \in WriteJob BY JobTypes DEF IInv
    <2>2. device \in DeviceState BY DEF IInv, TypeOK
    <2> QED BY <2>1, <2>2, BoundAssumption DEF WriteJob, DeviceState, Report
  <1>3. reports' = reports \cup {r} BY Zenon
  <1>4. TypeOK'
    BY <1>1, <1>2, <1>3 DEF IInv, TypeOK, ledger_vars, transition_vars, build_vars
  <1>5. EvidenceOK'
    BY <1>1, <1>3 DEF IInv, EvidenceOK, transition_vars, SignedByBoth
  <1> QED BY <1>1, <1>4, <1>5 DEF IInv

LEMMA VerifyRebootStep ==
    ASSUME IInv, NEW s \in Stations, NEW r \in reports, VerifyReboot(s, r)
    PROVE  IInv'
  <1> USE DEF VerifyReboot, device_vars
  <1> DEFINE q == [kind |-> "reboot_verified", head |-> Last.hash, count |-> Len(entries),
                   from |-> r.to, to |-> r.to, signer |-> r.signer]
  <1>1. q \in Report
    <2>1. r \in Report BY DEF IInv, TypeOK
    <2>2. Last.hash \in Nat /\ Len(entries) \in Nat
      BY LastIsEntry, VerifiedNotEmpty DEF IInv
    <2> QED BY <2>1, <2>2 DEF Report
  <1>2. reports' = reports \cup {q} BY Zenon
  <1>3. TypeOK'
    BY <1>1, <1>2 DEF IInv, TypeOK, ledger_vars, transition_vars, build_vars
  <1>4. LedgerOK' BY LedgerFrame DEF IInv, ledger_vars, transition_vars
  <1>5. DeviceOK' BY DEF IInv, DeviceOK
  <1>6. EvidenceOK'
    BY <1>2 DEF IInv, EvidenceOK, transition_vars, SignedByBoth
  <1>7. \A t \in Stations : AppendOK(t)' /\ BuildOK(t)'
    BY NoJobFrame DEF ledger_vars, transition_vars
  <1> QED BY <1>3, <1>4, <1>5, <1>6, <1>7 DEF IInv

-----------------------------------------------------------------------------
(* The jobs *)

\* One station changes its job and nothing else changes but, perhaps, who
\* left the open entry incomplete.
LEMMA JobKeeps ==
    ASSUME IInv, NEW s \in Stations, NEW j \in Jobs, job' = [job EXCEPT ![s] = j],
           UNCHANGED <<ledger_vars, device_vars, captures, reports, transition_vars,
                       build_vars>>,
           AppendOK(s)', BuildOK(s)'
    PROVE  IInv'
  <1> USE DEF device_vars
  <1>1. job' \in [Stations -> Jobs] BY OneJob DEF IInv
  <1>2. TypeOK'
    BY <1>1 DEF IInv, TypeOK, ledger_vars, transition_vars, build_vars
  <1>3. LedgerOK' BY LedgerFrame DEF IInv, ledger_vars, transition_vars
  <1>4. DeviceOK' BY DEF IInv, DeviceOK
  <1>5. EvidenceOK' BY ReportsFrame DEF IInv
  <1>6. \A t \in Stations : AppendOK(t)' /\ BuildOK(t)'
    BY JobsFrame DEF ledger_vars, transition_vars
  <1> QED BY <1>2, <1>3, <1>4, <1>5, <1>6 DEF IInv

LEMMA PreflightStep ==
    ASSUME IInv, NEW s \in Stations, Preflight(s)
    PROVE  IInv'
  <1> USE DEF Preflight
  <1> DEFINE j == [phase |-> "write", head |-> Last.hash, count |-> Len(entries),
                   state |-> Last.after]
  <1>1. j \in Jobs
    BY LastIsEntry, VerifiedNotEmpty DEF IInv, Jobs, WriteJob
  <1>2. job' = [job EXCEPT ![s] = j] BY Zenon
  <1>3. job'[s] = j BY <1>1, <1>2, OneJob DEF IInv
  <1>4. AppendOK(s)' /\ BuildOK(s)' BY <1>3 DEF AppendOK, BuildOK, Appending
  <1> HIDE DEF j
  <1> QED BY <1>1, <1>2, <1>4, JobKeeps

LEMMA BeginRequestStep ==
    ASSUME IInv, NEW s \in Stations, NEW c \in captures, NEW k \in Keys,
           BeginRequest(s, c, k)
    PROVE  IInv'
  <1> USE DEF BeginRequest
  <1> DEFINE j == [phase |-> "sdkconfig", head |-> Last.hash, count |-> Len(entries),
                   state |-> Last.after, new |-> k, edits |-> edits]
  <1>1. edits \in Nat BY DEF IInv, TypeOK
  <1>2. j \in Jobs
    BY <1>1, LastIsEntry, VerifiedNotEmpty DEF IInv, Jobs, BuildJob
  <1>3. job' = [job EXCEPT ![s] = j] BY Zenon
  <1>4. job'[s] = j BY <1>2, <1>3, OneJob DEF IInv
  <1>5. edits' = edits BY DEF build_vars
  <1>6. AppendOK(s)' /\ BuildOK(s)'
    BY <1>1, <1>4, <1>5 DEF AppendOK, BuildOK, Appending
  <1> HIDE DEF j
  <1> QED BY <1>2, <1>3, <1>6, JobKeeps

LEMMA CheckPinStep ==
    ASSUME IInv, NEW s \in Stations, CheckPin(s)
    PROVE  IInv'
  <1> USE DEF CheckPin
  <1> DEFINE j == [job[s] EXCEPT !.phase = "checkout"]
  <1>1. job[s] \in BuildJob BY JobTypes DEF IInv
  <1>2. j \in Jobs BY <1>1 DEF BuildJob, Jobs
  <1>3. job' = [job EXCEPT ![s] = j] BY DEF IInv, TypeOK
  <1>4. job'[s] = j BY <1>2, <1>3, OneJob DEF IInv
  <1>5. UNCHANGED build_vars OBVIOUS
  <1>6. BuildOK(s) BY DEF IInv
  <1>7. AppendOK(s)' /\ BuildOK(s)'
    BY <1>1, <1>4, <1>5, <1>6 DEF AppendOK, BuildOK, Appending, build_vars, BuildJob
  <1> HIDE DEF j
  <1> QED BY <1>2, <1>3, <1>7, JobKeeps

LEMMA CheckoutStep ==
    ASSUME IInv, NEW s \in Stations, VerifySourceCheckout(s)
    PROVE  IInv'
  <1> USE DEF VerifySourceCheckout
  <1> DEFINE j == [job[s] EXCEPT !.phase = "hash"]
  <1>1. job[s] \in BuildJob BY JobTypes DEF IInv
  <1>2. j \in Jobs BY <1>1 DEF BuildJob, Jobs
  <1>3. job' = [job EXCEPT ![s] = j] BY DEF IInv, TypeOK
  <1>4. job'[s] = j BY <1>2, <1>3, OneJob DEF IInv
  <1>5. UNCHANGED build_vars OBVIOUS
  <1>6. BuildOK(s) BY DEF IInv
  <1>7. AppendOK(s)' /\ BuildOK(s)'
    BY <1>1, <1>4, <1>5, <1>6 DEF AppendOK, BuildOK, Appending, build_vars, BuildJob
  <1> HIDE DEF j
  <1> QED BY <1>2, <1>3, <1>7, JobKeeps

LEMMA BecomesIdle ==
    ASSUME IInv, NEW s \in Stations, job' = [job EXCEPT ![s] = Idle]
    PROVE  /\ Idle \in Jobs /\ job' \in [Stations -> Jobs]
           /\ AppendOK(s)' /\ BuildOK(s)'
  <1>1. Idle \in Jobs BY DEF Jobs
  <1>2. job' \in [Stations -> Jobs] /\ job'[s] = Idle BY <1>1, OneJob DEF IInv
  <1> QED BY <1>1, <1>2 DEF AppendOK, BuildOK, Appending, Idle

LEMMA PublishStep ==
    ASSUME IInv, NEW s \in Stations, PublishRequest(s)
    PROVE  IInv'
  <1> USE DEF PublishRequest, device_vars
  <1> DEFINE r == [head |-> job[s].head, count |-> job[s].count, state |-> job[s].state,
                   new |-> job[s].new, clean |-> clean, pin |-> pin,
                   edited |-> edits # job[s].edits]
  <1>1. job[s] \in BuildJob BY JobTypes DEF IInv
  <1>2. pin \in Keys /\ clean \in BOOLEAN /\ (edits # job[s].edits) \in BOOLEAN
    BY DEF IInv, TypeOK
  <1>3. r \in Request BY <1>1, <1>2, Zenon DEF BuildJob, Request
  <1>4. requests' = requests \cup {r} BY Zenon
  <1>5. Reviewed(r)
    <2>1. BuildOK(s) BY DEF IInv
    <2>2. CASE edits = job[s].edits
      <3>1. clean /\ pin = job[s].new BY <2>1, <2>2 DEF BuildOK
      <3> QED BY <3>1, Zenon DEF Reviewed
    <2>3. CASE edits # job[s].edits BY <2>3, Zenon DEF Reviewed
    <2> QED BY <2>2, <2>3
  <1> HIDE DEF r
  <1>6. /\ Idle \in Jobs /\ job' \in [Stations -> Jobs]
        /\ AppendOK(s)' /\ BuildOK(s)'
    BY BecomesIdle
  <1>7. TypeOK'
    BY <1>3, <1>4, <1>6 DEF IInv, TypeOK, ledger_vars, build_vars
  <1>8. LedgerOK' BY LedgerFrame DEF IInv, ledger_vars
  <1>9. DeviceOK' BY DEF IInv, DeviceOK
  <1>10. EvidenceOK'
    BY <1>4, <1>5 DEF IInv, EvidenceOK, SignedByBoth, Reviewed
  <1>11. \A t \in Stations : AppendOK(t)' /\ BuildOK(t)'
    BY <1>6, JobsFrame DEF ledger_vars
  <1> QED BY <1>7, <1>8, <1>9, <1>10, <1>11 DEF IInv

LEMMA StopStep ==
    ASSUME IInv, NEW s \in Stations, Stop(s)
    PROVE  IInv'
  <1> USE DEF Stop, device_vars
  <1>1. /\ Idle \in Jobs /\ job' \in [Stations -> Jobs]
        /\ AppendOK(s)' /\ BuildOK(s)'
    BY BecomesIdle
  <1>2. TypeOK' BY <1>1 DEF IInv, TypeOK, transition_vars, build_vars
  <1>3. LedgerOK' BY LedgerFrame DEF IInv, transition_vars
  <1>4. DeviceOK' BY DEF IInv, DeviceOK
  <1>5. EvidenceOK' BY ReportsFrame DEF IInv
  <1>6. ASSUME NEW t \in Stations \ {s} PROVE AppendOK(t)' /\ BuildOK(t)'
    <2>1. job'[t] = job[t] BY <1>1, OneJob DEF IInv
    <2>2. BuildOK(t)' BY <2>1, BuildFrame DEF IInv
    <2>3. AppendOK(s) /\ AppendOK(t) BY DEF IInv
    <2>4. job[s].phase = "writing" => torn = s BY <2>3 DEF AppendOK, Appending
    <2>5. job[t].phase = "writing" => torn = t BY <2>3 DEF AppendOK, Appending
    <2>0. entries' = entries /\ held' = held /\ signatures' = signatures
      BY DEF transition_vars
    <2>6. CASE torn' = torn
      BY ONLY <2>0, <2>1, <2>2, <2>3, <2>6, AppendFrame
    <2>7. CASE job[t].phase # "writing"
      BY ONLY <2>0, <2>1, <2>2, <2>3, <2>7
      DEF AppendOK, Appending, Sound, SignedByBoth, Follows
    <2> QED BY <2>2, <2>4, <2>5, <2>6, <2>7
  <1> QED BY <1>1, <1>2, <1>3, <1>4, <1>5, <1>6 DEF IInv

-----------------------------------------------------------------------------
(* Edits, signatures and packages *)

LEMMA EditStep ==
    ASSUME IInv, EditSources \/ \E k \in Keys : EditSdkconfig(k)
    PROVE  IInv'
  <1> USE DEF device_vars
  <1>1. /\ edits' = edits + 1 /\ job' = job
        /\ UNCHANGED <<ledger_vars, device_vars, captures, reports, transition_vars>>
    BY DEF EditSources, EditSdkconfig
  <1>2. clean' \in BOOLEAN /\ pin' \in Keys
    BY DEF EditSources, EditSdkconfig, IInv, TypeOK
  <1>3. TypeOK'
    BY <1>1, <1>2 DEF IInv, TypeOK, ledger_vars, transition_vars
  <1>4. LedgerOK' BY <1>1, LedgerFrame DEF IInv, ledger_vars, transition_vars
  <1>5. DeviceOK' BY <1>1 DEF IInv, DeviceOK
  <1>6. EvidenceOK' BY <1>1, ReportsFrame DEF IInv
  <1>7. ASSUME NEW t \in Stations PROVE AppendOK(t)' /\ BuildOK(t)'
    <2>1. AppendOK(t)' BY <1>1, AppendFrame DEF IInv, ledger_vars, transition_vars
    <2>2. CASE job[t].phase \in {"sdkconfig", "checkout", "hash"}
      <3>1. job[t].edits \in Nat /\ edits \in Nat
        BY <2>2, JobTypes DEF IInv, BuildJob, TypeOK
      <3>2. job[t].edits <= edits BY <2>2 DEF IInv, BuildOK
      <3>3. job[t].edits <= edits' /\ edits' # job[t].edits
        BY <1>1, <3>1, <3>2
      <3>4. job'[t].edits <= edits' /\ edits' # job'[t].edits BY <1>1, <3>3
      <3> QED BY <2>1, <3>4, Zenon DEF BuildOK
    <2>3. CASE job[t].phase \notin {"sdkconfig", "checkout", "hash"}
      <3>1. job'[t].phase \notin {"sdkconfig", "checkout", "hash"} BY <1>1, <2>3
      <3> QED BY <2>1, <3>1, Zenon DEF BuildOK
    <2> QED BY <2>2, <2>3
  <1> QED BY <1>3, <1>4, <1>5, <1>6, <1>7 DEF IInv

LEMMA SignStep ==
    ASSUME IInv, NEW r \in requests, NEW k \in Keys, Sign(r, k)
    PROVE  IInv'
  <1> USE DEF Sign, device_vars
  <1>1. r \in Request BY DEF IInv, TypeOK
  <1>2. TypeOK' BY <1>1 DEF IInv, TypeOK, ledger_vars, build_vars
  <1>3. LedgerOK' BY LedgerFrame DEF IInv, ledger_vars
  <1>4. DeviceOK' BY DEF IInv, DeviceOK
  <1>5. EvidenceOK' BY DEF IInv, EvidenceOK, SignedByBoth
  <1>6. \A t \in Stations : AppendOK(t)' /\ BuildOK(t)'
    BY NoJobFrame DEF ledger_vars
  <1> QED BY <1>2, <1>3, <1>4, <1>5, <1>6 DEF IInv

LEMMA PackageStep ==
    ASSUME IInv, NEW r \in requests, package_transition(r)
    PROVE  IInv'
  <1> USE DEF package_transition, device_vars
  <1>1. TypeOK' BY DEF IInv, TypeOK, ledger_vars, build_vars
  <1>3. LedgerOK' BY LedgerFrame DEF IInv, ledger_vars
  <1>4. DeviceOK' BY DEF IInv, DeviceOK
  <1>5. EvidenceOK' BY DEF IInv, EvidenceOK, SignedByBoth
  <1>6. \A t \in Stations : AppendOK(t)' /\ BuildOK(t)'
    BY NoJobFrame DEF ledger_vars
  <1> QED BY <1>1, <1>3, <1>4, <1>5, <1>6 DEF IInv

-----------------------------------------------------------------------------
(* Appending *)

\* A station binds a sound entry to the last one.
LEMMA BoundKeeps ==
    ASSUME IInv, NEW s \in Stations, NEW j \in AppendJob, job' = [job EXCEPT ![s] = j],
           j.phase = "bound", Len(entries) \in Nat \ {0}, j.index = Len(entries) + 1,
           Sound(j.entry), Follows(Last, Len(entries) + 1, j.entry),
           UNCHANGED <<ledger_vars, device_vars, captures, reports, transition_vars,
                       build_vars>>
    PROVE  IInv'
  <1>1. j \in Jobs BY DEF Jobs
  <1>2. job'[s] = j BY <1>1, OneJob DEF IInv
  <1>3. entries' = entries /\ held' = held /\ signatures' = signatures
    BY DEF ledger_vars, device_vars, transition_vars
  <1>4. Follows(entries[j.index - 1], j.index, j.entry) BY DEF Last
  <1>5. j.index \in 2 .. (Len(entries) + 1) OBVIOUS
  <1>6. AppendOK(s)'
    BY <1>2, <1>3, <1>4, <1>5 DEF AppendOK, Appending, Sound, SignedByBoth, Follows
  <1>7. BuildOK(s)' BY <1>2 DEF BuildOK
  <1> QED BY <1>1, <1>6, <1>7, JobKeeps

\* What the three tools have in common: an entry that says the truth and was
\* checked against the last one.
LEMMA BindKeeps ==
    ASSUME IInv, NEW s \in Stations, NEW event \in Events, NEW after \in DeviceState,
           NEW r \in Evidence, VerifyLedger, Bind(s, event, after, r),
           Permitted(event, Last.after, after), BoundToHead(r), after \in held,
           event = "authority_transition" =>
              SignedByBoth(r) /\ (r.edited \/ (r.clean /\ r.pin = after.authority))
    PROVE  IInv'
  <1> USE DEF Bind
  <1> DEFINE f == [event |-> event, previous |-> Last.hash, before |-> Last.after,
                   after |-> after, evidence |-> r]
             j == [phase |-> "bound", index |-> Len(entries) + 1, entry |-> f]
  <1>1. /\ entries # <<>> /\ Len(entries) \in Nat \ {0}
        /\ Last.hash \in Nat /\ Last.after \in DeviceState
    BY LastIsEntry, VerifiedNotEmpty DEF IInv
  <1>2. f \in Core BY <1>1 DEF Core
  <1>3. j \in AppendJob BY <1>1, <1>2 DEF AppendJob
  <1>4. job' = [job EXCEPT ![s] = j] BY Zenon
  <1>5. UNCHANGED <<ledger_vars, device_vars, captures, reports, transition_vars,
                    build_vars>>
    OBVIOUS
  <1>6. Sound(f) BY DEF Sound
  <1>7. Follows(Last, Len(entries) + 1, f) BY <1>1 DEF Follows, BoundToHead
  <1>8. j.phase = "bound" /\ j.index = Len(entries) + 1 /\ j.entry = f OBVIOUS
  <1> HIDE DEF f, j
  <1>9. Sound(j.entry) /\ Follows(Last, Len(entries) + 1, j.entry) BY <1>6, <1>7, <1>8
  <1> QED BY <1>1, <1>3, <1>4, <1>5, <1>8, <1>9, BoundKeeps

LEMMA AppendWriteStep ==
    ASSUME IInv, NEW s \in Stations, NEW r \in reports, append_write_evidence(s, r)
    PROVE  IInv'
  <1> USE DEF append_write_evidence
  <1>1. Last.after \in DeviceState BY LastIsEntry, VerifiedNotEmpty DEF IInv
  <1>2. r \in Report BY DEF IInv, TypeOK
  <1> DEFINE after == [Last.after EXCEPT !.sequence = r.to]
  <1>3. after = [sequence |-> r.to, authority |-> r.signer] BY <1>1 DEF DeviceState
  <1>4. after \in DeviceState /\ after.authority = Last.after.authority
    BY <1>1, <1>2 DEF DeviceState, Report
  <1>5. after \in held BY <1>3 DEF IInv, EvidenceOK
  <1>6. r.kind \in Events /\ r \in Evidence /\ r.kind # "authority_transition"
    BY <1>2 DEF Events, Evidence
  <1>7. Permitted(r.kind, Last.after, after)
    <2>1. after.sequence = r.to BY <1>3
    <2>2. /\ r.to > Last.after.sequence
          /\ r.kind = "recovery_commit" => r.to = Last.after.sequence + 1
      OBVIOUS
    <2>3. r.kind \in {"write_commit", "recovery_commit"} OBVIOUS
    <2> HIDE DEF after
    <2> QED BY <1>4, <2>1, <2>2, <2>3 DEF Permitted
  <1>8. Bind(s, r.kind, after, r) /\ VerifyLedger /\ BoundToHead(r) OBVIOUS
  <1> HIDE DEF after, append_write_evidence
  <1> QED BY <1>4, <1>5, <1>6, <1>7, <1>8, BindKeeps

LEMMA AppendRebootStep ==
    ASSUME IInv, NEW s \in Stations, NEW r \in reports, append_reboot_evidence(s, r)
    PROVE  IInv'
  <1> USE DEF append_reboot_evidence
  <1>1. Last.after \in DeviceState BY LastIsEntry, VerifiedNotEmpty DEF IInv
  <1>2. r \in Report BY DEF IInv, TypeOK
  <1>3. r.kind \in Events /\ r \in Evidence /\ r.kind # "authority_transition"
    BY <1>2 DEF Events, Evidence
  <1>4. Last.after \in held
    <2>1. Len(entries) \in Nat \ {0} BY LastIsEntry, VerifiedNotEmpty DEF IInv
    <2> QED BY <2>1 DEF IInv, LedgerOK, Sound, Last
  <1>5. Permitted(r.kind, Last.after, Last.after) BY DEF Permitted
  <1>6. Bind(s, r.kind, Last.after, r) /\ VerifyLedger /\ BoundToHead(r) OBVIOUS
  <1> HIDE DEF append_reboot_evidence
  <1> QED BY <1>1, <1>3, <1>4, <1>5, <1>6, BindKeeps

LEMMA AppendTransitionStep ==
    ASSUME IInv, NEW s \in Stations, NEW r \in packages, NEW c \in captures,
           append_authority_transition_evidence(s, r, c)
    PROVE  IInv'
  <1> USE DEF append_authority_transition_evidence
  <1> DEFINE after == [Last.after EXCEPT !.authority = r.new]
  <1>1. Last.after \in DeviceState BY LastIsEntry, VerifiedNotEmpty DEF IInv
  <1>2. r \in Request /\ c \in DeviceState BY DEF IInv, TypeOK
  <1>3. after = c BY <1>1, <1>2 DEF DeviceState, ShowsInstalled
  <1>4. after.authority = r.new /\ after.sequence = Last.after.sequence
    BY <1>1 DEF DeviceState
  <1>5. after \in DeviceState /\ after \in held BY <1>2, <1>3 DEF IInv, DeviceOK
  <1>6. SignedByBoth(r) /\ Reviewed(r) BY DEF IInv, EvidenceOK
  <1>7. "authority_transition" \in Events /\ r \in Evidence
    BY <1>2 DEF Events, Evidence
  <1>8. Permitted("authority_transition", Last.after, after) BY <1>4 DEF Permitted
  <1>9. Bind(s, "authority_transition", after, r) /\ VerifyLedger /\ BoundToHead(r)
    OBVIOUS
  <1> HIDE DEF after, append_authority_transition_evidence
  <1>10. r.edited \/ (r.clean /\ r.pin = after.authority) BY <1>4, <1>6 DEF Reviewed
  <1> QED BY <1>5, <1>6, <1>7, <1>8, <1>9, <1>10, BindKeeps

LEMMA RecheckStep ==
    ASSUME IInv, NEW s \in Stations, Recheck(s)
    PROVE  IInv'
  <1> USE DEF Recheck
  <1> DEFINE j == [job[s] EXCEPT !.phase = "checked"]
  <1>1. job[s] \in AppendJob BY JobTypes DEF IInv, Appending
  <1>2. j \in Jobs BY <1>1 DEF AppendJob, Jobs
  <1>3. job' = [job EXCEPT ![s] = j] BY DEF IInv, TypeOK
  <1>4. job'[s] = j BY <1>2, <1>3, OneJob DEF IInv
  <1>5. /\ j.phase = "checked" /\ j.index = job[s].index /\ j.entry = job[s].entry
    BY <1>1 DEF AppendJob
  <1>6. entries' = entries /\ held' = held /\ signatures' = signatures
    BY DEF ledger_vars, device_vars, transition_vars
  <1>7. AppendOK(s) /\ Appending(s) BY DEF IInv, Appending
  <1>8. UNCHANGED <<ledger_vars, device_vars, captures, reports, transition_vars,
                    build_vars>>
    OBVIOUS
  <1> HIDE DEF j, Recheck
  <1>9. AppendOK(s)'
    BY <1>4, <1>5, <1>6, <1>7 DEF AppendOK, Appending, Sound, SignedByBoth, Follows
  <1>10. BuildOK(s)' BY <1>4, <1>5 DEF BuildOK
  <1> QED BY <1>2, <1>3, <1>8, <1>9, <1>10, JobKeeps

LEMMA OpenStep ==
    ASSUME IInv, NEW s \in Stations, OpenEntry(s)
    PROVE  IInv'
  <1> USE DEF OpenEntry, device_vars
  <1> DEFINE j == [job[s] EXCEPT !.phase = "writing"]
  <1>1. job[s] \in AppendJob BY JobTypes DEF IInv, Appending
  <1>2. j \in Jobs BY <1>1 DEF AppendJob, Jobs
  <1>3. job' = [job EXCEPT ![s] = j] BY DEF IInv, TypeOK
  <1>4. job' \in [Stations -> Jobs] /\ job'[s] = j BY <1>2, <1>3, OneJob DEF IInv
  <1>5. /\ j.phase = "writing" /\ j.index = job[s].index /\ j.entry = job[s].entry
    BY <1>1 DEF AppendJob
  <1>6. /\ entries' = entries /\ held' = held /\ signatures' = signatures
        /\ torn = NoOne /\ torn' = s /\ job[s].index = Len(entries) + 1
    BY DEF transition_vars
  <1>7. AppendOK(s) /\ Appending(s) BY DEF IInv, Appending
  <1>8. TypeOK' BY <1>4 DEF IInv, TypeOK, transition_vars, build_vars
  <1>9. LedgerOK' BY LedgerFrame DEF IInv, transition_vars
  <1>10. DeviceOK' BY DEF IInv, DeviceOK
  <1>11. EvidenceOK' BY ReportsFrame DEF IInv
  <1>12. AppendOK(s)'
    BY ONLY <1>4, <1>5, <1>6, <1>7 DEF AppendOK, Appending, Sound, SignedByBoth, Follows
  <1>13. BuildOK(s)' BY <1>4, <1>5 DEF BuildOK
  <1>14. ASSUME NEW t \in Stations \ {s} PROVE AppendOK(t)' /\ BuildOK(t)'
    <2>1. job'[t] = job[t] BY <1>2, <1>3, OneJob DEF IInv
    <2>2. BuildOK(t)' BY <2>1, BuildFrame DEF IInv
    <2>3. AppendOK(t) BY DEF IInv
    <2>4. job[t].phase # "writing"
      BY <1>6, <2>3, NamesAssumption DEF AppendOK, Appending
    <2> QED
      BY ONLY <1>6, <2>1, <2>2, <2>3, <2>4
      DEF AppendOK, Appending, Sound, SignedByBoth, Follows
  <1> QED BY <1>8, <1>9, <1>10, <1>11, <1>12, <1>13, <1>14 DEF IInv

\* The entry that is complete is the one that was bound, and the ledger it was
\* bound to is the one it joins; jobs bound to older entries find them in place.
LEMMA FinishStep ==
    ASSUME IInv, NEW s \in Stations, FinishEntry(s)
    PROVE  IInv'
  <1> USE DEF FinishEntry, device_vars
  <1> DEFINE f == job[s].entry
             e == [event |-> f.event, previous |-> f.previous, hash |-> written + 1,
                   before |-> f.before, after |-> f.after, evidence |-> f.evidence]
             n == Len(entries)
  <1>1. job[s] \in AppendJob BY JobTypes DEF IInv, Appending
  <1>2. written \in Nat /\ entries \in Seq(Entry) BY DEF IInv, TypeOK
  <1>3. e \in Entry BY <1>1, <1>2 DEF AppendJob, Core, Entry
  <1>4. entries' = Append(entries, e) BY Zenon
  <1>5. /\ e.event = f.event /\ e.previous = f.previous /\ e.before = f.before
        /\ e.after = f.after /\ e.evidence = f.evidence
    OBVIOUS
  <1>6. AppendOK(s) BY DEF IInv
  <1>7. /\ torn = s /\ job[s].index = n + 1 /\ n + 1 \in 2 .. (n + 1)
        /\ Sound(f) /\ Follows(entries[n + 1 - 1], n + 1, f)
    BY <1>6 DEF AppendOK, Appending
  <1>8. /\ Idle \in Jobs /\ job' = [job EXCEPT ![s] = Idle]
        /\ job' \in [Stations -> Jobs] /\ AppendOK(s)' /\ BuildOK(s)'
    BY BecomesIdle
  <1>9. /\ torn' = NoOne /\ written' = written + 1
        /\ UNCHANGED <<device, installs, held, captures, reports, transition_vars,
                       build_vars>>
    OBVIOUS
  <1>10. held' = held /\ signatures' = signatures BY <1>9 DEF transition_vars
  <1> HIDE DEF e, f, FinishEntry
  <1>11. /\ n \in Nat /\ n >= 1 /\ Len(entries') = n + 1 /\ entries' \in Seq(Entry)
         /\ \A i \in 1 .. n : entries'[i] = entries[i]
         /\ entries'[n + 1] = e
    BY <1>2, <1>3, <1>4, <1>7
  <1> HIDE DEF n
  <1>12. TypeOK'
    BY <1>2, <1>8, <1>9, <1>11 DEF IInv, TypeOK, transition_vars, build_vars
  <1>13. LedgerOK'
    <2>1. LedgerOK /\ n = Len(entries) BY DEF IInv, n
    <2>2. Genesis(entries'[1]) BY <1>11, <2>1 DEF LedgerOK, Genesis
    <2>3. ASSUME NEW i \in 1 .. (n + 1) PROVE Sound(entries[i])'
      <3>1. CASE i \in 1 .. n
        <4>1. Sound(entries[i]) BY <2>1, <3>1 DEF LedgerOK
        <4> QED BY <1>10, <1>11, <3>1, <4>1 DEF Sound, SignedByBoth
      <3>2. CASE i = n + 1
        BY <1>5, <1>7, <1>10, <1>11, <3>2 DEF Sound, SignedByBoth
      <3> QED BY <1>11, <3>1, <3>2
    <2>4. ASSUME NEW i \in 2 .. (n + 1)
          PROVE  Follows(entries'[i - 1], i, entries'[i])
      <3>1. CASE i \in 2 .. n
        <4>1. Follows(entries[i - 1], i, entries[i]) BY <2>1, <3>1 DEF LedgerOK
        <4>2. entries'[i - 1] = entries[i - 1] /\ entries'[i] = entries[i]
          BY <1>11, <3>1
        <4> QED BY <4>1, <4>2
      <3>2. CASE i = n + 1
        <4>1. entries'[i - 1] = entries[n] /\ entries'[i] = e /\ n + 1 - 1 = n
          BY <1>11, <3>2
        <4> QED BY <1>5, <1>7, <3>2, <4>1 DEF Follows
      <3> QED BY <1>11, <3>1, <3>2
    <2> QED BY <1>11, <2>2, <2>3, <2>4 DEF LedgerOK, Follows, Genesis
  <1>14. DeviceOK' BY <1>9 DEF IInv, DeviceOK
  <1>15. EvidenceOK' BY <1>9, ReportsFrame DEF IInv
  <1>16. ASSUME NEW t \in Stations \ {s} PROVE AppendOK(t)' /\ BuildOK(t)'
    <2>1. job'[t] = job[t] BY <1>8, OneJob DEF IInv
    <2>2. BuildOK(t)' BY <1>9, <2>1, BuildFrame DEF IInv
    <2>3. AppendOK(t) /\ n = Len(entries) BY DEF IInv, n
    <2>4. CASE Appending(t)
      <3>1. /\ job[t].phase # "writing" /\ job[t].index \in 2 .. (n + 1)
            /\ Sound(job[t].entry)
            /\ Follows(entries[job[t].index - 1], job[t].index, job[t].entry)
        BY <1>7, <2>3, <2>4 DEF AppendOK
      <3>2. entries'[job[t].index - 1] = entries[job[t].index - 1]
        BY <1>11, <3>1
      <3>3. job[t].index \in 2 .. (Len(entries') + 1) BY <1>11, <3>1
      <3>4. AppendOK(t)'
        BY ONLY <1>10, <2>1, <3>1, <3>2, <3>3
        DEF AppendOK, Appending, Sound, SignedByBoth, Follows
      <3> QED BY <2>2, <3>4
    <2>5. CASE ~Appending(t)
      BY ONLY <2>1, <2>2, <2>5 DEF AppendOK, Appending
    <2> QED BY <2>4, <2>5
  <1> QED BY <1>8, <1>12, <1>13, <1>14, <1>15, <1>16 DEF IInv

LEMMA InitializeStep ==
    ASSUME IInv, NEW c \in captures, initialize_ledger(c)
    PROVE  IInv'
  <1> USE DEF initialize_ledger, device_vars
  <1> DEFINE e == [event |-> "genesis", previous |-> 0, hash |-> written + 1,
                   before |-> c, after |-> c, evidence |-> NoEvidence]
  <1>1. written \in Nat /\ c \in DeviceState /\ c \in held
    BY DEF IInv, TypeOK, DeviceOK
  <1>2. e \in Entry BY <1>1 DEF Entry, Events, Evidence
  <1>3. entries' = <<e>> BY Zenon
  <1>4. e.event = "genesis" /\ Genesis(e) /\ e.after = c BY DEF Genesis
  <1>5. /\ entries = <<>> /\ torn' = torn /\ written' = written + 1 /\ job' = job
        /\ UNCHANGED <<device, installs, held, captures, reports, transition_vars,
                       build_vars>>
    OBVIOUS
  <1> HIDE DEF e, initialize_ledger
  <1>6. /\ Len(entries) = 0 /\ Len(entries') = 1 /\ entries'[1] = e
        /\ entries' \in Seq(Entry)
    BY <1>2, <1>3, <1>5
  <1>7. TypeOK' BY <1>1, <1>5, <1>6 DEF IInv, TypeOK, transition_vars, build_vars
  <1>8. LedgerOK' BY <1>1, <1>4, <1>5, <1>6 DEF LedgerOK, Sound, Genesis
  <1>9. DeviceOK' BY <1>5 DEF IInv, DeviceOK
  <1>10. EvidenceOK' BY <1>5, ReportsFrame DEF IInv
  <1>11. ASSUME NEW t \in Stations PROVE AppendOK(t)' /\ BuildOK(t)'
    <2>1. ~Appending(t) BY <1>6 DEF IInv, AppendOK
    <2>2. AppendOK(t)' BY <1>5, <2>1 DEF AppendOK, Appending
    <2>3. BuildOK(t)' BY <1>5, BuildFrame DEF IInv
    <2> QED BY <2>2, <2>3
  <1> QED BY <1>7, <1>8, <1>9, <1>10, <1>11 DEF IInv

-----------------------------------------------------------------------------
(* The theorems *)

LEMMA InitHolds == Init => IInv
  <1> SUFFICES ASSUME Init PROVE IInv
    OBVIOUS
  <1> USE DEF Init
  <1>1. device \in DeviceState BY BoundAssumption DEF DeviceState
  <1>2. Idle \in Jobs BY DEF Jobs
  <1>3. TypeOK BY <1>1, <1>2 DEF TypeOK, DeviceState
  <1>4. LedgerOK /\ DeviceOK /\ EvidenceOK BY DEF LedgerOK, DeviceOK, EvidenceOK
  <1>5. \A s \in Stations : AppendOK(s) /\ BuildOK(s)
    BY DEF AppendOK, BuildOK, Appending, Idle
  <1> QED BY <1>3, <1>4, <1>5 DEF IInv

LEMMA StationHolds ==
    ASSUME IInv, NEW s \in Stations, StationStep(s)
    PROVE  IInv'
  <1>1. CASE Preflight(s) BY <1>1, PreflightStep
  <1>2. CASE CheckPin(s) BY <1>2, CheckPinStep
  <1>3. CASE VerifySourceCheckout(s) BY <1>3, CheckoutStep
  <1>4. CASE PublishRequest(s) BY <1>4, PublishStep
  <1>5. CASE Recheck(s) BY <1>5, RecheckStep
  <1>6. CASE OpenEntry(s) BY <1>6, OpenStep
  <1>7. CASE FinishEntry(s) BY <1>7, FinishStep
  <1>8. CASE Stop(s) BY <1>8, StopStep
  <1>9. CASE \E kind \in {"write_commit", "recovery_commit"}, n \in 1 .. MAX_SEQUENCE :
                CommitWrite(s, kind, n)
    BY <1>9, CommitWriteStep
  <1>10. CASE \E n \in 1 .. MAX_SEQUENCE : StopAfterCommit(s, n)
    BY <1>10, StopAfterCommitStep
  <1>11. CASE \E c \in captures, k \in Keys : BeginRequest(s, c, k)
    BY <1>11, BeginRequestStep
  <1>12. CASE \E r \in reports : VerifyReboot(s, r) \/ append_write_evidence(s, r)
                                   \/ append_reboot_evidence(s, r)
    BY <1>12, VerifyRebootStep, AppendWriteStep, AppendRebootStep
  <1>13. CASE \E r \in packages, c \in captures :
                append_authority_transition_evidence(s, r, c)
    BY <1>13, AppendTransitionStep
  <1> QED
    BY <1>1, <1>2, <1>3, <1>4, <1>5, <1>6, <1>7, <1>8, <1>9, <1>10, <1>11, <1>12, <1>13
    DEF StationStep

LEMMA StepHolds == IInv /\ [Next]_vars => IInv'
  <1> SUFFICES ASSUME IInv, [Next]_vars PROVE IInv'
    OBVIOUS
  <1>1. CASE \E s \in Stations : StationStep(s) BY <1>1, StationHolds
  <1>2. CASE \E c \in captures : initialize_ledger(c) BY <1>2, InitializeStep
  <1>3. CASE \E r \in requests : package_transition(r) \/ \E k \in Keys : Sign(r, k)
    BY <1>3, PackageStep, SignStep
  <1>4. CASE \E k \in Keys : InstallImage(k) \/ EditSdkconfig(k)
    BY <1>4, InstallStep, EditStep
  <1>5. CASE EditSources BY <1>5, EditStep
  <1>6. CASE CaptureState BY <1>6, CaptureStep
  <1>7. CASE UNCHANGED vars
    <2> USE <1>7 DEF vars, device_vars
    <2>1. TypeOK' BY DEF IInv, TypeOK, ledger_vars, transition_vars, build_vars
    <2>2. LedgerOK' BY LedgerFrame DEF IInv, ledger_vars, transition_vars
    <2>3. DeviceOK' BY DEF IInv, DeviceOK
    <2>4. EvidenceOK' BY ReportsFrame DEF IInv
    <2>5. \A t \in Stations : AppendOK(t)' /\ BuildOK(t)'
      BY NoJobFrame DEF ledger_vars, transition_vars
    <2> QED BY <2>1, <2>2, <2>3, <2>4, <2>5 DEF IInv
  <1> QED BY <1>1, <1>2, <1>3, <1>4, <1>5, <1>6, <1>7 DEF Next

LEMMA Invariance == Spec => []IInv
  BY InitHolds, StepHolds, PTL DEF Spec

\* Whatever stations do and wherever they die, the ledger they build is one
\* verify_ledger accepts as soon as no entry file is incomplete.
THEOREM LedgerAlwaysVerifies == Spec => []LedgerVerifies
  <1>1. IInv => LedgerVerifies
    BY DEF IInv, LedgerOK, LedgerVerifies, Verifies, Continues, Follows
  <1> QED BY <1>1, Invariance, PTL

\* Every entry names exactly the history before it, and a change of authority
\* was signed for that history by both key holders.
THEOREM EvidenceBoundToPast == Spec => []EvidenceNamesItsPast
  <1>1. IInv => EvidenceNamesItsPast
    <2> SUFFICES ASSUME IInv, NEW i \in DOMAIN entries \ {1}
                 PROVE  /\ entries[i].evidence.head = entries[i - 1].hash
                        /\ entries[i].evidence.count = i - 1
                        /\ entries[i].event = "authority_transition" =>
                             /\ SignedByBoth(entries[i].evidence)
                             /\ entries[i].evidence.edited
                                \/ (entries[i].evidence.clean
                                    /\ entries[i].evidence.pin = entries[i].after.authority)
      BY DEF EvidenceNamesItsPast
    <2>1. entries \in Seq(Entry) BY DEF IInv, TypeOK
    <2>2. i \in 2 .. Len(entries) /\ i \in 1 .. Len(entries) BY <2>1
    <2>3. Follows(entries[i - 1], i, entries[i]) /\ Sound(entries[i])
      BY <2>2 DEF IInv, LedgerOK
    <2> QED BY <2>3 DEF Follows, Sound
  <1> QED BY <1>1, Invariance, PTL

\* Every state in the ledger is one the device was in.
THEOREM RecordedStatesHappened == Spec => []EntriesHappened
  <1>1. IInv => EntriesHappened
    <2> SUFFICES ASSUME IInv, NEW i \in DOMAIN entries PROVE entries[i].after \in held
      BY DEF EntriesHappened
    <2>1. entries \in Seq(Entry) BY DEF IInv, TypeOK
    <2>2. Sound(entries[i]) BY <2>1 DEF IInv, LedgerOK
    <2> QED BY <2>2 DEF Sound
  <1> QED BY <1>1, Invariance, PTL

\* No step removes or alters a complete entry.
THEOREM HistoryNeverRewritten == Spec => HistoryIsKept
  <1> DEFINE Kept == /\ Len(entries) <= Len(entries')
                     /\ \A i \in DOMAIN entries : entries'[i] = entries[i]
  <1>1. IInv /\ [Next]_vars => [Kept]_vars
    <2> SUFFICES ASSUME IInv, Next PROVE Kept
      OBVIOUS
    <2>1. entries \in Seq(Entry) BY DEF IInv, TypeOK
    <2>2. CASE entries' = entries BY <2>1, <2>2
    <2>3. CASE entries = <<>> /\ \E c \in captures : initialize_ledger(c)
      BY <2>3 DEF initialize_ledger
    <2>4. CASE \E s \in Stations : FinishEntry(s)
      <3> PICK s \in Stations : FinishEntry(s) BY <2>4
      <3> DEFINE e == [event |-> job[s].entry.event, previous |-> job[s].entry.previous,
                       hash |-> written + 1, before |-> job[s].entry.before,
                       after |-> job[s].entry.after, evidence |-> job[s].entry.evidence]
      <3>1. job[s] \in AppendJob /\ written \in Nat
        BY JobTypes DEF FinishEntry, IInv, Appending, TypeOK
      <3>2. e \in Entry BY <3>1 DEF AppendJob, Core, Entry
      <3>3. entries' = Append(entries, e) BY Zenon DEF FinishEntry
      <3> HIDE DEF e
      <3> QED BY <2>1, <3>2, <3>3
    <2>5. \/ entries' = entries
          \/ entries = <<>> /\ \E c \in captures : initialize_ledger(c)
          \/ \E s \in Stations : FinishEntry(s)
      <3>1. CASE \E s \in Stations : StationStep(s)
        <4> PICK s \in Stations : StationStep(s) BY <3>1
        <4>1. CASE \/ Preflight(s) \/ CheckPin(s) \/ VerifySourceCheckout(s)
                   \/ PublishRequest(s) \/ Recheck(s) \/ OpenEntry(s) \/ Stop(s)
          BY <4>1 DEF Preflight, CheckPin, VerifySourceCheckout, PublishRequest,
                      Recheck, OpenEntry, Stop, ledger_vars
        <4>2. CASE \/ \E kind \in {"write_commit", "recovery_commit"},
                         n \in 1 .. MAX_SEQUENCE : CommitWrite(s, kind, n)
                   \/ \E n \in 1 .. MAX_SEQUENCE : StopAfterCommit(s, n)
                   \/ \E c \in captures, k \in Keys : BeginRequest(s, c, k)
          BY <4>2 DEF CommitWrite, StopAfterCommit, BeginRequest, ledger_vars
        <4>3. CASE \E r \in reports : \/ VerifyReboot(s, r)
                                      \/ append_write_evidence(s, r)
                                      \/ append_reboot_evidence(s, r)
          BY <4>3 DEF VerifyReboot, append_write_evidence, append_reboot_evidence,
                      Bind, ledger_vars
        <4>4. CASE \E r \in packages, c \in captures :
                      append_authority_transition_evidence(s, r, c)
          BY <4>4 DEF append_authority_transition_evidence, Bind, ledger_vars
        <4> QED BY <4>1, <4>2, <4>3, <4>4, Zenon DEF StationStep
      <3>2. CASE \E c \in captures : initialize_ledger(c)
        BY <3>2 DEF initialize_ledger
      <3>3. CASE \/ \E r \in requests : package_transition(r) \/ \E k \in Keys : Sign(r, k)
                 \/ \E k \in Keys : InstallImage(k) \/ EditSdkconfig(k)
                 \/ EditSources \/ CaptureState
        BY <3>3 DEF package_transition, Sign, InstallImage, EditSdkconfig, EditSources,
                    CaptureState, ledger_vars
      <3> QED BY <3>1, <3>2, <3>3, Zenon DEF Next
    <2> QED BY <2>2, <2>3, <2>4, <2>5
  <1> QED BY <1>1, Invariance, PTL DEF Spec, HistoryIsKept
=============================================================================
