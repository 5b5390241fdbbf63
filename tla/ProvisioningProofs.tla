------------------------- MODULE ProvisioningProofs -------------------------
(***************************************************************************)
(* What host, device and ledger promise together, for every set of         *)
(* packages, any number of boots, runs, challenges and ledger entries, and *)
(* requests and responses of dead runs left over in the channel.           *)
(*                                                                         *)
(* The argument has four layers.  The device: its history is the sequence  *)
(* of records it installed, and what it serves is the last of them.  The   *)
(* channel: a status that was true once says where in that history the     *)
(* device was, and since both directions keep their order no PREPARE can   *)
(* be on its way for a later place in history than a status not yet read.  *)
(* The run: when it sees its record in service in the boot it wrote in,    *)
(* nothing else can have been installed in between.  The account: a run    *)
(* that found the channel clear asked every question its answers belong    *)
(* to, so the preflight it passed is about the device as it is, and it     *)
(* prepares a write only where the ledger holds all that was installed.    *)
(***************************************************************************)
EXTENDS ProvisioningMonitor, CalibrationStoreProofs, FiniteSetTheorems

-----------------------------------------------------------------------------
(* Types *)

Floor == 0 .. SEQUENCE_LIMIT
Stored == Record \cup {Absent}

Request ==
    [op : {"Status", "Active"}]
    \cup [op : {"Prepare"}, boot : Nat, floor : Floor, record : Record]
    \cup [op : {"Commit"}, boot : Nat, nonce : Nat, sequence : Floor]

Status ==
    [op : {"Status"}, boot : Nat, gates : BOOLEAN, store_ready : BOOLEAN,
     floor : Floor, active : Stored, pending : Floor]
ActiveAnswer == [op : {"Active"}, ok : BOOLEAN, active : Stored]
Accepted ==
    [op : {"Prepare"}, ok : {TRUE}, record : Record, nonce : Nat]
    \cup [op : {"Commit"}, ok : {TRUE}, record : Record]
Refused == [op : {"Prepare", "Commit"}, ok : {FALSE}]
Response == Status \cup ActiveAnswer \cup Accepted \cup Refused

Evidence ==
    [event : {"write_commit", "reboot_verified"}, record : Record,
     from : Floor, boot : Nat, observed_boot : Nat, entries : Nat]

DeviceTypeOK ==
    /\ StoreTypeOK
    /\ boot_nonce \in Nat /\ nonces_used \in Nat /\ gates \in BOOLEAN
    /\ pending \in [valid : BOOLEAN, floor : Floor, nonce : Nat, record : Record]
    /\ requests \in Seq(Request) /\ responses \in Seq(Response)

RunTypeOK ==
    /\ phase \in {"closed", "preflight_status", "preflight_active", "pre_status",
                  "prepare", "commit", "post_status", "post_active",
                  "reboot_status", "reboot_active", "save", "append"}
    /\ package \in [installed : Floor, record : Record]
    /\ prior \in Evidence /\ seen \in Status /\ entries_before \in Nat

LedgerTypeOK ==
    /\ evidence \subseteq Evidence
    /\ ledger \in Seq(Evidence) /\ torn \in BOOLEAN

HistoryTypeOK ==
    /\ installs \in Seq([record : Record, boot : Nat])
    /\ gate_lost \in BOOLEAN /\ late_answers \in BOOLEAN

\* Every variable of device, channel, run, ledger and history keeps its kind.
MonitorTypeOK == DeviceTypeOK /\ RunTypeOK /\ LedgerTypeOK /\ HistoryTypeOK

-----------------------------------------------------------------------------
(* Channel *)

\* t is a stretch of s.
Stretch(t, s) ==
    \E d \in Nat : \A i \in DOMAIN t : i + d \in DOMAIN s /\ t[i] = s[i + d]

LEMMA SuffixStretch ==
  ASSUME NEW S, NEW s \in Seq(S), NEW n \in 1 .. (Len(s) + 1)
  PROVE  SubSeq(s, n, Len(s)) \in Seq(S) /\ Stretch(SubSeq(s, n, Len(s)), s)
<1>1. /\ SubSeq(s, n, Len(s)) \in Seq(S)
      /\ \A i \in DOMAIN SubSeq(s, n, Len(s)) :
            i + (n - 1) \in DOMAIN s /\ SubSeq(s, n, Len(s))[i] = s[i + (n - 1)]
  OBVIOUS
<1>2. n - 1 \in Nat
  OBVIOUS
<1> QED BY <1>1, <1>2 DEF Stretch

LEMMA PrefixStretch ==
  ASSUME NEW S, NEW s \in Seq(S), NEW n \in 0 .. Len(s)
  PROVE  SubSeq(s, 1, n) \in Seq(S) /\ Stretch(SubSeq(s, 1, n), s)
<1>1. /\ SubSeq(s, 1, n) \in Seq(S)
      /\ \A i \in DOMAIN SubSeq(s, 1, n) :
            i + 0 \in DOMAIN s /\ SubSeq(s, 1, n)[i] = s[i + 0]
  OBVIOUS
<1> QED BY <1>1 DEF Stretch

LEMMA TailStretch ==
  ASSUME NEW S, NEW s \in Seq(S), s # <<>>
  PROVE  /\ Tail(s) \in Seq(S) /\ Stretch(Tail(s), s)
         /\ 1 \in DOMAIN s /\ Head(s) = s[1] /\ Head(s) \in S
<1>1. /\ Tail(s) \in Seq(S)
      /\ \A i \in DOMAIN Tail(s) : i + 1 \in DOMAIN s /\ Tail(s)[i] = s[i + 1]
  OBVIOUS
<1>2. 1 \in DOMAIN s /\ Head(s) = s[1] /\ s[1] \in S
  OBVIOUS
<1> QED BY <1>1, <1>2 DEF Stretch

LEMMA AppendElements ==
  ASSUME NEW S, NEW s \in Seq(S), NEW e \in S
  PROVE  /\ Append(s, e) \in Seq(S) /\ Len(Append(s, e)) = Len(s) + 1
         /\ DOMAIN s = 1 .. Len(s) /\ DOMAIN Append(s, e) = 1 .. (Len(s) + 1)
         /\ \A i \in DOMAIN s : i \in DOMAIN Append(s, e) /\ Append(s, e)[i] = s[i]
         /\ Append(s, e)[Len(s) + 1] = e
  OBVIOUS

LEMMA ElementType ==
  ASSUME NEW S, NEW s \in Seq(S), NEW i \in DOMAIN s
  PROVE  s[i] \in S
  OBVIOUS

LEMMA RequestKinds ==
  ASSUME NEW q \in Request
  PROVE  /\ q.op \in {"Status", "Active", "Prepare", "Commit"}
         /\ q.op = "Prepare" => q.boot \in Nat /\ q.floor \in Floor /\ q.record \in Record
  BY DEF Request

LEMMA ResponseKinds ==
  ASSUME NEW m \in Response
  PROVE  /\ m.op = "Status" => m \in Status
         /\ m.op = "Active" => m \in ActiveAnswer
         /\ m.op = "Prepare" /\ m.ok => m.record \in Record /\ m.nonce \in Nat
  BY DEF Response, Status, ActiveAnswer, Accepted, Refused

LEMMA ServingType ==
  ASSUME StoreTypeOK
  PROVE  Serving \in Stored
  BY DEF StoreTypeOK, Serving, Stored

-----------------------------------------------------------------------------
(* Kinds of steps *)

\* What the firmware does without the store.
Aside ==
    HandleQueryStatus \/ HandleQueryActive \/ HandlePrepare
    \/ HandleCommitRefused \/ GateChange \/ RequestLost
\* ... and with it.
AtStore ==
    HandleCommit \/ StoreCall \/ CommitDone \/ CommitFailed \/ Boot \/ DeviceCrash

Elsewhere == UNCHANGED <<run_vars, evidence, ledger_vars>>

LEMMA StepKinds ==
  ASSUME MonitorNext
  PROVE  /\ Observe
         /\ HostStep \/ (Elsewhere /\ (Aside \/ AtStore))
  BY DEF MonitorNext, ProvisioningNext, DeviceStep, DeviceEnvironment, Aside, AtStore,
     Elsewhere

\* Host and device take turns: no step of the host reaches the store.
LEMMA HostLeavesDevice ==
  ASSUME HostStep
  PROVE  UNCHANGED <<store_vars, session_vars, gates>>
<1>1. CASE (\E p \in Packages : Apply(p)) \/ (\E e \in evidence : VerifyReboot(e))
  BY <1>1 DEF Apply, VerifyReboot, OpenPort, Untouched
<1>2. CASE \E e \in evidence : AppendEntry(e)
  BY <1>2 DEF AppendEntry, device_vars
<1>3. CASE SkipOther \/ PreflightStatus \/ PreflightActive \/ PreStatus \/ Prepared
           \/ Committed \/ PostStatus \/ PostActive \/ RebootStatus \/ RebootActive \/ Abort
  BY <1>3 DEF SkipOther, PreflightStatus, PreflightActive, PreStatus, Prepared,
     Committed, PostStatus, PostActive, RebootStatus, RebootActive, Abort, Untouched
<1>4. CASE SaveEvidence
  BY <1>4 DEF SaveEvidence, device_vars
<1> QED BY <1>1, <1>2, <1>3, <1>4 DEF HostStep

LEMMA AsideLeavesStore ==
  ASSUME Aside
  PROVE  UNCHANGED <<store_vars, boot_nonce>>
  BY DEF Aside, HandleQueryStatus, HandleQueryActive, HandlePrepare, HandleCommitRefused,
     GateChange, RequestLost, session_vars

\* What the device does at the store is what the store's own proofs are about.
LEMMA AtStoreIsOwn ==
  ASSUME DeviceTypeOK, AtStore
  PROVE  OwnStep
<1>1. pending.record \in Record
  BY DEF DeviceTypeOK
<1> QED
  BY <1>1 DEF AtStore, HandleCommit, StoreCall, CommitDone, CommitFailed, Boot, DeviceCrash,
     OwnStep, StoreStep

\* The effect of each of them on session and channel.
LEMMA AtStoreEffect ==
  ASSUME AtStore
  PROVE  \/ /\ HandleCommit \/ StoreCall
            /\ UNCHANGED <<session_vars, gates, channel_vars>>
         \/ /\ CommitDone
            /\ pending' = NoPending
            /\ Answer([op |-> "Commit", ok |-> TRUE, record |-> candidate])
            /\ UNCHANGED <<boot_nonce, nonces_used, gates>>
         \/ /\ CommitFailed
            /\ pending' = NoPending
            /\ Answer([op |-> "Commit", ok |-> FALSE])
            /\ UNCHANGED <<boot_nonce, nonces_used, gates>>
         \/ /\ Boot /\ boot_nonce' = boot_nonce + 1
            /\ UNCHANGED <<pending, nonces_used, gates, channel_vars>>
         \/ /\ DeviceCrash
            /\ pending' = NoPending /\ requests' = <<>>
            /\ \E sent \in 0 .. Len(responses) : responses' = SubSeq(responses, 1, sent)
            /\ UNCHANGED <<boot_nonce, nonces_used, gates>>
  BY DEF AtStore, HandleCommit, StoreCall, CommitDone, CommitFailed, Boot, DeviceCrash,
     ClearPending, RefuseCommit

-----------------------------------------------------------------------------
(* Type correctness *)

LEMMA MonitorTypeInit == MonitorInit => MonitorTypeOK
<1> SUFFICES ASSUME MonitorInit PROVE MonitorTypeOK
  OBVIOUS
<1> USE DEF MonitorInit, ProvisioningInit, DeviceInit, HostInit
<1>0. 0 \in Floor /\ NoRecord \in Record
  BY NoRecordType, ZeroInRange DEF Floor
<1>1. StoreTypeOK
  BY StoreTypeInit
<1>2. /\ NoPending \in [valid : BOOLEAN, floor : Floor, nonce : Nat, record : Record]
      /\ requests \in Seq(Request) /\ responses \in Seq(Response)
  BY <1>0 DEF NoPending
<1>3. DeviceTypeOK
  BY <1>1, <1>2 DEF DeviceTypeOK
<1>4. NoStatus \in Status
  BY <1>0 DEF NoStatus, Status, Stored
<1>5. NoEvidence \in Evidence
  BY <1>0 DEF NoEvidence, Evidence
<1>6. RunTypeOK
  BY <1>0, <1>4, <1>5 DEF RunTypeOK, NoPackage
<1>7. LedgerTypeOK /\ HistoryTypeOK
  <2>1. ledger \in Seq(Evidence) /\ installs \in Seq([record : Record, boot : Nat])
    OBVIOUS
  <2>2. torn \in BOOLEAN /\ gate_lost \in BOOLEAN /\ late_answers \in BOOLEAN
    OBVIOUS
  <2> QED BY <2>1, <2>2 DEF LedgerTypeOK, HistoryTypeOK
<1> QED BY <1>3, <1>6, <1>7 DEF MonitorTypeOK

LEMMA AnswerType ==
  ASSUME DeviceTypeOK, requests # <<>>, NEW m \in Response, Answer(m)
  PROVE  requests' \in Seq(Request) /\ responses' \in Seq(Response)
  BY TailStretch, AppendElements DEF DeviceTypeOK, Answer

LEMMA AskType ==
  ASSUME DeviceTypeOK, NEW q \in Request, Ask(q)
  PROVE  requests' \in Seq(Request)
  BY AppendElements DEF DeviceTypeOK, Ask

LEMMA ConsumeType ==
  ASSUME DeviceTypeOK, Consume
  PROVE  responses' \in Seq(Response)
<1>1. PICK next \in 2 .. (Len(responses) + 1) :
        responses' = SubSeq(responses, next, Len(responses))
  BY DEF Consume
<1>2. responses \in Seq(Response) /\ next \in 1 .. (Len(responses) + 1)
  BY DEF DeviceTypeOK
<1> QED BY <1>1, <1>2, SuffixStretch

LEMMA ReceivedType ==
  ASSUME DeviceTypeOK, NEW op, Receives(op)
  PROVE  Head(responses) \in Response /\ Head(responses).op = op
  BY TailStretch DEF DeviceTypeOK, Receives

LEMMA AsideType ==
  ASSUME DeviceTypeOK, Aside
  PROVE  DeviceTypeOK'
<1> USE DEF DeviceTypeOK
<1>0. StoreTypeOK'
  BY AsideLeavesStore DEF store_vars, nvs_vars, ram_vars, StoreTypeOK
<1>1. CASE HandleQueryStatus
  <2>1. /\ installed_floor \in Floor /\ 0 \in Floor /\ Serving \in Stored
        /\ pending.record.sequence \in Floor /\ store_ready \in BOOLEAN
    BY ServingType, ZeroInRange DEF StoreTypeOK, Floor, Record
  <2>2. [op |-> "Status", boot |-> boot_nonce, gates |-> gates,
         store_ready |-> store_ready,
         floor |-> IF store_ready THEN installed_floor ELSE 0,
         active |-> Serving,
         pending |-> IF pending.valid THEN pending.record.sequence ELSE 0] \in Status
    BY <2>1 DEF Status
  <2>3. requests' \in Seq(Request) /\ responses' \in Seq(Response)
    BY <1>1, <2>2, AnswerType DEF HandleQueryStatus, Ready, Response
  <2> QED BY <1>0, <1>1, <2>3 DEF HandleQueryStatus, session_vars
<1>2. CASE HandleQueryActive
  <2>1. [op |-> "Active", ok |-> store_ready, active |-> Serving] \in ActiveAnswer
    BY ServingType DEF StoreTypeOK, ActiveAnswer
  <2>2. requests' \in Seq(Request) /\ responses' \in Seq(Response)
    BY <1>2, <2>1, AnswerType DEF HandleQueryActive, Ready, Response
  <2> QED BY <1>0, <1>2, <2>2 DEF HandleQueryActive, session_vars
<1>3. CASE HandlePrepare
  <2> DEFINE m == Head(requests)
  <2>1. m \in Request /\ m.op = "Prepare" /\ requests # <<>>
    BY <1>3, TailStretch DEF HandlePrepare, Ready
  <2>2. m.floor \in Floor /\ m.record \in Record
    BY <2>1, RequestKinds
  <2>3. CASE /\ nonces_used' = nonces_used + 1
             /\ pending' = [valid |-> TRUE, floor |-> m.floor,
                            nonce |-> nonces_used', record |-> m.record]
             /\ Answer([op |-> "Prepare", ok |-> TRUE, record |-> m.record,
                        nonce |-> nonces_used'])
    <3>1. [op |-> "Prepare", ok |-> TRUE, record |-> m.record, nonce |-> nonces_used']
            \in Response
      <4>1. nonces_used' \in Nat /\ m.record \in Record
        BY <2>2, <2>3
      <4> QED BY <4>1 DEF Response, Accepted
    <3>2. requests' \in Seq(Request) /\ responses' \in Seq(Response)
      BY <2>1, <2>3, <3>1, AnswerType
    <3> QED BY <1>0, <1>3, <2>2, <2>3, <3>2 DEF HandlePrepare
  <2>4. CASE pending' = NoPending /\ UNCHANGED nonces_used
             /\ Answer([op |-> "Prepare", ok |-> FALSE])
    <3>1. [op |-> "Prepare", ok |-> FALSE] \in Response
      BY DEF Response, Refused
    <3>2. requests' \in Seq(Request) /\ responses' \in Seq(Response)
      BY <2>1, <2>4, <3>1, AnswerType
    <3>3. NoPending \in [valid : BOOLEAN, floor : Floor, nonce : Nat, record : Record]
      BY NoRecordType, ZeroInRange DEF NoPending, Floor
    <3> QED BY <1>0, <1>3, <2>4, <3>2, <3>3 DEF HandlePrepare
  <2> QED BY <1>3, <2>3, <2>4 DEF HandlePrepare, ClearPending
<1>4. CASE HandleCommitRefused
  <2>1. [op |-> "Commit", ok |-> FALSE] \in Response
    BY DEF Response, Refused
  <2>2. requests' \in Seq(Request) /\ responses' \in Seq(Response)
    BY <1>4, <2>1, AnswerType DEF HandleCommitRefused, RefuseCommit, Ready
  <2>3. NoPending \in [valid : BOOLEAN, floor : Floor, nonce : Nat, record : Record]
    BY NoRecordType, ZeroInRange DEF NoPending, Floor
  <2>4. pending' \in {pending, NoPending}
    BY <1>4 DEF HandleCommitRefused
  <2> QED BY <1>0, <1>4, <2>2, <2>3, <2>4 DEF HandleCommitRefused
<1>5. CASE GateChange
  BY <1>0, <1>5 DEF GateChange, session_vars, channel_vars
<1>6. CASE RequestLost
  BY <1>0, <1>6, TailStretch DEF RequestLost, session_vars
<1> QED BY <1>1, <1>2, <1>3, <1>4, <1>5, <1>6 DEF Aside

LEMMA AtStoreType ==
  ASSUME DeviceTypeOK, requests # <<>> \/ ~(CommitDone \/ CommitFailed), AtStore
  PROVE  DeviceTypeOK'
<1>0. StoreTypeOK'
  BY AtStoreIsOwn, StoreTypeStep DEF DeviceTypeOK
<1>1. NoPending \in [valid : BOOLEAN, floor : Floor, nonce : Nat, record : Record]
  BY NoRecordType, ZeroInRange DEF NoPending, Floor
<1>2. CASE (HandleCommit \/ StoreCall) /\ UNCHANGED <<session_vars, gates, channel_vars>>
  BY <1>0, <1>2 DEF DeviceTypeOK, session_vars, channel_vars
<1>3. CASE /\ CommitDone /\ pending' = NoPending
           /\ Answer([op |-> "Commit", ok |-> TRUE, record |-> candidate])
           /\ UNCHANGED <<boot_nonce, nonces_used, gates>>
  <2>1. [op |-> "Commit", ok |-> TRUE, record |-> candidate] \in Response
    BY DEF DeviceTypeOK, StoreTypeOK, Response, Accepted
  <2>2. requests' \in Seq(Request) /\ responses' \in Seq(Response)
    BY <1>3, <2>1, AnswerType
  <2> QED BY <1>0, <1>1, <1>3, <2>2 DEF DeviceTypeOK
<1>4. CASE /\ CommitFailed /\ pending' = NoPending
           /\ Answer([op |-> "Commit", ok |-> FALSE])
           /\ UNCHANGED <<boot_nonce, nonces_used, gates>>
  <2>1. [op |-> "Commit", ok |-> FALSE] \in Response
    BY DEF Response, Refused
  <2>2. requests' \in Seq(Request) /\ responses' \in Seq(Response)
    BY <1>4, <2>1, AnswerType
  <2> QED BY <1>0, <1>1, <1>4, <2>2 DEF DeviceTypeOK
<1>5. CASE /\ Boot /\ boot_nonce' = boot_nonce + 1
           /\ UNCHANGED <<pending, nonces_used, gates, channel_vars>>
  BY <1>0, <1>5 DEF DeviceTypeOK, channel_vars
<1>6. CASE /\ DeviceCrash
           /\ pending' = NoPending /\ requests' = <<>>
           /\ \E sent \in 0 .. Len(responses) : responses' = SubSeq(responses, 1, sent)
           /\ UNCHANGED <<boot_nonce, nonces_used, gates>>
  <2>1. responses' \in Seq(Response)
    BY <1>6, PrefixStretch DEF DeviceTypeOK
  <2>2. requests' \in Seq(Request)
    BY <1>6
  <2> QED BY <1>0, <1>1, <1>6, <2>1, <2>2 DEF DeviceTypeOK
<1> QED BY <1>2, <1>3, <1>4, <1>5, <1>6, AtStoreEffect

LEMMA ClosedTypes ==
  ASSUME Close
  PROVE  RunTypeOK'
<1>1. 0 \in Floor /\ NoRecord \in Record
  BY NoRecordType, ZeroInRange DEF Floor
<1>2. NoStatus \in Status /\ NoEvidence \in Evidence
  BY <1>1 DEF NoStatus, Status, Stored, NoEvidence, Evidence
<1> QED BY <1>1, <1>2 DEF Close, RunTypeOK, NoPackage

\* What a run keeps of a conversation is well typed, step by step.
LEMMA TalkType ==
  ASSUME MonitorTypeOK,
         PreflightStatus \/ PreflightActive \/ PreStatus \/ Prepared \/ Committed
         \/ PostStatus \/ PostActive \/ RebootStatus \/ RebootActive \/ SkipOther
  PROVE  /\ requests' \in Seq(Request) /\ responses' \in Seq(Response)
         /\ RunTypeOK' /\ UNCHANGED <<evidence, ledger_vars>>
<1> USE DEF MonitorTypeOK
<1>a. /\ [op |-> "Status"] \in Request /\ [op |-> "Active"] \in Request
      /\ requests \in Seq(Request) /\ responses \in Seq(Response)
  BY DEF Request, DeviceTypeOK
<1>b. ASSUME Receives("Status") PROVE Head(responses) \in Status
  BY <1>b, ReceivedType, ResponseKinds
<1>1. CASE PreflightStatus
  <2>1. seen' \in Status /\ responses' \in Seq(Response)
    BY <1>1, <1>b, ConsumeType DEF PreflightStatus
  <2>2. requests' \in Seq(Request)
    BY <1>1, <1>a, AskType DEF PreflightStatus
  <2> QED BY <1>1, <2>1, <2>2 DEF PreflightStatus, Untouched, RunTypeOK
<1>2. CASE PreflightActive
  <2>1. responses' \in Seq(Response) /\ requests' \in Seq(Request)
    BY <1>2, <1>a, ConsumeType, AskType DEF PreflightActive
  <2>2. entries_before' \in Nat
    BY <1>2 DEF PreflightActive, LedgerTypeOK
  <2>3. phase' \in {"pre_status", "reboot_status"}
    BY <1>2 DEF PreflightActive
  <2> QED BY <1>2, <2>1, <2>2, <2>3 DEF PreflightActive, Untouched, RunTypeOK
<1>3. CASE PreStatus
  <2> DEFINE m == Head(responses)
  <2>1. m \in Status /\ responses' \in Seq(Response) /\ package.record \in Record
    BY <1>3, <1>b, ConsumeType DEF PreStatus, RunTypeOK
  <2>2. m.boot \in Nat /\ m.floor \in Floor
    BY <2>1 DEF Status
  <2>3. [op |-> "Prepare", boot |-> m.boot, floor |-> m.floor,
         record |-> package.record] \in Request
    BY <2>1, <2>2 DEF Request
  <2>4. requests' \in Seq(Request)
    BY <1>3, <2>3, AskType DEF PreStatus
  <2> QED BY <1>3, <2>1, <2>4 DEF PreStatus, Untouched, RunTypeOK
<1>4. CASE Prepared
  <2> DEFINE m == Head(responses)
  <2>1. m \in Response /\ m.op = "Prepare" /\ m.ok
    BY <1>4, ReceivedType DEF Prepared, Acknowledges
  <2>2. m.nonce \in Nat
    BY <2>1, ResponseKinds
  <2>3. seen.boot \in Nat /\ package.record.sequence \in Floor
    BY DEF RunTypeOK, Status, Record, Floor
  <2>4. [op |-> "Commit", boot |-> seen.boot, nonce |-> m.nonce,
         sequence |-> package.record.sequence] \in Request
    BY <2>2, <2>3 DEF Request
  <2>5. requests' \in Seq(Request) /\ responses' \in Seq(Response)
    BY <1>4, <2>4, ConsumeType, AskType DEF Prepared
  <2> QED BY <1>4, <2>5 DEF Prepared, Untouched, RunTypeOK
<1>5. CASE Committed
  <2>1. responses' \in Seq(Response) /\ requests' \in Seq(Request)
    BY <1>5, <1>a, ConsumeType, AskType DEF Committed
  <2> QED BY <1>5, <2>1 DEF Committed, Untouched, RunTypeOK
<1>6. CASE PostStatus
  <2>1. responses' \in Seq(Response) /\ requests' \in Seq(Request)
    BY <1>6, <1>a, ConsumeType, AskType DEF PostStatus
  <2> QED BY <1>6, <2>1 DEF PostStatus, Untouched, RunTypeOK
<1>7. CASE PostActive
  <2>1. responses' \in Seq(Response)
    BY <1>7, ConsumeType DEF PostActive
  <2> QED BY <1>7, <1>a, <2>1 DEF PostActive, Untouched, RunTypeOK
<1>8. CASE RebootStatus
  <2>1. responses' \in Seq(Response) /\ requests' \in Seq(Request) /\ seen' \in Status
    BY <1>8, <1>a, <1>b, ConsumeType, AskType DEF RebootStatus
  <2> QED BY <1>8, <2>1 DEF RebootStatus, Untouched, RunTypeOK
<1>9. CASE RebootActive
  <2>1. responses' \in Seq(Response)
    BY <1>9, ConsumeType DEF RebootActive
  <2> QED BY <1>9, <1>a, <2>1 DEF RebootActive, Untouched, RunTypeOK
<1>10. CASE SkipOther
  <2>1. responses' \in Seq(Response)
    BY <1>10, <1>a, TailStretch DEF SkipOther
  <2> QED BY <1>10, <1>a, <2>1 DEF SkipOther, Untouched, RunTypeOK, run_vars
<1> QED BY <1>1, <1>2, <1>3, <1>4, <1>5, <1>6, <1>7, <1>8, <1>9, <1>10

LEMMA ReportType ==
  ASSUME RunTypeOK
  PROVE  Report \in Evidence
  BY DEF RunTypeOK, Report, Evidence, Status

LEMMA OpenEffect ==
  ASSUME MonitorTypeOK, OpenPort
  PROVE  /\ requests' = Append(requests, [op |-> "Status"])
         /\ responses' \in Seq(Response) /\ Stretch(responses', responses)
<1>1. PICK first \in 1 .. (Len(responses) + 1) :
        responses' = SubSeq(responses, first, Len(responses))
  BY DEF OpenPort
<1>2. responses \in Seq(Response)
  BY DEF MonitorTypeOK, DeviceTypeOK
<1> QED BY <1>1, <1>2, SuffixStretch DEF OpenPort, Ask

LEMMA HostType ==
  ASSUME MonitorTypeOK, HostStep
  PROVE  DeviceTypeOK' /\ RunTypeOK' /\ LedgerTypeOK'
<1> USE DEF MonitorTypeOK
<1>0. ASSUME requests' \in Seq(Request), responses' \in Seq(Response)
      PROVE  DeviceTypeOK'
  BY <1>0, HostLeavesDevice
  DEF DeviceTypeOK, StoreTypeOK, store_vars, nvs_vars, ram_vars, session_vars
<1>1. ASSUME OpenPort,
             \/ \E p \in Packages : package' = p /\ UNCHANGED prior
             \/ \E e \in evidence : prior' = e /\ UNCHANGED package
      PROVE  DeviceTypeOK' /\ RunTypeOK' /\ LedgerTypeOK'
  <2>1. requests' \in Seq(Request) /\ responses' \in Seq(Response)
    <3>1. [op |-> "Status"] \in Request
      BY DEF Request
    <3> QED BY <1>1, <3>1, OpenEffect, AppendElements DEF DeviceTypeOK
  <2>2. package' \in [installed : Floor, record : Record] /\ prior' \in Evidence
    BY <1>1, PackagesAssumption DEF Floor, RunTypeOK, LedgerTypeOK
  <2> QED BY <1>0, <1>1, <2>1, <2>2
          DEF OpenPort, Untouched, RunTypeOK, LedgerTypeOK, ledger_vars
<1>2. CASE \E p \in Packages : Apply(p)
  BY <1>1, <1>2 DEF Apply
<1>3. CASE \E e \in evidence : VerifyReboot(e)
  BY <1>1, <1>3 DEF VerifyReboot
<1>4. CASE \E e \in evidence : AppendEntry(e)
  <2>1. PICK e \in evidence : AppendEntry(e)
    BY <1>4
  <2>2. RunTypeOK'
    BY <2>1, ClosedTypes DEF AppendEntry
  <2>3. e \in Evidence /\ Append(ledger, e) \in Seq(Evidence)
    BY <2>1, AppendElements DEF LedgerTypeOK
  <2>4. LedgerTypeOK'
    BY <2>1, <2>3 DEF AppendEntry, LedgerTypeOK
  <2>5. requests' \in Seq(Request) /\ responses' \in Seq(Response)
    BY <2>1 DEF AppendEntry, device_vars, channel_vars, DeviceTypeOK
  <2> QED BY <1>0, <2>2, <2>4, <2>5
<1>5. CASE SaveEvidence
  <2>1. requests' \in Seq(Request) /\ responses' \in Seq(Response)
    BY <1>5 DEF SaveEvidence, device_vars, channel_vars, DeviceTypeOK
  <2>2. LedgerTypeOK'
    BY <1>5, ReportType DEF SaveEvidence, LedgerTypeOK, ledger_vars
  <2> QED BY <1>0, <1>5, <2>1, <2>2 DEF SaveEvidence, RunTypeOK
<1>6. CASE Abort
  <2>1. requests' \in Seq(Request) /\ responses' \in Seq(Response)
    BY <1>6 DEF Abort, channel_vars, DeviceTypeOK
  <2>2. RunTypeOK' /\ LedgerTypeOK'
    BY <1>6, ClosedTypes DEF Abort, Untouched, LedgerTypeOK, ledger_vars
  <2> QED BY <1>0, <2>1, <2>2
<1>7. CASE PreflightStatus \/ PreflightActive \/ PreStatus \/ Prepared \/ Committed
           \/ PostStatus \/ PostActive \/ RebootStatus \/ RebootActive \/ SkipOther
  BY <1>0, <1>7, TalkType DEF LedgerTypeOK, ledger_vars
<1> QED BY <1>2, <1>3, <1>4, <1>5, <1>6, <1>7 DEF HostStep

LEMMA HistoryType ==
  ASSUME MonitorTypeOK, DeviceTypeOK', Observe
  PROVE  HistoryTypeOK'
<1>1. Serving' \in Stored /\ boot_nonce' \in Nat
  BY DEF DeviceTypeOK, StoreTypeOK, Serving, Stored
<1>2. installs' \in Seq([record : Record, boot : Nat])
  <2>1. CASE Serving' = Absent
    BY <2>1 DEF Observe, MonitorTypeOK, HistoryTypeOK
  <2>2. CASE Serving' # Absent
    <3>1. [record |-> Serving', boot |-> boot_nonce'] \in [record : Record, boot : Nat]
      BY <1>1, <2>2 DEF Stored
    <3> QED BY <3>1, AppendElements DEF Observe, MonitorTypeOK, HistoryTypeOK
  <2> QED BY <2>1, <2>2
<1>3. gate_lost' \in BOOLEAN /\ late_answers' \in BOOLEAN
  BY DEF Observe, MonitorTypeOK, HistoryTypeOK
<1> QED BY <1>2, <1>3 DEF HistoryTypeOK

-----------------------------------------------------------------------------
(* The device and its history *)

Sequence(i) == IF i = 0 THEN 0 ELSE installs[i].record.sequence
Installed == Sequence(Len(installs))
InstalledRecord == IF installs = <<>> THEN Absent ELSE installs[Len(installs)].record

HistoryInv ==
    /\ \A i, j \in DOMAIN installs :
           i < j => Sequence(i) < Sequence(j) /\ installs[i].boot <= installs[j].boot
    /\ \A i \in DOMAIN installs :
           Sequence(i) \in Usable /\ installs[i].boot \in 1 .. boot_nonce
    /\ pc # "off" => boot_nonce > 0

\* The last record installed is the one in service, and outlives every crash.
ServingInv ==
    /\ store_ready => Serving = InstalledRecord /\ installed_floor = Installed
    /\ installs # <<>> => Outlived(InstalledRecord)

\* While a stage runs its COMMIT is still at the head of the queue.
StagingInv ==
    Staging =>
        /\ pending.valid /\ candidate = pending.record
        /\ requests # <<>> /\ Head(requests).op = "Commit"

DeviceInv == StoreInv /\ StagingInv /\ HistoryInv /\ ServingInv /\ PendingIsCurrent

\* Some NVS key holds a record newer than all that was installed: the next boot,
\* or the repair that is under way, may put it in service.
Held(s) == \E i \in SlotIndex : s \in {flash.slots[i], cache.slots[i]}
Uninstalled == \E s \in Record : Held(s) /\ s.sequence > Installed

LEMMA SequenceTypes ==
  ASSUME HistoryTypeOK
  PROVE  /\ DOMAIN installs = 1 .. Len(installs) /\ Len(installs) \in Nat
         /\ \A i \in 0 .. Len(installs) : Sequence(i) \in Floor
         /\ \A i \in DOMAIN installs : /\ Sequence(i) = installs[i].record.sequence
                                       /\ installs[i].record \in Record
                                       /\ installs[i].boot \in Nat
<1>1. installs \in Seq([record : Record, boot : Nat])
  BY DEF HistoryTypeOK
<1>2. DOMAIN installs = 1 .. Len(installs) /\ Len(installs) \in Nat
  BY <1>1
<1>3. ASSUME NEW i \in DOMAIN installs
      PROVE  installs[i].record \in Record /\ installs[i].boot \in Nat
  <2>1. installs[i] \in [record : Record, boot : Nat]
    BY <1>1, ElementType
  <2> QED BY <2>1
<1>4. \A i \in DOMAIN installs : installs[i].record.sequence \in Floor
  BY <1>3 DEF Record, Floor
<1> QED BY <1>2, <1>3, <1>4, ZeroInRange DEF Sequence, Floor

LEMMA InstalledTypes ==
  ASSUME HistoryTypeOK, HistoryInv
  PROVE  /\ Installed \in Nat /\ Installed \in Floor
         /\ installs = <<>> => Installed = 0 /\ InstalledRecord = Absent /\ Len(installs) = 0
         /\ installs # <<>> => /\ InstalledRecord \in Record
                               /\ InstalledRecord.sequence = Installed
                               /\ Installed \in Usable
                               /\ Len(installs) \in DOMAIN installs
                               /\ InstalledRecord = installs[Len(installs)].record
<1>1. installs \in Seq([record : Record, boot : Nat])
  BY DEF HistoryTypeOK
<1>2. installs # <<>> => Len(installs) \in DOMAIN installs /\ Len(installs) # 0
  BY <1>1
<1>3. Installed \in Floor /\ SEQUENCE_LIMIT \in Nat
  BY SequenceTypes, LimitAssumption DEF Installed
<1>4. installs # <<>> => Installed \in Usable /\ InstalledRecord \in Record
  BY <1>2, SequenceTypes DEF HistoryInv, Installed, InstalledRecord
<1> QED BY <1>2, <1>3, <1>4 DEF Installed, InstalledRecord, Sequence, Floor

\* No place in history is later than the last one.
LEMMA InstalledIsLast ==
  ASSUME HistoryTypeOK, HistoryInv, NEW i \in 0 .. Len(installs)
  PROVE  /\ Sequence(i) <= Installed
         /\ i < Len(installs) => Sequence(i) < Installed
<1>1. /\ Sequence(i) \in Int /\ Installed \in Nat
      /\ DOMAIN installs = 1 .. Len(installs) /\ Len(installs) \in Nat
  BY SequenceTypes, InstalledTypes, LimitAssumption DEF Floor
<1>2. CASE i = Len(installs)
  BY <1>1, <1>2 DEF Installed
<1>3. CASE i # 0 /\ i < Len(installs)
  <2>1. i \in DOMAIN installs /\ Len(installs) \in DOMAIN installs
    BY <1>1, <1>3
  <2> QED BY <1>1, <1>3, <2>1 DEF HistoryInv, Installed
<1>4. CASE i = 0 /\ i < Len(installs)
  <2>1. installs # <<>>
    BY <1>1, <1>4
  <2>2. Installed \in Usable /\ Sequence(i) = 0
    BY <1>4, <2>1, InstalledTypes DEF Sequence
  <2> QED BY <1>1, <2>2, LimitAssumption DEF Usable
<1>5. i = Len(installs) \/ (i # 0 /\ i < Len(installs)) \/ (i = 0 /\ i < Len(installs))
  <2> DEFINE n == Len(installs)
  <2>1. n \in Nat /\ i \in 0 .. n
    BY <1>1
  <2> HIDE DEF n
  <2>2. i = n \/ i < n
    BY <2>1
  <2> QED BY <2>2 DEF n
<1> QED BY <1>2, <1>3, <1>4, <1>5

(* What the store puts in service *)

ServesLast == Serving = InstalledRecord /\ installed_floor = Installed

\* What Observe appends to the history.
Installs(r) ==
    /\ r \in Record /\ r.sequence \in Usable /\ r.sequence > Installed
    /\ Serving' = r /\ installed_floor' = r.sequence /\ store_ready'
    /\ Outlived(r)'

LEMMA ServesStep ==
  ASSUME MonitorTypeOK, DeviceInv, AtStore, DeviceTypeOK', StoreInv', store_ready'
  PROVE  \/ Serving' = InstalledRecord /\ installed_floor' = Installed
         \/ \E r \in Record : Installs(r)
<1>0. StoreTypeOK /\ StoreTypeOK' /\ StoreInv /\ OwnStep /\ HistoryTypeOK /\ HistoryInv
  BY AtStoreIsOwn DEF MonitorTypeOK, DeviceTypeOK, DeviceInv
<1>1. Holds(flash)'
  BY <1>0, ServedHolds, PTL
<1>2. /\ active_record' \in Record /\ has_active' \in BOOLEAN
      /\ flash'.floor = installed_floor'
      /\ has_active' => installed_floor' = active_record'.sequence /\ installed_floor' \in Usable
      /\ ~has_active' => installed_floor' = 0
  BY <1>0, <1>1 DEF Holds, StoreTypeOK
<1>3. Serving' = IF has_active' THEN active_record' ELSE Absent
  BY DEF Serving
<1>4. ASSUME NEW r \in Record, Outlived(r) PROVE Outlived(r)'
  BY <1>0, <1>4, OutlivedStep
<1>5. CASE ~has_active'
  <2>1. installs = <<>>
    <3> SUFFICES ASSUME installs # <<>> PROVE FALSE
      OBVIOUS
    <3>1. PICK r \in Record : r = InstalledRecord /\ r.sequence \in Usable
      BY <1>0, InstalledTypes
    <3>2. Outlived(r)'
      BY <1>4, <3>1 DEF DeviceInv, ServingInv
    <3>3. flash'.floor >= r.sequence
      BY <3>2 DEF Outlived, Floors
    <3> QED BY <1>2, <1>5, <3>1, <3>3, LimitAssumption DEF Usable
  <2> QED BY <1>0, <1>2, <1>3, <1>5, <2>1, InstalledTypes
<1>6. CASE has_active'
  <2>1. Outlived(active_record)'
    BY <1>0, <1>6, ServedOutlives, PTL
  <2>2. ServesNothingOlder'
    BY <1>0, <1>6, ServedFollows, PTL
  <2>3. PICK s \in Record : s = active_record' /\ s.sequence \in Usable
    BY <1>2, <1>6
  <2>4. Outlived(s)'
    BY <2>1, <2>3 DEF Outlived, Floors, Unrivalled
  <2>5. Serving' = s /\ installed_floor' = s.sequence
    BY <1>2, <1>3, <1>6, <2>3
  <2>6. CASE installs = <<>>
    <3>1. s.sequence > Installed
      BY <1>0, <2>3, <2>6, InstalledTypes, LimitAssumption DEF Usable
    <3> QED BY <2>3, <2>4, <2>5, <3>1 DEF Installs
  <2>7. CASE installs # <<>>
    <3>1. PICK r \in Record : r = InstalledRecord /\ r.sequence = Installed
      BY <1>0, <2>7, InstalledTypes
    <3>2. Outlived(r)'
      BY <1>4, <2>7, <3>1 DEF DeviceInv, ServingInv
    <3>3. s = r \/ s.sequence > r.sequence
      BY <2>2, <2>3, <3>2 DEF ServesNothingOlder
    <3>4. CASE s = r
      BY <2>5, <3>1, <3>4
    <3>5. CASE s.sequence > r.sequence
      BY <2>3, <2>4, <2>5, <3>1, <3>5 DEF Installs
    <3> QED BY <3>3, <3>4, <3>5
  <2> QED BY <2>6, <2>7
<1> QED BY <1>2, <1>5, <1>6

LEMMA DeviceTypeStep ==
  ASSUME MonitorTypeOK, DeviceInv, MonitorNext
  PROVE  MonitorTypeOK' /\ StoreInv'
<1> USE DEF MonitorTypeOK, DeviceInv
<1>0. Observe /\ (HostStep \/ (Elsewhere /\ (Aside \/ AtStore)))
  BY StepKinds
<1>1. ASSUME DeviceTypeOK', RunTypeOK', LedgerTypeOK' PROVE MonitorTypeOK'
  BY <1>0, <1>1, HistoryType
<1>2. ASSUME Elsewhere PROVE RunTypeOK' /\ LedgerTypeOK'
  BY <1>2 DEF Elsewhere, run_vars, ledger_vars, RunTypeOK, LedgerTypeOK
<1>3. ASSUME UNCHANGED store_vars PROVE StoreInv'
  BY <1>3 DEF store_vars, nvs_vars, ram_vars, StoreInv, Staging, Repairing, StageInv,
     RepairInv, Holds, Settled, StagedIn, InactiveSlot
<1>4. CASE HostStep
  BY <1>1, <1>3, <1>4, HostType, HostLeavesDevice
<1>5. CASE Elsewhere /\ Aside
  BY <1>1, <1>2, <1>3, <1>5, AsideType, AsideLeavesStore
<1>6. CASE Elsewhere /\ AtStore
  <2>1. StoreTypeOK /\ OwnStep
    BY <1>6, AtStoreIsOwn DEF DeviceTypeOK
  <2>2. requests # <<>> \/ ~(CommitDone \/ CommitFailed)
    <3> SUFFICES ASSUME CommitDone \/ CommitFailed PROVE requests # <<>>
      OBVIOUS
    <3>1. Staging
      BY DEF CommitDone, StageInstalled, CommitFailed, StageFails, SlotCallFails,
         MetadataCallFails, Staging, Repairing
    <3> QED BY <3>1 DEF StagingInv
  <2>3. StoreInv'
    BY <2>1, StoreInvStep
  <2>4. DeviceTypeOK'
    BY <1>6, <2>2, AtStoreType
  <2> QED BY <1>1, <1>2, <1>6, <2>3, <2>4
<1> QED BY <1>0, <1>4, <1>5, <1>6

LEMMA InstallStep ==
  ASSUME MonitorTypeOK, DeviceInv, MonitorNext
  PROVE  \/ /\ installs' = installs
            /\ store_ready' => Serving' = InstalledRecord /\ installed_floor' = Installed
         \/ \E r \in Record :
               /\ Installs(r) /\ AtStore /\ Elsewhere
               /\ installs' = Append(installs, [record |-> r, boot |-> boot_nonce'])
<1>0. /\ Observe
      /\ HostStep \/ (Elsewhere /\ (Aside \/ AtStore))
      /\ DeviceTypeOK' /\ StoreInv' /\ HistoryTypeOK /\ HistoryInv
  BY StepKinds, DeviceTypeStep DEF MonitorTypeOK, DeviceInv
<1>1. CASE ~store_ready'
  <2>1. Serving' = Absent
    BY <1>1 DEF Serving
  <2> QED BY <1>0, <1>1, <2>1 DEF Observe
<1>2. ASSUME store_ready', Serving' = InstalledRecord, installed_floor' = Installed
      PROVE  installs' = installs
  <2>1. installs # <<>> => Serving' = installs[Len(installs)].record
    BY <1>2 DEF InstalledRecord
  <2>2. installs = <<>> => Serving' = Absent
    BY <1>2 DEF InstalledRecord
  <2> QED BY <1>0, <2>1, <2>2 DEF Observe
<1>3. CASE store_ready' /\ UNCHANGED store_vars
  <2>1. store_ready /\ Serving' = Serving /\ installed_floor' = installed_floor
    BY <1>3 DEF store_vars, nvs_vars, ram_vars, Serving
  <2>2. Serving' = InstalledRecord /\ installed_floor' = Installed
    BY <2>1 DEF DeviceInv, ServingInv
  <2> QED BY <1>2, <1>3, <2>2
<1>4. CASE store_ready' /\ Elsewhere /\ AtStore
  <2>1. \/ Serving' = InstalledRecord /\ installed_floor' = Installed
        \/ \E r \in Record : Installs(r)
    BY <1>0, <1>4, ServesStep
  <2>2. ASSUME NEW r \in Record, Installs(r)
        PROVE  installs' = Append(installs, [record |-> r, boot |-> boot_nonce'])
    <3>1. Serving' = r /\ r # Absent /\ r.sequence > Installed /\ Installed \in Nat
      BY <1>0, <2>2, SlotMarksAssumption, InstalledTypes DEF Installs
    <3>2. installs # <<>> => r # installs[Len(installs)].record
      <4>1. installs # <<>> => /\ InstalledRecord = installs[Len(installs)].record
                               /\ InstalledRecord.sequence = Installed
        BY <1>0, InstalledTypes
      <4> QED BY <3>1, <4>1
    <3> QED BY <1>0, <3>1, <3>2 DEF Observe
  <2> QED BY <1>2, <1>4, <2>1, <2>2
<1> QED BY <1>0, <1>1, <1>3, <1>4, HostLeavesDevice, AsideLeavesStore

\* A record is put in service by the COMMIT of the challenge that is pending, or
\* by begin, which has found it in a slot; no challenge is left behind.
LEMMA InstallOrigin ==
  ASSUME MonitorTypeOK, DeviceInv, AtStore, NEW r \in Record, Installs(r)
  PROVE  /\ Staging \/ Uninstalled
         /\ pending.valid \/ Uninstalled
         /\ ~pending'.valid /\ pc' = "idle"
<1>0. /\ StoreInv /\ StoreTypeOK /\ PendingIsCurrent /\ StagingInv /\ ServingInv
      /\ store_ready' /\ Serving' = r /\ r.sequence > Installed
      /\ HistoryTypeOK /\ HistoryInv
  BY DEF DeviceInv, MonitorTypeOK, DeviceTypeOK, Installs
<1>a. ASSUME Held(r) PROVE Uninstalled
  BY <1>0, <1>a DEF Uninstalled
<1>b. ASSUME ~store_ready, pending' = pending PROVE ~pending'.valid
  BY <1>0, <1>b DEF PendingIsCurrent
<1>c. ~(store_ready /\ Serving' = Serving)
  <2>1. ASSUME store_ready, Serving' = Serving PROVE r = InstalledRecord
    BY <1>0, <2>1 DEF ServingInv
  <2>2. r # InstalledRecord
    <3>1. InstalledRecord = Absent \/ InstalledRecord.sequence = Installed
      BY <1>0, InstalledTypes
    <3>2. r # Absent /\ Installed \in Nat
      BY <1>0, SlotMarksAssumption, InstalledTypes
    <3> QED BY <1>0, <3>1, <3>2
  <2> QED BY <2>1, <2>2
<1>1. CASE HandleCommit
  BY <1>0, <1>1, <1>c DEF HandleCommit, Stage, ram_vars, Serving
<1>2. CASE StoreCall /\ ~BeginRepaired
  <2>1. \/ UNCHANGED ram_vars
        \/ ~store_ready'
    BY <1>2 DEF StoreCall, StageSetSlot, StageCommitSlot, StageReadback, WriteActive, WriteFloor,
       BeginRepairFails, RamCleared
  <2>2. UNCHANGED ram_vars => store_ready' = store_ready /\ Serving' = Serving
    BY DEF ram_vars, Serving
  <2>3. store_ready
    BY <1>0, <2>1, <2>2
  <2> QED BY <1>0, <1>c, <2>1, <2>2, <2>3
<1>3. CASE BeginRepaired /\ pending' = pending
  <2>1. ~store_ready /\ active_slot \in SlotIndex /\ flash.slots[active_slot] = active_record
    BY <1>0, <1>3 DEF BeginRepaired, StoreInv, Repairing, RepairInv, StoreTypeOK
  <2>2. active_record' = active_record /\ has_active' = has_active
    BY <1>3 DEF BeginRepaired
  <2>3. has_active
    BY <1>0, <1>3 DEF BeginRepaired, StoreInv, Repairing, RepairInv
  <2>4. r = active_record
    BY <1>0, <2>2, <2>3 DEF Serving
  <2>5. Held(r) /\ pc' = "idle"
    BY <1>3, <2>1, <2>4 DEF Held, BeginRepaired
  <2> QED BY <1>3, <1>a, <1>b, <2>1, <2>5
<1>4. CASE CommitDone
  <2>1. Staging
    BY <1>4 DEF CommitDone, StageInstalled, Staging, Repairing
  <2> QED BY <1>0, <1>4, <2>1
          DEF StagingInv, CommitDone, StageInstalled, ClearPending, NoPending
<1>5. CASE CommitFailed \/ DeviceCrash
  <2>1. ~store_ready'
    BY <1>5 DEF CommitFailed, StageFails, DeviceCrash, Crash, RamCleared
  <2> QED BY <1>0, <2>1
<1>6. CASE Boot
  <2>1. ~store_ready /\ pending' = pending
    BY <1>0, <1>6 DEF Boot, Begin, BeginRefused, BeginEmpty, BeginSelected, StoreInv
  <2>2. Serving' \in {Absent, cache.slots[Chosen(cache)]}
    BY <1>6 DEF Boot, Begin, BeginRefused, RamCleared, BeginEmpty, BeginSelected, Serving
  <2>3. Chosen(cache) \in SlotIndex
    BY DEF Chosen, SlotIndex
  <2>4. Held(r)
    BY <1>0, <2>2, <2>3, SlotMarksAssumption DEF Held
  <2>5. pc' = "idle" \/ store_ready' = store_ready
    BY <1>6 DEF Boot, Begin, BeginRefused, BeginEmpty, BeginSelected
  <2> QED BY <1>0, <1>a, <1>b, <2>1, <2>4, <2>5
<1>7. StoreCall => pending' = pending
  BY DEF StoreCall, session_vars
<1> QED
  BY <1>1, <1>2, <1>3, <1>4, <1>5, <1>6, <1>7 DEF AtStore

\* How the history grows.
LEMMA Extended ==
  ASSUME HistoryTypeOK, NEW r \in Record, NEW b \in Nat,
         installs' = Append(installs, [record |-> r, boot |-> b])
  PROVE  /\ Len(installs') = Len(installs) + 1 /\ Len(installs) \in Nat
         /\ DOMAIN installs = 1 .. Len(installs)
         /\ DOMAIN installs' = 1 .. (Len(installs) + 1)
         /\ installs' # <<>>
         /\ \A i \in 0 .. Len(installs) : Sequence(i)' = Sequence(i)
         /\ \A i \in 1 .. Len(installs) : installs'[i] = installs[i]
         /\ installs'[Len(installs) + 1] = [record |-> r, boot |-> b]
         /\ \A i : i = Len(installs) + 1 => Sequence(i)' = r.sequence
         /\ Installed' = r.sequence /\ InstalledRecord' = r
<1>1. /\ installs \in Seq([record : Record, boot : Nat])
      /\ [record |-> r, boot |-> b] \in [record : Record, boot : Nat]
  BY DEF HistoryTypeOK
<1>2. /\ Len(installs') = Len(installs) + 1 /\ Len(installs) \in Nat
      /\ DOMAIN installs = 1 .. Len(installs)
      /\ DOMAIN installs' = 1 .. (Len(installs) + 1)
      /\ \A i \in 1 .. Len(installs) : installs'[i] = installs[i]
      /\ installs'[Len(installs) + 1] = [record |-> r, boot |-> b]
  BY <1>1, AppendElements
<1>3. installs' # <<>>
  BY <1>2
<1>4. \A i \in 0 .. Len(installs) : Sequence(i)' = Sequence(i)
  BY <1>2 DEF Sequence
<1>5. ASSUME NEW i, i = Len(installs) + 1 PROVE Sequence(i)' = r.sequence
  <2>1. i # 0 /\ installs'[i].record = r
    BY <1>2, <1>5
  <2> QED BY <2>1 DEF Sequence
<1>6. Installed' = r.sequence /\ InstalledRecord' = r
  <2>1. Installed' = installs'[Len(installs')].record.sequence
    BY <1>2 DEF Installed, Sequence
  <2> QED BY <1>2, <1>3, <2>1 DEF InstalledRecord
<1> QED BY <1>2, <1>3, <1>4, <1>5, <1>6

LEMMA DeviceInvInit == MonitorInit => DeviceInv
<1> SUFFICES ASSUME MonitorInit PROVE DeviceInv
  OBVIOUS
<1>1. StoreInit /\ pending = NoPending /\ installs = <<>>
  BY DEF MonitorInit, ProvisioningInit, DeviceInit
<1>2. StoreInv
  BY <1>1, StoreInvInit
<1>3. ~store_ready /\ pc = "off"
  BY <1>1 DEF StoreInit
<1>4. ServingInv /\ PendingIsCurrent /\ StagingInv
  BY <1>1, <1>3 DEF ServingInv, PendingIsCurrent, NoPending, StagingInv, Staging
<1>5. DOMAIN installs = {}
  BY <1>1
<1>6. HistoryInv
  BY <1>3, <1>5 DEF HistoryInv
<1> QED BY <1>2, <1>4, <1>6 DEF DeviceInv

LEMMA StagingStep ==
  ASSUME MonitorTypeOK, DeviceInv, MonitorNext
  PROVE  StagingInv'
<1>0. /\ HostStep \/ (Elsewhere /\ (Aside \/ AtStore))
      /\ StoreInv /\ StagingInv /\ requests \in Seq(Request)
  BY StepKinds DEF DeviceInv, MonitorTypeOK, DeviceTypeOK
<1>1. ASSUME Staging, UNCHANGED <<pending, candidate>>,
             requests # <<>> => requests' # <<>> /\ Head(requests') = Head(requests)
      PROVE  StagingInv'
  BY <1>0, <1>1 DEF StagingInv
<1>2. ASSUME pc' \in {"off", "idle"} PROVE StagingInv'
  BY <1>2 DEF StagingInv, Staging
<1>3. CASE HostStep
  <2>1. UNCHANGED <<store_vars, session_vars>>
    BY <1>3, HostLeavesDevice
  <2>2. requests # <<>> => requests' # <<>> /\ Head(requests') = Head(requests)
    <3> SUFFICES ASSUME requests # <<>>
                 PROVE  requests' # <<>> /\ Head(requests') = Head(requests)
      OBVIOUS
    <3>1. \/ requests' = requests
          \/ \E q : requests' = Append(requests, q)
      BY <1>3 DEF HostStep, Apply, VerifyReboot, OpenPort, AppendEntry, SkipOther,
         PreflightStatus, PreflightActive, PreStatus, Prepared, Committed, PostStatus,
         PostActive, RebootStatus, RebootActive, SaveEvidence, Abort, Ask, device_vars,
         channel_vars
    <3> QED BY <1>0, <3>1
  <2>3. Staging' => Staging
    BY <2>1 DEF store_vars, nvs_vars, ram_vars, Staging, Repairing
  <2>4. UNCHANGED <<pending, candidate>>
    BY <2>1 DEF store_vars, session_vars
  <2> QED BY <1>1, <2>2, <2>3, <2>4 DEF StagingInv
<1>4. CASE Aside
  <2>1. UNCHANGED store_vars
    BY <1>4, AsideLeavesStore
  <2>2. CASE pc = "idle"
    BY <1>2, <2>1, <2>2 DEF store_vars
  <2>3. CASE GateChange
    <3>1. UNCHANGED <<pending, candidate, requests>>
      BY <2>3 DEF GateChange, store_vars, session_vars, channel_vars
    <3>2. Staging' => Staging
      BY <2>1 DEF store_vars, nvs_vars, ram_vars, Staging, Repairing
    <3> QED BY <1>1, <3>1, <3>2 DEF StagingInv
  <2> QED
    BY <1>4, <2>2, <2>3 DEF Aside, HandleQueryStatus, HandleQueryActive, HandlePrepare,
       HandleCommitRefused, RequestLost, Ready
<1>5. CASE HandleCommit
  <2>1. /\ pending.valid /\ candidate' = pending.record
        /\ requests # <<>> /\ Head(requests).op = "Commit"
        /\ UNCHANGED <<pending, requests>>
    BY <1>5 DEF HandleCommit, Ready, MatchesChallenge, Stage, session_vars, channel_vars
  <2> QED BY <2>1 DEF StagingInv
<1>6. CASE StoreCall
  <2>1. UNCHANGED <<pending, candidate, requests>>
    BY <1>6 DEF StoreCall, session_vars, channel_vars, StageSetSlot, StageCommitSlot,
       StageReadback, WriteActive, WriteFloor, BeginRepaired, BeginRepairFails
  <2>2. Staging' => Staging
    BY <1>6 DEF StoreCall, Staging, Repairing, StageSetSlot, StageCommitSlot, StageReadback,
       WriteActive, WriteFloor, BeginRepaired, BeginRepairFails, ram_vars
  <2> QED BY <1>1, <2>1, <2>2 DEF StagingInv
<1>7. CASE CommitDone \/ CommitFailed \/ DeviceCrash
  <2>1. pc' \in {"off", "idle"}
    BY <1>7 DEF CommitDone, StageInstalled, CommitFailed, StageFails, DeviceCrash, Crash
  <2> QED BY <1>2, <2>1
<1>8. CASE Boot
  <2>1. ~ready
    BY <1>0, <1>8 DEF Boot, Begin, BeginRefused, BeginEmpty, BeginSelected, StoreInv
  <2>2. pc' = "idle" \/ (pc' = "set_active" /\ ready' = ready)
    BY <1>8 DEF Boot, Begin, BeginRefused, BeginEmpty, BeginSelected
  <2> QED BY <1>2, <2>1, <2>2 DEF StagingInv, Staging, Repairing
<1> QED BY <1>0, <1>3, <1>4, <1>5, <1>6, <1>7, <1>8 DEF AtStore

LEMMA PendingStep ==
  ASSUME MonitorTypeOK, DeviceInv, MonitorNext
  PROVE  PendingIsCurrent'
<1>0. /\ HostStep \/ (Elsewhere /\ (Aside \/ AtStore))
      /\ StoreInv /\ PendingIsCurrent
  BY StepKinds DEF DeviceInv
<1>1. ASSUME pending' = NoPending PROVE PendingIsCurrent'
  BY <1>1 DEF PendingIsCurrent, NoPending
<1>2. ASSUME UNCHANGED <<pending, store_ready, installed_floor>> PROVE PendingIsCurrent'
  BY <1>0, <1>2 DEF PendingIsCurrent
<1>3. ASSUME pending' = pending, ~store_ready PROVE PendingIsCurrent'
  BY <1>0, <1>3 DEF PendingIsCurrent
<1>4. CASE HostStep
  BY <1>2, <1>4, HostLeavesDevice DEF store_vars, ram_vars, session_vars
<1>5. CASE Aside
  <2>1. UNCHANGED <<store_ready, installed_floor>>
    BY <1>5, AsideLeavesStore DEF store_vars, ram_vars
  <2>2. CASE HandlePrepare /\ pending'.valid
    <3>1. /\ PrepareAcceptable(Head(requests))
          /\ pending'.floor = Head(requests).floor
          /\ pending'.record = Head(requests).record
      BY <2>2 DEF HandlePrepare, ClearPending, NoPending
    <3> QED BY <2>1, <3>1 DEF PrepareAcceptable, PendingIsCurrent
  <2>3. CASE HandlePrepare /\ ~pending'.valid
    BY <2>3 DEF PendingIsCurrent
  <2>4. CASE ~HandlePrepare
    <3>1. pending' \in {pending, NoPending}
      BY <1>5, <2>4 DEF Aside, HandleQueryStatus, HandleQueryActive, HandleCommitRefused,
         GateChange, RequestLost, session_vars
    <3> QED BY <1>1, <1>2, <2>1, <3>1
  <2> QED BY <2>2, <2>3, <2>4
<1>6. CASE HandleCommit
  BY <1>2, <1>6 DEF HandleCommit, Stage, ram_vars, session_vars
<1>7. CASE StoreCall
  <2>1. pending' = pending
    BY <1>7 DEF StoreCall, session_vars
  <2>2. CASE BeginRepaired \/ BeginRepairFails
    <3>1. ~store_ready
      BY <1>0, <2>2 DEF BeginRepaired, BeginRepairFails, MetadataCallFails, StoreInv,
         Repairing, RepairInv
    <3> QED BY <1>3, <2>1, <3>1
  <2>3. CASE ~(BeginRepaired \/ BeginRepairFails)
    BY <1>2, <1>7, <2>1, <2>3 DEF StoreCall, StageSetSlot, StageCommitSlot, StageReadback,
       WriteActive, WriteFloor, ram_vars
  <2> QED BY <2>2, <2>3
<1>8. CASE CommitDone \/ CommitFailed \/ DeviceCrash
  BY <1>1, <1>8 DEF CommitDone, CommitFailed, DeviceCrash, ClearPending
<1>9. CASE Boot
  <2>1. ~store_ready /\ pending' = pending
    BY <1>0, <1>9 DEF Boot, Begin, BeginRefused, BeginEmpty, BeginSelected, StoreInv
  <2> QED BY <1>3, <2>1
<1> QED BY <1>0, <1>4, <1>5, <1>6, <1>7, <1>8, <1>9 DEF AtStore

LEMMA BootGrows ==
  ASSUME MonitorTypeOK, MonitorNext
  PROVE  /\ boot_nonce' \in {boot_nonce, boot_nonce + 1}
         /\ boot_nonce' = boot_nonce + 1 \/ pc' = pc \/ pc # "off"
<1>1. HostStep \/ Aside \/ AtStore
  BY StepKinds
<1>2. CASE HostStep \/ Aside
  BY <1>2, HostLeavesDevice, AsideLeavesStore DEF store_vars, session_vars
<1>3. CASE Boot
  BY <1>3 DEF Boot
<1>4. CASE AtStore /\ ~Boot
  BY <1>4 DEF AtStore, HandleCommit, Stage, StoreCall, CommitDone, StageInstalled, CommitFailed,
     StageFails, SlotCallFails, MetadataCallFails, DeviceCrash, Crash, session_vars, StageSetSlot,
     StageCommitSlot, StageReadback, WriteActive, WriteFloor, BeginRepaired, BeginRepairFails
<1> QED BY <1>1, <1>2, <1>3, <1>4

LEMMA HistoryStep ==
  ASSUME MonitorTypeOK, DeviceInv, MonitorNext
  PROVE  HistoryInv' /\ ServingInv'
<1>0. /\ HistoryTypeOK /\ HistoryInv /\ ServingInv /\ StoreInv
      /\ MonitorTypeOK' /\ StoreInv' /\ DeviceTypeOK
  BY DeviceTypeStep DEF DeviceInv, MonitorTypeOK
<1>1. /\ boot_nonce \in Nat /\ boot_nonce' \in Nat /\ boot_nonce' >= boot_nonce
      /\ pc' # "off" => boot_nonce' > 0
  BY <1>0, BootGrows DEF DeviceTypeOK, HistoryInv
<1>2. \A i \in DOMAIN installs :
        /\ i \in 1 .. Len(installs) /\ i \in 0 .. Len(installs)
        /\ Sequence(i) \in Usable /\ installs[i].boot \in 1 .. boot_nonce'
  <2> SUFFICES ASSUME NEW i \in DOMAIN installs
               PROVE  /\ i \in 1 .. Len(installs) /\ i \in 0 .. Len(installs)
                      /\ Sequence(i) \in Usable /\ installs[i].boot \in 1 .. boot_nonce'
    OBVIOUS
  <2>1. i \in 1 .. Len(installs) /\ Len(installs) \in Nat
    BY <1>0, SequenceTypes
  <2>2. Sequence(i) \in Usable /\ installs[i].boot \in 1 .. boot_nonce
    BY <1>0 DEF HistoryInv
  <2> QED BY <1>1, <2>1, <2>2
<1>3. \/ UNCHANGED store_vars
      \/ OwnStep
  <2>1. HostStep \/ Aside \/ AtStore
    BY StepKinds
  <2> QED BY <1>0, <2>1, HostLeavesDevice, AsideLeavesStore, AtStoreIsOwn
<1>4. CASE /\ installs' = installs
           /\ store_ready' => Serving' = InstalledRecord /\ installed_floor' = Installed
  <2>1. HistoryInv'
    BY <1>0, <1>1, <1>2, <1>4 DEF HistoryInv, Sequence
  <2>2. installs' # <<>> => Outlived(InstalledRecord)'
    <3> SUFFICES ASSUME installs # <<>> PROVE Outlived(InstalledRecord)'
      BY <1>4
    <3>1. PICK r \in Record : r = InstalledRecord
      BY <1>0, InstalledTypes
    <3>2. Outlived(r)
      BY <1>0, <3>1 DEF ServingInv
    <3>3. Outlived(r)'
      <4>1. CASE OwnStep
        BY <1>0, <3>2, <4>1, OutlivedStep DEF DeviceTypeOK
      <4>2. CASE UNCHANGED store_vars
        BY <3>2, <4>2 DEF store_vars, nvs_vars, Outlived, Floors, Unrivalled
      <4> QED BY <1>3, <4>1, <4>2
    <3>4. InstalledRecord' = r
      BY <1>4, <3>1 DEF InstalledRecord
    <3> QED BY <3>3, <3>4 DEF Outlived, Floors, Unrivalled
  <2>3. store_ready' => Serving' = InstalledRecord' /\ installed_floor' = Installed'
    BY <1>4 DEF InstalledRecord, Installed, Sequence
  <2> QED BY <2>1, <2>2, <2>3 DEF ServingInv
<1>5. ASSUME NEW r \in Record, Installs(r),
             installs' = Append(installs, [record |-> r, boot |-> boot_nonce'])
      PROVE  HistoryInv' /\ ServingInv'
  <2> DEFINE n == Len(installs)
  <2>1. /\ n \in Nat /\ DOMAIN installs = 1 .. n /\ DOMAIN installs' = 1 .. (n + 1)
        /\ \A i \in 0 .. n : Sequence(i)' = Sequence(i)
        /\ \A i \in 1 .. n : installs'[i] = installs[i]
        /\ installs'[n + 1] = [record |-> r, boot |-> boot_nonce']
        /\ \A i : i = n + 1 => Sequence(i)' = r.sequence
        /\ Installed' = r.sequence /\ InstalledRecord' = r
    BY <1>0, <1>1, <1>5, Extended
  <2> HIDE DEF n
  <2>2. /\ r.sequence \in Usable /\ r.sequence > Installed /\ Serving' = r
        /\ installed_floor' = r.sequence /\ store_ready' /\ Outlived(r)'
    BY <1>5 DEF Installs
  <2>3. ServingInv'
    BY <2>1, <2>2 DEF ServingInv, Outlived, Floors, Unrivalled
  <2>4. pc' # "off"
    BY <1>0, <2>2 DEF StoreInv
  <2>5. ASSUME NEW i \in 1 .. (n + 1)
        PROVE  Sequence(i)' \in Usable /\ installs'[i].boot \in 1 .. boot_nonce'
    <3>1. CASE i = n + 1
      BY <1>1, <2>1, <2>2, <2>4, <3>1
    <3>2. CASE i # n + 1
      <4>1. i \in 1 .. n /\ i \in 0 .. n
        BY <2>1, <3>2
      <4> QED BY <1>2, <2>1, <4>1
    <3> QED BY <3>1, <3>2
  <2>6. ASSUME NEW i \in 1 .. (n + 1), NEW j \in 1 .. (n + 1), i < j
        PROVE  Sequence(i)' < Sequence(j)' /\ installs'[i].boot <= installs'[j].boot
    <3>1. i \in 1 .. n /\ i \in 0 .. n
      BY <2>1, <2>6
    <3>2. CASE j = n + 1
      <4>1. Sequence(i) <= Installed /\ Sequence(i) \in Usable
        BY <1>0, <1>2, <2>1, <3>1, InstalledIsLast DEF n
      <4>2. Installed \in Nat
        BY <1>0, InstalledTypes
      <4>3. Sequence(i) < r.sequence
        BY <2>2, <4>1, <4>2, LimitAssumption DEF Usable
      <4>4. installs[i].boot <= boot_nonce'
        BY <1>1, <1>2, <2>1, <3>1
      <4> QED BY <2>1, <3>1, <3>2, <4>3, <4>4
    <3>3. CASE j # n + 1
      <4>1. j \in 1 .. n /\ j \in 0 .. n
        BY <2>1, <3>3
      <4>2. Sequence(i) < Sequence(j) /\ installs[i].boot <= installs[j].boot
        BY <1>0, <2>1, <2>6, <3>1, <4>1 DEF HistoryInv
      <4> QED BY <2>1, <3>1, <4>1, <4>2
    <3> QED BY <3>2, <3>3
  <2>7. HistoryInv'
    BY <1>1, <2>1, <2>5, <2>6 DEF HistoryInv
  <2> QED BY <2>3, <2>7
<1> QED BY <1>4, <1>5, InstallStep

LEMMA DeviceInvStep ==
  ASSUME MonitorTypeOK, DeviceInv, MonitorNext
  PROVE  MonitorTypeOK' /\ DeviceInv'
BY DeviceTypeStep, StagingStep, PendingStep, HistoryStep DEF DeviceInv

\* Nothing changes for the invariants of device and history.
LEMMA DeviceInvStutter ==
  ASSUME MonitorTypeOK, DeviceInv, UNCHANGED monitor_vars
  PROVE  MonitorTypeOK' /\ DeviceInv'
<1> USE DEF monitor_vars, provisioning_vars, device_vars, store_vars, nvs_vars, ram_vars,
            session_vars, channel_vars, run_vars, ledger_vars, history_vars
<1>1. MonitorTypeOK'
  BY DEF MonitorTypeOK, DeviceTypeOK, StoreTypeOK, RunTypeOK, LedgerTypeOK, HistoryTypeOK
<1>2. StoreInv' /\ StagingInv'
  BY DEF DeviceInv, StoreInv, StagingInv, Staging, Repairing, StageInv, RepairInv, Holds,
     Settled, StagedIn, InactiveSlot
<1>3. HistoryInv' /\ PendingIsCurrent'
  BY DEF DeviceInv, HistoryInv, Sequence, PendingIsCurrent
<1>4. ServingInv'
  BY DEF DeviceInv, ServingInv, Serving, InstalledRecord, Installed, Sequence, Outlived,
     Floors, Unrivalled
<1> QED BY <1>1, <1>2, <1>3, <1>4 DEF DeviceInv

-----------------------------------------------------------------------------
(* What moves in the channel *)

\* The status the device would give now.
Current(m) ==
    /\ m.op = "Status" /\ m.boot = boot_nonce /\ m.store_ready = store_ready
    /\ store_ready => m.floor = installed_floor
    /\ m.active = Serving

LEMMA ResponsesStep ==
  ASSUME MonitorTypeOK, DeviceInv, MonitorNext
  PROVE  \/ Stretch(responses', responses)
         \/ \E m \in Response :
               /\ responses' = Append(responses, m)
               /\ m.op = "Status" => /\ Current(m) /\ Aside /\ Elsewhere
                                     /\ installs' = installs
               /\ m.op = "Active" => /\ m.ok = store_ready /\ m.active = Serving
                                     /\ pc = "idle"
               /\ m.op = "Prepare" => HandlePrepare /\ Elsewhere
<1>0. responses \in Seq(Response) /\ requests \in Seq(Request) /\ MonitorTypeOK'
  BY DeviceTypeStep DEF MonitorTypeOK, DeviceTypeOK
<1>a. \A m : responses' = Append(responses, m) => m \in Response
  <2> SUFFICES ASSUME NEW m, responses' = Append(responses, m) PROVE m \in Response
    OBVIOUS
  <2>1. responses' \in Seq(Response) /\ Len(responses) + 1 \in DOMAIN responses'
        /\ responses'[Len(responses) + 1] = m
    BY <1>0 DEF MonitorTypeOK, DeviceTypeOK
  <2> QED BY <2>1, ElementType
<1>b. ASSUME responses' = responses PROVE Stretch(responses', responses)
  <2>1. 0 \in Nat /\ \A i \in DOMAIN responses' :
          i + 0 \in DOMAIN responses /\ responses'[i] = responses[i + 0]
    BY <1>0, <1>b
  <2> QED BY <2>1 DEF Stretch
<1>c. ASSUME NEW m, m.op = "Commit", Answer(m)
      PROVE  \E n \in Response : responses' = Append(responses, n) /\ n.op = "Commit"
  BY <1>a, <1>c DEF Answer
<1>1. CASE HostStep
  <2>1. CASE Consume
    <3>1. PICK next \in 2 .. (Len(responses) + 1) :
            responses' = SubSeq(responses, next, Len(responses))
      BY <2>1 DEF Consume
    <3>2. next \in 1 .. (Len(responses) + 1)
      BY <1>0
    <3> QED BY <1>0, <3>1, <3>2, SuffixStretch
  <2>2. CASE responses' = responses
    BY <1>b, <2>2
  <2>3. CASE SkipOther
    BY <1>0, <2>3, TailStretch DEF SkipOther
  <2>4. CASE OpenPort
    BY <2>4, OpenEffect
  <2> QED
    BY <1>1, <2>1, <2>2, <2>3, <2>4 DEF HostStep, Apply, VerifyReboot, AppendEntry,
       PreflightStatus, PreflightActive, PreStatus, Prepared, Committed, PostStatus,
       PostActive, RebootStatus, RebootActive, SaveEvidence, Abort, device_vars, channel_vars
<1>2. CASE HandleQueryStatus /\ Elsewhere /\ Aside
  <2> DEFINE m == [op |-> "Status", boot |-> boot_nonce, gates |-> gates,
                   store_ready |-> store_ready,
                   floor |-> IF store_ready THEN installed_floor ELSE 0,
                   active |-> Serving,
                   pending |-> IF pending.valid THEN pending.record.sequence ELSE 0]
  <2>1. Current(m)
    BY DEF Current
  <2>2. responses' = Append(responses, m) /\ m \in Response
    BY <1>2, <1>a DEF HandleQueryStatus, Answer
  <2>3. installs' = installs
    <3>1. Serving' = Serving /\ (Serving # Absent => installs # <<>> /\
            Serving = installs[Len(installs)].record)
      <4>1. Serving' = Serving
        BY <1>2, AsideLeavesStore DEF store_vars, ram_vars, Serving
      <4>2. Serving # Absent => Serving = InstalledRecord
        BY DEF DeviceInv, ServingInv, Serving
      <4> QED BY <4>1, <4>2 DEF InstalledRecord
    <3> QED BY <3>1, StepKinds DEF Observe
  <2> QED BY <1>2, <2>1, <2>2, <2>3
<1>3. CASE Elsewhere /\ (HandleQueryActive \/ HandlePrepare \/ HandleCommitRefused)
  <2>1. CASE HandleQueryActive
    <3> DEFINE m == [op |-> "Active", ok |-> store_ready, active |-> Serving]
    <3>1. m.op = "Active" /\ m.ok = store_ready /\ m.active = Serving
      OBVIOUS
    <3>2. responses' = Append(responses, m) /\ pc = "idle"
      BY <2>1 DEF HandleQueryActive, Answer, Ready
    <3> QED BY <1>a, <3>1, <3>2
  <2>2. CASE HandlePrepare
    <3>1. [op |-> "Prepare", ok |-> FALSE].op = "Prepare"
      OBVIOUS
    <3>2. [op |-> "Prepare", ok |-> TRUE, record |-> Head(requests).record,
           nonce |-> nonces_used'].op = "Prepare"
      OBVIOUS
    <3>3. \E m : m.op = "Prepare" /\ responses' = Append(responses, m)
      BY <2>2, <3>1, <3>2 DEF HandlePrepare, Answer
    <3> QED BY <1>3, <1>a, <2>2, <3>3
  <2>3. CASE HandleCommitRefused
    <3>1. [op |-> "Commit", ok |-> FALSE].op = "Commit"
      OBVIOUS
    <3> QED BY <1>c, <2>3, <3>1 DEF HandleCommitRefused, RefuseCommit
  <2> QED BY <1>3, <2>1, <2>2, <2>3
<1>4. CASE GateChange \/ RequestLost
  BY <1>4, <1>b DEF GateChange, RequestLost, channel_vars
<1>5. CASE AtStore
  <2>1. CASE UNCHANGED channel_vars
    BY <1>b, <2>1 DEF channel_vars
  <2>2. CASE Answer([op |-> "Commit", ok |-> TRUE, record |-> candidate])
    <3>1. [op |-> "Commit", ok |-> TRUE, record |-> candidate].op = "Commit"
      OBVIOUS
    <3> QED BY <1>c, <2>2, <3>1
  <2>3. CASE Answer([op |-> "Commit", ok |-> FALSE])
    <3>1. [op |-> "Commit", ok |-> FALSE].op = "Commit"
      OBVIOUS
    <3> QED BY <1>c, <2>3, <3>1
  <2>4. CASE \E sent \in 0 .. Len(responses) : responses' = SubSeq(responses, 1, sent)
    BY <1>0, <2>4, PrefixStretch
  <2> QED BY <1>5, <2>1, <2>2, <2>3, <2>4, AtStoreEffect
<1> QED BY <1>1, <1>2, <1>3, <1>4, <1>5, StepKinds DEF Aside

\* A PREPARE is asked by PreStatus only; the device asks nothing.
LEMMA RequestsStep ==
  ASSUME MonitorTypeOK, DeviceInv, MonitorNext
  PROVE  \/ Stretch(requests', requests)
         \/ \E q \in Request :
               /\ requests' = Append(requests, q) /\ HostStep
               /\ q.op = "Prepare" => PreStatus /\ q.floor = Head(responses).floor
               /\ q.op = "Commit" => Prepared
<1>0. requests \in Seq(Request) /\ MonitorTypeOK'
  BY DeviceTypeStep DEF MonitorTypeOK, DeviceTypeOK
<1>a. \A q : requests' = Append(requests, q) => q \in Request
  <2> SUFFICES ASSUME NEW q, requests' = Append(requests, q) PROVE q \in Request
    OBVIOUS
  <2>1. requests' \in Seq(Request) /\ Len(requests) + 1 \in DOMAIN requests'
        /\ requests'[Len(requests) + 1] = q
    BY <1>0 DEF MonitorTypeOK, DeviceTypeOK
  <2> QED BY <2>1, ElementType
<1>b. ASSUME requests' = requests PROVE Stretch(requests', requests)
  <2>1. 0 \in Nat /\ \A i \in DOMAIN requests' :
          i + 0 \in DOMAIN requests /\ requests'[i] = requests[i + 0]
    BY <1>0, <1>b
  <2> QED BY <2>1 DEF Stretch
<1>c. ASSUME requests # <<>>, requests' = Tail(requests) PROVE Stretch(requests', requests)
  BY <1>0, <1>c, TailStretch
<1>d. ASSUME NEW q, q.op # "Prepare", q.op # "Commit", Ask(q), HostStep
      PROVE  \E r \in Request : /\ requests' = Append(requests, r) /\ HostStep
                                /\ r.op # "Prepare" /\ r.op # "Commit"
  BY <1>a, <1>d DEF Ask
<1>1. CASE HostStep
  <2>1. CASE UNCHANGED channel_vars \/ UNCHANGED requests
    BY <1>b, <2>1 DEF channel_vars
  <2>2. CASE Ask([op |-> "Status"]) \/ Ask([op |-> "Active"])
    <3>1. /\ [op |-> "Status"].op # "Prepare" /\ [op |-> "Active"].op # "Prepare"
          /\ [op |-> "Status"].op # "Commit" /\ [op |-> "Active"].op # "Commit"
      OBVIOUS
    <3> QED BY <1>1, <1>d, <2>2, <3>1
  <2>3. CASE Prepared
    <3> DEFINE q == [op |-> "Commit", boot |-> seen.boot, nonce |-> Head(responses).nonce,
                     sequence |-> package.record.sequence]
    <3>1. q.op # "Prepare" /\ requests' = Append(requests, q)
      BY <2>3 DEF Prepared, Ask
    <3> QED BY <1>1, <1>a, <2>3, <3>1
  <2>4. CASE PreStatus
    <3> DEFINE q == [op |-> "Prepare", boot |-> Head(responses).boot,
                     floor |-> Head(responses).floor, record |-> package.record]
    <3>1. /\ requests' = Append(requests, q) /\ q.floor = Head(responses).floor
          /\ q.op # "Commit"
      BY <2>4 DEF PreStatus, Ask
    <3> QED BY <1>1, <1>a, <2>4, <3>1
  <2> QED
    BY <1>1, <2>1, <2>2, <2>3, <2>4 DEF HostStep, Apply, VerifyReboot, OpenPort, AppendEntry,
       SkipOther, PreflightStatus, PreflightActive, Committed, PostStatus, PostActive,
       RebootStatus, RebootActive, SaveEvidence, Abort, device_vars
<1>2. CASE Aside
  BY <1>2, <1>b, <1>c DEF Aside, HandleQueryStatus, HandleQueryActive, HandlePrepare,
     HandleCommitRefused, RefuseCommit, GateChange, RequestLost, Ready, Answer, channel_vars
<1>3. CASE AtStore
  <2>1. CASE UNCHANGED channel_vars
    BY <1>b, <2>1 DEF channel_vars
  <2>2. CASE requests' = Tail(requests)
    <3>1. CASE requests # <<>>
      BY <1>c, <2>2, <3>1
    <3>2. CASE requests = <<>>
      <4>1. DOMAIN requests' = {}
        BY <1>0, <2>2, <3>2 DEF MonitorTypeOK, DeviceTypeOK
      <4> QED BY <4>1 DEF Stretch
    <3> QED BY <3>1, <3>2
  <2>3. CASE requests' = <<>>
    <3>1. DOMAIN requests' = {}
      BY <2>3
    <3> QED BY <3>1 DEF Stretch
  <2> QED BY <1>3, <2>1, <2>2, <2>3, AtStoreEffect DEF Answer
<1> QED BY <1>1, <1>2, <1>3, StepKinds

\* A run relies on the status it has just received.
LEMMA SeenStep ==
  ASSUME MonitorTypeOK, MonitorNext
  PROVE  \/ seen' = seen
         \/ seen' = NoStatus
         \/ /\ responses # <<>> /\ 1 \in DOMAIN responses
            /\ seen' = responses[1] /\ responses[1].op = "Status"
<1>1. seen' = Head(responses) /\ Receives("Status")
      => /\ responses # <<>> /\ 1 \in DOMAIN responses
         /\ seen' = responses[1] /\ responses[1].op = "Status"
  BY TailStretch DEF Receives, MonitorTypeOK, DeviceTypeOK
<1>2. CASE HostStep
  BY <1>1, <1>2 DEF HostStep, Apply, VerifyReboot, OpenPort, AppendEntry, SkipOther, Close,
     PreflightStatus, PreflightActive, PreStatus, Prepared, Committed, PostStatus,
     PostActive, RebootStatus, RebootActive, SaveEvidence, Abort, run_vars
<1>3. CASE Elsewhere
  BY <1>3 DEF Elsewhere, run_vars
<1> QED BY <1>2, <1>3, StepKinds

-----------------------------------------------------------------------------
(* What a status says of the history stays true *)

\* The boots of the first i installs are no later than boot, those of the rest
\* no earlier: at that time the device had installed exactly these.
Between(i, boot) ==
    \A k \in DOMAIN installs : IF k <= i THEN installs[k].boot <= boot
                                         ELSE boot <= installs[k].boot

StatusTrue(m) ==
    /\ m.boot <= boot_nonce
    /\ m.store_ready =>
         \E i \in 0 .. Len(installs) :
            /\ m.floor = Sequence(i)
            /\ m.active = IF i = 0 THEN Absent ELSE installs[i].record
            /\ Between(i, m.boot)

StatusesTrue ==
    /\ StatusTrue(seen)
    /\ \A i \in DOMAIN responses : responses[i].op = "Status" => StatusTrue(responses[i])

\* Answers keep their order, so that later ones report later histories.
AnswersOrdered ==
    \A i, j \in DOMAIN responses :
        /\ i < j
        /\ responses[i].op = "Status" /\ responses[i].store_ready
        /\ responses[j].op = "Status" /\ responses[j].store_ready
        => responses[i].floor <= responses[j].floor

LEMMA StatusTypes ==
  ASSUME NEW m \in Status
  PROVE  /\ m.boot \in Nat /\ m.store_ready \in BOOLEAN /\ m.floor \in Nat
         /\ m.op = "Status" /\ m.active \in Stored
BY LimitAssumption DEF Status, Floor

LEMMA ResponseTypes ==
  ASSUME MonitorTypeOK, NEW i \in DOMAIN responses, responses[i].op = "Status"
  PROVE  responses[i] \in Status
BY ElementType, ResponseKinds DEF MonitorTypeOK, DeviceTypeOK

LEMMA StatusStable ==
  ASSUME MonitorTypeOK, DeviceInv, MonitorNext, NEW m \in Status, StatusTrue(m)
  PROVE  StatusTrue(m)'
<1>0. /\ HistoryTypeOK /\ boot_nonce \in Nat /\ boot_nonce' \in Nat
      /\ boot_nonce <= boot_nonce' /\ m.boot \in Nat
      /\ m.boot <= boot_nonce' /\ m.boot <= boot_nonce
  BY BootGrows, StatusTypes DEF MonitorTypeOK, DeviceTypeOK, StatusTrue
<1>1. CASE installs' = installs
  BY <1>0, <1>1 DEF StatusTrue, Between, Sequence
<1>2. ASSUME NEW r \in Record,
             installs' = Append(installs, [record |-> r, boot |-> boot_nonce'])
      PROVE  StatusTrue(m)'
  <2> DEFINE n == Len(installs)
  <2>1. /\ n \in Nat /\ DOMAIN installs = 1 .. n /\ DOMAIN installs' = 1 .. (n + 1)
        /\ Len(installs') = n + 1
        /\ \A i \in 0 .. n : Sequence(i)' = Sequence(i)
        /\ \A i \in 1 .. n : installs'[i] = installs[i]
        /\ installs'[n + 1].boot = boot_nonce'
    BY <1>0, <1>2, Extended
  <2> HIDE DEF n
  <2>2. ASSUME NEW i \in 0 .. n, Between(i, m.boot),
               m.floor = Sequence(i), m.active = IF i = 0 THEN Absent ELSE installs[i].record
        PROVE  /\ i \in 0 .. (n + 1) /\ m.floor = Sequence(i)'
               /\ m.active = IF i = 0 THEN Absent ELSE installs'[i].record
               /\ Between(i, m.boot)'
    <3>1. i \in 0 .. (n + 1) /\ i <= n /\ (i # 0 => i \in 1 .. n)
      BY <2>1
    <3>2. ASSUME NEW k \in 1 .. (n + 1)
          PROVE  IF k <= i THEN installs'[k].boot <= m.boot ELSE m.boot <= installs'[k].boot
      <4>1. CASE k = n + 1
        <5>1. ~(k <= i)
          BY <2>1, <4>1
        <5> QED BY <1>0, <2>1, <4>1, <5>1
      <4>2. CASE k # n + 1
        <5>1. k \in 1 .. n
          BY <2>1, <4>2
        <5> QED BY <2>1, <2>2, <5>1 DEF Between
      <4> QED BY <4>1, <4>2
    <3>3. Between(i, m.boot)'
      BY <2>1, <3>2 DEF Between
    <3> QED BY <2>1, <2>2, <3>1, <3>3
  <2>3. ASSUME m.store_ready
        PROVE  \E i \in 0 .. (n + 1) :
                  /\ m.floor = Sequence(i)'
                  /\ m.active = IF i = 0 THEN Absent ELSE installs'[i].record
                  /\ Between(i, m.boot)'
    <3>1. PICK i \in 0 .. n :
            /\ m.floor = Sequence(i)
            /\ m.active = IF i = 0 THEN Absent ELSE installs[i].record
            /\ Between(i, m.boot)
      BY <2>3 DEF StatusTrue, n
    <3> QED BY <2>2, <3>1
  <2> QED BY <1>0, <2>1, <2>3 DEF StatusTrue
<1> QED BY <1>1, <1>2, InstallStep

LEMMA CurrentIsTrue ==
  ASSUME MonitorTypeOK, DeviceInv, NEW m \in Status, Current(m)
  PROVE  /\ StatusTrue(m)
         /\ m.store_ready => m.floor = Installed
<1>0. HistoryTypeOK /\ HistoryInv /\ ServingInv /\ boot_nonce \in Nat
  BY DEF MonitorTypeOK, DeviceInv, DeviceTypeOK
<1>1. m.boot = boot_nonce /\ m.boot <= boot_nonce
  BY <1>0 DEF Current
<1>2. m.store_ready => /\ m.floor = Installed /\ m.active = InstalledRecord
  BY <1>0 DEF Current, ServingInv
<1>3. /\ Len(installs) \in 0 .. Len(installs) /\ Installed = Sequence(Len(installs))
      /\ InstalledRecord = IF Len(installs) = 0 THEN Absent ELSE installs[Len(installs)].record
      /\ DOMAIN installs = 1 .. Len(installs) /\ Len(installs) \in Nat
  <2>1. installs = <<>> <=> Len(installs) = 0
    BY <1>0 DEF HistoryTypeOK
  <2> QED BY <1>0, <2>1, SequenceTypes DEF Installed, InstalledRecord
<1>4. Between(Len(installs), m.boot)
  <2> SUFFICES ASSUME NEW k \in DOMAIN installs
               PROVE  k <= Len(installs) /\ installs[k].boot <= boot_nonce
    BY <1>1 DEF Between
  <2> QED BY <1>0, <1>3 DEF HistoryInv
<1> QED BY <1>1, <1>2, <1>3, <1>4 DEF StatusTrue

LEMMA StatusesStep ==
  ASSUME MonitorTypeOK, DeviceInv, StatusesTrue, MonitorNext
  PROVE  StatusesTrue'
<1>0. seen \in Status /\ MonitorTypeOK'
  BY DeviceTypeStep DEF MonitorTypeOK, RunTypeOK
<1>1. ASSUME NEW i \in DOMAIN responses, responses[i].op = "Status"
      PROVE  \E m \in Status : m = responses[i] /\ StatusTrue(m)'
  <2>1. PICK m \in Status : m = responses[i]
    BY <1>1, ResponseTypes
  <2>2. StatusTrue(m)
    BY <1>1, <2>1 DEF StatusesTrue
  <2> QED BY <2>1, <2>2, StatusStable
<1>2. StatusTrue(seen)'
  <2>1. CASE seen' = seen
    <3>1. PICK m \in Status : m = seen
      BY <1>0
    <3>2. StatusTrue(m)'
      BY <3>1, StatusStable DEF StatusesTrue
    <3> QED BY <2>1, <3>1, <3>2 DEF StatusTrue
  <2>2. CASE seen' = NoStatus
    <3>1. boot_nonce' >= 0
      BY <1>0 DEF MonitorTypeOK, DeviceTypeOK
    <3> QED BY <2>2, <3>1 DEF StatusTrue, NoStatus
  <2>3. CASE /\ 1 \in DOMAIN responses
             /\ seen' = responses[1] /\ responses[1].op = "Status"
    <3>1. PICK m \in Status : m = responses[1] /\ StatusTrue(m)'
      BY <1>1, <2>3
    <3> QED BY <2>3, <3>1 DEF StatusTrue
  <2> QED BY <2>1, <2>2, <2>3, SeenStep
<1>3. ASSUME NEW i \in DOMAIN responses', responses'[i].op = "Status"
      PROVE  StatusTrue(responses[i])'
  <2>1. CASE Stretch(responses', responses)
    <3>1. PICK d \in Nat : i + d \in DOMAIN responses /\ responses'[i] = responses[i + d]
      BY <2>1 DEF Stretch
    <3>2. PICK m \in Status : m = responses[i + d] /\ StatusTrue(m)'
      BY <1>1, <1>3, <3>1
    <3> QED BY <3>1, <3>2 DEF StatusTrue
  <2>2. ASSUME NEW m \in Response, responses' = Append(responses, m),
               m.op = "Status" => Current(m) /\ Aside /\ installs' = installs
        PROVE  StatusTrue(responses[i])'
    <3>1. /\ DOMAIN responses' = 1 .. (Len(responses) + 1) /\ Len(responses) \in Nat
          /\ DOMAIN responses = 1 .. Len(responses)
          /\ \A k \in DOMAIN responses : responses'[k] = responses[k]
          /\ responses'[Len(responses) + 1] = m
      BY <2>2, AppendElements DEF MonitorTypeOK, DeviceTypeOK
    <3>2. CASE i = Len(responses) + 1
      <4>1. m.op = "Status" /\ m \in Status /\ Current(m) /\ installs' = installs /\ Aside
        BY <1>3, <2>2, <3>1, <3>2, ResponseKinds
      <4>2. StatusTrue(m)
        BY <4>1, CurrentIsTrue
      <4>3. StatusTrue(m)'
        BY <4>1, <4>2, StatusStable
      <4> QED BY <3>1, <3>2, <4>3 DEF StatusTrue
    <3>3. CASE i # Len(responses) + 1
      <4>1. i \in DOMAIN responses /\ responses'[i] = responses[i]
        BY <3>1, <3>3
      <4>2. PICK s \in Status : s = responses[i] /\ StatusTrue(s)'
        BY <1>1, <1>3, <4>1
      <4> QED BY <4>1, <4>2 DEF StatusTrue
    <3> QED BY <3>2, <3>3
  <2> QED BY <2>1, <2>2, ResponsesStep
<1> QED BY <1>2, <1>3 DEF StatusesTrue

LEMMA AnswersStep ==
  ASSUME MonitorTypeOK, DeviceInv, StatusesTrue, AnswersOrdered, MonitorNext
  PROVE  AnswersOrdered'
<1> DEFINE At(s, i) == s[i].op = "Status" /\ s[i].store_ready
<1>0. HistoryTypeOK /\ HistoryInv
  BY DEF MonitorTypeOK, DeviceInv
<1> SUFFICES ASSUME NEW i \in DOMAIN responses', NEW j \in DOMAIN responses', i < j,
                    At(responses', i), At(responses', j)
             PROVE  responses'[i].floor <= responses'[j].floor
  BY DEF AnswersOrdered
<1>1. CASE Stretch(responses', responses)
  <2>1. PICK d \in Nat : \A k \in DOMAIN responses' :
                           k + d \in DOMAIN responses /\ responses'[k] = responses[k + d]
    BY <1>1 DEF Stretch
  <2>2. /\ i + d \in DOMAIN responses /\ responses'[i] = responses[i + d]
        /\ j + d \in DOMAIN responses /\ responses'[j] = responses[j + d]
    BY <2>1
  <2>3. i + d < j + d
    <3>1. i \in Int /\ j \in Int
      BY DeviceTypeStep DEF MonitorTypeOK, DeviceTypeOK
    <3> QED BY <3>1
  <2> QED BY <2>2, <2>3 DEF AnswersOrdered
<1>2. ASSUME NEW m \in Response, responses' = Append(responses, m),
             m.op = "Status" => Current(m)
      PROVE  responses'[i].floor <= responses'[j].floor
  <2>1. /\ DOMAIN responses' = 1 .. (Len(responses) + 1) /\ Len(responses) \in Nat
        /\ DOMAIN responses = 1 .. Len(responses)
        /\ \A k \in DOMAIN responses : responses'[k] = responses[k]
        /\ responses'[Len(responses) + 1] = m
    BY <1>2, AppendElements DEF MonitorTypeOK, DeviceTypeOK
  <2>2. i \in DOMAIN responses /\ responses'[i] = responses[i]
    BY <2>1
  <2>3. CASE j = Len(responses) + 1
    <3>1. m.floor = Installed
      <4>1. m.op = "Status" /\ m.store_ready
        BY <2>1, <2>3
      <4> QED BY <1>2, <4>1, ResponseKinds, CurrentIsTrue
    <3>2. PICK k \in 0 .. Len(installs) : responses[i].floor = Sequence(k)
      <4>1. StatusTrue(responses[i]) /\ responses[i].store_ready
        BY <2>2 DEF StatusesTrue
      <4> QED BY <4>1 DEF StatusTrue
    <3>3. Sequence(k) <= Installed
      BY <1>0, InstalledIsLast
    <3> QED BY <2>1, <2>2, <2>3, <3>1, <3>2, <3>3
  <2>4. CASE j # Len(responses) + 1
    <3>1. j \in DOMAIN responses /\ responses'[j] = responses[j]
      BY <2>1, <2>4
    <3> QED BY <2>2, <3>1 DEF AnswersOrdered
  <2> QED BY <2>3, <2>4
<1> QED BY <1>1, <1>2, ResponsesStep

-----------------------------------------------------------------------------
(* Nothing on its way is about a later place in history than f *)

Bounded(f) ==
    /\ \A i \in DOMAIN requests : requests[i].op = "Prepare" => requests[i].floor <= f
    /\ pending.valid => pending.floor <= f
    /\ Uninstalled => Installed <= f
    /\ \A k \in DOMAIN installs : k < Len(installs) => Sequence(k) <= f

Writing == phase \in {"prepare", "commit", "post_status"}

\* A status not yet read, and the one the run writes on, bounds what is offered
\* to the device and what it has installed, the last install aside.
OffersInv ==
    /\ Bounded(Installed)
    /\ \A i \in DOMAIN responses :
           responses[i].op = "Status" /\ responses[i].store_ready
               => Bounded(responses[i].floor)
    /\ Writing => /\ seen.store_ready /\ seen.floor < package.record.sequence
                  /\ Bounded(seen.floor)

ServesNothingNew == store_ready /\ pc = "idle" => ~Uninstalled

LEMMA ServedIsNewest ==
  ASSUME StoreTypeOK, StoreInv, HistoryTypeOK, HistoryInv, ServingInv
  PROVE  ServesNothingNew
<1> SUFFICES ASSUME store_ready, pc = "idle", NEW s \in Record, Held(s),
                    s.sequence > Installed
             PROVE  FALSE
  BY DEF ServesNothingNew, Uninstalled
<1>1. /\ Settled(flash) /\ flash = cache /\ installed_floor = Installed
      /\ s \notin {Absent, Corrupt} /\ s.sequence \in Int /\ Installed \in Nat
      /\ active_record \in Record /\ active_record.sequence \in Int
      /\ active_slot \in SlotIndex /\ has_active \in BOOLEAN
  BY ServedHolds, InstalledTypes, SlotMarksAssumption DEF ServingInv, StoreTypeOK, Record
<1>2. PICK i \in SlotIndex : flash.slots[i] = s
  BY <1>1 DEF Held
<1>3. CASE has_active
  <2>1. /\ flash.slots[active_slot] = active_record /\ installed_floor = active_record.sequence
        /\ NoneNewer(flash, 1 - active_slot, active_record)
    BY <1>1, <1>3 DEF Settled, Holds
  <2>2. s = active_record \/ s.sequence < active_record.sequence
    BY <1>1, <1>2, <2>1 DEF NoneNewer, SlotIndex
  <2> QED BY <1>1, <2>1, <2>2
<1>4. CASE ~has_active
  BY <1>1, <1>2, <1>4 DEF Settled, Holds, SlotIndex
<1> QED BY <1>1, <1>3, <1>4

\* A record comes to be held by the staging of the pending challenge only.
LEMMA UninstalledStep ==
  ASSUME MonitorTypeOK, DeviceInv, MonitorNext, Uninstalled'
  PROVE  /\ installs' = installs
         /\ Uninstalled \/ (Staging /\ pending.valid)
<1>0. /\ StoreTypeOK /\ StoreInv /\ StagingInv
      /\ MonitorTypeOK' /\ DeviceInv'
  BY DeviceInvStep DEF DeviceInv, MonitorTypeOK, DeviceTypeOK
<1>1. installs' = installs
  <2> SUFFICES ASSUME NEW r \in Record, Installs(r), AtStore PROVE FALSE
    BY InstallStep
  <2>1. store_ready' /\ pc' = "idle"
    BY InstallOrigin DEF Installs
  <2>2. ServesNothingNew'
    <3>1. (StoreTypeOK /\ StoreInv /\ HistoryTypeOK /\ HistoryInv /\ ServingInv)'
      BY <1>0 DEF DeviceInv, MonitorTypeOK, DeviceTypeOK
    <3> QED BY <3>1, ServedIsNewest, PTL
  <2> QED BY <2>1, <2>2 DEF ServesNothingNew
<1>2. Installed' = Installed
  BY <1>1 DEF Installed, Sequence
<1>3. PICK s \in Record : Held(s)' /\ s.sequence > Installed
  BY <1>2 DEF Uninstalled
<1>4. CASE Held(s)
  BY <1>1, <1>3, <1>4 DEF Uninstalled
<1>5. CASE ~Held(s)
  <2>1. HostStep \/ Aside \/ AtStore
    BY StepKinds
  <2>2. ~UNCHANGED nvs_vars
    BY <1>3, <1>5 DEF Held, nvs_vars
  <2>3. AtStore
    BY <2>1, <2>2, HostLeavesDevice, AsideLeavesStore DEF store_vars
  <2>4. \/ KeepsKeys
        \/ pc = "set_slot" /\ SetSlot(InactiveSlot, candidate)
        \/ pc = "set_floor" /\ SetFloor(TargetFloor)
    BY <1>0, <2>3, AtStoreIsOwn, KeysStep DEF MonitorTypeOK
  <2>5. ~KeepsKeys
    BY <1>3, <1>5 DEF KeepsKeys, Held
  <2>6. ~(pc = "set_floor" /\ SetFloor(TargetFloor))
    <3> SUFFICES ASSUME pc = "set_floor", SetFloor(TargetFloor) PROVE FALSE
      OBVIOUS
    <3>1. flash' = flash /\ cache'.slots = cache.slots
      BY <1>0, SetKey, Targets
    <3> QED BY <1>3, <1>5, <3>1 DEF Held
  <2>7. pc = "set_slot"
    BY <2>4, <2>5, <2>6
  <2>8. Staging
    BY <2>7 DEF Staging, Repairing
  <2> QED BY <1>0, <1>1, <2>8 DEF StagingInv
<1> QED BY <1>4, <1>5

LEMMA BoundedStep ==
  ASSUME MonitorTypeOK, DeviceInv, MonitorNext, NEW f \in Nat, Bounded(f),
         PreStatus => Head(responses).floor <= f
  PROVE  Bounded(f)'
<1>0. /\ HistoryTypeOK /\ HistoryInv /\ ServingInv /\ PendingIsCurrent
      /\ requests \in Seq(Request) /\ boot_nonce' \in Nat
  BY DeviceTypeStep DEF MonitorTypeOK, DeviceInv, DeviceTypeOK
<1>1. pending.valid => Installed <= f
  BY <1>0 DEF Bounded, PendingIsCurrent, ServingInv
<1>2. ASSUME NEW i \in DOMAIN requests', requests'[i].op = "Prepare"
      PROVE  requests'[i].floor <= f
  <2>1. CASE Stretch(requests', requests)
    <3>1. PICK d \in Nat : i + d \in DOMAIN requests /\ requests'[i] = requests[i + d]
      BY <2>1 DEF Stretch
    <3> QED BY <1>2, <3>1 DEF Bounded
  <2>2. ASSUME NEW q \in Request, requests' = Append(requests, q),
               q.op = "Prepare" => PreStatus /\ q.floor = Head(responses).floor
        PROVE  requests'[i].floor <= f
    <3>1. /\ DOMAIN requests' = 1 .. (Len(requests) + 1) /\ Len(requests) \in Nat
          /\ DOMAIN requests = 1 .. Len(requests)
          /\ \A k \in DOMAIN requests : requests'[k] = requests[k]
          /\ requests'[Len(requests) + 1] = q
      BY <1>0, <2>2, AppendElements
    <3>2. CASE i = Len(requests) + 1
      BY <1>2, <2>2, <3>1, <3>2
    <3>3. CASE i # Len(requests) + 1
      <4>1. i \in DOMAIN requests /\ requests'[i] = requests[i]
        BY <3>1, <3>3
      <4> QED BY <1>2, <4>1 DEF Bounded
    <3> QED BY <3>2, <3>3
  <2> QED BY <2>1, <2>2, RequestsStep
<1>3. pending'.valid => pending'.floor <= f
  <2>1. CASE pending' \in {pending, NoPending}
    BY <2>1 DEF Bounded, NoPending
  <2>2. CASE HandlePrepare /\ pending' # NoPending
    <3>1. requests # <<>> /\ Head(requests).op = "Prepare"
          /\ pending'.floor = Head(requests).floor
      BY <2>2 DEF HandlePrepare, Ready, ClearPending
    <3>2. 1 \in DOMAIN requests /\ Head(requests) = requests[1]
      BY <1>0, <3>1, TailStretch
    <3> QED BY <3>1, <3>2 DEF Bounded
  <2>3. CASE ~HandlePrepare
    <3>1. CASE HostStep
      BY <2>1, <3>1, HostLeavesDevice DEF session_vars
    <3>2. CASE Aside
      BY <2>1, <2>3, <3>2 DEF Aside, HandleQueryStatus, HandleQueryActive,
         HandleCommitRefused, GateChange, RequestLost, session_vars
    <3>3. CASE AtStore
      BY <2>1, <3>3, AtStoreEffect DEF session_vars
    <3> QED BY <3>1, <3>2, <3>3, StepKinds
  <2> QED BY <2>1, <2>2, <2>3
<1>4. Uninstalled' => Installed' <= f
  <2> SUFFICES ASSUME Uninstalled' PROVE Installed' <= f
    OBVIOUS
  <2>1. installs' = installs /\ (Uninstalled \/ pending.valid)
    BY UninstalledStep
  <2>2. Installed' = Installed
    BY <2>1 DEF Installed, Sequence
  <2> QED BY <1>1, <2>1, <2>2 DEF Bounded
<1>5. \A k \in DOMAIN installs' : k < Len(installs') => Sequence(k)' <= f
  <2>1. CASE installs' = installs
    BY <2>1 DEF Bounded, Sequence
  <2>2. ASSUME NEW r \in Record, Installs(r), AtStore,
               installs' = Append(installs, [record |-> r, boot |-> boot_nonce'])
        PROVE  \A k \in DOMAIN installs' : k < Len(installs') => Sequence(k)' <= f
    <3> DEFINE n == Len(installs)
    <3>1. /\ n \in Nat /\ DOMAIN installs = 1 .. n /\ DOMAIN installs' = 1 .. (n + 1)
          /\ Len(installs') = n + 1
          /\ \A i \in 0 .. n : Sequence(i)' = Sequence(i)
      BY <1>0, <2>2, Extended
    <3>2. Installed <= f
      BY <1>1, <2>2, InstallOrigin DEF Bounded
    <3>3. \A k \in 1 .. n : k < n => Sequence(k) <= f
      BY <3>1 DEF Bounded
    <3>4. Sequence(n) = Installed
      BY DEF Installed
    <3> HIDE DEF n
    <3>5. ASSUME NEW k \in 1 .. (n + 1), k < n + 1 PROVE Sequence(k)' <= f
      <4>1. k \in 1 .. n /\ k \in 0 .. n
        BY <3>1, <3>5
      <4>2. Sequence(k) <= f
        <5>1. CASE k = n
          BY <3>2, <3>4, <5>1
        <5>2. CASE k # n
          <6>1. k < n
            BY <3>1, <4>1, <5>2
          <6> QED BY <3>3, <4>1, <6>1
        <5> QED BY <5>1, <5>2
      <4> QED BY <3>1, <4>1, <4>2
    <3> QED BY <3>1, <3>5
  <2> QED BY <2>1, <2>2, InstallStep
<1> QED BY <1>2, <1>3, <1>4, <1>5 DEF Bounded

LEMMA BoundedMonotone ==
  ASSUME MonitorTypeOK, DeviceInv, NEW f \in Nat, NEW g \in Nat, f <= g, Bounded(f)
  PROVE  Bounded(g)
<1>0. HistoryTypeOK /\ HistoryInv /\ requests \in Seq(Request) /\ SEQUENCE_LIMIT \in Nat
  BY LimitAssumption DEF MonitorTypeOK, DeviceInv, DeviceTypeOK
<1>1. ASSUME NEW i \in DOMAIN requests, requests[i].op = "Prepare"
      PROVE  requests[i].floor <= g
  <2>1. requests[i].floor \in Floor /\ requests[i].floor <= f
    BY <1>0, <1>1, ElementType, RequestKinds DEF Bounded
  <2> QED BY <1>0, <2>1 DEF Floor
<1>2. pending.valid => pending.floor <= g
  <2>1. pending.floor \in Floor /\ (pending.valid => pending.floor <= f)
    BY DEF MonitorTypeOK, DeviceTypeOK, Bounded
  <2> QED BY <1>0, <2>1 DEF Floor
<1>3. Uninstalled => Installed <= g
  <2>1. Installed \in Nat /\ (Uninstalled => Installed <= f)
    BY <1>0, InstalledTypes DEF Bounded
  <2> QED BY <2>1
<1>4. ASSUME NEW k \in DOMAIN installs, k < Len(installs) PROVE Sequence(k) <= g
  <2>1. k \in 0 .. Len(installs) /\ Sequence(k) <= f
    BY <1>0, <1>4, SequenceTypes DEF Bounded
  <2>2. Sequence(k) \in Floor
    BY <1>0, <2>1, SequenceTypes
  <2> QED BY <1>0, <2>1, <2>2 DEF Floor
<1> QED BY <1>1, <1>2, <1>3, <1>4 DEF Bounded

BoundsGrow == \A f, g \in Nat : f <= g /\ Bounded(f) => Bounded(g)

LEMMA BoundsDoGrow ==
  ASSUME MonitorTypeOK, DeviceInv
  PROVE  BoundsGrow
BY BoundedMonotone DEF BoundsGrow

LEMMA InstalledGrows ==
  ASSUME MonitorTypeOK, DeviceInv, MonitorNext
  PROVE  Installed \in Nat /\ Installed' \in Nat /\ Installed <= Installed'
<1>0. HistoryTypeOK /\ HistoryInv /\ boot_nonce' \in Nat
  BY DeviceTypeStep DEF MonitorTypeOK, DeviceInv, DeviceTypeOK
<1>1. Installed \in Nat
  BY <1>0, InstalledTypes
<1>2. CASE installs' = installs
  BY <1>1, <1>2 DEF Installed, Sequence
<1>3. ASSUME NEW r \in Record, Installs(r),
             installs' = Append(installs, [record |-> r, boot |-> boot_nonce'])
      PROVE  Installed' \in Nat /\ Installed <= Installed'
  <2>1. Installed' = r.sequence
    BY <1>0, <1>3, Extended
  <2>2. r.sequence \in Nat /\ r.sequence > Installed
    BY <1>3, LimitAssumption DEF Installs, Record
  <2> QED BY <1>1, <2>1, <2>2
<1> QED BY <1>1, <1>2, <1>3, InstallStep

\* What the run is about to write on is a true, current status.
LEMMA ReadStatus ==
  ASSUME MonitorTypeOK, Receives("Status")
  PROVE  /\ 1 \in DOMAIN responses /\ Head(responses) = responses[1]
         /\ responses[1].op = "Status" /\ responses[1] \in Status
<1>1. 1 \in DOMAIN responses /\ Head(responses) = responses[1]
  BY TailStretch DEF Receives, MonitorTypeOK, DeviceTypeOK
<1> QED BY <1>1, ResponseTypes DEF Receives

LEMMA PreStatusReads ==
  ASSUME MonitorTypeOK, DeviceInv, StatusesTrue, OffersInv, PreStatus
  PROVE  /\ 1 \in DOMAIN responses /\ Head(responses) = responses[1]
         /\ responses[1].op = "Status" /\ responses[1].store_ready
         /\ responses[1].floor \in Nat /\ responses[1].floor <= Installed
         /\ responses[1].floor < package.record.sequence
         /\ Bounded(responses[1].floor)
<1>0. HistoryTypeOK /\ HistoryInv
  BY DEF MonitorTypeOK, DeviceInv
<1>1. /\ 1 \in DOMAIN responses /\ Head(responses) = responses[1]
      /\ responses[1].op = "Status" /\ responses[1] \in Status
  BY ReadStatus DEF PreStatus
<1>2. responses[1].store_ready /\ package.record.sequence > responses[1].floor
  BY <1>1 DEF PreStatus, MayWrite
<1>3. PICK i \in 0 .. Len(installs) : responses[1].floor = Sequence(i)
  BY <1>1, <1>2 DEF StatusesTrue, StatusTrue
<1>4. responses[1].floor \in Nat /\ responses[1].floor <= Installed
  BY <1>0, <1>1, <1>3, StatusTypes, InstalledIsLast
<1>5. package.record.sequence \in Int
  BY DEF MonitorTypeOK, RunTypeOK, Record
<1> QED BY <1>1, <1>2, <1>4, <1>5 DEF OffersInv

\* What a step of a run leaves to a later one.
LEMMA WritingStep ==
  ASSUME MonitorNext, phase' \in {"prepare", "commit", "post_status"}
  PROVE  \/ PreStatus
         \/ Writing /\ UNCHANGED <<seen, package>>
<1>1. CASE HostStep
  BY <1>1 DEF HostStep, Apply, VerifyReboot, OpenPort, AppendEntry, Close, SkipOther,
     PreflightStatus, PreflightActive, PreStatus, Prepared, Committed, PostStatus, PostActive,
     RebootStatus, RebootActive, SaveEvidence, Abort, run_vars, Writing
<1>2. CASE Elsewhere
  BY <1>2 DEF Elsewhere, run_vars, Writing
<1> QED BY <1>1, <1>2, StepKinds

LEMMA OffersStep ==
  ASSUME MonitorTypeOK, DeviceInv, StatusesTrue, AnswersOrdered, OffersInv, MonitorNext
  PROVE  OffersInv'
<1>0. HistoryTypeOK /\ HistoryInv
  BY DEF MonitorTypeOK, DeviceInv
<1>a. Installed \in Nat /\ Installed' \in Nat /\ Installed <= Installed'
  BY InstalledGrows
<1>1. Bounded(Installed)'
  <2>1. PICK f \in Nat : f = Installed
    BY <1>a
  <2>2. Bounded(f)'
    <3>1. PreStatus => Head(responses).floor <= f
      BY <2>1, PreStatusReads
    <3>2. Bounded(f)
      BY <2>1 DEF OffersInv
    <3> QED BY <3>1, <3>2, BoundedStep
  <2>3. BoundsGrow'
    BY DeviceInvStep, BoundsDoGrow, PTL
  <2>4. PICK g \in Nat : g = Installed'
    BY <1>a
  <2>5. Bounded(g)'
    BY <1>a, <2>1, <2>2, <2>3, <2>4 DEF BoundsGrow
  <2> QED BY <2>4, <2>5 DEF Bounded
<1>2. ASSUME NEW i \in DOMAIN responses, responses[i].op = "Status", responses[i].store_ready
      PROVE  \E f \in Nat : f = responses[i].floor /\ Bounded(f)'
  <2>1. PICK f \in Nat : f = responses[i].floor
    BY <1>2, ResponseTypes, StatusTypes
  <2>2. Bounded(f)
    BY <1>2, <2>1 DEF OffersInv
  <2>3. ASSUME PreStatus PROVE Head(responses).floor <= f
    <3>1. /\ 1 \in DOMAIN responses /\ Head(responses) = responses[1]
          /\ responses[1].op = "Status" /\ responses[1].store_ready
          /\ responses[1].floor \in Nat
      BY <2>3, PreStatusReads
    <3>2. i = 1 \/ 1 < i
      BY DEF MonitorTypeOK, DeviceTypeOK
    <3> QED BY <1>2, <2>1, <3>1, <3>2 DEF AnswersOrdered
  <2> QED BY <2>1, <2>2, <2>3, BoundedStep
<1>3. ASSUME NEW i \in DOMAIN responses', responses'[i].op = "Status",
             responses'[i].store_ready
      PROVE  Bounded(responses[i].floor)'
  <2>1. CASE Stretch(responses', responses)
    <3>1. PICK d \in Nat : i + d \in DOMAIN responses /\ responses'[i] = responses[i + d]
      BY <2>1 DEF Stretch
    <3>2. PICK f \in Nat : f = responses[i + d].floor /\ Bounded(f)'
      BY <1>2, <1>3, <3>1
    <3> QED BY <3>1, <3>2 DEF Bounded
  <2>2. ASSUME NEW m \in Response, responses' = Append(responses, m),
               m.op = "Status" => Current(m) /\ installs' = installs
        PROVE  Bounded(responses[i].floor)'
    <3>1. /\ DOMAIN responses' = 1 .. (Len(responses) + 1) /\ Len(responses) \in Nat
          /\ DOMAIN responses = 1 .. Len(responses)
          /\ \A k \in DOMAIN responses : responses'[k] = responses[k]
          /\ responses'[Len(responses) + 1] = m
      BY <2>2, AppendElements DEF MonitorTypeOK, DeviceTypeOK
    <3>2. CASE i = Len(responses) + 1
      <4>1. m \in Status /\ Current(m) /\ m.store_ready /\ installs' = installs
        BY <1>3, <2>2, <3>1, <3>2, ResponseKinds
      <4>2. m.floor = Installed'
        BY <4>1, CurrentIsTrue DEF Installed, Sequence
      <4> QED BY <1>1, <3>1, <3>2, <4>2 DEF Bounded
    <3>3. CASE i # Len(responses) + 1
      <4>1. i \in DOMAIN responses /\ responses'[i] = responses[i]
        BY <3>1, <3>3
      <4>2. PICK f \in Nat : f = responses[i].floor /\ Bounded(f)'
        BY <1>2, <1>3, <4>1
      <4> QED BY <4>1, <4>2 DEF Bounded
    <3> QED BY <3>2, <3>3
  <2> QED BY <2>1, <2>2, ResponsesStep
<1>4. ASSUME Writing'
      PROVE  /\ seen'.store_ready /\ seen'.floor < package'.record.sequence
             /\ Bounded(seen.floor)'
  <2>1. CASE PreStatus
    <3>1. seen' = Head(responses) /\ package' = package
      BY <2>1 DEF PreStatus
    <3>2. PICK f \in Nat : f = responses[1].floor /\ Bounded(f)'
      BY <1>2, <2>1, PreStatusReads
    <3> QED BY <2>1, <3>1, <3>2, PreStatusReads DEF Bounded
  <2>2. CASE ~PreStatus /\ Writing /\ UNCHANGED <<seen, package>>
    <3>1. /\ seen.store_ready /\ seen.floor < package.record.sequence
          /\ Bounded(seen.floor)
      BY <2>2 DEF OffersInv
    <3>2. PICK f \in Nat : f = seen.floor
      BY StatusTypes DEF MonitorTypeOK, RunTypeOK
    <3>3. Bounded(f)'
      BY <2>2, <3>1, <3>2, BoundedStep
    <3> QED BY <2>2, <3>1, <3>2, <3>3 DEF Bounded
  <2> QED BY <1>4, <2>1, <2>2, WritingStep DEF Writing
<1> QED BY <1>1, <1>3, <1>4 DEF OffersInv

-----------------------------------------------------------------------------
(* What the run may report *)

\* The j-th install put that record in service on top of sequence from.
Account(j, record, from, boot) ==
    /\ j \in DOMAIN installs
    /\ installs[j].record = record /\ from = Sequence(j - 1)
    /\ installs[j].boot = boot

\* The write of the package is the install right after the status it was based on.
Wrote == \E j \in Nat : Account(j, package.record, seen.floor, seen.boot)

ModeInv ==
    /\ prior # NoEvidence => prior \in evidence
    /\ phase \in {"pre_status", "prepare", "commit", "post_status", "post_active"}
           => prior = NoEvidence
    /\ phase \in {"reboot_status", "reboot_active"} => prior # NoEvidence
    /\ phase = "post_active" \/ (phase \in {"save", "append"} /\ prior = NoEvidence)
           => Wrote
    /\ phase = "reboot_active" \/ (phase \in {"save", "append"} /\ prior # NoEvidence)
           => seen.boot > prior.boot

EvidenceTrue(e) ==
    /\ \E j \in Nat : Account(j, e.record, e.from, e.boot)
    /\ e.event = "reboot_verified" => e.observed_boot > e.boot

EvidenceInv == \A e \in evidence : EvidenceTrue(e)

LEMMA EvidenceInvSuffices == MonitorTypeOK /\ EvidenceInv => EvidenceIsTrue
<1> SUFFICES ASSUME MonitorTypeOK, EvidenceInv, NEW e \in evidence
             PROVE  \E i \in DOMAIN installs :
                        /\ installs[i].record = e.record
                        /\ e.from = IF i = 1 THEN 0 ELSE installs[i - 1].record.sequence
                        /\ e.boot = installs[i].boot
                        /\ e.event = "reboot_verified" => e.observed_boot > installs[i].boot
  BY DEF EvidenceIsTrue
<1>1. PICK j \in Nat : Account(j, e.record, e.from, e.boot)
  BY DEF EvidenceInv, EvidenceTrue
<1>2. e.from = IF j = 1 THEN 0 ELSE installs[j - 1].record.sequence
  <2>1. j - 1 = 0 <=> j = 1
    OBVIOUS
  <2> QED BY <1>1, <2>1 DEF Account, Sequence
<1> QED BY <1>1, <1>2 DEF Account, EvidenceInv, EvidenceTrue

\* The history is in the order of its sequence numbers.
LEMMA SequenceOrder ==
  ASSUME HistoryTypeOK, HistoryInv, NEW i \in 0 .. Len(installs), NEW j \in 0 .. Len(installs)
  PROVE  /\ i < j <=> Sequence(i) < Sequence(j)
         /\ i = j <=> Sequence(i) = Sequence(j)
<1>1. /\ DOMAIN installs = 1 .. Len(installs) /\ Len(installs) \in Nat
      /\ i \in Nat /\ j \in Nat /\ Sequence(i) \in Nat /\ Sequence(j) \in Nat
      /\ i # 0 => i \in DOMAIN installs
      /\ j # 0 => j \in DOMAIN installs
  <2>1. DOMAIN installs = 1 .. Len(installs) /\ Len(installs) \in Nat
    BY SequenceTypes
  <2>2. i \in Nat /\ j \in Nat /\ (i # 0 => i \in DOMAIN installs)
        /\ (j # 0 => j \in DOMAIN installs)
    BY <2>1
  <2>3. Sequence(i) \in Nat /\ Sequence(j) \in Nat
    BY SequenceTypes, LimitAssumption DEF Floor
  <2> QED BY <2>1, <2>2, <2>3
<1>2. ASSUME NEW a \in {i, j}, NEW b \in {i, j}, a < b PROVE Sequence(a) < Sequence(b)
  <2>1. b \in DOMAIN installs /\ Sequence(b) \in Usable
    BY <1>1, <1>2 DEF HistoryInv
  <2>2. CASE a = 0
    BY <2>1, <2>2, LimitAssumption DEF Sequence, Usable
  <2>3. CASE a # 0
    BY <1>1, <1>2, <2>1, <2>3 DEF HistoryInv
  <2> QED BY <2>2, <2>3
<1>3. /\ i < j => Sequence(i) < Sequence(j)
      /\ j < i => Sequence(j) < Sequence(i)
      /\ i = j => Sequence(i) = Sequence(j)
  BY <1>2
<1> QED BY <1>1, <1>3

LEMMA AccountStable ==
  ASSUME MonitorTypeOK, DeviceInv, MonitorNext,
         NEW j \in Nat, NEW record, NEW from, NEW boot, Account(j, record, from, boot)
  PROVE  Account(j, record, from, boot)'
<1>0. HistoryTypeOK /\ boot_nonce' \in Nat
  BY DeviceTypeStep DEF MonitorTypeOK, DeviceTypeOK
<1>1. CASE installs' = installs
  BY <1>1 DEF Account, Sequence
<1>2. ASSUME NEW r \in Record,
             installs' = Append(installs, [record |-> r, boot |-> boot_nonce'])
      PROVE  Account(j, record, from, boot)'
  <2> DEFINE n == Len(installs)
  <2>1. /\ n \in Nat /\ DOMAIN installs = 1 .. n /\ DOMAIN installs' = 1 .. (n + 1)
        /\ \A i \in 0 .. n : Sequence(i)' = Sequence(i)
        /\ \A i \in 1 .. n : installs'[i] = installs[i]
    BY <1>0, <1>2, Extended
  <2> HIDE DEF n
  <2>2. j \in 1 .. n /\ j - 1 \in 0 .. n /\ j \in 1 .. (n + 1)
    BY <2>1 DEF Account
  <2>3. Sequence(j - 1)' = Sequence(j - 1)
    BY <2>1, <2>2
  <2> QED BY <2>1, <2>2, <2>3 DEF Account
<1> QED BY <1>1, <1>2, InstallStep

LEMMA WroteStable ==
  ASSUME MonitorTypeOK, DeviceInv, MonitorNext, Wrote, UNCHANGED <<seen, package>>
  PROVE  Wrote'
<1>1. PICK j \in Nat : Account(j, package.record, seen.floor, seen.boot)
  BY DEF Wrote
<1>2. \A record, from, boot : Account(j, record, from, boot) => Account(j, record, from, boot)'
  BY AccountStable
<1>3. PICK record, from, boot : record = package.record /\ from = seen.floor /\ boot = seen.boot
  OBVIOUS
<1>4. Account(j, record, from, boot)'
  BY <1>1, <1>2, <1>3
<1> QED BY <1>3, <1>4 DEF Wrote, Account

\* Two true statuses, of one boot, around a write leave no room for a second one.
LEMMA PostStatusWrote ==
  ASSUME MonitorTypeOK, DeviceInv, StatusesTrue, OffersInv, PostStatus
  PROVE  Wrote
<1> DEFINE n == Len(installs)
           m == responses[1]
<1>0. /\ HistoryTypeOK /\ HistoryInv /\ n \in Nat /\ DOMAIN installs = 1 .. n
      /\ package.record \in Record /\ package.record.sequence \in Int
      /\ seen.boot \in Nat /\ seen.floor \in Nat
  BY SequenceTypes, StatusTypes DEF MonitorTypeOK, DeviceInv, RunTypeOK, Record
<1>1. /\ 1 \in DOMAIN responses /\ Head(responses) = m /\ m.op = "Status" /\ m \in Status
      /\ m.boot = seen.boot /\ m.store_ready /\ m.active = package.record
  BY ReadStatus DEF PostStatus, PostMatches
<1>2. /\ seen.store_ready /\ seen.floor < package.record.sequence /\ Bounded(seen.floor)
  BY DEF PostStatus, OffersInv, Writing
<1>3. PICK a \in 0 .. n : seen.floor = Sequence(a) /\ Between(a, seen.boot)
  BY <1>2 DEF StatusesTrue, StatusTrue
<1>4. PICK b \in 0 .. n : /\ m.active = IF b = 0 THEN Absent ELSE installs[b].record
                          /\ Between(b, seen.boot)
  BY <1>1 DEF StatusesTrue, StatusTrue
<1>5. b # 0 /\ installs[b].record = package.record
  BY <1>0, <1>1, <1>4, SlotMarksAssumption
<1> HIDE DEF n, m
<1>6. b \in 1 .. n /\ a \in Nat /\ b \in Nat /\ Sequence(b) = package.record.sequence
  BY <1>0, <1>5 DEF Sequence
<1>7. a < b
  <2>1. Sequence(a) < Sequence(b)
    BY <1>2, <1>3, <1>6
  <2> QED BY <1>0, <2>1, SequenceOrder DEF n
<1>8. a = b - 1
  <2> SUFFICES ASSUME a < b - 1 PROVE FALSE
    BY <1>6, <1>7
  <2>1. a + 1 \in 1 .. n /\ a + 1 \in 0 .. n /\ a < a + 1 /\ a + 1 < n
    BY <1>0, <1>6
  <2>2. Sequence(a + 1) <= Sequence(a)
    BY <1>0, <1>2, <1>3, <2>1 DEF Bounded, n
  <2>3. Sequence(a) < Sequence(a + 1)
    BY <1>0, <2>1, SequenceOrder DEF n
  <2>4. Sequence(a) \in Int /\ Sequence(a + 1) \in Int
    BY <1>0, <2>1, SequenceTypes, LimitAssumption DEF n, Floor
  <2> QED BY <2>2, <2>3, <2>4
<1>9. installs[b].boot = seen.boot
  <2>1. installs[b].boot <= seen.boot
    BY <1>0, <1>4, <1>6 DEF Between
  <2>2. seen.boot <= installs[b].boot
    <3>1. ~(b <= a)
      BY <1>6, <1>7
    <3> QED BY <1>0, <1>3, <1>6, <3>1 DEF Between
  <2>3. installs[b].boot \in Nat
    BY <1>0, <1>6, SequenceTypes
  <2> QED BY <1>0, <2>1, <2>2, <2>3
<1>10. Account(b, package.record, seen.floor, seen.boot)
  BY <1>0, <1>3, <1>5, <1>6, <1>8, <1>9 DEF Account
<1> QED BY <1>6, <1>10 DEF Wrote

\* A status that shows the record in service in another boot is of a later one.
LEMMA RebootIsLater ==
  ASSUME MonitorTypeOK, DeviceInv, StatusesTrue, EvidenceInv, ModeInv, RebootStatus
  PROVE  responses[1].boot > prior.boot /\ seen' = responses[1]
<1> DEFINE m == responses[1]
<1>0. /\ HistoryTypeOK /\ HistoryInv /\ DOMAIN installs = 1 .. Len(installs)
      /\ Len(installs) \in Nat /\ prior.boot \in Nat /\ prior.record \in Record
  BY SequenceTypes DEF MonitorTypeOK, DeviceInv, RunTypeOK, Evidence
<1>1. /\ 1 \in DOMAIN responses /\ Head(responses) = m /\ m.op = "Status" /\ m \in Status
      /\ m.boot # prior.boot /\ m.store_ready /\ m.active = prior.record /\ m.boot \in Nat
      /\ seen' = m
  BY ReadStatus, StatusTypes DEF RebootStatus, RebootMatches
<1>2. PICK j \in Nat : /\ j \in DOMAIN installs /\ installs[j].record = prior.record
                       /\ installs[j].boot = prior.boot
  <2>1. prior \in evidence
    BY DEF RebootStatus, ModeInv
  <2> QED BY <2>1 DEF EvidenceInv, EvidenceTrue, Account
<1>3. PICK i \in 0 .. Len(installs) :
        /\ m.active = IF i = 0 THEN Absent ELSE installs[i].record
        /\ Between(i, m.boot)
  BY <1>1 DEF StatusesTrue, StatusTrue
<1>4. i # 0 /\ installs[i].record = prior.record
  BY <1>0, <1>1, <1>3, SlotMarksAssumption
<1>5. i \in 1 .. Len(installs) /\ j \in 0 .. Len(installs) /\ i \in Nat /\ j # 0
  BY <1>0, <1>2, <1>4
<1>6. i = j
  <2>1. Sequence(i) = Sequence(j)
    BY <1>2, <1>4, <1>5 DEF Sequence
  <2> QED BY <1>0, <1>5, <2>1, SequenceOrder
<1>7. installs[j].boot <= m.boot
  <2>1. i <= i
    BY <1>5
  <2> QED BY <1>2, <1>3, <1>6, <2>1 DEF Between
<1> QED BY <1>0, <1>1, <1>2, <1>7

LEMMA ModeStep ==
  ASSUME MonitorTypeOK, DeviceInv, StatusesTrue, OffersInv, EvidenceInv, ModeInv, MonitorNext
  PROVE  ModeInv'
<1> USE DEF ModeInv
<1>a. Wrote /\ UNCHANGED <<seen, package>> => Wrote'
  BY WroteStable
<1>1. CASE UNCHANGED run_vars /\ evidence' = evidence
  BY <1>1, <1>a DEF run_vars
<1>2. CASE \E p \in Packages : Apply(p)
  BY <1>2 DEF Apply, OpenPort, Untouched
<1>3. CASE \E e \in evidence : VerifyReboot(e)
  BY <1>3 DEF VerifyReboot, OpenPort, Untouched
<1>4. CASE Close
  BY <1>4 DEF Close
<1>5. CASE PreflightStatus
  BY <1>5 DEF PreflightStatus, Untouched
<1>6. CASE PreflightActive
  BY <1>6 DEF PreflightActive, Untouched
<1>7. CASE PreStatus \/ Prepared \/ Committed
  <2>1. prior = NoEvidence /\ prior' = prior
    BY <1>7 DEF PreStatus, Prepared, Committed
  <2>2. phase' \in {"prepare", "commit", "post_status"}
    BY <1>7 DEF PreStatus, Prepared, Committed
  <2> QED BY <2>1, <2>2
<1>8. CASE PostStatus
  <2>1. Wrote'
    BY <1>8, <1>a, PostStatusWrote DEF PostStatus
  <2>2. prior = NoEvidence /\ prior' = prior /\ phase' = "post_active"
    BY <1>8 DEF PostStatus
  <2> QED BY <2>1, <2>2
<1>9. CASE PostActive
  <2>1. Wrote /\ prior = NoEvidence /\ UNCHANGED <<seen, package, prior>> /\ phase' = "save"
    BY <1>9 DEF PostActive
  <2> QED BY <1>a, <2>1
<1>10. CASE RebootStatus
  <2>1. seen'.boot > prior'.boot
    BY <1>10, RebootIsLater DEF RebootStatus
  <2>2. prior # NoEvidence /\ prior' = prior /\ evidence' = evidence
        /\ phase' = "reboot_active"
    BY <1>10 DEF RebootStatus, Untouched
  <2> QED BY <2>1, <2>2
<1>11. CASE RebootActive
  <2>1. /\ prior # NoEvidence /\ seen.boot > prior.boot
        /\ UNCHANGED <<seen, prior>> /\ phase' = "save" /\ evidence' = evidence
    BY <1>11 DEF RebootActive, Untouched
  <2> QED BY <2>1
<1>12. CASE SaveEvidence
  <2>1. /\ phase = "save" /\ phase' = "append" /\ UNCHANGED <<seen, prior, package>>
        /\ evidence \subseteq evidence'
    BY <1>12 DEF SaveEvidence
  <2> QED BY <1>a, <2>1
<1>13. \/ UNCHANGED run_vars /\ evidence' = evidence
       \/ Close
       \/ HostStep /\ ~SkipOther /\ ~Abort /\ ~\E e \in evidence : AppendEntry(e)
  <2>1. Elsewhere => UNCHANGED run_vars /\ evidence' = evidence
    BY DEF Elsewhere
  <2>2. SkipOther => UNCHANGED run_vars /\ evidence' = evidence
    BY DEF SkipOther, Untouched
  <2>3. Abort => Close
    BY DEF Abort
  <2>4. (\E e \in evidence : AppendEntry(e)) => Close
    BY DEF AppendEntry
  <2> QED BY <2>1, <2>2, <2>3, <2>4, StepKinds
<1> QED
  BY <1>1, <1>2, <1>3, <1>4, <1>5, <1>6, <1>7, <1>8, <1>9, <1>10, <1>11, <1>12, <1>13
  DEF HostStep

\* What a step retains is the report of the run.
LEMMA EvidenceGrows ==
  ASSUME MonitorNext
  PROVE  evidence' = evidence \/ (SaveEvidence /\ evidence' = evidence \cup {Report})
<1>1. CASE HostStep
  BY <1>1 DEF HostStep, Apply, VerifyReboot, OpenPort, AppendEntry, SkipOther,
     PreflightStatus, PreflightActive, PreStatus, Prepared, Committed, PostStatus, PostActive,
     RebootStatus, RebootActive, SaveEvidence, Abort, Untouched
<1>2. CASE Elsewhere
  BY <1>2 DEF Elsewhere
<1> QED BY <1>1, <1>2, StepKinds

LEMMA EvidenceStep ==
  ASSUME MonitorTypeOK, DeviceInv, EvidenceInv, ModeInv, MonitorNext
  PROVE  EvidenceInv'
<1>1. ASSUME NEW e, EvidenceTrue(e) PROVE EvidenceTrue(e)'
  <2>1. PICK j \in Nat : Account(j, e.record, e.from, e.boot)
    BY <1>1 DEF EvidenceTrue
  <2>2. Account(j, e.record, e.from, e.boot)'
    BY <2>1, AccountStable
  <2> QED BY <1>1, <2>2 DEF EvidenceTrue
<1>2. ASSUME SaveEvidence, prior = NoEvidence PROVE EvidenceTrue(Report)
  <2>1. PICK j \in Nat : Account(j, package.record, seen.floor, seen.boot)
    BY <1>2 DEF SaveEvidence, ModeInv, Wrote
  <2>2. Report = [event |-> "write_commit", record |-> package.record,
                  from |-> seen.floor, boot |-> seen.boot, observed_boot |-> seen.boot,
                  entries |-> entries_before]
    BY <1>2 DEF Report
  <2> QED BY <2>1, <2>2 DEF EvidenceTrue
<1>3. ASSUME SaveEvidence, prior # NoEvidence PROVE EvidenceTrue(Report)
  <2>1. prior \in evidence /\ seen.boot > prior.boot /\ prior \in Evidence
    BY <1>3 DEF SaveEvidence, ModeInv, MonitorTypeOK, RunTypeOK
  <2>2. PICK j \in Nat : Account(j, prior.record, prior.from, prior.boot)
    BY <2>1 DEF EvidenceInv, EvidenceTrue
  <2>3. /\ Report.record = prior.record /\ Report.from = prior.from
        /\ Report.boot = prior.boot /\ Report.observed_boot = seen.boot
    BY <1>3, <2>1 DEF Report, Evidence
  <2> QED BY <2>1, <2>2, <2>3 DEF EvidenceTrue
<1>4. ASSUME NEW e \in evidence' PROVE EvidenceTrue(e)
  BY <1>2, <1>3, EvidenceGrows DEF EvidenceInv
<1> QED BY <1>1, <1>4 DEF EvidenceInv

-----------------------------------------------------------------------------
(* The ledger *)

\* The n-th write entry is the n-th install, and the last entry, a write or a
\* reboot, is about the last install that is recorded.
Recorded == Cardinality(WriteEntries)
Nth(i) == Cardinality({j \in WriteEntries : j <= i})

LedgerInv ==
    /\ Recorded <= Len(installs)
    /\ LedgerRecord = IF Recorded = 0 THEN Absent ELSE installs[Recorded].record
    /\ LedgerSequence = Sequence(Recorded)
    /\ \A i \in WriteEntries :
           Nth(i) \in DOMAIN installs /\ ledger[i].record = installs[Nth(i)].record

LEMMA WriteEntriesFinite ==
  ASSUME LedgerTypeOK
  PROVE  /\ IsFiniteSet(WriteEntries) /\ Recorded \in Nat
         /\ WriteEntries \subseteq 1 .. Len(ledger) /\ Len(ledger) \in Nat
         /\ DOMAIN ledger = 1 .. Len(ledger)
         /\ \A i : Nth(i) \in Nat
<1>1. DOMAIN ledger = 1 .. Len(ledger) /\ Len(ledger) \in Nat
  BY DEF LedgerTypeOK
<1>2. WriteEntries \subseteq 1 .. Len(ledger)
  BY <1>1 DEF WriteEntries
<1>3. IsFiniteSet(1 .. Len(ledger))
  BY <1>1, FS_Interval
<1>4. IsFiniteSet(WriteEntries)
  BY <1>2, <1>3, FS_Subset
<1>5. ASSUME NEW i PROVE Nth(i) \in Nat
  <2>1. {j \in WriteEntries : j <= i} \subseteq WriteEntries
    OBVIOUS
  <2> QED BY <1>4, <2>1, FS_Subset, FS_CardinalityType DEF Nth
<1> QED BY <1>1, <1>2, <1>4, <1>5, FS_CardinalityType DEF Recorded

\* Installs recorded already stay where they are.
LEMMA InstallsKept ==
  ASSUME MonitorTypeOK, DeviceInv, MonitorNext
  PROVE  /\ Len(installs) <= Len(installs') /\ Len(installs') \in Nat
         /\ DOMAIN installs = 1 .. Len(installs) /\ DOMAIN installs' = 1 .. Len(installs')
         /\ \A i \in 1 .. Len(installs) : installs'[i] = installs[i]
         /\ \A i \in 0 .. Len(installs) : Sequence(i)' = Sequence(i)
<1>0. HistoryTypeOK /\ boot_nonce' \in Nat
  BY DeviceTypeStep DEF MonitorTypeOK, DeviceTypeOK
<1>1. DOMAIN installs = 1 .. Len(installs) /\ Len(installs) \in Nat
  BY <1>0, SequenceTypes
<1>2. CASE installs' = installs
  BY <1>1, <1>2 DEF Sequence
<1>3. ASSUME NEW r \in Record,
             installs' = Append(installs, [record |-> r, boot |-> boot_nonce'])
      PROVE  /\ Len(installs') = Len(installs) + 1
             /\ DOMAIN installs' = 1 .. (Len(installs) + 1)
             /\ \A i \in 1 .. Len(installs) : installs'[i] = installs[i]
             /\ \A i \in 0 .. Len(installs) : Sequence(i)' = Sequence(i)
  BY <1>0, <1>3, Extended
<1>4. CASE \E r \in Record : installs' = Append(installs, [record |-> r, boot |-> boot_nonce'])
  <2> DEFINE n == Len(installs)
             k == Len(installs')
  <2>1. /\ n \in Nat /\ k = n + 1 /\ DOMAIN installs = 1 .. n /\ DOMAIN installs' = 1 .. (n + 1)
        /\ \A i \in 1 .. n : installs'[i] = installs[i]
        /\ \A i \in 0 .. n : Sequence(i)' = Sequence(i)
    BY <1>1, <1>3, <1>4
  <2> HIDE DEF n, k
  <2>2. n <= k /\ k \in Nat /\ DOMAIN installs' = 1 .. k
    BY <2>1
  <2> QED BY <2>1, <2>2 DEF n, k
<1>5. installs' = installs
      \/ \E r \in Record : installs' = Append(installs, [record |-> r, boot |-> boot_nonce'])
  BY InstallStep
<1> QED BY <1>1, <1>2, <1>4, <1>5

\* An append that is written out in full adds one entry of the evidence.
LEMMA LedgerGrows ==
  ASSUME MonitorNext
  PROVE  \/ ledger' = ledger
         \/ \E e \in evidence : Appendable(e) /\ ledger' = Append(ledger, e)
<1>1. CASE HostStep
  BY <1>1 DEF HostStep, Apply, VerifyReboot, OpenPort, AppendEntry, SkipOther,
     PreflightStatus, PreflightActive, PreStatus, Prepared, Committed, PostStatus, PostActive,
     RebootStatus, RebootActive, SaveEvidence, Abort, Untouched, ledger_vars
<1>2. CASE Elsewhere
  BY <1>2 DEF Elsewhere, ledger_vars
<1> QED BY <1>1, <1>2, StepKinds

\* Evidence that continues the ledger is about the next install, or the last one.
LEMMA AppendableNext ==
  ASSUME MonitorTypeOK, DeviceInv, EvidenceInv, LedgerInv, NEW e \in evidence, Appendable(e)
  PROVE  \/ /\ e.event = "write_commit"
            /\ Recorded + 1 \in DOMAIN installs /\ e.record = installs[Recorded + 1].record
         \/ /\ e.event = "reboot_verified"
            /\ Recorded # 0 /\ e.record = installs[Recorded].record
<1>0. /\ HistoryTypeOK /\ HistoryInv /\ Recorded \in Nat /\ Recorded <= Len(installs)
      /\ DOMAIN installs = 1 .. Len(installs) /\ Len(installs) \in Nat
      /\ e \in Evidence
  BY WriteEntriesFinite, SequenceTypes DEF MonitorTypeOK, DeviceInv, LedgerTypeOK, LedgerInv
<1>1. PICK j \in Nat : Account(j, e.record, e.from, e.boot)
  BY DEF EvidenceInv, EvidenceTrue
<1>2. CASE e.event = "write_commit"
  <2>1. Sequence(j - 1) = Sequence(Recorded)
    BY <1>1, <1>2 DEF Appendable, LedgerInv, Account
  <2>2. j - 1 \in 0 .. Len(installs) /\ Recorded \in 0 .. Len(installs)
    BY <1>0, <1>1 DEF Account
  <2>3. j - 1 = Recorded
    BY <1>0, <2>1, <2>2, SequenceOrder
  <2>4. j = Recorded + 1
    BY <1>0, <2>3
  <2> QED BY <1>1, <1>2, <2>4 DEF Account
<1>3. CASE e.event = "reboot_verified"
  <2>1. e.record = LedgerRecord /\ e.record # Absent
    BY <1>0, <1>3, SlotMarksAssumption DEF Appendable, Evidence
  <2> QED BY <1>3, <2>1 DEF LedgerInv
<1> QED BY <1>0, <1>2, <1>3 DEF Evidence

LEMMA LedgerStable ==
  ASSUME MonitorTypeOK, DeviceInv, LedgerInv, MonitorNext, ledger' = ledger
  PROVE  LedgerInv'
<1>1. /\ WriteEntries' = WriteEntries /\ Recorded' = Recorded /\ \A i : Nth(i)' = Nth(i)
      /\ LedgerRecord' = LedgerRecord /\ LedgerSequence' = LedgerSequence
  BY DEF WriteEntries, Recorded, Nth, LedgerRecord, LedgerSequence
<1>2. Recorded \in Nat /\ Recorded \in 0 .. Len(installs) /\ Recorded <= Len(installs)
  <2>1. Recorded \in Nat /\ Recorded <= Len(installs)
    BY WriteEntriesFinite DEF MonitorTypeOK, LedgerInv
  <2>2. Len(installs) \in Nat
    BY SequenceTypes DEF MonitorTypeOK
  <2> QED BY <2>1, <2>2
<1>3. Recorded <= Len(installs')
  BY <1>2, InstallsKept
<1>4. LedgerRecord = IF Recorded = 0 THEN Absent ELSE installs'[Recorded].record
  <2>1. Recorded # 0 => Recorded \in 1 .. Len(installs)
    BY <1>2
  <2> QED BY <2>1, InstallsKept DEF LedgerInv
<1>5. LedgerSequence = Sequence(Recorded)'
  BY <1>1, <1>2, InstallsKept DEF LedgerInv
<1>6. ASSUME NEW i \in WriteEntries
      PROVE  Nth(i) \in DOMAIN installs' /\ ledger'[i].record = installs'[Nth(i)].record
  <2>1. Nth(i) \in 1 .. Len(installs) /\ ledger[i].record = installs[Nth(i)].record
    BY InstallsKept DEF LedgerInv
  <2>2. Nth(i) \in 1 .. Len(installs')
    BY <2>1, InstallsKept
  <2> QED BY <2>1, <2>2, InstallsKept
<1>7. Sequence(Recorded)' = LedgerSequence'
  BY <1>1, <1>5
<1> QED BY <1>1, <1>3, <1>4, <1>6, <1>7 DEF LedgerInv

LEMMA LedgerAppends ==
  ASSUME MonitorTypeOK, DeviceInv, EvidenceInv, LedgerInv, MonitorNext,
         NEW e \in evidence, Appendable(e), ledger' = Append(ledger, e)
  PROVE  LedgerInv'
<1> DEFINE N == Len(ledger)
           R == Recorded
           I == Len(installs)
           J == Len(installs')
<1>0. /\ N \in Nat /\ R \in Nat /\ I \in Nat /\ J \in Nat /\ R <= I /\ I <= J
      /\ IsFiniteSet(WriteEntries) /\ WriteEntries \subseteq 1 .. N
      /\ DOMAIN installs = 1 .. I /\ DOMAIN installs' = 1 .. J
      /\ \A i \in 1 .. I : installs'[i] = installs[i]
      /\ \A i : Nth(i) \in Nat
  BY WriteEntriesFinite, SequenceTypes, InstallsKept DEF MonitorTypeOK, LedgerInv
<1>1. /\ DOMAIN ledger = 1 .. N /\ DOMAIN ledger' = 1 .. (N + 1)
      /\ \A i \in 1 .. N : ledger'[i] = ledger[i]
      /\ ledger'[N + 1] = e /\ Len(ledger') = N + 1 /\ ledger' # <<>>
  <2>1. e \in Evidence /\ ledger \in Seq(Evidence)
    BY DEF MonitorTypeOK, LedgerTypeOK
  <2>2. /\ DOMAIN ledger = 1 .. N /\ DOMAIN ledger' = 1 .. (N + 1)
        /\ \A i \in 1 .. N : ledger'[i] = ledger[i]
        /\ ledger'[N + 1] = e /\ Len(ledger') = N + 1
    BY <2>1, AppendElements
  <2> QED BY <1>0, <2>2
<1> HIDE DEF N, I, J
<1>2. LedgerRecord' = e.record /\ LedgerSequence' = e.record.sequence
  BY <1>1 DEF LedgerRecord, LedgerSequence
<1>3. /\ \/ /\ e.event = "write_commit"
            /\ R + 1 \in 1 .. I /\ e.record = installs[R + 1].record
         \/ /\ e.event = "reboot_verified"
            /\ R # 0 /\ e.record = installs[R].record
      /\ \A i \in WriteEntries :
            Nth(i) \in 1 .. I /\ ledger[i].record = installs[Nth(i)].record
  <2>1. \A i \in WriteEntries :
            Nth(i) \in 1 .. I /\ ledger[i].record = installs[Nth(i)].record
    BY <1>0 DEF LedgerInv
  <2>2. \/ /\ e.event = "write_commit"
           /\ R + 1 \in 1 .. I /\ e.record = installs[R + 1].record
        \/ /\ e.event = "reboot_verified"
           /\ R # 0 /\ e.record = installs[R].record
    BY <1>0, AppendableNext
  <2> QED BY <2>1, <2>2
<1>4. ASSUME NEW k \in 1 .. I, e.record = installs[k].record,
             Recorded' = k,
             \A i \in WriteEntries : Nth(i)' = Nth(i),
             \A i \in WriteEntries' : i \in WriteEntries \/ (i = N + 1 /\ Nth(i)' = k)
      PROVE  LedgerInv'
  <2>1. k \in 1 .. J /\ k <= J /\ k # 0 /\ installs'[k].record = e.record
    BY <1>0, <1>4
  <2>2. Recorded' <= Len(installs')
    BY <1>4, <2>1 DEF J
  <2>3. LedgerRecord' = IF Recorded' = 0 THEN Absent ELSE installs'[Recorded'].record
    BY <1>2, <1>4, <2>1
  <2>4. LedgerSequence' = Sequence(Recorded)'
    BY <1>2, <1>4, <2>1 DEF Sequence
  <2>5. ASSUME NEW i \in WriteEntries'
        PROVE  Nth(i)' \in DOMAIN installs' /\ ledger'[i].record = installs'[Nth(i)'].record
    <3>1. CASE i \in WriteEntries
      <4>1. /\ i \in 1 .. N /\ Nth(i)' = Nth(i) /\ Nth(i) \in 1 .. I
            /\ ledger[i].record = installs[Nth(i)].record
        BY <1>0, <1>3, <1>4, <3>1
      <4>2. Nth(i) \in 1 .. J
        BY <1>0, <4>1
      <4> QED BY <1>0, <1>1, <4>1, <4>2
    <3>2. CASE i = N + 1 /\ Nth(i)' = k
      BY <1>0, <1>1, <2>1, <3>2
    <3> QED BY <1>4, <3>1, <3>2
  <2> QED BY <2>2, <2>3, <2>4, <2>5 DEF LedgerInv
<1>5. CASE e.event = "write_commit"
  <2>1. WriteEntries' = WriteEntries \cup {N + 1} /\ N + 1 \notin WriteEntries
    <3>1. N + 1 \notin 1 .. N
      BY <1>0
    <3>2. ASSUME NEW i PROVE i \in 1 .. (N + 1) <=> i \in 1 .. N \/ i = N + 1
      BY <1>0
    <3>3. ASSUME NEW i PROVE i \in WriteEntries' <=> i \in WriteEntries \/ i = N + 1
      BY <1>1, <1>5, <3>1, <3>2 DEF WriteEntries
    <3> QED BY <1>0, <3>1, <3>3
  <2>2. Recorded' = R + 1
    BY <1>0, <2>1, FS_AddElement DEF Recorded
  <2>3. ASSUME NEW i \in WriteEntries PROVE Nth(i)' = Nth(i)
    <3>1. i \in 1 .. N /\ ~(N + 1 <= i)
      BY <1>0
    <3>2. {j \in WriteEntries' : j <= i} = {j \in WriteEntries : j <= i}
      BY <2>1, <3>1
    <3> QED BY <3>2 DEF Nth
  <2>4. ASSUME NEW i, i = N + 1 PROVE Nth(i)' = R + 1
    <3>1. \A j \in WriteEntries' : j <= i
      <4>1. \A j \in 1 .. N : j <= N + 1
        BY <1>0
      <4>2. N + 1 <= N + 1
        BY <1>0
      <4> QED BY <1>0, <2>1, <2>4, <4>1, <4>2
    <3>2. {j \in WriteEntries' : j <= i} = WriteEntries'
      BY <3>1
    <3> QED BY <2>2, <3>2 DEF Nth, Recorded
  <2>5. R + 1 \in 1 .. I /\ e.record = installs[R + 1].record
    BY <1>3, <1>5
  <2> QED BY <1>4, <2>1, <2>2, <2>3, <2>4, <2>5
<1>6. CASE e.event = "reboot_verified"
  <2>1. WriteEntries' = WriteEntries
    <3>1. e.event # "write_commit"
      BY <1>6
    <3>2. ASSUME NEW i PROVE i \in 1 .. (N + 1) <=> i \in 1 .. N \/ i = N + 1
      BY <1>0
    <3>3. ASSUME NEW i PROVE i \in WriteEntries' <=> i \in WriteEntries
      <4>1. i \in WriteEntries' <=> i \in 1 .. (N + 1) /\ ledger'[i].event = "write_commit"
        BY <1>1 DEF WriteEntries
      <4>2. i \in WriteEntries <=> i \in 1 .. N /\ ledger[i].event = "write_commit"
        BY <1>1 DEF WriteEntries
      <4> QED BY <1>1, <3>1, <3>2, <4>1, <4>2
    <3> QED BY <3>3
  <2>2. Recorded' = R /\ \A i : Nth(i)' = Nth(i)
    BY <2>1 DEF Recorded, Nth
  <2>3. R \in 1 .. I /\ e.record = installs[R].record
    <3>1. R # 0 /\ e.record = installs[R].record
      BY <1>3, <1>6
    <3> QED BY <1>0, <3>1
  <2> QED BY <1>4, <2>1, <2>2, <2>3
<1> QED BY <1>3, <1>5, <1>6

LEMMA LedgerStep ==
  ASSUME MonitorTypeOK, DeviceInv, EvidenceInv, LedgerInv, MonitorNext
  PROVE  LedgerInv'
BY LedgerGrows, LedgerStable, LedgerAppends

-----------------------------------------------------------------------------
(* The conversation of a run that found the channel clear *)

Asked(op) == \E i \in DOMAIN requests : requests[i].op = op
Answered(op) == \E i \in DOMAIN responses : responses[i].op = op

Preflight == phase \in {"preflight_status", "preflight_active"}
Before == Preflight \/ phase = "pre_status"
\* Nothing can be installed: a write is being prepared on a recorded state.
Quiet == phase \in {"pre_status", "prepare"} \/ Asked("Prepare")

Conversation ==
    /\ Before \/ phase = "prepare" => ~Asked("Commit")
    /\ Before => ~Asked("Prepare") /\ ~Answered("Prepare")
    /\ phase = "prepare" /\ Answered("Prepare") => ~Asked("Prepare")
    /\ Asked("Prepare") => ~Asked("Commit")
    /\ \A i, j \in DOMAIN requests :
           requests[i].op = "Prepare" /\ requests[j].op = "Prepare" => i = j

OneAhead ==
    /\ Preflight =>
         \A i \in DOMAIN responses :
             responses[i].op = "Active" /\ responses[i].ok
                 => responses[i].active = InstalledRecord /\ ~Uninstalled
    /\ Quiet => ~Uninstalled /\ Len(installs) <= Recorded
    /\ pending.valid \/ Uninstalled => Len(installs) <= Recorded
    /\ Len(installs) <= Recorded + 1

FreshInv == ~late_answers => Conversation /\ OneAhead

LEMMA AskedStep ==
  ASSUME MonitorTypeOK, DeviceInv, MonitorNext
  PROVE  /\ Asked("Prepare")' => Asked("Prepare") \/ PreStatus
         /\ Asked("Commit")' => Asked("Commit") \/ Prepared
<1>1. ASSUME NEW op, \E i \in DOMAIN requests' : requests'[i].op = op,
             \A i \in DOMAIN requests : requests[i].op # op
      PROVE  \E q \in Request : /\ q.op = op /\ requests' = Append(requests, q)
                                /\ q.op = "Prepare" => PreStatus
                                /\ q.op = "Commit" => Prepared
  <2>1. PICK i \in DOMAIN requests' : requests'[i].op = op
    BY <1>1
  <2>2. CASE Stretch(requests', requests)
    BY <1>1, <2>1, <2>2 DEF Stretch
  <2>3. ASSUME NEW q \in Request, requests' = Append(requests, q)
        PROVE  q.op = op
    <3>1. /\ DOMAIN requests' = 1 .. (Len(requests) + 1) /\ Len(requests) \in Nat
          /\ DOMAIN requests = 1 .. Len(requests)
          /\ \A k \in DOMAIN requests : requests'[k] = requests[k]
          /\ requests'[Len(requests) + 1] = q
      BY <2>3, AppendElements DEF MonitorTypeOK, DeviceTypeOK
    <3>2. CASE i = Len(requests) + 1
      BY <2>1, <3>1, <3>2
    <3>3. CASE i # Len(requests) + 1
      <4>1. i \in DOMAIN requests /\ requests'[i] = requests[i]
        BY <3>1, <3>3
      <4> QED BY <1>1, <2>1, <4>1
    <3> QED BY <3>2, <3>3
  <2> QED BY <2>2, <2>3, RequestsStep
<1>2. ASSUME Asked("Prepare")', ~Asked("Prepare") PROVE PreStatus
  <2>1. PICK q \in Request : q.op = "Prepare" /\ (q.op = "Prepare" => PreStatus)
    <3>1. /\ \E i \in DOMAIN requests' : requests'[i].op = "Prepare"
          /\ \A i \in DOMAIN requests : requests[i].op # "Prepare"
      BY <1>2 DEF Asked
    <3> QED BY <1>1, <3>1
  <2> QED BY <2>1
<1>3. ASSUME Asked("Commit")', ~Asked("Commit") PROVE Prepared
  <2>1. PICK q \in Request : q.op = "Commit" /\ (q.op = "Commit" => Prepared)
    <3>1. /\ \E i \in DOMAIN requests' : requests'[i].op = "Commit"
          /\ \A i \in DOMAIN requests : requests[i].op # "Commit"
      BY <1>3 DEF Asked
    <3> QED BY <1>1, <3>1
  <2> QED BY <2>1
<1> QED BY <1>2, <1>3

LEMMA AnsweredStep ==
  ASSUME MonitorTypeOK, DeviceInv, MonitorNext, NEW i \in DOMAIN responses'
  PROVE  \/ \E k \in DOMAIN responses : responses'[i] = responses[k]
         \/ \E m \in Response :
               /\ responses'[i] = m
               /\ m.op = "Active" => m.ok = store_ready /\ m.active = Serving /\ pc = "idle"
               /\ m.op = "Prepare" => HandlePrepare /\ Elsewhere
<1>1. CASE Stretch(responses', responses)
  BY <1>1 DEF Stretch
<1>2. ASSUME NEW m \in Response, responses' = Append(responses, m)
      PROVE  (\E k \in DOMAIN responses : responses'[i] = responses[k]) \/ responses'[i] = m
  <2>1. /\ DOMAIN responses' = 1 .. (Len(responses) + 1) /\ Len(responses) \in Nat
        /\ DOMAIN responses = 1 .. Len(responses)
        /\ \A k \in DOMAIN responses : responses'[k] = responses[k]
        /\ responses'[Len(responses) + 1] = m
    BY <1>2, AppendElements DEF MonitorTypeOK, DeviceTypeOK
  <2>2. i = Len(responses) + 1 \/ i \in DOMAIN responses
    BY <2>1
  <2> QED BY <2>1, <2>2
<1> QED BY <1>1, <1>2, ResponsesStep

\* Where a run that is still talking comes from.
LEMMA PhaseStep ==
  ASSUME MonitorNext
  PROVE  /\ phase' = "preflight_status" => phase = phase' \/ OpenPort
         /\ phase' = "preflight_active" => phase = phase' \/ phase = "preflight_status"
         /\ phase' = "pre_status" => phase = phase' \/ PreflightActive
         /\ phase' = "prepare" => phase = phase' \/ PreStatus
         /\ Elsewhere => phase' = phase
<1>1. CASE HostStep
  <2>1. Elsewhere => phase' = phase
    BY DEF Elsewhere, run_vars
  <2>2. CASE \E p \in Packages : Apply(p)
    BY <2>1, <2>2 DEF Apply, OpenPort
  <2>3. CASE \E e \in evidence : VerifyReboot(e)
    BY <2>1, <2>3 DEF VerifyReboot, OpenPort
  <2>4. CASE (\E e \in evidence : AppendEntry(e)) \/ Abort
    BY <2>1, <2>4 DEF AppendEntry, Abort, Close
  <2>5. CASE SkipOther
    BY <2>5 DEF SkipOther, run_vars
  <2>6. CASE PreflightStatus
    BY <2>1, <2>6 DEF PreflightStatus
  <2>7. CASE PreflightActive
    BY <2>1, <2>7 DEF PreflightActive
  <2>8. CASE PreStatus
    BY <2>1, <2>8 DEF PreStatus
  <2>9. CASE Prepared \/ Committed \/ PostStatus \/ PostActive \/ RebootStatus \/ RebootActive
             \/ SaveEvidence
    BY <2>1, <2>9 DEF Prepared, Committed, PostStatus, PostActive, RebootStatus, RebootActive,
       SaveEvidence
  <2> QED BY <1>1, <2>2, <2>3, <2>4, <2>5, <2>6, <2>7, <2>8, <2>9 DEF HostStep
<1>2. CASE Elsewhere
  BY <1>2 DEF Elsewhere, run_vars
<1> QED BY <1>1, <1>2, StepKinds

\* A run that does not find the channel clear is marked.
LEMMA OpensClear ==
  ASSUME MonitorTypeOK, MonitorNext, ~late_answers'
  PROVE  /\ ~late_answers
         /\ OpenPort => /\ ~Asked("Commit") /\ ~Asked("Prepare")
                        /\ \A i \in DOMAIN responses' : FALSE
<1>1. ~late_answers /\ (phase = "closed" /\ phase' # "closed"
                           => requests = <<>> /\ responses' = <<>>)
  BY StepKinds DEF Observe, MonitorTypeOK, HistoryTypeOK
<1>2. OpenPort => phase = "closed" /\ phase' # "closed"
  BY DEF OpenPort
<1>3. requests = <<>> => DOMAIN requests = {}
  OBVIOUS
<1>4. responses' = <<>> => DOMAIN responses' = {}
  OBVIOUS
<1> QED BY <1>1, <1>2, <1>3, <1>4 DEF Asked

\* Of a single PREPARE none is left once it is handled.
LEMMA PrepareHandled ==
  ASSUME MonitorTypeOK, Conversation, HandlePrepare
  PROVE  Asked("Prepare") /\ ~Asked("Prepare")'
<1>1. /\ requests \in Seq(Request) /\ requests # <<>> /\ requests' = Tail(requests)
      /\ Head(requests).op = "Prepare"
  BY DEF MonitorTypeOK, DeviceTypeOK, HandlePrepare, Ready, Answer
<1>2. 1 \in DOMAIN requests /\ requests[1].op = "Prepare"
  BY <1>1, TailStretch
<1>3. ASSUME NEW i \in DOMAIN requests', requests'[i].op = "Prepare" PROVE FALSE
  <2>1. i + 1 \in DOMAIN requests /\ requests[i + 1].op = "Prepare" /\ i \in Nat /\ i >= 1
    BY <1>1, <1>3
  <2>2. i + 1 = 1
    BY <1>2, <2>1 DEF Conversation
  <2> QED BY <2>1, <2>2
<1> QED BY <1>2, <1>3 DEF Asked

LEMMA ConversationStep ==
  ASSUME MonitorTypeOK, DeviceInv, Conversation, MonitorNext, ~late_answers'
  PROVE  Conversation'
<1> USE DEF Conversation
<1>a. /\ OpenPort => ~Asked("Commit") /\ ~Asked("Prepare") /\ \A i \in DOMAIN responses' : FALSE
      /\ Asked("Prepare")' => Asked("Prepare") \/ PreStatus
      /\ Asked("Commit")' => Asked("Commit") \/ Prepared
  BY OpensClear, AskedStep
<1>b. /\ PreStatus => phase = "pre_status" /\ phase' = "prepare" /\ HostStep
      /\ Prepared => phase = "prepare" /\ phase' = "commit" /\ Answered("Prepare")
  <2>1. Prepared => Answered("Prepare")
    BY TailStretch DEF Prepared, Receives, MonitorTypeOK, DeviceTypeOK, Answered
  <2> QED BY <2>1 DEF PreStatus, Prepared, HostStep
<1>c. /\ Before' => Before \/ OpenPort
      /\ phase' = "prepare" => phase = "prepare" \/ PreStatus
  BY PhaseStep DEF Before, Preflight, PreflightActive
<1>d. Answered("Prepare")' => Answered("Prepare") \/ (HandlePrepare /\ Elsewhere)
  BY AnsweredStep DEF Answered
<1>e. HandlePrepare /\ Elsewhere
        => Asked("Prepare") /\ ~Asked("Prepare")' /\ phase' = phase /\ ~PreStatus
  BY PrepareHandled, PhaseStep DEF PreStatus
<1>1. Before' \/ phase' = "prepare" => ~Asked("Commit")'
  <2> SUFFICES ASSUME Before' \/ phase' = "prepare", Asked("Commit")' PROVE FALSE
    OBVIOUS
  <2>1. phase' # "commit"
    BY DEF Before, Preflight
  <2>2. Asked("Commit")
    BY <1>a, <1>b, <2>1
  <2> QED BY <1>a, <1>b, <1>c, <2>2 DEF Before
<1>2. Before' => ~Asked("Prepare")' /\ ~Answered("Prepare")'
  <2> SUFFICES ASSUME Before' PROVE ~Asked("Prepare")' /\ ~Answered("Prepare")'
    OBVIOUS
  <2>1. phase' # "prepare"
    BY DEF Before, Preflight
  <2>2. ~Asked("Prepare")
    BY <1>a, <1>c
  <2>3. ~Asked("Prepare")'
    BY <1>a, <1>b, <2>1, <2>2
  <2>4. ~Answered("Prepare")'
    <3>1. CASE OpenPort
      BY <1>a, <3>1 DEF Answered
    <3>2. CASE ~OpenPort
      BY <1>c, <1>d, <1>e, <2>2, <3>2
    <3> QED BY <3>1, <3>2
  <2> QED BY <2>3, <2>4
<1>3. phase' = "prepare" /\ Answered("Prepare")' => ~Asked("Prepare")'
  <2> SUFFICES ASSUME phase' = "prepare", Answered("Prepare")', Asked("Prepare")' PROVE FALSE
    OBVIOUS
  <2>1. ~(HandlePrepare /\ Elsewhere)
    BY <1>e
  <2>2. Answered("Prepare")
    BY <1>d, <2>1
  <2>3. phase = "prepare" /\ ~PreStatus
    BY <1>b, <1>c, <2>2 DEF Before
  <2> QED BY <1>a, <2>2, <2>3
<1>4. Asked("Prepare")' => ~Asked("Commit")'
  <2> SUFFICES ASSUME Asked("Prepare")', Asked("Commit")' PROVE FALSE
    OBVIOUS
  <2>1. CASE PreStatus
    <3>1. Asked("Commit")
      BY <1>a, <1>b, <2>1
    <3> QED BY <1>b, <2>1, <3>1 DEF Before
  <2>2. CASE ~PreStatus
    <3>1. Asked("Prepare") /\ Prepared
      BY <1>a, <2>2
    <3> QED BY <1>b, <3>1
  <2> QED BY <2>1, <2>2
<1>5. ASSUME NEW i \in DOMAIN requests', NEW j \in DOMAIN requests',
             requests'[i].op = "Prepare", requests'[j].op = "Prepare"
      PROVE  i = j
  <2>1. CASE Stretch(requests', requests)
    <3>1. PICK d \in Nat : \A k \in DOMAIN requests' :
                             k + d \in DOMAIN requests /\ requests'[k] = requests[k + d]
      BY <2>1 DEF Stretch
    <3>2. i + d = j + d
      BY <1>5, <3>1
    <3>3. i \in Int /\ j \in Int
      BY DeviceTypeStep DEF MonitorTypeOK, DeviceTypeOK
    <3> QED BY <3>2, <3>3
  <2>2. ASSUME NEW q \in Request, requests' = Append(requests, q), q.op = "Prepare" => PreStatus
        PROVE  i = j
    <3>1. /\ DOMAIN requests' = 1 .. (Len(requests) + 1) /\ Len(requests) \in Nat
          /\ DOMAIN requests = 1 .. Len(requests)
          /\ \A k \in DOMAIN requests : requests'[k] = requests[k]
          /\ requests'[Len(requests) + 1] = q
      BY <2>2, AppendElements DEF MonitorTypeOK, DeviceTypeOK
    <3>2. CASE q.op # "Prepare"
      <4>1. i \in DOMAIN requests /\ j \in DOMAIN requests
        BY <1>5, <3>1, <3>2
      <4> QED BY <1>5, <3>1, <4>1
    <3>3. CASE q.op = "Prepare"
      <4>1. ~Asked("Prepare")
        BY <1>b, <2>2, <3>3 DEF Before
      <4>2. i \notin DOMAIN requests /\ j \notin DOMAIN requests
        BY <1>5, <3>1, <4>1 DEF Asked
      <4> QED BY <3>1, <4>2
    <3> QED BY <3>2, <3>3
  <2> QED BY <2>1, <2>2, RequestsStep
<1> QED BY <1>1, <1>2, <1>3, <1>4, <1>5

\* Only what is staged, or stored already, can come into service.
LEMMA QuietStep ==
  ASSUME MonitorTypeOK, DeviceInv, MonitorNext, ~Asked("Commit"), ~Uninstalled
  PROVE  installs' = installs /\ ~Uninstalled' /\ InstalledRecord' = InstalledRecord
<1>1. ~Staging
  <2>1. Staging => requests # <<>> /\ Head(requests).op = "Commit"
    BY DEF DeviceInv, StagingInv
  <2>2. requests # <<>> => 1 \in DOMAIN requests /\ Head(requests) = requests[1]
    BY TailStretch DEF MonitorTypeOK, DeviceTypeOK
  <2> QED BY <2>1, <2>2 DEF Asked
<1>2. ~Uninstalled'
  BY <1>1, UninstalledStep
<1>3. installs' = installs
  BY <1>1, InstallStep, InstallOrigin
<1> QED BY <1>2, <1>3 DEF InstalledRecord

LEMMA RecordedGrows ==
  ASSUME MonitorTypeOK, MonitorNext, LedgerTypeOK'
  PROVE  Recorded \in Nat /\ Recorded' \in Nat /\ Recorded <= Recorded'
<1>1. /\ IsFiniteSet(WriteEntries)' /\ Recorded' \in Nat /\ Recorded \in Nat
  <2>1. IsFiniteSet(WriteEntries)' /\ (Recorded \in Nat)'
    BY WriteEntriesFinite, PTL
  <2> QED BY <2>1, WriteEntriesFinite DEF MonitorTypeOK
<1>2. WriteEntries \subseteq WriteEntries'
  <2>1. CASE ledger' = ledger
    BY <2>1 DEF WriteEntries
  <2>2. ASSUME NEW e \in evidence, ledger' = Append(ledger, e)
        PROVE  WriteEntries \subseteq WriteEntries'
    <3>1. \A i \in DOMAIN ledger : i \in DOMAIN ledger' /\ ledger'[i] = ledger[i]
      <4>1. e \in Evidence /\ ledger \in Seq(Evidence)
        BY DEF MonitorTypeOK, LedgerTypeOK
      <4> QED BY <2>2, <4>1, AppendElements
    <3> QED BY <3>1 DEF WriteEntries
  <2> QED BY <2>1, <2>2, LedgerGrows
<1> QED BY <1>1, <1>2, FS_Subset DEF Recorded

\* The exact record of a live read-back agrees with the ledger's head: all that was
\* installed is recorded.
LEMMA LiveIsRecorded ==
  ASSUME MonitorTypeOK, DeviceInv, LedgerInv, OneAhead, PreflightActive
  PROVE  ~Uninstalled /\ Len(installs) <= Recorded
<1>0. /\ HistoryTypeOK /\ HistoryInv /\ Recorded \in Nat /\ Recorded <= Len(installs)
      /\ DOMAIN installs = 1 .. Len(installs) /\ Len(installs) \in Nat
  BY WriteEntriesFinite, SequenceTypes DEF MonitorTypeOK, DeviceInv, LedgerInv
<1>1. /\ 1 \in DOMAIN responses /\ responses[1] = Head(responses)
      /\ responses[1].op = "Active" /\ responses[1].ok
      /\ responses[1].active = LedgerRecord
  BY TailStretch DEF PreflightActive, Receives, LiveStateMatches, MonitorTypeOK, DeviceTypeOK
<1>2. LedgerRecord = InstalledRecord /\ ~Uninstalled
  BY <1>1 DEF OneAhead, Preflight, PreflightActive
<1>3. CASE installs = <<>>
  BY <1>0, <1>2, <1>3, InstalledTypes
<1>4. CASE installs # <<>>
  <2>1. InstalledRecord \in Record /\ InstalledRecord.sequence = Installed
    BY <1>0, <1>4, InstalledTypes
  <2>2. Recorded # 0 /\ installs[Recorded].record = InstalledRecord
    BY <1>2, <2>1, SlotMarksAssumption DEF LedgerInv
  <2>3. Sequence(Recorded) = Sequence(Len(installs))
    BY <2>1, <2>2 DEF Sequence, Installed
  <2>4. Recorded = Len(installs)
    <3>1. Recorded \in 0 .. Len(installs) /\ Len(installs) \in 0 .. Len(installs)
      BY <1>0
    <3> QED BY <1>0, <2>3, <3>1, SequenceOrder
  <2> QED BY <1>0, <1>2, <2>4
<1> QED BY <1>3, <1>4

LEMMA AheadStep ==
  ASSUME MonitorTypeOK, DeviceInv, LedgerInv, Conversation, OneAhead, MonitorNext,
         ~late_answers'
  PROVE  OneAhead'
<1> USE DEF OneAhead
<1>0. /\ HistoryTypeOK /\ HistoryInv /\ boot_nonce' \in Nat
      /\ Len(installs) \in Nat /\ Len(installs') \in Nat
      /\ Recorded \in Nat /\ Recorded' \in Nat /\ Recorded <= Recorded'
  BY DeviceTypeStep, InstallsKept, SequenceTypes, RecordedGrows
  DEF MonitorTypeOK, DeviceTypeOK, DeviceInv
<1>a. /\ Asked("Prepare")' => Asked("Prepare") \/ PreStatus
      /\ PreStatus => phase = "pre_status" /\ phase' = "prepare"
  BY AskedStep DEF PreStatus
<1>b. ASSUME installs' = installs, Len(installs) <= Recorded
      PROVE  Len(installs') <= Recorded' /\ Len(installs') <= Recorded' + 1
  BY <1>0, <1>b
<1>c. Quiet => ~Asked("Commit") /\ ~Uninstalled /\ Len(installs) <= Recorded
  BY DEF Quiet, Conversation, Before
<1>1. Quiet' => ~Uninstalled' /\ Len(installs') <= Recorded'
  <2> SUFFICES ASSUME Quiet' PROVE ~Uninstalled' /\ Len(installs') <= Recorded'
    OBVIOUS
  <2>1. CASE Quiet
    BY <1>b, <1>c, <2>1, QuietStep
  <2>2. CASE PreflightActive
    <3>1. ~Uninstalled /\ Len(installs) <= Recorded
      BY <2>2, LiveIsRecorded
    <3>2. ~Asked("Commit")
      BY <2>2 DEF Conversation, Before, Preflight, PreflightActive
    <3> QED BY <1>b, <3>1, <3>2, QuietStep
  <2>3. Quiet \/ PreflightActive
    BY <1>a, PhaseStep DEF Quiet
  <2> QED BY <2>1, <2>2, <2>3
<1>2. ASSUME Preflight', NEW i \in DOMAIN responses',
             responses'[i].op = "Active", responses'[i].ok
      PROVE  responses'[i].active = InstalledRecord' /\ ~Uninstalled'
  <2>1. Preflight
    <3>1. ~OpenPort
      BY <1>2, OpensClear
    <3> QED BY <1>2, <3>1, PhaseStep DEF Preflight
  <2>2. ~Asked("Commit")
    BY <2>1 DEF Conversation, Before
  <2>3. responses'[i].active = InstalledRecord /\ ~Uninstalled
    <3>1. ASSUME NEW k \in DOMAIN responses, responses'[i] = responses[k]
          PROVE  responses'[i].active = InstalledRecord /\ ~Uninstalled
      BY <1>2, <2>1, <3>1
    <3>2. ASSUME NEW m \in Response, responses'[i] = m,
                 m.op = "Active" => m.ok = store_ready /\ m.active = Serving /\ pc = "idle"
          PROVE  responses'[i].active = InstalledRecord /\ ~Uninstalled
      <4>1. store_ready /\ pc = "idle" /\ m.active = Serving
        BY <1>2, <3>2
      <4>2. ServesNothingNew /\ Serving = InstalledRecord
        BY <4>1, ServedIsNewest DEF MonitorTypeOK, DeviceTypeOK, DeviceInv, ServingInv
      <4> QED BY <3>2, <4>1, <4>2 DEF ServesNothingNew
    <3> QED BY <3>1, <3>2, AnsweredStep
  <2> QED BY <2>2, <2>3, QuietStep
<1>3. installs' = installs \/ \E r \in Record : Installs(r) /\ AtStore
        /\ installs' = Append(installs, [record |-> r, boot |-> boot_nonce'])
  BY InstallStep
<1>4. ASSUME NEW r \in Record, Installs(r), AtStore,
             installs' = Append(installs, [record |-> r, boot |-> boot_nonce'])
      PROVE  /\ ~pending'.valid /\ ~Uninstalled' /\ Len(installs') <= Recorded' + 1
  <2>1. ~pending'.valid /\ (pending.valid \/ Uninstalled)
    BY <1>4, InstallOrigin
  <2>2. Len(installs') = Len(installs) + 1
    BY <1>0, <1>4, Extended
  <2>3. Len(installs') <= Recorded' + 1
    BY <1>0, <2>1, <2>2
  <2>4. ~Uninstalled'
    BY <1>0, <2>2, UninstalledStep
  <2> QED BY <2>1, <2>3, <2>4
<1>5. pending'.valid \/ Uninstalled' => Len(installs') <= Recorded'
  <2> SUFFICES ASSUME pending'.valid \/ Uninstalled' PROVE Len(installs') <= Recorded'
    OBVIOUS
  <2>1. installs' = installs
    BY <1>3, <1>4
  <2>2. CASE Uninstalled'
    BY <1>b, <2>1, <2>2, UninstalledStep
  <2>3. CASE pending'.valid
    <3>1. pending.valid \/ Asked("Prepare")
      <4>1. pending' = pending \/ pending' = NoPending \/ HandlePrepare
        <5>1. CASE HostStep
          BY <5>1, HostLeavesDevice DEF session_vars
        <5>2. CASE Aside
          BY <5>2 DEF Aside, HandleQueryStatus, HandleQueryActive, HandleCommitRefused,
             GateChange, RequestLost, session_vars
        <5>3. CASE AtStore
          BY <5>3, AtStoreEffect DEF session_vars
        <5> QED BY <5>1, <5>2, <5>3, StepKinds
      <4> QED BY <2>3, <4>1, PrepareHandled DEF NoPending
    <3> QED BY <1>b, <1>c, <2>1, <3>1 DEF Quiet
  <2> QED BY <2>2, <2>3
<1>6. Len(installs') <= Recorded' + 1
  <2>1. CASE installs' = installs
    BY <1>0, <2>1
  <2> QED BY <1>3, <1>4, <2>1
<1> QED BY <1>1, <1>2, <1>5, <1>6

\* Both halves of the account: what is recorded is the history in its order, and
\* a run that did not take late answers for its own never leaves two gaps.
LEMMA AccountSuffices ==
  MonitorTypeOK /\ LedgerInv /\ FreshInv => LedgerAccountsForDevice
BY DEF LedgerAccountsForDevice, LedgerInv, FreshInv, OneAhead, Nth, Recorded
-----------------------------------------------------------------------------

\* What host, device and ledger keep between them.
ProvisioningInv ==
    /\ MonitorTypeOK /\ DeviceInv
    /\ StatusesTrue /\ AnswersOrdered /\ OffersInv
    /\ ModeInv /\ EvidenceInv /\ LedgerInv /\ FreshInv

LEMMA FreshStep ==
  ASSUME ProvisioningInv, MonitorNext
  PROVE  FreshInv'
<1> SUFFICES ASSUME ~late_answers' PROVE Conversation' /\ OneAhead'
  BY DEF FreshInv
<1>1. ~late_answers
  BY OpensClear DEF ProvisioningInv
<1>2. Conversation /\ OneAhead
  BY <1>1 DEF ProvisioningInv, FreshInv
<1> QED BY <1>2, ConversationStep, AheadStep DEF ProvisioningInv

LEMMA ProvisioningInvInit == MonitorInit => ProvisioningInv
<1> SUFFICES ASSUME MonitorInit PROVE ProvisioningInv
  OBVIOUS
<1>0. /\ MonitorTypeOK /\ DeviceInv
      /\ requests = <<>> /\ responses = <<>> /\ installs = <<>> /\ ledger = <<>>
      /\ evidence = {} /\ seen = NoStatus /\ prior = NoEvidence /\ phase = "closed"
      /\ boot_nonce = 0 /\ pending = NoPending
      /\ flash = BlankNvs /\ cache = BlankNvs
  BY MonitorTypeInit, DeviceInvInit DEF MonitorInit, ProvisioningInit, DeviceInit, HostInit,
     StoreInit
<1>1. DOMAIN requests = {} /\ DOMAIN responses = {} /\ DOMAIN installs = {}
      /\ DOMAIN ledger = {} /\ Len(installs) = 0
  BY <1>0
<1>2. StatusesTrue /\ AnswersOrdered
  BY <1>0, <1>1 DEF StatusesTrue, StatusTrue, NoStatus, AnswersOrdered
<1>3. ~Uninstalled
  <2>1. \A i \in SlotIndex : flash.slots[i] = Absent /\ cache.slots[i] = Absent
    BY <1>0 DEF BlankNvs
  <2> QED BY <2>1, SlotMarksAssumption DEF Uninstalled, Held
<1>4. OffersInv
  BY <1>0, <1>1, <1>3 DEF OffersInv, Bounded, NoPending, Writing
<1>5. ModeInv /\ EvidenceInv
  BY <1>0 DEF ModeInv, EvidenceInv
<1>6. LedgerInv
  <2>1. WriteEntries = {}
    BY <1>1 DEF WriteEntries
  <2>2. Recorded = 0
    BY <2>1, FS_EmptySet DEF Recorded
  <2>3. LedgerRecord = Absent /\ LedgerSequence = 0
    BY <1>0 DEF LedgerRecord, LedgerSequence
  <2> QED BY <1>1, <2>1, <2>2, <2>3 DEF LedgerInv, Sequence
<1>7. FreshInv
  <2>1. \A op : ~Asked(op) /\ ~Answered(op)
    BY <1>1 DEF Asked, Answered
  <2>2. Recorded \in Nat /\ Recorded <= Len(installs)
    BY <1>0, <1>6, WriteEntriesFinite DEF MonitorTypeOK, LedgerInv
  <2> QED BY <1>0, <1>1, <1>3, <2>1, <2>2
          DEF FreshInv, Conversation, OneAhead, Before, Preflight, Quiet, NoPending
<1> QED BY <1>0, <1>2, <1>4, <1>5, <1>6, <1>7 DEF ProvisioningInv

LEMMA ProvisioningStutter ==
  ASSUME ProvisioningInv, UNCHANGED monitor_vars
  PROVE  ProvisioningInv'
<1> USE DEF ProvisioningInv
<1>1. MonitorTypeOK' /\ DeviceInv'
  BY DeviceInvStutter
<1> USE DEF monitor_vars, provisioning_vars, device_vars, store_vars, nvs_vars,
            session_vars, channel_vars, run_vars, ledger_vars, history_vars
<1>2. StatusesTrue' /\ AnswersOrdered'
  BY DEF StatusesTrue, StatusTrue, Between, Sequence, AnswersOrdered
<1>3. OffersInv'
  BY DEF OffersInv, Bounded, Uninstalled, Held, Installed, Sequence, Writing
<1>4. ModeInv' /\ EvidenceInv'
  BY DEF ModeInv, Wrote, Account, Sequence, EvidenceInv, EvidenceTrue
<1>5. LedgerInv'
  BY DEF LedgerInv, Recorded, Nth, WriteEntries, LedgerRecord, LedgerSequence, Sequence
<1>6. FreshInv'
  <2>1. Asked("Prepare")' = Asked("Prepare") /\ Asked("Commit")' = Asked("Commit")
        /\ Answered("Prepare")' = Answered("Prepare")
    BY DEF Asked, Answered
  <2>2. Recorded' = Recorded /\ Uninstalled' = Uninstalled
        /\ InstalledRecord' = InstalledRecord
    BY DEF Recorded, WriteEntries, Uninstalled, Held, Installed, InstalledRecord, Sequence
  <2>3. Conversation => Conversation'
    BY <2>1 DEF Conversation, Before, Preflight
  <2>4. OneAhead => OneAhead'
    BY <2>1, <2>2 DEF OneAhead, Quiet, Preflight
  <2> QED BY <2>3, <2>4 DEF FreshInv
<1> QED BY <1>1, <1>2, <1>3, <1>4, <1>5, <1>6

\* Device, channel, run, evidence and ledger stay in step whatever is lost,
\* delayed, retried or cut off.
THEOREM ProvisioningInvariant == MonitorSpec => []ProvisioningInv
<1>1. MonitorInit => ProvisioningInv
  BY ProvisioningInvInit
<1>2. ProvisioningInv /\ [MonitorNext]_monitor_vars => ProvisioningInv'
  <2>1. ASSUME ProvisioningInv, MonitorNext PROVE ProvisioningInv'
    BY <2>1, DeviceInvStep, StatusesStep, AnswersStep, OffersStep, ModeStep, EvidenceStep,
       LedgerStep, FreshStep DEF ProvisioningInv
  <2> QED BY <2>1, ProvisioningStutter
<1> QED BY <1>1, <1>2, PTL DEF MonitorSpec

\* Every variable of device, channel, run, ledger and history keeps its kind,
\* for any number of boots, runs and challenges.
THEOREM ProvisioningTypeCorrect == MonitorSpec => []MonitorTypeOK
<1>1. ProvisioningInv => MonitorTypeOK
  BY DEF ProvisioningInv
<1> QED BY <1>1, ProvisioningInvariant, PTL

\* A challenge that can still be answered is about the floor in force: no COMMIT
\* installs twice, or on a floor its signature does not name.
THEOREM PendingIsCurrentHolds == MonitorSpec => []PendingIsCurrent
<1>1. ProvisioningInv => PendingIsCurrent
  BY DEF ProvisioningInv, DeviceInv
<1> QED BY <1>1, ProvisioningInvariant, PTL

\* Retained evidence is true: the record was put in service on top of the sequence
\* and in the boot it names, and a reboot it reports came later.
THEOREM EvidenceIsTrueHolds == MonitorSpec => []EvidenceIsTrue
<1>1. ProvisioningInv => EvidenceIsTrue
  BY EvidenceInvSuffices DEF ProvisioningInv
<1> QED BY <1>1, ProvisioningInvariant, PTL

\* Whichever run, boot, NVS call, response or append fails, the ledger's n-th write
\* is the n-th record put in service; and unless a run takes an earlier run's
\* answers for its own, at most one record in service awaits its entry.
THEOREM LedgerAccountsHolds == MonitorSpec => []LedgerAccountsForDevice
<1>1. ProvisioningInv => LedgerAccountsForDevice
  BY AccountSuffices DEF ProvisioningInv
<1> QED BY <1>1, ProvisioningInvariant, PTL
=============================================================================
