------------------------ MODULE AuthorityTransition ------------------------
(***************************************************************************)
(* The audit ledger of one device and the change of its maintenance        *)
(* authority: several stations share the ledger directory, each runs one   *)
(* tool at a time, and a tool may die at any point.  An entry is a file of *)
(* its own, created exclusively under the next number and then written;    *)
(* until it is complete the ledger cannot be verified.                     *)
(*                                                                         *)
(* The calibration record of a state is identified with its sequence       *)
(* number, the hash of an entry with its place among all entries ever      *)
(* written.  Key holders, the flashing of images, the checkout and the     *)
(* sdkconfig are external.  held is history.                               *)
(***************************************************************************)
EXTENDS Integers, Sequences, FiniteSets

CONSTANTS
    Stations, Keys,
    NoOne, Left,      \* the writer of the incomplete entry, if any: nobody; a dead tool
    NoEvidence,
    MAX_SEQUENCE, MAX_ENTRIES, MAX_REQUESTS, MAX_REPORTS, MAX_INSTALLS, MAX_EDITS  \* bounds

VARIABLES
    entries,        \* the complete entry files, oldest first; <<>>: no ledger
    torn,           \* who left the file of the next number incomplete
    written,        \* number of entries ever written
    device,         \* what the maintenance image reports
    captures,       \* retained read-only captures of it
    reports,        \* retained evidence of writes and reboots
    requests, signatures, packages,   \* of authority transitions
    clean, pin, edits,    \* checkout, key pinned by sdkconfig, changes to either
    installs,
    job,            \* the tool each station runs
    held            \* every state the device was ever in

ledger_vars == <<entries, torn, written>>
transition_vars == <<requests, signatures, packages>>
build_vars == <<clean, pin, edits>>
device_vars == <<device, installs, held>>
vars == <<ledger_vars, device_vars, captures, reports, transition_vars, build_vars, job>>

ASSUME NamesAssumption == NoOne \notin Stations /\ Left \notin Stations /\ NoOne # Left
ASSUME BoundAssumption == MAX_SEQUENCE \in Nat

DeviceState == [sequence : 0 .. MAX_SEQUENCE, authority : Keys]
Idle == [phase |-> "idle"]

Init ==
    /\ entries = <<>> /\ torn = NoOne /\ written = 0
    /\ device \in [sequence : {0}, authority : Keys]
    /\ held = {device} /\ installs = 0
    /\ captures = {} /\ reports = {}
    /\ requests = {} /\ signatures = {} /\ packages = {}
    /\ clean = TRUE /\ pin = device.authority /\ edits = 0
    /\ job = [s \in Stations |-> Idle]

-----------------------------------------------------------------------------
(* verify_ledger *)

\* What each event may change.
Permitted(event, before, after) ==
    \/ /\ event = "write_commit"
       /\ after.authority = before.authority /\ after.sequence > before.sequence
    \/ /\ event = "recovery_commit"
       /\ after.authority = before.authority /\ after.sequence = before.sequence + 1
    \/ event = "reboot_verified" /\ after = before
    \/ /\ event = "authority_transition"
       /\ after.authority # before.authority /\ after.sequence = before.sequence

Genesis(e) ==
    /\ e.event = "genesis" /\ e.previous = 0
    /\ e.before = e.after /\ e.after.sequence = 0

Continues(e, f) ==
    /\ f.previous = e.hash /\ f.before = e.after
    /\ Permitted(f.event, f.before, f.after)

Verifies(es) ==
    /\ es # <<>> /\ Genesis(es[1])
    /\ \A i \in 2 .. Len(es) : Continues(es[i - 1], es[i])

VerifyLedger == torn = NoOne /\ Verifies(entries)
Last == entries[Len(entries)]

-----------------------------------------------------------------------------
(* The device, and a capture of what it reports *)

InstallImage(k) ==
    /\ installs < MAX_INSTALLS /\ k # device.authority
    /\ installs' = installs + 1
    /\ device' = [device EXCEPT !.authority = k]
    /\ held' = held \cup {device'}
    /\ UNCHANGED <<ledger_vars, captures, reports, transition_vars, build_vars, job>>

CaptureState ==
    /\ device \notin captures
    /\ captures' = captures \cup {device}
    /\ UNCHANGED <<ledger_vars, device_vars, reports, transition_vars, build_vars, job>>

-----------------------------------------------------------------------------
(* initialize_ledger: the directory appears complete or not at all *)

initialize_ledger(capture) ==
    /\ entries = <<>> /\ torn = NoOne
    /\ capture \in captures /\ capture.sequence = 0
    /\ entries' = <<[event |-> "genesis", previous |-> 0, hash |-> written + 1,
                     before |-> capture, after |-> capture, evidence |-> NoEvidence]>>
    /\ written' = written + 1
    /\ UNCHANGED <<torn, device_vars, captures, reports, transition_vars,
                   build_vars, job>>

-----------------------------------------------------------------------------
(* Physical provisioning under the ledger *)

\* preflight_live_state
Preflight(s) ==
    /\ job[s] = Idle /\ VerifyLedger /\ device = Last.after
    /\ job' = [job EXCEPT ![s] =
                 [phase |-> "write", head |-> Last.hash, count |-> Len(entries),
                  state |-> Last.after]]
    /\ UNCHANGED <<ledger_vars, device_vars, captures, reports, transition_vars, build_vars>>

\* The device takes a newer record signed under the key it pins.
CommitWrite(s, kind, n) ==
    /\ job[s].phase = "write" /\ device = job[s].state
    /\ Cardinality(reports) < MAX_REPORTS
    /\ kind = "recovery_commit" => n = device.sequence + 1
    /\ n > device.sequence
    /\ device' = [device EXCEPT !.sequence = n]
    /\ held' = held \cup {device'}
    /\ reports' = reports \cup
         {[kind |-> kind, head |-> job[s].head, count |-> job[s].count,
           from |-> device.sequence, to |-> n, signer |-> device.authority]}
    /\ job' = [job EXCEPT ![s] = Idle]
    /\ UNCHANGED <<ledger_vars, installs, captures, transition_vars, build_vars>>

\* The record a write report names is active after a reboot.
VerifyReboot(s, r) ==
    /\ job[s] = Idle /\ r \in reports /\ r.kind # "reboot_verified"
    /\ Cardinality(reports) < MAX_REPORTS
    /\ VerifyLedger /\ device = Last.after /\ device.sequence = r.to
    /\ reports' = reports \cup
         {[kind |-> "reboot_verified", head |-> Last.hash, count |-> Len(entries),
           from |-> r.to, to |-> r.to, signer |-> r.signer]}
    /\ UNCHANGED <<ledger_vars, device_vars, captures, transition_vars, build_vars, job>>

-----------------------------------------------------------------------------
(* build_transition_request *)

\* Ledger, capture and keys; the sdkconfig, the checkout and the files to be
\* hashed are read one after the other.
BeginRequest(s, capture, new) ==
    /\ job[s] = Idle /\ Cardinality(requests) < MAX_REQUESTS
    /\ VerifyLedger /\ capture \in captures /\ capture = Last.after
    /\ new # Last.after.authority
    /\ job' = [job EXCEPT ![s] =
                 [phase |-> "sdkconfig", head |-> Last.hash, count |-> Len(entries),
                  state |-> Last.after, new |-> new, edits |-> edits]]
    /\ UNCHANGED <<ledger_vars, device_vars, captures, reports, transition_vars, build_vars>>

CheckPin(s) ==
    /\ job[s].phase = "sdkconfig" /\ pin = job[s].new
    /\ job' = [job EXCEPT ![s].phase = "checkout"]
    /\ UNCHANGED <<ledger_vars, device_vars, captures, reports, transition_vars, build_vars>>

VerifySourceCheckout(s) ==
    /\ job[s].phase = "checkout" /\ clean
    /\ job' = [job EXCEPT ![s].phase = "hash"]
    /\ UNCHANGED <<ledger_vars, device_vars, captures, reports, transition_vars, build_vars>>

\* What is hashed now is what is there now.
PublishRequest(s) ==
    /\ job[s].phase = "hash"
    /\ requests' = requests \cup
         {[head |-> job[s].head, count |-> job[s].count, state |-> job[s].state,
           new |-> job[s].new, clean |-> clean, pin |-> pin,
           edited |-> edits # job[s].edits]}
    /\ job' = [job EXCEPT ![s] = Idle]
    /\ UNCHANGED <<ledger_vars, device_vars, captures, reports, signatures,
                   packages, build_vars>>

EditSources ==
    /\ edits < MAX_EDITS /\ edits' = edits + 1
    /\ clean' = ~clean
    /\ UNCHANGED <<pin, ledger_vars, device_vars, captures, reports, transition_vars, job>>

EditSdkconfig(k) ==
    /\ edits < MAX_EDITS /\ edits' = edits + 1
    /\ k # pin /\ pin' = k
    /\ UNCHANGED <<clean, ledger_vars, device_vars, captures, reports, transition_vars, job>>

\* A key holder signs the payload of a request.
Sign(r, k) ==
    /\ r \in requests /\ k \in {r.state.authority, r.new}
    /\ <<r, k>> \notin signatures
    /\ signatures' = signatures \cup {<<r, k>>}
    /\ UNCHANGED <<requests, packages, ledger_vars, device_vars, captures, reports,
                   build_vars, job>>

SignedByBoth(r) == <<r, r.state.authority>> \in signatures /\ <<r, r.new>> \in signatures

package_transition(r) ==
    /\ r \in requests \ packages /\ SignedByBoth(r)
    /\ packages' = packages \cup {r}
    /\ UNCHANGED <<requests, signatures, ledger_vars, device_vars, captures, reports,
                   build_vars, job>>

-----------------------------------------------------------------------------
(* Appending: evidence is checked against the ledger, then the entry is     *)
(* added by _append_entry, which looks at the ledger again.                 *)

Bind(s, event, after, evidence) ==
    /\ Len(entries) < MAX_ENTRIES
    /\ job' = [job EXCEPT ![s] =
                 [phase |-> "bound", index |-> Len(entries) + 1,
                  entry |-> [event |-> event, previous |-> Last.hash,
                             before |-> Last.after, after |-> after,
                             evidence |-> evidence]]]
    /\ UNCHANGED <<ledger_vars, device_vars, captures, reports, transition_vars, build_vars>>

\* Faulty variant: the state must continue, the head may have moved on.
BoundToState(r) == TRUE

\* The evidence was produced, or signed, against the current head.
BoundToHead(r) == r.head = Last.hash /\ r.count = Len(entries)

append_write_evidence(s, r) ==
    /\ job[s] = Idle /\ VerifyLedger
    /\ r \in reports /\ r.kind \in {"write_commit", "recovery_commit"} /\ BoundToHead(r)
    /\ r.from = Last.after.sequence /\ r.to > r.from
    /\ r.signer = Last.after.authority
    /\ r.kind = "recovery_commit" => r.to = r.from + 1
    /\ Bind(s, r.kind, [Last.after EXCEPT !.sequence = r.to], r)

append_reboot_evidence(s, r) ==
    /\ job[s] = Idle /\ VerifyLedger
    /\ r \in reports /\ r.kind = "reboot_verified" /\ BoundToHead(r)
    /\ r.to = Last.after.sequence /\ r.signer = Last.after.authority
    /\ Bind(s, r.kind, Last.after, r)

\* Faulty variant: whatever key the capture shows becomes the authority.
AdoptsCapture(r, capture) == capture.sequence = Last.after.sequence

\* The post-install capture shows the new key and the old calibration.
ShowsInstalled(r, capture) ==
    capture.sequence = Last.after.sequence /\ capture.authority = r.new

append_authority_transition_evidence(s, r, capture) ==
    /\ job[s] = Idle /\ VerifyLedger
    /\ r \in packages /\ BoundToHead(r)
    /\ r.state.sequence = Last.after.sequence
    /\ r.state.authority = Last.after.authority /\ r.new # Last.after.authority
    /\ capture \in captures /\ ShowsInstalled(r, capture)
    /\ Bind(s, "authority_transition", [Last.after EXCEPT !.authority = r.new], r)

\* Faulty variant: the entry is moved to the head found now.
RecheckRebases(s) ==
    /\ job[s].phase = "bound" /\ VerifyLedger
    /\ job' = [job EXCEPT ![s].phase = "checked", ![s].index = Len(entries) + 1,
                          ![s].entry.previous = Last.hash]
    /\ UNCHANGED <<ledger_vars, device_vars, captures, reports, transition_vars, build_vars>>

Recheck(s) ==
    /\ job[s].phase = "bound" /\ VerifyLedger
    /\ job[s].index = Len(entries) + 1 /\ job[s].entry.previous = Last.hash
    /\ job' = [job EXCEPT ![s].phase = "checked"]
    /\ UNCHANGED <<ledger_vars, device_vars, captures, reports, transition_vars, build_vars>>

\* Faulty variant: the file is opened for writing, whether it is there or not.
OpenTruncates(s) ==
    /\ job[s].phase = "checked"
    /\ entries' = SubSeq(entries, 1, job[s].index - 1) /\ torn' = s
    /\ job' = [job EXCEPT ![s].phase = "writing"]
    /\ UNCHANGED <<written, device_vars, captures, reports, transition_vars, build_vars>>

\* open("xb") fails on a file that is there, an incomplete one too.
OpenEntry(s) ==
    /\ job[s].phase = "checked"
    /\ torn = NoOne /\ job[s].index = Len(entries) + 1
    /\ torn' = s
    /\ job' = [job EXCEPT ![s].phase = "writing"]
    /\ UNCHANGED <<entries, written, device_vars, captures, reports, transition_vars,
                   build_vars>>

FinishEntry(s) ==
    /\ job[s].phase = "writing"
    /\ entries' = Append(entries,
         [event |-> job[s].entry.event, previous |-> job[s].entry.previous,
          hash |-> written + 1, before |-> job[s].entry.before,
          after |-> job[s].entry.after, evidence |-> job[s].entry.evidence])
    /\ torn' = NoOne /\ written' = written + 1
    /\ job' = [job EXCEPT ![s] = Idle]
    /\ UNCHANGED <<device_vars, captures, reports, transition_vars, build_vars>>

\* A tool refuses to go on, or dies: a write may have reached the device.
Stop(s) ==
    /\ job[s] # Idle
    /\ torn' = IF job[s].phase = "writing" THEN Left ELSE torn
    /\ job' = [job EXCEPT ![s] = Idle]
    /\ UNCHANGED <<entries, written, device_vars, captures, reports, transition_vars,
                   build_vars>>

StopAfterCommit(s, n) ==
    /\ job[s].phase = "write" /\ device = job[s].state /\ n > device.sequence
    /\ device' = [device EXCEPT !.sequence = n]
    /\ held' = held \cup {device'}
    /\ job' = [job EXCEPT ![s] = Idle]
    /\ UNCHANGED <<ledger_vars, installs, captures, reports, transition_vars, build_vars>>

-----------------------------------------------------------------------------

StationStep(s) ==
    \/ Preflight(s) \/ CheckPin(s) \/ VerifySourceCheckout(s) \/ PublishRequest(s)
    \/ Recheck(s) \/ OpenEntry(s) \/ FinishEntry(s) \/ Stop(s)
    \/ \E kind \in {"write_commit", "recovery_commit"}, n \in 1 .. MAX_SEQUENCE :
          CommitWrite(s, kind, n)
    \/ \E n \in 1 .. MAX_SEQUENCE : StopAfterCommit(s, n)
    \/ \E c \in captures, k \in Keys : BeginRequest(s, c, k)
    \/ \E r \in reports :
          VerifyReboot(s, r) \/ append_write_evidence(s, r) \/ append_reboot_evidence(s, r)
    \/ \E r \in packages, c \in captures : append_authority_transition_evidence(s, r, c)

Next ==
    \/ \E s \in Stations : StationStep(s)
    \/ \E c \in captures : initialize_ledger(c)
    \/ \E r \in requests : package_transition(r) \/ \E k \in Keys : Sign(r, k)
    \/ \E k \in Keys : InstallImage(k) \/ EditSdkconfig(k)
    \/ EditSources \/ CaptureState

Spec == Init /\ [][Next]_vars

-----------------------------------------------------------------------------

\* What was recorded stays recorded: no interleaving of two stations, and no
\* tool dying half way, costs or changes a complete entry.
HistoryIsKept ==
    [][/\ Len(entries) <= Len(entries')
       /\ \A i \in DOMAIN entries : entries'[i] = entries[i]]_vars

\* No sequence of initialisations and appends builds a ledger that
\* verify_ledger refuses, an incomplete last file aside.
LedgerVerifies == entries # <<>> => Verifies(entries)

\* Evidence counts where it belongs: what a write or reboot was checked
\* against, and what both key holders signed, is the history up to the very
\* entry before; and unless the files changed while the request was made, the
\* sources signed for are the commit's and their sdkconfig pins the new key.
EvidenceNamesItsPast ==
    \A i \in DOMAIN entries \ {1} :
        LET r == entries[i].evidence IN
        /\ r.head = entries[i - 1].hash /\ r.count = i - 1
        /\ entries[i].event = "authority_transition" =>
              /\ SignedByBoth(r)
              /\ r.edited \/ (r.clean /\ r.pin = entries[i].after.authority)

\* Every state the ledger records is one the device was in: an authority is
\* never entered that no image on the device ever pinned.
EntriesHappened == \A i \in DOMAIN entries : entries[i].after \in held
=============================================================================
