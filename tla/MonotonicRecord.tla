--------------------------- MODULE MonotonicRecord ---------------------------
(***************************************************************************)
(* What a provisioned device promises about its calibration: the record it *)
(* serves is only ever replaced by one with a higher sequence number, and  *)
(* a record that comes back into service is at least as new as the last    *)
(* one served and, under the same number, the same record.  The record may *)
(* go out of service at any time.  Only an erasure of all that is stored,  *)
(* which is counted, ends the promise and begins it anew.                  *)
(***************************************************************************)
EXTENDS Integers

CONSTANTS Records, None

VARIABLES serving,   \* the record in service, or None
          newest,    \* the last record that was in service, or None
          erasures

vars == <<serving, newest, erasures>>

Init == serving = None /\ newest = None /\ erasures = 0

Hide == serving' = None /\ UNCHANGED <<newest, erasures>>

Show(r) ==
    /\ serving = None
    /\ newest = None \/ newest = r \/ r.sequence > newest.sequence
    /\ serving' = r /\ newest' = r /\ UNCHANGED erasures

Advance(r) ==
    /\ serving # None /\ r.sequence > serving.sequence
    /\ serving' = r /\ newest' = r /\ UNCHANGED erasures

Erase ==
    /\ serving = None /\ UNCHANGED serving
    /\ newest' = None /\ erasures' = erasures + 1

Next == Hide \/ Erase \/ \E r \in Records : Show(r) \/ Advance(r)

Spec == Init /\ [][Next]_vars
=============================================================================
