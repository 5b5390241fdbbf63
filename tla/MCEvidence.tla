----------------------------- MODULE MCEvidence -----------------------------
(* Two runs; every kind of file has one or two other contents an edit may   *)
(* leave.                                                                   *)
EXTENDS EvidenceMonitor, TLC

Read(reading) == [trusted |-> TRUE, quiet |-> TRUE, reading |-> reading]
Referenced(reference) == [commit |-> 1, reference |-> reference]

OfAnotherCampaign == [package |-> [root |-> Absent, candidate |-> 20], id |-> 1]

MCNominal ==
    [f \in Files |->
        CASE f = Manifest           -> [commit |-> 1]
          [] f = Policy             -> [minimum |-> 2, span |-> 1]
          [] f \in {Session(r) : r \in Runs}    -> Referenced(4)
          [] f \in {Diagnostic(r) : r \in Runs} -> Read(1)
          [] f = ChangePolicy       -> [error |-> 1]
          [] f = WritePolicy        -> [maximum |-> 3, strict |-> TRUE]
          [] f = Safety             -> 1
          [] f = DeviceState        -> [record |-> [sequence |-> 1, body |-> 0], gates |-> TRUE]
          [] OTHER                  -> Absent]

MCContents ==
    [manifest |-> {[commit |-> 2]},
     policy |-> {[minimum |-> 2, span |-> 0], Absent},
     session |-> {Referenced(5), Absent, [commit |-> 2, reference |-> 4]},
     diagnostic |-> {Absent, Read(0), [Read(1) EXCEPT !.trusted = FALSE], [Read(1) EXCEPT !.quiet = FALSE]},
     approval |-> {Absent, OfAnotherCampaign},
     target |-> {Absent, [body |-> 9, limit |-> 1]},
     safety |-> {2},
     signature |-> {Absent},
     body |-> {0, 3}]
       @@ ("change policy" :> {[error |-> 0], Absent})
       @@ ("write policy" :> {[maximum |-> 1, strict |-> TRUE], [maximum |-> 3, strict |-> FALSE]})
       @@ ("device state" :> {[record |-> [sequence |-> 2, body |-> 0], gates |-> TRUE]})
=============================================================================
