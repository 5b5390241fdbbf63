------------------------ MODULE CalibrationEvidence -------------------------
(***************************************************************************)
(* What the offline calibration tools compute (tools/*.py): a trusted      *)
(* diagnostic capture and an independent reference become a capture, the   *)
(* capture a proposal, repeated proposals a review, a ready review a       *)
(* candidate and an approved candidate integer coefficients.  The three    *)
(* channels are one, its coefficient the offset of the reference from the  *)
(* reading.  Means over the RUNS runs are kept as sums, in units of        *)
(* 1/RUNS, so that every number is an integer.                             *)
(***************************************************************************)
EXTENDS Integers, FiniteSetsExt

CONSTANTS RUNS,         \* runs in the campaign
          Absent        \* a file that is not there
ASSUME RunsAssumption == RUNS \in Nat /\ RUNS >= 2

Runs == 1..RUNS

(* A file that is missing, unreadable or malformed is Absent.  A diagnostic *)
(* says whether every transport and sample gate passed, whether the signal  *)
(* was quiet, and what it read.                                             *)
WellFormedCampaign(manifest) == manifest # Absent
WellFormedSession(session)   == session # Absent
WellFormedReviewPolicy(policy) == policy # Absent
WellFormedChangePolicy(policy) == policy # Absent
Usable(diagnostic) == diagnostic # Absent /\ diagnostic.trusted

(* A session belongs to the campaign whose commit (and boards) it names.    *)
InScope(session, manifest) == session.commit = manifest.commit

Capture(session, diagnostic) ==
    [commit    |-> session.commit,
     reference |-> session.reference,
     reading   |-> diagnostic.reading,
     quiet     |-> diagnostic.quiet]

Proposal(capture) ==
    [commit  |-> capture.commit,
     offset  |-> capture.reference - capture.reading,
     quality |-> capture.quiet]

(* The policy is usable by the campaign: it asks for two runs or more, and  *)
(* for no more than the campaign has.                                       *)
AcceptsRuns(policy) ==
    policy.minimum >= 2 /\ policy.minimum <= RUNS

Review(proposals, policy) ==
    LET offsets == {proposals[r].offset : r \in Runs} IN
    [runs |-> RUNS,
     candidate |-> MapThenSumSet(LAMBDA r : proposals[r].offset, Runs),
     ready |-> /\ RUNS >= policy.minimum
               /\ \A r \in Runs : proposals[r].quality
               /\ \A r, s \in Runs : proposals[r].commit = proposals[s].commit
               /\ Max(offsets) - Min(offsets) <= policy.span]

(* round() of n/RUNS, ties to the even neighbour.                           *)
Rounded(n) ==
    LET floor == n \div RUNS
        rest  == n % RUNS
    IN  IF 2 * rest < RUNS \/ (2 * rest = RUNS /\ floor % 2 = 0)
        THEN floor ELSE floor + 1

Distance(a, b) == IF a < b THEN b - a ELSE a - b

(* The quantisation gate: the integer coefficient is no further from the    *)
(* candidate than the source-change policy allows.                          *)
Quantisable(candidate, policy) ==
    Distance(RUNS * Rounded(candidate), candidate) <= policy.error

Quantised(candidate, policy) ==
    [body |-> Rounded(candidate), limit |-> policy.error]

NumberedRecord(sequence, profile) == [sequence |-> sequence, body |-> profile.body]
=============================================================================
