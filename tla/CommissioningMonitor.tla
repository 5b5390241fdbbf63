------------------------ MODULE CommissioningMonitor ------------------------
(* What a commissioning report is worth. *)
EXTENDS CommissioningTools

Heard == SubSeq(line, 1, position)

\* Frame `id` arrived undamaged, and as many bytes after its start as the
\* longest frame has.
ArrivedWhole(id) ==
    \E p \in 1 .. Len(Heard) - Total(MAX_PAYLOAD) + 2 :
        p + Total(1) - 1 <= Len(Heard) /\ SubSeq(Heard, p, p + Total(1) - 1) = FrameBytes(id)

\* Whatever the chunks the reads return and whatever was damaged before it, a
\* frame that arrived whole is decoded, once, in its place: no false start
\* marker and no length of a damaged frame hides it (StreamDecoder.feed).
NoFrameIsMissed ==
    tool \in {"observe", "calibration"} =>
        /\ \A id \in 1 .. Len(sent) :
              Waits(buffer) /\ ArrivedWhole(id) => \E i \in DOMAIN delivered : delivered[i] = id
        /\ \A i, j \in DOMAIN delivered : i < j => delivered[i] < delivered[j]

\* b is the frame of its kind the board sent after a; or the board restarted
\* between them just where its numbers wrap.
Successive(a, b) ==
    /\ a < b /\ sent[a].kind = sent[b].kind
    /\ \/ \A id \in a + 1 .. b - 1 : sent[id].kind # sent[a].kind
       \/ /\ sent[a].boot # sent[b].boot
          /\ (sent[a].sequence + 1) % SEQUENCE_COUNT = sent[b].sequence

Unbroken(ids) == \A i \in 1 .. Len(ids) - 1 : Successive(ids[i], ids[i + 1])

\* A report on frames that passes, or a record that claims link integrity, saw no
\* break: between the first and the last frame of a kind it counts, none the
\* board sent is missing (_sequence_update, commissioning_pass, capture_pass).
PassMeansIntact ==
    report # NoReport /\ report.tool # "smoke" /\ (report.pass \/ report.linkIntegrity) =>
        \A kind \in Kinds : Unbroken(accepted[kind])

\* The answer to probe n was its own echo.
OwnEcho(n) == answers[n] = <<"echo", n>>

\* A damaged byte that read as the probe awaited was taken for its echo before.
AfterStray(n) == \E m \in 1 .. n : answers[m][1] = "stray"

\* A smoke test that passes has an answer to each probe, and each is its own echo,
\* neither a late one of another probe nor a heartbeat; unless a damaged byte was
\* accepted, for then its own echo is still to come (run_smoke_commissioning).
EchoesAreOwn ==
    report # NoReport /\ report.tool = "smoke" /\ report.pass =>
        /\ Len(answers) = Len(PROBES)
        /\ \A n \in DOMAIN PROBES : OwnEcho(n) \/ AfterStray(n)
=============================================================================
