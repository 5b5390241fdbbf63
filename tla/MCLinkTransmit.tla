--------------------------- MODULE MCLinkTransmit ---------------------------
(* Two status vectors, two readings, three- and two-byte frames.            *)
EXTENDS LinkTransmit

MCVectors == {"idle", "run"}
MCSamples == {"zero", "value"}
MCInputs ==
    {i \in Input : ~(i.status_tick /\ i.rst) /\ (i.sample = "value" => i.sample_tick)}
=============================================================================
