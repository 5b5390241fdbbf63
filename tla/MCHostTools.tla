----------------------------- MODULE MCHostTools -----------------------------
(* A small instance: two start markers, one length and one checksum byte per *)
(* frame, chunks that end anywhere in it, a status that is stale after one   *)
(* tick, a poll that waits for two.                                          *)
EXTENDS HostTools
MCProbes == <<"A6", "3C", "A6">>
=============================================================================
