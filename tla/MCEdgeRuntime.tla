---------------------------- MODULE MCEdgeRuntime ----------------------------
(* Reads and a queue of two frames, one alarm, a window of two rows.        *)
EXTENDS EdgeMonitor
CONSTANT emergency
MCAlarms == {emergency}
=============================================================================
