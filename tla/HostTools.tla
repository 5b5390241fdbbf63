------------------------------ MODULE HostTools ------------------------------
(* The operator's machine runs one of two read-only programs at a time: the  *)
(* commissioning tool on the FPGA's serial line, or the monitor on the       *)
(* ESP32's console.  They share the machine and nothing else.                *)
EXTENDS CommissioningMonitor, TelemetryMonitor

VARIABLE session   \* "commissioning" or "monitor"

host_vars == <<session, commissioning_vars, vars>>

\* The monitor does not touch the FPGA's line: one image stands for all.
HostInit ==
    /\ session \in {"commissioning", "monitor"} /\ CommissioningInit /\ Init
    /\ session = "monitor" => image = "production"

HostNext ==
    \/ session = "commissioning" /\ CommissioningNext /\ UNCHANGED <<session, vars>>
    \/ session = "monitor" /\ Next /\ UNCHANGED <<session, commissioning_vars>>

HostSpec == HostInit /\ [][HostNext]_host_vars
=============================================================================
