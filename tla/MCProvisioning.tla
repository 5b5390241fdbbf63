--------------------------- MODULE MCProvisioning ---------------------------
(* Two usable sequence numbers, one body, two consecutive packages.         *)
EXTENDS ProvisioningMonitor
CONSTANT body_a
MCBodies == {body_a}
Numbered(n) == [sequence |-> n, body |-> body_a]
MCPackages ==
    {[installed |-> 0, record |-> Numbered(1)],
     [installed |-> 1, record |-> Numbered(2)]}
=============================================================================
