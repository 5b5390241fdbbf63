--------------------------- MODULE MCNvsPartition ---------------------------
(* Three usable sequence numbers and two bodies; a ring of two slots that   *)
(* comes round once and a half; one erasure.                                *)
EXTENDS NvsPartition
CONSTANTS body_a, body_b, lost
MCBodies == {body_a, body_b}
MCEvents == {lost}
=============================================================================
