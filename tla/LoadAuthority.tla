---------------------------- MODULE LoadAuthority ----------------------------
(***************************************************************************)
(* What the FPGA promises about the controlled load, whatever its          *)
(* registers are: the load is energized only on recent accepted            *)
(* intelligence, a trip takes it away at the next clock edge, and once     *)
(* authority has been withdrawn only a reset or an explicit recovery       *)
(* request gives it back.                                                  *)
(***************************************************************************)
EXTENDS Integers

CONSTANT MaxAge   \* cycles an accepted observation may justify an energized load

VARIABLES
    energized,    \* the load is enabled
    inhibited,    \* authority was withdrawn and not yet released
    age,          \* cycles since the last accepted observation, Stale when too many
    controls      \* the reset, trip and recovery-request inputs before the edge

vars == <<energized, inhibited, age, controls>>

Controls == [reset : BOOLEAN, trip : BOOLEAN, request : BOOLEAN]
Stale == MaxAge + 1

Init ==
    /\ energized = FALSE /\ inhibited = FALSE /\ age = Stale
    /\ controls \in {c \in Controls : c.reset}

Tick == age' \in {0, IF age = Stale THEN Stale ELSE age + 1}

Reset ==
    /\ controls.reset
    /\ energized' = FALSE /\ inhibited' = FALSE /\ age' = Stale

Withdraw ==
    /\ ~controls.reset /\ Tick
    /\ energized' = FALSE /\ inhibited' = TRUE

Energize ==
    /\ ~controls.reset /\ ~controls.trip /\ Tick
    /\ ~energized /\ ~inhibited /\ age' # Stale
    /\ energized' = TRUE /\ inhibited' = FALSE

Release ==
    /\ ~controls.reset /\ ~controls.trip /\ Tick
    /\ inhibited /\ controls.request
    /\ energized' = FALSE /\ inhibited' = FALSE

Keep ==
    /\ ~controls.reset /\ ~controls.trip /\ Tick
    /\ energized => age' # Stale
    /\ UNCHANGED <<energized, inhibited>>

Next ==
    /\ Reset \/ Withdraw \/ Energize \/ Release \/ Keep
    /\ controls' \in Controls

Spec == Init /\ [][Next]_vars
=============================================================================
