-------------------------- MODULE HideTransaction ---------------------------
(* What hiding windows from capture promises: a window is recorded before it *)
(* is hidden and stays recorded until it is shown again, so whatever fails   *)
(* in between, a later restore finds it.                                     *)
CONSTANT Windows

VARIABLES
    hidden,     \* windows hidden from capture on the bridge's behalf
    recorded    \* windows a restore would show again

Init == hidden = {} /\ recorded = {}

\* A new record replaces the old one only when nothing is hidden.
Record == hidden = {} /\ recorded' \in SUBSET Windows /\ UNCHANGED hidden

Hide == hidden' \in SUBSET (hidden \cup recorded) /\ UNCHANGED recorded

Show == hidden' \in SUBSET hidden /\ UNCHANGED recorded

Next == Record \/ Hide \/ Show

Spec == Init /\ [][Next]_<<hidden, recorded>>

=============================================================================
