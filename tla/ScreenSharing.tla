---------------------------- MODULE ScreenSharing ----------------------------
(* What the user of the bridge can rely on, whatever processes run it: the   *)
(* screen is shared by one session at a time, each asked for anew, and after *)
(* the user has stopped one, by none until somebody starts again on purpose. *)
CONSTANT Sessions

VARIABLES
    asking,     \* sessions whose consent dialog is open
    sharing,    \* sessions that share the screen
    over,       \* sessions that are over
    refused     \* the user stopped the last one, and nobody has started since

Init == asking = {} /\ sharing = {} /\ over = {} /\ refused = FALSE

\* One dialog, never over a session, for a session that has not been before.
Ask(s) ==
    /\ asking = {} /\ sharing = {} /\ s \notin over /\ ~refused
    /\ asking' = {s}
    /\ UNCHANGED <<sharing, over, refused>>

Agree(s) ==
    /\ s \in asking
    /\ asking' = asking \ {s}
    /\ sharing' = sharing \cup {s}
    /\ UNCHANGED <<over, refused>>

\* A dialog that was refused, a session that was stopped, ended or lost.
End(s) ==
    /\ asking' = asking \ {s}
    /\ sharing' = sharing \ {s}
    /\ over' = over \cup {s}
    /\ UNCHANGED refused

\* The stop is recorded when nothing is shared any more; a start forgets it.
Refuse == asking = {} /\ sharing = {} /\ refused' = TRUE /\ UNCHANGED <<asking, sharing, over>>

StartOver == refused' = FALSE /\ UNCHANGED <<asking, sharing, over>>

Next == \/ \E s \in Sessions : Ask(s) \/ Agree(s) \/ End(s)
        \/ Refuse \/ StartOver

Spec == Init /\ [][Next]_<<asking, sharing, over, refused>>

=============================================================================
