------------------------------ MODULE MCDesktop ------------------------------
(* TLC: the scripts commands have KWin run, or the names of applications;     *)
(* `subject` says which of the two a behaviour is about.                      *)
EXTENDS KWinScript, Applications

VARIABLE subject

\* A window with one name or none, and its parent; a window with two names.
Parts == [transient : BOOLEAN, reports : [{1} -> Raw \cup {None}]]
MCWindows ==
    {<<p>> : p \in Parts} \cup {<<p, q>> : p, q \in Parts}
        \cup {<<[transient |-> FALSE, reports |-> r]>> : r \in [1 .. 2 -> Raw \cup {None}]}

MCInit ==
    /\ Init /\ IndexInit /\ subject \in {"scripts", "names"}
    /\ subject = "names" => ~active

ScriptStep == subject = "scripts" /\ Next /\ UNCHANGED <<indexVars, subject>>
CallStep(c) == subject = "scripts" /\ CallerStep(c) /\ UNCHANGED <<indexVars, subject>>
NameStep   == subject = "names" /\ IndexNext /\ UNCHANGED <<vars, subject>>

MCSpec ==
    /\ MCInit /\ [][ScriptStep \/ NameStep]_<<vars, indexVars, subject>>
    /\ \A c \in Callers : WF_<<vars, indexVars, subject>>(CallStep(c))
==============================================================================
