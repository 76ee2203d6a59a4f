----------------------------- MODULE MCDurations -----------------------------
(* TLC: the time session-end and the daemon take, or the time a client gives  *)
(* its request; `subject` says which of the two a behaviour is about.         *)
EXTENDS ReapTiming, RequestBudget

VARIABLE subject

MCInit == Init /\ BudgetInit /\ subject \in {"session-end", "request"}

ReapStep    == subject = "session-end" /\ Next /\ UNCHANGED <<budgetVars, subject>>
RequestStep == subject = "request" /\ BudgetNext /\ UNCHANGED <<vars, subject>>

MCSpec == MCInit /\ [][ReapStep \/ RequestStep]_<<vars, budgetVars, subject>>
==============================================================================
