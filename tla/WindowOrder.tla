----------------------------- MODULE WindowOrder -----------------------------
(* Which windows prepare_for_action hides and which it raises (executor.rs),  *)
(* on a desktop whose windows lie above one another: PrepareTransaction, with *)
(* the candidates chosen and the raising done as the code does it.  The user  *)
(* opens, closes, raises and minimizes windows all the while.                 *)
EXTENDS PrepareTransaction, Sequences, SequencesExt

CONSTANTS
    Allowed,    \* windows of the apps on the allow list
    Host,       \* windows of the host
    Shells,     \* docks and desktops
    Surfaces,   \* neither normal windows nor dialogs: KWin does not focus them
    Elsewhere   \* windows on another display

ASSUME RolesAssumption ==
    IsFiniteSet(Windows) /\ Overlays \cap (Allowed \cup Host \cup Shells) = {}

VARIABLES
    stack,      \* the open windows but for the overlays, bottom to top
    minimized,
    scope,      \* the windows of the display asked for, or all
    plan,       \* the windows to raise, in this order
    calm        \* history: nothing came between since the windows were listed

placed  == <<stack, minimized>>
planned == <<scope, plan>>
varsOnScreen == <<vars, placed, planned, calm>>

\* What is in S of a list, in its order: SelectSeq, written so that the proofs
\* can unfold it.
Only(s, S) ==
    LET f[n \in 0 .. Len(s)] ==
            IF n = 0 THEN <<>>
            ELSE IF s[n] \in S THEN Append(f[n - 1], s[n]) ELSE f[n - 1]
    IN  f[Len(s)]

Before(s, v, w) == \E i, j \in DOMAIN s : i < j /\ s[i] = v /\ s[j] = w

\* The display asked for, or all of them.
Scopes == {Windows, Windows \ Elsewhere}

\* Neither docks and desktops nor the bridge's own.
Apps(ws) == ws \ (Shells \cup Overlays)

TypeOKOnScreen ==
    /\ TypeOK
    /\ stack \in Seq(Windows) /\ ToSet(stack) = open \ Overlays /\ IsInjective(stack)
    /\ minimized \in SUBSET ToSet(stack)
    /\ scope \in [Procs -> Scopes]
    /\ plan \in [Procs -> Seq(Windows)]
    /\ \A p \in Procs : pc[p] \notin {"save", "saving", "hide", "drop", "raise"} => plan[p] = <<>>
    /\ calm \in [Procs -> BOOLEAN]

InitOnScreen ==
    /\ Init
    /\ stack \in SetToSeqs(open \ Overlays)
    /\ minimized \in SUBSET Apps(open)
    /\ scope = [p \in Procs |-> Windows]
    /\ plan = [p \in Procs |-> <<>>]
    /\ calm = [p \in Procs |-> FALSE]

-----------------------------------------------------------------------------
(* The choice of windows. *)

OnDisplay(s) == open \cap s

IsAllowed == Allowed \cup Host

\* select_hide_candidates; the overlays are among them, but excluded already.
Candidates(s) == OnDisplay(s) \ (Shells \cup IsAllowed)

Visible(ws) == ws \ minimized

\* The windows that a click may meet, for activate_visible_windows_in_z_order.
InTheWay(s) == Visible(Apps(OnDisplay(s)) \ Host)

Activatable == IsAllowed \ (Shells \cup Surfaces)

\* Of these windows, one whose app is not allowed lies above one whose app is.
Covered(ws) == \E v \in ws \cap IsAllowed, w \in ws \ IsAllowed : Before(stack, v, w)

\* Slip: only the topmost window is looked at.
TopmostOnly(s) ==
    LET visible == Only(stack, InTheWay(s))
    IN  IF visible # <<>> /\ Last(visible) \notin IsAllowed
        THEN Only(visible, Activatable)
        ELSE <<>>

\* If so, all that KWin can focus are raised, bottom to top.
ToRaise(s) ==
    IF Covered(InTheWay(s)) THEN Only(stack, InTheWay(s) \cap Activatable) ELSE <<>>

\* What p does leaves other prepares with a desktop they have not listed.
Goes(p, ok) == calm' = [q \in Procs |-> q = p /\ calm[p] /\ ok]

Disturbs == calm' = [q \in Procs |-> FALSE]

-----------------------------------------------------------------------------
(* The commands. *)

BeginOnScreen(p) == Begin(p) /\ Disturbs /\ UNCHANGED <<placed, planned>>

RestoreOnScreen(p) == Restore(p) /\ Goes(p, FALSE) /\ UNCHANGED <<placed, planned>>

ScanOnScreen(p) ==
    /\ \E s \in Scopes :
          /\ Choose(p, Candidates(s))
          /\ scope' = [scope EXCEPT ![p] = s]
          /\ plan' = [plan EXCEPT ![p] = ToRaise(s)]
    /\ calm' = [q \in Procs |-> q = p]
    /\ UNCHANGED placed

Record(p) ==
    /\ SaveBegins(p) \/ SaveEnds(p) \/ Drop(p)
    /\ Goes(p, TRUE)
    /\ UNCHANGED <<placed, planned>>

\* A Hide that fails ends the command.
HideOnScreen(p) ==
    /\ Hide(p)
    /\ Goes(p, pc'[p] = "raise")
    /\ plan' = IF pc'[p] = "raise" THEN plan ELSE [plan EXCEPT ![p] = <<>>]
    /\ UNCHANGED <<placed, scope>>

Top(w) == stack' = Append(Only(stack, Windows \ {w}), w) /\ minimized' = minimized \ {w}

\* KWin raises the window, or refuses to, or it is gone.
RaiseOnScreen(p) ==
    /\ plan[p] # <<>>
    /\ Raise(p) /\ pc'[p] = "raise"
    /\ LET w == Head(plan[p])
       IN  \/ w \in open /\ Top(w) /\ Goes(p, TRUE)
           \/ Goes(p, w \notin open) /\ UNCHANGED placed
    /\ plan' = [plan EXCEPT ![p] = Tail(@)]
    /\ UNCHANGED scope

Prepared(p) ==
    /\ plan[p] = <<>>
    /\ Raise(p) /\ pc'[p] = "idle"
    /\ Goes(p, TRUE)
    /\ UNCHANGED <<placed, planned>>

AbortOnScreen(p) ==
    /\ Abort(p)
    /\ Goes(p, FALSE)
    /\ plan' = [plan EXCEPT ![p] = <<>>]
    /\ UNCHANGED <<placed, scope>>

-----------------------------------------------------------------------------
(* The user. *)

OpenOnScreen(w) ==
    /\ OpenWindow(w)
    /\ stack' = IF w \in Overlays THEN stack ELSE Append(stack, w)
    /\ Disturbs
    /\ UNCHANGED <<minimized, planned>>

CloseOnScreen(w) ==
    /\ CloseWindow(w)
    /\ stack' = Only(stack, Windows \ {w}) /\ minimized' = minimized \ {w}
    /\ UNCHANGED <<planned, calm>>

UserRaises(w) ==
    /\ w \in Apps(open)
    /\ Top(w) /\ Disturbs
    /\ UNCHANGED <<vars, planned>>

Minimizes(w) ==
    /\ w \in Apps(open)
    /\ minimized' = minimized \cup {w}
    /\ UNCHANGED <<vars, stack, planned, calm>>

NextOnScreen ==
    \/ \E p \in Procs :
          \/ BeginOnScreen(p) \/ RestoreOnScreen(p) \/ ScanOnScreen(p) \/ Record(p)
          \/ HideOnScreen(p) \/ RaiseOnScreen(p) \/ Prepared(p) \/ AbortOnScreen(p)
    \/ \E w \in Windows :
          OpenOnScreen(w) \/ CloseOnScreen(w) \/ UserRaises(w) \/ Minimizes(w)

SpecOnScreen == InitOnScreen /\ [][NextOnScreen]_varsOnScreen

-----------------------------------------------------------------------------
(* Properties. *)

\* "A click aimed at the allowed app visible in the screenshot would land on the
\* hidden window" (activate_visible_windows_in_z_order): after a prepare that
\* nobody interfered with, the screenshot shows allowed apps only, and no hidden
\* window lies above one of theirs that can be raised.
ClickMeetsShot ==
    \A p \in Procs : pc[p] = "idle" /\ calm[p] =>
        /\ Candidates(scope[p]) \subseteq excluded
        /\ \A v \in InTheWay(scope[p]) \cap Activatable, w \in InTheWay(scope[p]) :
              Before(stack, v, w) => w \in IsAllowed

-----------------------------------------------------------------------------
(* Why it holds.  Until a prepare has hidden them, the candidates are windows  *)
(* it is about to hide; and each window that still lies below one it should    *)
(* not is still to be raised, whatever the user closes or minimizes.           *)

Calm(p) ==
    /\ pc[p] \in {"save", "saving", "hide", "drop", "raise", "idle"}
    /\ Candidates(scope[p]) \subseteq
          excluded \cup (IF pc[p] \in {"save", "saving", "hide"} THEN todo[p] ELSE {})
    /\ \A v \in InTheWay(scope[p]) \cap Activatable, w \in InTheWay(scope[p]) \ IsAllowed :
          Before(stack, v, w) => v \in ToSet(plan[p])

OnCourse ==
    \A p \in Procs : ToSet(plan[p]) \subseteq Activatable /\ (calm[p] => Calm(p))

=============================================================================
