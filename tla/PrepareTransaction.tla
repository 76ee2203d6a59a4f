------------------------- MODULE PrepareTransaction -------------------------
(* prepare-for-action and restore-prepare-state (executor.rs), with the file *)
(* they keep (exclude_state.rs) and the KWin calls they make (kwin.rs).      *)
(* Each command, and the restore in the session daemon's teardown, is a      *)
(* process; KWin's windows and exclude-state.json are what they share.       *)
EXTENDS Naturals, FiniteSets

CONSTANTS
    Procs,      \* bridge processes, each running one command after another
    Teardowns,  \* those that only restore: session daemons on their way out
    Windows,    \* window ids; a closed window's id is never reused
    Overlays    \* the bridge's own overlay windows

ASSUME OverlaysAssumption == Overlays \subseteq Windows

VARIABLES
    unborn,     \* windows that have not been opened yet
    open,       \* windows that exist
    excluded,   \* windows KWin keeps out of captures
    file,       \* exclude-state.json: "absent", "written" or "torn", cut short
    listed,     \* the windows a written file lists
    pc,         \* where each process is
    op,         \* what it runs: "prepare" or "restore"
    todo,       \* the windows it is about to change
    hidden,     \* history: excluded by a prepare and not shown since
    foreign     \* history: excluded by somebody else from the start

desktop == <<unborn, open>>
vars == <<unborn, open, excluded, file, listed, pc, op, todo, hidden, foreign>>

Pcs == {"idle", "load", "list", "show", "clear", "scan", "save", "saving", "hide", "drop", "raise"}

TypeOK ==
    /\ unborn \in SUBSET (Windows \ open)
    /\ open \in SUBSET Windows
    /\ excluded \in SUBSET Windows
    /\ file \in {"absent", "written", "torn"}
    /\ listed \in SUBSET Windows
    /\ pc \in [Procs -> Pcs]
    /\ op \in [Procs -> {"prepare", "restore"}]
    /\ todo \in [Procs -> SUBSET Windows]
    /\ hidden \in SUBSET Windows
    /\ foreign \in SUBSET Windows

Init ==
    /\ open \in SUBSET Windows
    /\ unborn = Windows \ open
    /\ excluded \in SUBSET (open \ Overlays)
    /\ file = "absent" /\ listed = {}
    /\ pc = [p \in Procs |-> "idle"]
    /\ op = [p \in Procs |-> "restore"]
    /\ todo = [p \in Procs |-> {}]
    /\ hidden = {}
    /\ foreign = excluded

-----------------------------------------------------------------------------
(* Helpers. *)

Goto(p, from, to) == pc[p] = from /\ pc' = [pc EXCEPT ![p] = to]

\* The command is over: done, failed or killed.
Stop(p) ==
    /\ pc' = [pc EXCEPT ![p] = "idle"]
    /\ todo' = [todo EXCEPT ![p] = {}]

RemoveFile == file' = "absent" /\ listed' = {}

\* Slip: the restore within prepare ends in a state nothing leads out of.
AfterRestoreStuck(p) == IF op[p] = "prepare" THEN "restored" ELSE "idle"

\* After a restore, prepare goes on; restore-prepare-state is done.
AfterRestore(p) == IF op[p] = "prepare" THEN "scan" ELSE "idle"

\* list_windows also keeps the bridge's overlays out of captures.
ListWindows == excluded' = excluded \cup (Overlays \cap open)

\* set_exclude_from_capture: the script sets the flag on the windows it finds.
SetExcluded(ws, value) ==
    excluded' = IF value THEN excluded \cup (ws \cap open) ELSE excluded \ ws

-----------------------------------------------------------------------------
(* restore_prepare_state. *)

Begin(p) ==
    /\ Goto(p, "idle", "load")
    /\ \E o \in {"prepare", "restore"} :
          /\ p \in Teardowns => o = "restore"
          /\ op' = [op EXCEPT ![p] = o]
    /\ UNCHANGED <<desktop, excluded, file, listed, todo, hidden, foreign>>

\* Slips: the file is taken away as it is read; prepare does not restore first.
LoadTakesFile(p) ==
    /\ pc[p] = "load" /\ file # "torn"
    /\ RemoveFile
    /\ pc' = [pc EXCEPT ![p] = IF listed = {} THEN AfterRestore(p) ELSE "list"]
    /\ todo' = [todo EXCEPT ![p] = listed]
    /\ UNCHANGED <<desktop, excluded, op, hidden, foreign>>

LoadSkipped(p) ==
    /\ pc[p] = "load" /\ file # "torn"
    /\ pc' = [pc EXCEPT ![p] =
                IF listed = {} \/ op[p] = "prepare" THEN AfterRestore(p) ELSE "list"]
    /\ todo' = [todo EXCEPT ![p] = listed]
    /\ UNCHANGED <<desktop, excluded, file, listed, op, hidden, foreign>>

Load(p) ==
    /\ pc[p] = "load" /\ file # "torn"
    /\ pc' = [pc EXCEPT ![p] = IF listed = {} THEN AfterRestore(p) ELSE "list"]
    /\ todo' = [todo EXCEPT ![p] = listed]
    /\ UNCHANGED <<desktop, excluded, file, listed, op, hidden, foreign>>

\* A torn file does not parse, and the command fails on it.
LoadFails(p) ==
    /\ pc[p] = "load" /\ file = "torn"
    /\ Stop(p)
    /\ UNCHANGED <<desktop, excluded, file, listed, op, hidden, foreign>>

List(p) ==
    /\ pc[p] = "list"
    /\ ListWindows
    /\ todo' = [todo EXCEPT ![p] = @ \cap open]
    /\ pc' = [pc EXCEPT ![p] = IF todo[p] \cap open = {} THEN "clear" ELSE "show"]
    /\ UNCHANGED <<desktop, file, listed, op, hidden, foreign>>

\* The call fails, after its effect, if a window was not found, or was not
\* heard of in time.
Show(p) ==
    /\ pc[p] = "show"
    /\ SetExcluded(todo[p], FALSE)
    /\ hidden' = hidden \ todo[p]
    /\ \/ todo[p] \subseteq open /\ pc' = [pc EXCEPT ![p] = "clear"] /\ UNCHANGED todo
       \/ Stop(p)
    /\ UNCHANGED <<desktop, file, listed, op, foreign>>

Clear(p) ==
    /\ Goto(p, "clear", AfterRestore(p))
    /\ RemoveFile
    /\ todo' = [todo EXCEPT ![p] = {}]
    /\ UNCHANGED <<desktop, excluded, op, hidden, foreign>>

-----------------------------------------------------------------------------
(* prepare_for_action, once it has restored. *)

\* Slip: the windows that are excluded already are recorded too.
ChooseAll(p, candidates) ==
    /\ pc[p] = "scan"
    /\ ListWindows
    /\ todo' = [todo EXCEPT ![p] = candidates]
    /\ pc' = [pc EXCEPT ![p] = IF todo'[p] = {} THEN "drop" ELSE "save"]
    /\ UNCHANGED <<desktop, file, listed, op, hidden, foreign>>

\* list_windows and windows_to_change: of the candidates, those not excluded
\* already.
Choose(p, candidates) ==
    /\ pc[p] = "scan"
    /\ ListWindows
    /\ todo' = [todo EXCEPT ![p] = candidates \ excluded']
    /\ pc' = [pc EXCEPT ![p] = IF todo'[p] = {} THEN "drop" ELSE "save"]
    /\ UNCHANGED <<desktop, file, listed, op, hidden, foreign>>

\* Which windows are candidates is for WindowOrder.
Scan(p) == \E candidates \in SUBSET open : Choose(p, candidates)

\* fs::write truncates the file, then writes it.
SaveBegins(p) ==
    /\ Goto(p, "save", "saving")
    /\ file' = "torn" /\ listed' = {}
    /\ UNCHANGED <<desktop, excluded, op, todo, hidden, foreign>>

SaveEnds(p) ==
    /\ Goto(p, "saving", "hide")
    /\ file' = "written" /\ listed' = todo[p]
    /\ UNCHANGED <<desktop, excluded, op, todo, hidden, foreign>>

\* As in Show, the call may fail after its effect.
Hide(p) ==
    /\ pc[p] = "hide"
    /\ SetExcluded(todo[p], TRUE)
    /\ hidden' = hidden \cup (todo[p] \cap open)
    /\ \/ /\ todo[p] \subseteq open
          /\ pc' = [pc EXCEPT ![p] = "raise"]
          /\ todo' = [todo EXCEPT ![p] = {}]
       \/ Stop(p)
    /\ UNCHANGED <<desktop, file, listed, op, foreign>>

Drop(p) ==
    /\ Goto(p, "drop", "raise")
    /\ RemoveFile
    /\ UNCHANGED <<desktop, excluded, op, todo, hidden, foreign>>

\* activate_window lists the windows, for as long as it waits; a window that
\* cannot be raised is skipped.
Raise(p) ==
    /\ pc[p] = "raise"
    /\ \E next \in {"raise", "idle"} : pc' = [pc EXCEPT ![p] = next]
    /\ ListWindows \/ UNCHANGED excluded
    /\ UNCHANGED <<desktop, file, listed, op, todo, hidden, foreign>>

-----------------------------------------------------------------------------
(* The environment. *)

\* A call to KWin or to the file system fails before it changed anything, or
\* the process is killed: the command stops where it is.
Abort(p) ==
    /\ pc[p] # "idle"
    /\ Stop(p)
    /\ UNCHANGED <<desktop, excluded, file, listed, op, hidden, foreign>>

OpenWindow(w) ==
    /\ w \in unborn
    /\ unborn' = unborn \ {w}
    /\ open' = open \cup {w}
    /\ UNCHANGED <<excluded, file, listed, pc, op, todo, hidden, foreign>>

CloseWindow(w) ==
    /\ w \in open
    /\ open' = open \ {w}
    /\ excluded' = excluded \ {w}
    /\ hidden' = hidden \ {w}
    /\ foreign' = foreign \ {w}
    /\ UNCHANGED <<unborn, file, listed, pc, op, todo>>

Restore(p) == Load(p) \/ LoadFails(p) \/ List(p) \/ Show(p) \/ Clear(p)

Prepare(p) == Scan(p) \/ SaveBegins(p) \/ SaveEnds(p) \/ Hide(p) \/ Drop(p) \/ Raise(p)

Next ==
    \/ \E p \in Procs : Begin(p) \/ Restore(p) \/ Prepare(p) \/ Abort(p)
    \/ \E w \in Windows : OpenWindow(w) \/ CloseWindow(w)

Spec == Init /\ [][Next]_vars

-----------------------------------------------------------------------------
(* Properties. *)

\* "The reverse order would strand hidden-but-untracked windows that no restore
\* can recover" (prepare_for_action): whatever the bridge hides is in the file.
HiddenIsTracked == hidden \subseteq listed

\* A prepare starts from a clean slate: the windows of the previous one are all
\* shown again before new ones are chosen and the file is overwritten.
PreviousIsUndone ==
    \A p \in Procs : pc[p] \in {"scan", "save", "saving", "drop"} => hidden = {}

\* Windows that somebody else keeps out of captures stay out of captures
\* (windows_to_change leaves them out of the record).
ForeignStaysExcluded == foreign \subseteq excluded

\* The bridge's overlays are never recorded as windows to hide, so that no
\* restore puts them back into a capture; list_windows sees to it first.
OverlaysNotTracked == listed \cap Overlays = {}

\* The promise of HideTransaction is kept: a new record replaces an old one only
\* when nothing is hidden, and only recorded windows get hidden.
Promise == INSTANCE HideTransaction WITH recorded <- listed
PromiseKept == Promise!Spec

-----------------------------------------------------------------------------
(* Why these hold.  Whatever the processes, no record and no pending change   *)
(* ever names an overlay or somebody else's window.  When the commands take   *)
(* turns, each goes from hidden to tracked to shown: what is hidden is what   *)
(* it is about to show, and nothing is hidden once it has.                    *)

Alone == \A p, q \in Procs : pc[p] # "idle" /\ pc[q] # "idle" => p = q

OursOnly ==
    /\ ForeignStaysExcluded
    /\ OverlaysNotTracked
    /\ listed \cap foreign = {}
    /\ \A p \in Procs : todo[p] \cap (Overlays \cup foreign) = {}

Tracking ==
    /\ HiddenIsTracked
    /\ PreviousIsUndone
    /\ hidden \subseteq open
    /\ \A p \in Procs :
          /\ pc[p] \in {"list", "show"} => hidden \subseteq todo[p]
          /\ pc[p] = "clear" => hidden = {}
          /\ pc[p] = "hide" => todo[p] \subseteq listed

=============================================================================
