---------------------------- MODULE TeachOverlay ----------------------------
(* The teach overlay's controller process (teach_overlay.rs): one thread per *)
(* connected client, a service behind a mutex, and runner threads that each  *)
(* show one overlay window on one display.  A client's show-step blocks its  *)
(* thread until a button, a hide or another show-step answers it.            *)
EXTENDS Naturals, FiniteSets

CONSTANTS
    Clients,    \* connections, each making one call after another
    Threads,    \* runner threads; one that is done may be started again
    Stuck,      \* threads whose window never maps and that never finish
    Displays,   \* output names
    None        \* no client, no thread, no display

ASSUME ThreadsAssumption == Stuck \subseteq Threads
ASSUME NoneAssumption == None \notin Clients \cup Threads \cup Displays

VARIABLES
    mutex,      \* the client whose thread holds the service
    mode,       \* what the overlay shows: "hidden", "step" or "working"
    payload,    \* last_payload: the client whose step it is
    display,    \* the display the overlay belongs on
    pending,    \* pending_step: the client waiting for the step's answer
    waiters,    \* event_waiters
    runner,     \* the service's runner thread
    thread,     \* "done", "starting" or "up"
    on,         \* the display each thread was started on
    quit,       \* its shutdown flag
    seen,       \* the mode of the snapshot it shows
    lost,       \* history: the service's runner ended by itself since it was last seen to
    leaving,    \* the thread stop() waits for
    pc,         \* where each client's thread is
    call,       \* its request
    where,      \* the display the request asks for
    answer      \* what it has been sent

state   == <<mode, payload, display, pending, waiters>>
threads == <<thread, on, quit, seen, lost>>
service == <<mutex, runner, leaving>>
client  == <<pc, call, where, answer>>
vars    == <<state, threads, service, client>>

Modes == {"hidden", "step", "working"}
Calls == {"show", "working", "hide", "display", "event"}

TypeOK ==
    /\ mutex \in Clients \cup {None}
    /\ mode \in Modes
    /\ payload \in Clients \cup {None}
    /\ display \in Displays \cup {None}
    /\ pending \in Clients \cup {None}
    /\ waiters \in SUBSET Clients
    /\ runner \in Threads \cup {None}
    /\ thread \in [Threads -> {"done", "starting", "up"}]
    /\ on \in [Threads -> Displays \cup {None}]
    /\ quit \in [Threads -> BOOLEAN]
    /\ seen \in [Threads -> Modes]
    /\ lost \in BOOLEAN
    /\ leaving \in Threads \cup {None}
    /\ pc \in [Clients -> {"idle", "lock", "run", "halt", "join", "restart", "step", "ensure", "wait"}]
    /\ call \in [Clients -> Calls]
    /\ where \in [Clients -> Displays \cup {None}]
    /\ answer \in [Clients -> {"none", "next", "exit", "superseded", "hidden"}]

Init ==
    /\ mutex = None /\ runner = None /\ leaving = None
    /\ mode = "hidden" /\ payload = None /\ display = None
    /\ pending = None /\ waiters = {}
    /\ thread = [t \in Threads |-> "done"]
    /\ on = [t \in Threads |-> None]
    /\ quit = [t \in Threads |-> FALSE]
    /\ seen = [t \in Threads |-> "hidden"]
    /\ lost = FALSE
    /\ pc = [c \in Clients |-> "idle"]
    /\ call = [c \in Clients |-> "hide"]
    /\ where = [c \in Clients |-> None]
    /\ answer = [c \in Clients |-> "none"]

-----------------------------------------------------------------------------
(* Helpers. *)

Answer(cs, with) == answer' = [c \in Clients |-> IF c \in cs THEN with ELSE answer[c]]

\* The client's thread goes on; it gives up the service when it is done with it.
Go(c, to) ==
    /\ pc' = [pc EXCEPT ![c] = to]
    /\ mutex' = IF to \in {"idle", "wait"} THEN None ELSE c
    /\ call' = [call EXCEPT ![c] = IF to = "idle" THEN "hide" ELSE @]

\* Slip: a show-step goes on to a stage that nothing handles.
SettledNowhere(c) == IF call[c] = "show" THEN "shown" ELSE "idle"

\* Where a request goes on once the display is settled.
Settled(c) == IF call[c] = "show" THEN "step" ELSE "idle"

\* Slip: the overlay is moved without a window on the new display.
NotRestarted(c) == Settled(c)

\* ... and the old runner stopped: a visible overlay restarts there.
Halted(c) == IF mode # "hidden" THEN "restart" ELSE Settled(c)

\* Slip: a runner counts as running whether its thread is finished or not.
HasRunner == runner # None

Running == runner # None /\ thread[runner] # "done"

\* TeachOverlayRunner::start, on the display of the moment.
Launch(t) ==
    /\ thread[t] = "done" /\ t # leaving
    /\ runner' = t
    /\ thread' = [thread EXCEPT ![t] = "starting"]
    /\ on' = [on EXCEPT ![t] = display]
    /\ lost' = FALSE
    /\ UNCHANGED <<quit, seen>>

\* The thread is over, and what it had is gone.
End(t) ==
    /\ thread' = [thread EXCEPT ![t] = "done"]
    /\ on' = [on EXCEPT ![t] = None]
    /\ quit' = [quit EXCEPT ![t] = FALSE]
    /\ seen' = [seen EXCEPT ![t] = "hidden"]
    /\ lost' = (lost \/ t = runner)

-----------------------------------------------------------------------------
(* handle_request and the service. *)

Request(c) ==
    /\ pc[c] = "idle"
    /\ \E what \in Calls, d \in Displays \cup {None} :
          /\ what = "display" => d # None
          /\ what \notin {"show", "display"} => d = None
          /\ call' = [call EXCEPT ![c] = what]
          /\ where' = [where EXCEPT ![c] = d]
    /\ pc' = [pc EXCEPT ![c] = "lock"]
    /\ UNCHANGED <<state, threads, service, answer>>

Lock(c) ==
    /\ pc[c] = "lock" /\ mutex = None
    /\ Go(c, IF call[c] = "show" /\ where[c] = None THEN "step" ELSE "run")
    /\ UNCHANGED <<state, threads, runner, leaving, where, answer>>

\* set_display: on a change the runner has to go, and to come back there if
\* anything is shown.
SetDisplay(c) ==
    /\ pc[c] = "run" /\ call[c] \in {"show", "display"}
    /\ display' = where[c]
    /\ where' = [where EXCEPT ![c] = None]
    /\ Go(c, IF display = where[c] THEN Settled(c) ELSE "halt")
    /\ UNCHANGED <<mode, payload, pending, waiters, threads, runner, leaving, answer>>

\* Slip: the runner is forgotten, not told to shut down.
Forget(c) ==
    /\ pc[c] = "halt" /\ runner # None
    /\ runner' = None /\ leaving' = runner
    /\ Go(c, "join")
    /\ UNCHANGED <<state, threads, where, answer>>

\* stop_runner: the shutdown flag is set ...
Halt(c) ==
    /\ pc[c] = "halt" /\ runner # None
    /\ runner' = None /\ leaving' = runner
    /\ quit' = IF thread[runner] = "done" THEN quit ELSE [quit EXCEPT ![runner] = TRUE]
    /\ Go(c, "join")
    /\ UNCHANGED <<state, thread, on, seen, lost, where, answer>>

NoHalt(c) ==
    /\ pc[c] = "halt" /\ runner = None
    /\ Go(c, Halted(c))
    /\ UNCHANGED <<state, threads, runner, leaving, where, answer>>

\* ... and the thread waited for.
Join(c) ==
    /\ pc[c] = "join" /\ thread[leaving] = "done"
    /\ leaving' = None
    /\ Go(c, Halted(c))
    /\ UNCHANGED <<state, threads, runner, where, answer>>

\* Slip: the wait for the thread has no limit.
NeverDetach(c) == FALSE /\ UNCHANGED vars

\* The thread did not finish in 5 s: it is left to itself.
Detach(c) ==
    /\ pc[c] = "join" /\ thread[leaving] # "done"
    /\ leaving' = None
    /\ Go(c, Halted(c))
    /\ UNCHANGED <<state, threads, runner, where, answer>>

Restart(c) ==
    /\ pc[c] = "restart"
    /\ \E t \in Threads : Launch(t)
    /\ Go(c, Settled(c))
    /\ UNCHANGED <<state, leaving, where, answer>>

\* Slip: the new step takes the place of the old one, which is not answered.
StepReplaced(c) ==
    /\ pc[c] = "step"
    /\ mode' = "step" /\ payload' = c /\ pending' = c
    /\ Go(c, "ensure")
    /\ UNCHANGED <<display, waiters, threads, runner, leaving, where, answer>>

\* show_step: the step of another client is superseded.
Step(c) ==
    /\ pc[c] = "step"
    /\ Answer({pending}, "superseded")
    /\ mode' = "step" /\ payload' = c /\ pending' = c
    /\ Go(c, "ensure")
    /\ UNCHANGED <<display, waiters, threads, runner, leaving, where>>

\* ensure_runner: a runner whose thread is finished does not count.
Ensure(c) ==
    /\ pc[c] = "ensure"
    /\ IF Running
       THEN lost' = FALSE /\ UNCHANGED <<thread, on, quit, seen, runner>>
       ELSE \E t \in Threads : Launch(t)
    /\ Go(c, IF call[c] = "show" THEN "wait" ELSE "idle")
    /\ UNCHANGED <<state, leaving, where, answer>>

SetWorking(c) ==
    /\ pc[c] = "run" /\ call[c] = "working"
    /\ mode' = IF payload = None THEN mode ELSE "working"
    /\ Go(c, IF payload = None THEN "idle" ELSE "ensure")
    /\ UNCHANGED <<payload, display, pending, waiters, threads, runner, leaving, where, answer>>

Hide(c) ==
    /\ pc[c] = "run" /\ call[c] = "hide"
    /\ answer' = [a \in Clients |-> IF a = pending THEN "exit"
                                    ELSE IF a \in waiters THEN "hidden" ELSE answer[a]]
    /\ mode' = "hidden" /\ payload' = None /\ pending' = None
    /\ waiters' = {}
    /\ Go(c, "idle")
    /\ UNCHANGED <<display, threads, runner, leaving, where>>

WaitEvent(c) ==
    /\ pc[c] = "run" /\ call[c] = "event"
    /\ waiters' = waiters \cup {c}
    /\ Go(c, "wait")
    /\ UNCHANGED <<mode, payload, display, pending, threads, runner, leaving, where, answer>>

Respond(c) ==
    /\ pc[c] = "wait" /\ answer[c] # "none"
    /\ pc' = [pc EXCEPT ![c] = "idle"]
    /\ call' = [call EXCEPT ![c] = "hide"]
    /\ answer' = [answer EXCEPT ![c] = "none"]
    /\ UNCHANGED <<state, threads, service, where>>

-----------------------------------------------------------------------------
(* A runner thread: run_overlay and update. *)

\* The window is up; TeachOverlayApp::new has taken a snapshot.
Map(t) ==
    /\ thread[t] = "starting" /\ t \notin Stuck
    /\ thread' = [thread EXCEPT ![t] = "up"]
    /\ seen' = [seen EXCEPT ![t] = mode]
    /\ UNCHANGED <<state, on, quit, lost, service, client>>

Tick(t) ==
    /\ thread[t] = "up"
    /\ IF quit[t]
       THEN End(t)
       ELSE seen' = [seen EXCEPT ![t] = mode] /\ UNCHANGED <<thread, on, quit, lost>>
    /\ UNCHANGED <<state, service, client>>

\* Wayland or layer-shell fails, at the start or later.
Fail(t) ==
    /\ thread[t] # "done" /\ t \notin Stuck
    /\ End(t)
    /\ UNCHANGED <<state, service, client>>

\* Slip: the step is answered and stays pending.
NextKept(t) ==
    /\ thread[t] = "up" /\ seen[t] = "step"
    /\ Answer({pending}, "next")
    /\ UNCHANGED <<state, threads, service, pc, call, where>>

\* The buttons are those of the snapshot; what they do is up to the state.
NextPressed(t) ==
    /\ thread[t] = "up" /\ seen[t] = "step"
    /\ Answer({pending}, "next")
    /\ pending' = None
    /\ UNCHANGED <<mode, payload, display, waiters, threads, service, pc, call, where>>

ExitPressed(t) ==
    /\ thread[t] = "up" /\ seen[t] # "hidden"
    /\ IF pending # None
       THEN Answer({pending}, "exit") /\ pending' = None /\ UNCHANGED waiters
       ELSE Answer(waiters, "exit") /\ waiters' = {} /\ UNCHANGED pending
    /\ UNCHANGED <<mode, payload, display, threads, service, pc, call, where>>

-----------------------------------------------------------------------------
(* The specification. *)

Serve(c) ==
    \/ Lock(c) \/ SetDisplay(c) \/ Halt(c) \/ NoHalt(c) \/ Join(c) \/ Detach(c)
    \/ Restart(c) \/ Step(c) \/ Ensure(c) \/ SetWorking(c) \/ Hide(c) \/ WaitEvent(c)
    \/ Respond(c)

User(t) == NextPressed(t) \/ ExitPressed(t)

Next ==
    \/ \E c \in Clients : Request(c) \/ Serve(c)
    \/ \E t \in Threads : Map(t) \/ Tick(t) \/ Fail(t) \/ User(t)

Spec == Init /\ [][Next]_vars

\* Threads run.  Who gets the service next is up to the mutex, a window need
\* not come up before it fails, and nobody has to press a button.
Fairness ==
    /\ \A c \in Clients : WF_vars(Serve(c))
    /\ \A t \in Threads : WF_vars(Map(t)) /\ WF_vars(Tick(t))

FairSpec == Spec /\ Fairness

-----------------------------------------------------------------------------
(* Properties. *)

\* A show-step or wait-event that waits is one that somebody will answer: its
\* sender is still held by the state, whatever other clients do meanwhile.
NobodyForgotten ==
    \A c \in Clients :
        pc[c] = "wait" /\ answer[c] = "none" =>
            IF call[c] = "show" THEN pending = c ELSE c \in waiters

\* And one that is held waits, so no answer goes to a call that is over.
NobodyMisled ==
    /\ pending # None => call[pending] = "show" /\ pc[pending] \in {"ensure", "wait"}
    /\ \A c \in waiters : call[c] = "event" /\ pc[c] = "wait" /\ answer[c] = "none"

\* Clients wait for exactly the answers the service will give, whichever button,
\* hide, newer step or failing window comes first.
HeldUntilAnswered == NobodyForgotten /\ NobodyMisled

\* Between requests the runner is on the display the overlay belongs on
\* (set_display), and an overlay that shows something has a runner that has not
\* been told to shut down.
RunnerFits ==
    mutex = None =>
        /\ Running => on[runner] = display /\ ~quit[runner]
        /\ mode # "hidden" => runner # None

\* No "ghost overlay behind on display switches" (update): every thread but the
\* service's own has been told to shut down.
NoGhost == \A t \in Threads : thread[t] # "done" /\ t # runner => quit[t]

\* "A runner whose thread already exited ... must not count as running, or
\* every later show-step blocks forever" (ensure_runner): whatever has been asked in
\* whichever order - steps, display switches, hides - an overlay that shows something
\* between requests has a thread that runs, unless that thread ended by itself after
\* the service had last seen to it.  The next step or working overlay brings it back.
ShownHasWindow ==
    mutex = None /\ mode # "hidden" /\ ~lost =>
        \E t \in Threads : t = runner /\ thread[t] # "done"

\* "An unbounded join here bricks the whole teach socket" (stop): whatever a
\* runner thread does, the service is given up again.
ServiceIsFreed == \A c \in Clients : mutex = c ~> mutex # c

-----------------------------------------------------------------------------
(* Why these hold: who holds the service, and what the stage it is at leaves  *)
(* open.  Only while the service is held may the runner be missing or on the  *)
(* wrong display.                                                             *)

Inside == {"run", "halt", "join", "restart", "step", "ensure"}

OneInside == \A c \in Clients : pc[c] \in Inside <=> mutex = c

StagesFit ==
    \A c \in Clients :
        /\ pc[c] \in {"halt", "join", "restart"} => call[c] \in {"show", "display"}
        /\ pc[c] = "step" => call[c] = "show"
        /\ pc[c] = "ensure" => call[c] \in {"show", "working"}
        /\ pc[c] = "wait" => call[c] \in {"show", "event"}
        /\ answer[c] # "none" => pc[c] = "wait" \/ (pc[c] = "ensure" /\ call[c] = "show")

\* A step that is being put up may have been answered already.
StepIsHeld ==
    \A c \in Clients :
        pc[c] = "ensure" /\ call[c] = "show" /\ answer[c] = "none" => pending = c

PendingIsOpen == pending # None => answer[pending] = "none"

FlagsFit == \A t \in Threads : thread[t] = "done" => ~quit[t]

RunnerIsWanted == Running => ~quit[runner]

RunnerInPlace ==
    Running /\ (\A c \in Clients : pc[c] # "halt") => on[runner] = display

RunnerGone ==
    \A c \in Clients : pc[c] \in {"join", "restart"} => runner = None

ShownHasRunner ==
    mode # "hidden" /\ runner = None =>
        \E c \in Clients : pc[c] \in {"join", "restart", "ensure"}

\* A window that is missing went by itself, or is about to be replaced.
LostFits ==
    mode # "hidden" /\ ~lost /\ ~Running =>
        \E c \in Clients : pc[c] \in {"join", "restart", "ensure"}

\* Every call is at one stage, and every one that waits is held.
CallsFit ==
    /\ OneInside
    /\ StagesFit
    /\ StepIsHeld
    /\ PendingIsOpen
    /\ NobodyForgotten
    /\ NobodyMisled

\* Every window is the service's own or on its way out.
RunnersFit ==
    /\ FlagsFit
    /\ RunnerIsWanted
    /\ RunnerInPlace
    /\ RunnerGone
    /\ ShownHasRunner
    /\ LostFits
    /\ NoGhost

\* Who holds the service, which calls it holds, and which windows it has left
\* behind (the mutex of TeachOverlayService): kept by every step.
Inductive == CallsFit /\ RunnersFit

=============================================================================
