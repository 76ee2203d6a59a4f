----------------------------- MODULE ReapTiming -----------------------------
(* How long session-end waits (stop_session_daemon, reap_daemon) and how long *)
(* the daemon takes (serve_open_session, arm_teardown_watchdog): one daemon,  *)
(* one session-end and a clock.  Time passes in ticks; nobody overruns a      *)
(* limit.  Other clients keep the daemon busy as they like.                   *)
EXTENDS Naturals

CONSTANTS               \* all in ticks
    RequestLimit,       \* SHUTDOWN_REQUEST_TIMEOUT
    ShutdownGrace,      \* SHUTDOWN_GRACE
    TermGrace,          \* TERM_GRACE
    TeardownLimit,      \* TEARDOWN_LIMIT
    ClosedGrace,        \* CLOSED_GRACE
    IoLimit,            \* IPC_IO_TIMEOUT
    Lag,                \* what the daemon takes to notice what it listens for
    Budget              \* what an application gives session-end to finish

ASSUME DurationsAssumption ==
    {RequestLimit, ShutdownGrace, TermGrace, TeardownLimit, ClosedGrace, IoLimit,
     Lag, Budget} \subseteq Nat

ASSUME LimitsAssumption ==
    /\ TeardownLimit < ShutdownGrace
    /\ Lag + TeardownLimit < TermGrace
    /\ RequestLimit + ShutdownGrace <= Budget
    /\ RequestLimit + TermGrace <= Budget

VARIABLES
    dpc,        \* what the daemon is doing
    dleft,      \* the time it has left for that
    sigterm,    \* a SIGTERM it has not seen
    shutdown,   \* the Shutdown request: "unsent", "queued" or "served"
    epc,        \* where session-end is
    eleft,      \* the time it has left there
    clock,      \* the time since it began
    deaf        \* history: the daemon did not listen while a SIGTERM waited

daemon == <<dpc, dleft>>
ender  == <<epc, eleft, clock>>
vars   == <<daemon, sigterm, shutdown, ender, deaf>>

Listening == {"select", "running"}
\* Reading a request, waiting for the Closed that explains a failure, writing a
\* response: the daemon has a limit for each and looks for no SIGTERM.
Busy      == {"reading", "grace", "writing"}
Over      == {"exited", "killed", "cut"}

TypeOK ==
    /\ dpc \in {"opening", "wedged", "teardown"} \cup Listening \cup Busy \cup Over
    /\ dleft \in Nat
    /\ sigterm \in BOOLEAN
    /\ shutdown \in {"unsent", "queued", "served"}
    /\ epc \in {"idle", "ask", "grace", "term", "done"}
    /\ eleft \in Nat
    /\ clock \in Nat
    /\ deaf \in BOOLEAN

Init ==
    /\ dpc = "opening" /\ dleft = 0
    /\ sigterm = FALSE /\ shutdown = "unsent"
    /\ epc = "idle" /\ eleft = 0 /\ clock = 0
    /\ deaf = FALSE

-----------------------------------------------------------------------------
(* Time. *)

\* The daemon's time is limited, or it has something to notice.
Counting ==
    \/ dpc \in Busy \cup {"teardown"}
    \/ dpc \in Listening /\ sigterm
    \/ dpc = "select" /\ shutdown = "queued"

\* Slip: the wait for the daemon's exit does not look at its deadline.
TickOn ==
    /\ IF Counting THEN dleft > 0 /\ dleft' = dleft - 1 ELSE UNCHANGED dleft
    /\ IF epc \in {"idle", "done"}
       THEN UNCHANGED <<eleft, clock>>
       ELSE eleft' = eleft - 1 /\ clock' = clock + 1
    /\ UNCHANGED <<dpc, sigterm, shutdown, epc, deaf>>

Tick ==
    /\ IF Counting THEN dleft > 0 /\ dleft' = dleft - 1 ELSE UNCHANGED dleft
    /\ IF epc \in {"idle", "done"}
       THEN UNCHANGED <<eleft, clock>>
       ELSE eleft > 0 /\ eleft' = eleft - 1 /\ clock' = clock + 1
    /\ UNCHANGED <<dpc, sigterm, shutdown, epc, deaf>>

-----------------------------------------------------------------------------
(* The daemon. *)

DGo(from, to, limit) ==
    /\ dpc \in from
    /\ dpc' = to /\ dleft' = limit
    /\ deaf' = (deaf \/ (sigterm /\ to \in Busy))

\* Slip: the watchdog is armed after the portal session has been closed.
ArmedLate == TeardownLimit + RequestLimit

\* arm_teardown_watchdog
TeardownTime == TeardownLimit

Ready == DGo({"opening"}, "select", Lag) /\ UNCHANGED <<sigterm, shutdown, ender>>

\* Another client's request comes in, as slowly as the limit lets it; it may be
\* preferred to a SIGTERM (select! is fair, not ordered).
Accept == DGo({"select"}, "reading", IoLimit) /\ UNCHANGED <<sigterm, shutdown, ender>>

\* It is carried out, refused, or dropped because it is unreadable or too late.
Read ==
    /\ \/ DGo({"reading"}, "running", Lag)
       \/ DGo({"reading"}, "writing", IoLimit)
       \/ DGo({"reading"}, "select", Lag)
    /\ UNCHANGED <<sigterm, shutdown, ender>>

\* It has an answer, or has failed for a reason that a Closed may explain.
Handled ==
    /\ \/ DGo({"running"}, "writing", IoLimit)
       \/ DGo({"running"}, "grace", ClosedGrace)
    /\ UNCHANGED <<sigterm, shutdown, ender>>

Explained == DGo({"grace"}, "writing", IoLimit) /\ UNCHANGED <<sigterm, shutdown, ender>>

\* After a stop by the user the daemon leaves.
Written ==
    /\ \/ DGo({"writing"}, "select", Lag)
       \/ DGo({"writing"}, "teardown", TeardownTime)
    /\ UNCHANGED <<sigterm, shutdown, ender>>

SeeClosed == DGo({"select"}, "teardown", TeardownTime) /\ UNCHANGED <<sigterm, shutdown, ender>>

ServeShutdown ==
    /\ shutdown = "queued"
    /\ DGo({"select"}, "teardown", TeardownTime)
    /\ shutdown' = "served"
    /\ UNCHANGED <<sigterm, ender>>

SeeTerm ==
    /\ sigterm
    /\ DGo(Listening, "teardown", TeardownTime)
    /\ sigterm' = FALSE
    /\ UNCHANGED <<shutdown, ender>>

TornDown == DGo({"teardown"}, "exited", 0) /\ UNCHANGED <<sigterm, shutdown, ender>>

\* Stopped by a debugger, or stuck in a call that does not return.
Wedge == DGo(Listening, "wedged", 0) /\ UNCHANGED <<sigterm, shutdown, ender>>

-----------------------------------------------------------------------------
(* session-end, once it has found a daemon. *)

Alive == dpc \notin Over

EGo(to, limit) == epc' = to /\ eleft' = limit /\ UNCHANGED clock

Done == EGo("done", 0) /\ UNCHANGED <<daemon, sigterm, deaf>>

\* A daemon that is still opening has no handler, and dies.
Signal ==
    /\ EGo("term", TermGrace)
    /\ IF dpc = "opening"
       THEN dpc' = "exited" /\ dleft' = 0 /\ UNCHANGED <<sigterm, deaf>>
       ELSE sigterm' = TRUE /\ deaf' = (deaf \/ dpc \in Busy) /\ UNCHANGED daemon

\* Once the daemon has taken the socket down there is nobody to ask.
Begin ==
    /\ epc = "idle" /\ Alive
    /\ \/ EGo("ask", RequestLimit) /\ shutdown' = "queued"
          /\ UNCHANGED <<daemon, sigterm, deaf>>
       \/ dpc = "teardown" /\ Signal /\ UNCHANGED shutdown

Answered ==
    /\ epc = "ask" /\ shutdown = "served"
    /\ EGo("grace", ShutdownGrace)
    /\ UNCHANGED <<daemon, sigterm, shutdown, deaf>>

\* Slip: a daemon that does not answer gets the grace of one that does.
GraceForAll ==
    /\ epc = "ask" /\ (eleft = 0 \/ ~Alive)
    /\ EGo("grace", ShutdownGrace)
    /\ UNCHANGED <<daemon, sigterm, shutdown, deaf>>

\* SHUTDOWN_REQUEST_TIMEOUT is over, or the connection broke.
Unanswered ==
    /\ epc = "ask" /\ (eleft = 0 \/ ~Alive)
    /\ IF Alive THEN Signal ELSE Done
    /\ UNCHANGED shutdown

GraceOver ==
    /\ epc = "grace" /\ (eleft = 0 \/ ~Alive)
    /\ IF Alive THEN Signal ELSE Done
    /\ UNCHANGED shutdown

Exited ==
    /\ epc = "term" /\ ~Alive
    /\ Done
    /\ UNCHANGED shutdown

Kill ==
    /\ epc = "term" /\ eleft = 0 /\ Alive
    /\ dpc' = IF dpc = "teardown" THEN "cut" ELSE "killed"
    /\ dleft' = 0
    /\ EGo("done", 0)
    /\ UNCHANGED <<sigterm, shutdown, deaf>>

-----------------------------------------------------------------------------
(* The specification. *)

DaemonStep ==
    \/ Ready \/ Accept \/ Read \/ Handled \/ Explained \/ Written \/ SeeClosed
    \/ ServeShutdown \/ SeeTerm \/ TornDown \/ Wedge

EndStep == Begin \/ Answered \/ Unanswered \/ GraceOver \/ Exited \/ Kill

Next == Tick \/ DaemonStep \/ EndStep

Spec == Init /\ [][Next]_vars

-----------------------------------------------------------------------------
(* Properties. *)

\* "A daemon that answered is never killed while still inside its own (bounded)
\* teardown" (SHUTDOWN_GRACE): when the grace is over, the daemon has exited.
AnsweredIsLeft == epc = "grace" /\ eleft = 0 => ~Alive

\* "Silent-daemon total: 1.5 s Shutdown request + 2.7 s + kill, inside the JS 5 s
\* exit budget" (TERM_GRACE): whatever the daemon does, and when it answers.
QuitInBudget == clock <= Budget

\* A daemon that listens when the SIGTERM comes, and goes on listening until it
\* sees it, is not killed in its teardown (TERM_GRACE).
CutIsDeaf == dpc = "cut" => deaf

\* "A daemon that handles SIGTERM finishes its own teardown (window restore,
\* portal close) before the group SIGKILL" (TERM_GRACE).
FinishesTeardown == dpc # "cut"

-----------------------------------------------------------------------------
(* Why these hold: what the daemon still needs is less than what session-end  *)
(* still waits.                                                               *)

TimesFit ==
    /\ dpc = "teardown" => dleft <= TeardownLimit
    /\ dpc \in Listening => dleft <= Lag
    /\ shutdown = "served" => dpc = "teardown" \/ ~Alive

TermIsSeen ==
    /\ sigterm /\ dpc \in Busy => deaf
    /\ epc = "term" /\ Alive /\ ~deaf =>
          \/ dpc = "wedged"
          \/ dpc = "teardown" /\ dleft < eleft
          \/ dpc \in Listening /\ sigterm /\ dleft + TeardownLimit < eleft

GraceSuffices == epc = "grace" /\ Alive => dpc = "teardown" /\ dleft < eleft

ClockFits ==
    /\ epc = "idle" => clock = 0
    /\ epc = "ask" => clock + eleft <= RequestLimit
    /\ epc = "grace" => clock + eleft <= RequestLimit + ShutdownGrace
    /\ epc = "term" => clock + eleft <= RequestLimit + TermGrace

Inductive ==
    /\ TimesFit
    /\ TermIsSeen
    /\ GraceSuffices
    /\ ClockFits
    /\ QuitInBudget
    /\ CutIsDeaf

=============================================================================
