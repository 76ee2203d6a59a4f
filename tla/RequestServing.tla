--------------------------- MODULE RequestServing ---------------------------
(* The session daemon's serve loop (serve_open_session) and its callers      *)
(* (request_daemon, exchange): requests wait in the listen backlog, are read *)
(* within a limit, refused if they have become stale, carried out one at a   *)
(* time, and cut short by SIGTERM or by the user's stop.                     *)
EXTENDS PortalInput, FiniteSets

CONSTANTS
    Callers,    \* processes, each making one request after another
    None        \* no caller

ASSUME NoneAssumption == None \notin Callers

VARIABLES
    cpc,        \* "idle", "writing", "waiting", "gone" (whole request) or "garbled"
    kind,       \* what the caller asks for
    late,       \* its deadline has passed
    backlog,    \* connections nobody has accepted yet
    dpc,        \* where the daemon is
    serving,    \* the caller whose connection it has
    response,   \* what it is about to answer
    closed,     \* the portal has closed the session, and says so (take_closed_signal)
    cause,      \* history: the request failed on a closed session
    made        \* history: the calls that were made of it

callers == <<cpc, kind, late>>
history == <<cause, made>>
loop    == <<backlog, dpc, serving, response, history>>
vars    == <<input, callers, loop, closed>>

Kinds     == Gestures \cup {"query", "shutdown"}
Responses == {"ok", "error", "not_shared", "stopped"}
Present   == {"writing", "waiting"}

TypeOK ==
    /\ InputTypeOK
    /\ cpc \in [Callers -> {"idle", "gone", "garbled"} \cup Present]
    /\ kind \in [Callers -> Kinds]
    /\ late \in [Callers -> BOOLEAN]
    /\ backlog \in Seq(Callers)
    /\ dpc \in {"select", "reading", "running", "grace", "writing", "teardown",
                "closing", "exited"}
    /\ serving \in Callers \cup {None}
    /\ response \in Responses
    /\ closed \in BOOLEAN
    /\ cause \in BOOLEAN
    /\ made \in Nat

Init ==
    /\ InputInit
    /\ cpc = [c \in Callers |-> "idle"]
    /\ kind = [c \in Callers |-> "query"]
    /\ late = [c \in Callers |-> FALSE]
    /\ backlog = <<>> /\ dpc = "select" /\ serving = None /\ response = "ok"
    /\ closed = FALSE
    /\ cause = FALSE /\ made = 0

-----------------------------------------------------------------------------
(* Callers. *)

Ask(c) ==
    /\ cpc[c] = "idle" /\ dpc # "exited"
    /\ cpc' = [cpc EXCEPT ![c] = "writing"]
    /\ \E k \in Kinds : kind' = [kind EXCEPT ![c] = k]
    /\ backlog' = Append(backlog, c)
    /\ UNCHANGED <<input, late, dpc, serving, response, history, closed>>

\* The request is written and the connection half-closed.
Written(c) ==
    /\ cpc[c] = "writing"
    /\ cpc' = [cpc EXCEPT ![c] = "waiting"]
    /\ UNCHANGED <<input, kind, late, loop, closed>>

\* Slip: a late left_mouse_up is refused like the rest.
InjectsAll(k) == k \notin {"query", "shutdown"}

\* injects_input
Injects(k) == k \notin {"query", "shutdown", "up"}

\* The daemon has begun the request of this caller; what becomes of the caller, and
\* of its deadline, no longer counts: late and cpc keep how it stood then.
Begun(c) == serving = c /\ dpc # "reading"

\* The deadline, which is set before the caller's own timer, passes.
Expire(c) ==
    /\ cpc[c] \in Present /\ ~late[c] /\ Injects(kind[c]) /\ ~Begun(c)
    /\ late' = [late EXCEPT ![c] = TRUE]
    /\ UNCHANGED <<input, cpc, kind, loop, closed>>

\* The caller times out or is killed, and its connection closes: with its
\* request written to the end, or not.
Go(c) ==
    /\ cpc[c] \in Present /\ ~Begun(c)
    /\ cpc' = [cpc EXCEPT ![c] = IF cpc[c] = "waiting" THEN "gone" ELSE "garbled"]
    /\ UNCHANGED <<input, kind, late, loop, closed>>

\* The daemon is done with these connections: whoever is there hears of it.
Disconnect(cs) ==
    /\ cpc' = [c \in Callers |-> IF c \in cs THEN "idle" ELSE cpc[c]]
    /\ kind' = [c \in Callers |-> IF c \in cs THEN "query" ELSE kind[c]]
    /\ late' = [c \in Callers |-> late[c] /\ c \notin cs]

-----------------------------------------------------------------------------
(* The daemon. *)

\* Slip: only the deadline counts.
StaleByDeadline(c) == Injects(kind[c]) /\ late[c]

\* stale_input_refusal, peer_gone
Stale(c) == Injects(kind[c]) /\ (late[c] \/ cpc[c] \notin Present)

Accept ==
    /\ dpc = "select" /\ backlog # <<>>
    /\ dpc' = "reading"
    /\ serving' = Head(backlog) /\ backlog' = Tail(backlog)
    /\ UNCHANGED <<input, callers, response, history, closed>>

Refuse ==
    /\ dpc = "reading" /\ cpc[serving] \in {"waiting", "gone"} /\ Stale(serving)
    /\ dpc' = "writing" /\ response' = "error"
    /\ UNCHANGED <<input, callers, backlog, serving, history, closed>>

\* The whole request is there, and begun.
Begin ==
    /\ dpc = "reading" /\ cpc[serving] \in {"waiting", "gone"} /\ ~Stale(serving)
    /\ dpc' = "running"
    /\ IF kind[serving] \in Gestures THEN Start(kind[serving]) ELSE UNCHANGED input
    /\ UNCHANGED <<callers, backlog, serving, response, history, closed>>

\* Unreadable, or not there within IPC_IO_TIMEOUT.
Unread ==
    /\ dpc = "reading" /\ cpc[serving] \in {"writing", "garbled"}
    /\ Disconnect({serving})
    /\ dpc' = "select" /\ serving' = None
    /\ UNCHANGED <<input, backlog, response, history, closed>>

\* The portal refuses every call on a session it has closed.
Work ==
    /\ dpc = "running"
    /\ \/ Call /\ ~closed /\ made' = made + 1 /\ UNCHANGED cause
       \/ CallFails /\ cause' = closed /\ UNCHANGED made
    /\ UNCHANGED <<callers, backlog, dpc, serving, response, closed>>

\* handle_request answers; a failure with no kind of its own may be the stop.
Reply(how) ==
    /\ response' = how
    /\ dpc' = IF how = "error" THEN "grace" ELSE "writing"
    /\ UNCHANGED <<callers, backlog, serving, closed>>

GestureDone ==
    /\ dpc = "running" /\ kind[serving] \in Gestures
    /\ Finish /\ UNCHANGED history
    /\ Reply(IF failed THEN "error" ELSE "ok")

\* A query or a capture, on a session that is open or is not.
QueryDone ==
    /\ dpc = "running" /\ gesture = "none" /\ kind[serving] = "query"
    /\ \E how \in {"ok", "error", "not_shared"} :
          Reply(how) /\ cause' = (how = "error" /\ closed)
    /\ UNCHANGED <<input, made>>

ShutdownDone ==
    /\ dpc = "running" /\ gesture = "none" /\ kind[serving] = "shutdown"
    /\ Reply("ok")
    /\ UNCHANGED <<input, history>>

\* not_shared_error: no gesture goes to a screen that is not shared.
NotShared ==
    /\ dpc = "running" /\ gesture \in {"click", "drag", "scroll"}
    /\ todo = Plan[gesture] /\ ~failed
    /\ gesture' = "none" /\ todo' = <<>>
    /\ Reply("not_shared")
    /\ UNCHANGED <<held, down, failed, broken, history>>

\* Slip: a failure is answered at once.
GraceSkipped ==
    /\ dpc = "grace"
    /\ dpc' = "writing"
    /\ UNCHANGED <<input, callers, backlog, serving, response, history, closed>>

\* CLOSED_GRACE: a Closed that is there, or comes, explains the failure.
Grace ==
    /\ dpc = "grace"
    /\ dpc' = "writing"
    /\ response' = IF closed THEN "stopped" ELSE response
    /\ UNCHANGED <<input, callers, backlog, serving, history, closed>>

\* Between requests there is nobody to tell; a request is abandoned.
SeeClosed ==
    /\ closed
    /\ \/ dpc = "select" /\ dpc' = "teardown" /\ UNCHANGED <<input, response>>
       \/ dpc = "running" /\ dpc' = "writing" /\ Abandon /\ response' = "stopped"
    /\ UNCHANGED <<callers, backlog, serving, history, closed>>

SeeTerm ==
    /\ \/ dpc = "select" /\ UNCHANGED <<input, callers, serving>>
       \/ dpc = "running" /\ Abandon /\ Disconnect({serving}) /\ serving' = None
    /\ dpc' = "teardown" /\ cause' = FALSE /\ made' = 0
    /\ UNCHANGED <<backlog, response, closed>>

\* The answer is written, or its caller does not take it in time.
Answer ==
    /\ dpc = "writing"
    /\ Disconnect({serving})
    /\ dpc' = IF response = "stopped" \/ kind[serving] = "shutdown" THEN "teardown" ELSE "select"
    /\ serving' = None /\ response' = "ok" /\ cause' = FALSE /\ made' = 0
    /\ UNCHANGED <<input, backlog, closed>>

Teardown ==
    /\ dpc = "teardown"
    /\ dpc' = "closing"
    /\ ReleaseHeld
    /\ UNCHANGED <<callers, backlog, serving, response, history, closed>>

\* The process ends, and with it every connection in the backlog.
Exit ==
    /\ dpc = "closing"
    /\ dpc' = "exited"
    /\ Disconnect({c \in Callers : cpc[c] # "idle"})
    /\ backlog' = <<>>
    /\ UNCHANGED <<input, serving, response, history, closed>>

\* The next daemon, with a portal session of its own.
Restart ==
    /\ dpc = "exited"
    /\ dpc' = "select"
    /\ closed' = FALSE
    /\ down' = {} /\ broken' = {}
    /\ UNCHANGED <<held, gesture, todo, failed, callers, backlog, serving, response, history>>

\* The user stops sharing.
Close ==
    /\ ~closed /\ dpc # "exited"
    /\ closed' = TRUE
    /\ UNCHANGED <<input, callers, loop>>

-----------------------------------------------------------------------------
(* The specification. *)

Daemon ==
    \/ Accept \/ Refuse \/ Begin \/ Unread \/ Work
    \/ GestureDone \/ QueryDone \/ ShutdownDone \/ NotShared \/ Grace
    \/ SeeClosed \/ Answer \/ Teardown \/ Exit

Caller(c) == Ask(c) \/ Written(c) \/ Expire(c) \/ Go(c)

Next ==
    \/ Daemon \/ SeeTerm \/ Restart \/ Close
    \/ \E c \in Callers : Caller(c)

Spec == Init /\ [][Next]_vars

\* The daemon runs, the portal answers its calls, and its limits expire.
FairSpec == Spec /\ WF_vars(Daemon)

-----------------------------------------------------------------------------
(* Properties. *)

\* What a caller hears of its input, or does not, is what was made of it, so that it
\* can ask again.  "A queued one is refused" (request_daemon): of input whose caller
\* went or whose deadline passed while it was queued, no call is made.  "ok" means
\* every call of the gesture, also when a failed one was cleaned up after, and that
\* the button is up after a left_mouse_up; "not shared" means none.
AnswerIsTrue ==
    serving # None =>
        /\ (late[serving] \/ cpc[serving] \notin Present) /\ kind[serving] # "up" => made = 0
        /\ dpc = "writing" /\ response = "not_shared" => made = 0
        /\ dpc = "writing" /\ response = "ok" /\ kind[serving] \in Gestures =>
              IF kind[serving] = "up"
              THEN Left \notin down \/ "button" \in broken
              ELSE made = Len(Plan[kind[serving]])

\* "A request that failed because the session was just closed reports the stop,
\* not the symptom" (serve_open_session).
StopIsReported == dpc = "writing" /\ response = "error" => ~cause

\* Everybody the daemon has, or will accept, has asked, and once.
QueueFits ==
    /\ serving # None => cpc[serving] # "idle"
    /\ \A i \in DOMAIN backlog : cpc[backlog[i]] # "idle" /\ backlog[i] # serving
    /\ \A i, j \in DOMAIN backlog : backlog[i] = backlog[j] => i = j

\* How far a request has come: what is begun is not stale, a gesture that has not
\* failed has made what it has not left, and nothing is counted before it is begun.
ProgressFits ==
    /\ made = 0 \/ dpc \in {"running", "grace", "writing"}
    /\ dpc = "running" =>
          /\ ~Stale(serving)
          /\ gesture = IF kind[serving] \in Gestures THEN kind[serving] ELSE "none"
    /\ gesture = "none" /\ dpc = "running" => made = 0
    /\ gesture = "up" => held = {}
    /\ gesture \notin {"up", "none"} /\ ~failed => made + Len(todo) = Len(Plan[gesture])
    /\ dpc = "grace" => response = "error"

AnswerFits ==
    /\ serving # None /\ (Stale(serving) \/ kind[serving] \notin Gestures) => made = 0
    /\ dpc = "writing" /\ response = "not_shared" => made = 0
    /\ dpc = "writing" /\ response = "ok" =>
          /\ kind[serving] = "up" => held = {}
          /\ kind[serving] \in Gestures \ {"up"} => made = Len(Plan[kind[serving]])

\* The inductive invariant behind HeldIsDown, AnswerIsTrue and StopIsReported:
\* gestures run only for a caller, a held button is out of their reach, a session
\* that is gone holds nothing, a stop that explains a failure is known of, and the
\* calls of a request are counted.
Inductive ==
    /\ (dpc \in {"reading", "running", "grace", "writing"}) = (serving # None)
    /\ gesture # "none" => dpc = "running"
    /\ dpc \in {"closing", "exited"} => held = {}
    /\ HeldIsDown /\ HeldIsSafe
    /\ cause => closed /\ dpc \in {"running", "grace", "writing"}
    /\ StopIsReported
    /\ QueueFits /\ ProgressFits /\ AnswerFits

\* "Refusing a late one would leave the button held for the rest of the session"
\* (injects_input): a left_mouse_up that was sent is carried out, whether or not
\* anybody waits for it, and whoever stalls in front of it.
LateUpIsServed ==
    \A c \in Callers :
        kind[c] = "up" /\ cpc[c] = "gone" ~>
            Left \notin down \/ "button" \in broken \/ dpc \in {"teardown", "closing", "exited"}

=============================================================================
