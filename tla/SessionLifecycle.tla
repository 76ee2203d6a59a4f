-------------------------- MODULE SessionLifecycle --------------------------
(* The life of the session daemon, as daemon.rs and stop_marker.rs run it.  *)
(* The bridge is a command-line tool: every command is a process of its own *)
(* (a "caller"), and the one long-lived process is the session daemon, which *)
(* holds the xdg-desktop-portal session.  Callers and daemons share nothing  *)
(* but three files of the runtime directory -- the socket, the pidfile and   *)
(* the stopped-by-user marker -- and the connections made to the socket.     *)
EXTENDS Naturals, FiniteSets

CONSTANTS
    Daemons,     \* process ids: each is one daemon process, used once
    Starters,    \* callers that run session-start, its --foreground form, or mcp
    Enders,      \* callers that run session-end or forget-session
    Requesters,  \* callers that run a command served by the daemon
    None         \* no daemon: an absent file, an absent handle

Callers == Starters \cup Enders \cup Requesters

ASSUME NoneAssumption == None \notin Daemons \cup Callers

\* The sender of a queued request that stopped waiting for its answer.
Gone == None

VARIABLES
    sockFile,    \* session.sock: the daemon whose listener the path names, or None
    pidFile,     \* session.pid: the daemon it names, or None
    marker,      \* stopped-by-user exists
    dpc,         \* where each daemon is in open_session_daemon / serve_open_session
    own,         \* socket_identity: whose socket the daemon takes for its own
    portal,      \* the daemon's portal session
    sigterm,     \* a SIGTERM its handler has not consumed
    queue,       \* requests in the listen backlog of the daemon
    dreq,        \* the request it is serving: at most one
    cpc,         \* where each caller is in its command
    cmd,         \* the command
    target,      \* the daemon it spawned or found through the pidfile
    reply,       \* what came back on the caller's connection
    stopped,     \* history: whose session the user stopped, if nothing was decided since
    asked        \* history: the command began under a stop that still stands

files   == <<sockFile, pidFile, marker>>
dvars   == <<dpc, own, portal, sigterm, queue, dreq>>
cvars   == <<cpc, cmd, target, reply>>
history == <<stopped, asked>>
vars    == <<files, dvars, cvars, history>>

Opening    == {"spawned", "bind", "pid", "consent", "ready", "identify"}
Failing    == {"failed", "failedpid"}
Serving    == {"serving", "handling"}
Stopping   == {"stopping", "dropping", "droppid", "replying"}
Leaving    == {"teardown", "leaving"}
BeforePidfile == {"spawned", "bind", "pid"}
Running    == Opening \cup Failing \cup Serving \cup Stopping \cup Leaving
DaemonPc   == Running \cup {"unborn", "exited"}

StartPc    == {"begin", "probe", "ping", "live", "clear", "unmark", "spawn",
               "await", "hear", "fore"}
EndPc      == {"find", "ask", "answer", "reap", "term", "rmsock", "rmpid", "forget"}
RequestPc  == {"gate", "connect", "wait", "absent"}
CallerPc   == StartPc \cup EndPc \cup RequestPc \cup {"idle"}

Commands   == {"start", "foreground", "end", "request",
               "auto", "autostart", "autocheck"}
Requests   == [from : Callers \cup {Gone}, kind : {"info", "shutdown", "work"}]
Replies    == {"none", "ok", "error", "not_shared", "stopped", "eof"}
Alive(d)   == dpc[d] \in Running

TypeOK ==
    /\ sockFile \in Daemons \cup {None}
    /\ pidFile \in Daemons \cup {None}
    /\ marker \in BOOLEAN
    /\ dpc \in [Daemons -> DaemonPc]
    /\ own \in [Daemons -> Daemons \cup {None}]
    /\ portal \in [Daemons -> {"none", "asking", "open", "closed"}]
    /\ sigterm \in [Daemons -> BOOLEAN]
    /\ queue \in [Daemons -> SUBSET Requests]
    /\ dreq \in [Daemons -> SUBSET Requests]
    /\ cpc \in [Callers -> CallerPc]
    /\ cmd \in [Callers -> Commands]
    /\ target \in [Callers -> Daemons \cup {None}]
    /\ reply \in [Callers -> Replies]
    /\ stopped \in Daemons \cup {None}
    /\ asked \in [Callers -> BOOLEAN]

Init ==
    /\ sockFile = None /\ pidFile = None /\ marker = FALSE
    /\ dpc = [d \in Daemons |-> "unborn"]
    /\ own = [d \in Daemons |-> None]
    /\ portal = [d \in Daemons |-> "none"]
    /\ sigterm = [d \in Daemons |-> FALSE]
    /\ queue = [d \in Daemons |-> {}]
    /\ dreq = [d \in Daemons |-> {}]
    /\ cpc = [c \in Callers |-> "idle"]
    /\ cmd = [c \in Callers |-> "request"]
    /\ target = [c \in Callers |-> None]
    /\ reply = [c \in Callers |-> "none"]
    /\ stopped = None
    /\ asked = [c \in Callers |-> FALSE]

-----------------------------------------------------------------------------
(* Helpers. *)

\* A command, or a daemon on a command's behalf, decided what happens next.
Decided ==
    /\ stopped' = None
    /\ asked' = [c \in Callers |-> FALSE]

\* The replies once every caller with a request in rs has received how.
ReplyTo(rs, how) ==
    [c \in Callers |-> IF \E r \in rs : r.from = c THEN how ELSE reply[c]]

\* The process ends: its listener, its connections and its portal session (the
\* portal closes the session of a client that left the bus) go with it.
Die(d) ==
    /\ dpc' = [dpc EXCEPT ![d] = "exited"]
    /\ portal' = [portal EXCEPT ![d] = "none"]
    /\ sigterm' = [sigterm EXCEPT ![d] = FALSE]
    /\ queue' = [queue EXCEPT ![d] = {}]
    /\ dreq' = [dreq EXCEPT ![d] = {}]
    /\ own' = [own EXCEPT ![d] = None]
    /\ reply' = ReplyTo(queue[d] \cup dreq[d], "eof")

DGoto(d, from, to) == dpc[d] = from /\ dpc' = [dpc EXCEPT ![d] = to]
CGoto(c, from, to) == cpc[c] = from /\ cpc' = [cpc EXCEPT ![c] = to]

\* Slip: the socket goes without a look at whose it is.
SocketGone(id) == None

\* remove_socket_if_own and remove_pidfile_if: what is left of each file.
SocketWithout(id) == IF id # None /\ sockFile = id THEN None ELSE sockFile
PidfileWithout(d) == IF pidFile = d THEN None ELSE pidFile

\* UnixStream::connect succeeds: the path names a socket somebody listens on.
Connectable == sockFile # None /\ Alive(sockFile)

\* Slip: only a daemon that answers counts, the pidfile is not consulted.
NoLiveDaemon == None

\* live_daemon: the process the pidfile names, if it is alive.
LiveDaemon == IF pidFile # None /\ Alive(pidFile) THEN pidFile ELSE None

-----------------------------------------------------------------------------
(* The daemon: open_session_daemon. *)

DropOldSocket(d) ==
    /\ DGoto(d, "spawned", "bind")
    /\ sockFile' = None
    /\ UNCHANGED <<pidFile, marker, own, portal, sigterm, queue, dreq, cvars, history>>

Bound(d) ==
    /\ DGoto(d, "bind", "pid")
    /\ sockFile' = d
    /\ UNCHANGED <<pidFile, marker, own, portal, sigterm, queue, dreq, cvars, history>>

\* Another daemon may have bound the path in between: EADDRINUSE, and out.
BindFails(d) ==
    /\ dpc[d] = "bind"
    /\ Die(d)
    /\ UNCHANGED <<files, cpc, cmd, target, history>>

Bind(d) == IF sockFile = None THEN Bound(d) ELSE BindFails(d)

WritePid(d) ==
    /\ DGoto(d, "pid", "consent")
    /\ pidFile' = d
    /\ portal' = [portal EXCEPT ![d] = "asking"]
    /\ UNCHANGED <<sockFile, marker, own, sigterm, queue, dreq, cvars, history>>

\* The user answers the consent dialog.
ConsentGiven(d) ==
    /\ DGoto(d, "consent", "ready")
    /\ portal' = [portal EXCEPT ![d] = "open"]
    /\ UNCHANGED <<files, own, sigterm, queue, dreq, cvars, history>>

ConsentRefused(d) ==
    /\ DGoto(d, "consent", "failed")
    /\ portal' = [portal EXCEPT ![d] = "none"]
    /\ UNCHANGED <<files, own, sigterm, queue, dreq, cvars, history>>

\* The session and the teach overlay come up, or one of them does not and the
\* portal session is shut down again.
OverlaysUp(d) ==
    /\ DGoto(d, "ready", "identify")
    /\ UNCHANGED <<files, own, portal, sigterm, queue, dreq, cvars, history>>

OverlaysFail(d) ==
    /\ DGoto(d, "ready", "failed")
    /\ portal' = [portal EXCEPT ![d] = "none"]
    /\ Decided
    /\ UNCHANGED <<files, own, sigterm, queue, dreq, cvars>>

\* cleanup_files: the socket whoever bound it, then the pidfile if it is ours.
CleanupSocket(d) ==
    /\ DGoto(d, "failed", "failedpid")
    /\ sockFile' = None
    /\ UNCHANGED <<pidFile, marker, own, portal, sigterm, queue, dreq, cvars, history>>

CleanupPid(d) ==
    /\ dpc[d] = "failedpid"
    /\ Die(d)
    /\ pidFile' = PidfileWithout(d)
    /\ UNCHANGED <<sockFile, marker, cpc, cmd, target, history>>

-----------------------------------------------------------------------------
(* The daemon: serve_open_session. *)

\* socket_identity is read from the path, and the SIGTERM handler installed.
Identify(d) ==
    /\ DGoto(d, "identify", "serving")
    /\ own' = [own EXCEPT ![d] = sockFile]
    /\ UNCHANGED <<files, portal, sigterm, queue, dreq, cvars, history>>

Accept(d) ==
    /\ DGoto(d, "serving", "handling")
    /\ \E r \in queue[d] :
          /\ dreq' = [dreq EXCEPT ![d] = {r}]
          /\ queue' = [queue EXCEPT ![d] = @ \ {r}]
    /\ UNCHANGED <<files, own, portal, sigterm, cvars, history>>

\* A failure the portal's Closed explains is a stop instead (CLOSED_GRACE):
\* that case is SeeClosed.
Handled(d) ==
    /\ DGoto(d, "handling", "serving")
    /\ \E r \in dreq[d], how \in {"ok", "error", "not_shared"} :
          /\ r.kind # "shutdown"
          /\ r.kind = "info" => how = "ok"
          /\ how = "error" => portal[d] # "closed"
          /\ reply' = ReplyTo({r}, how)
    /\ dreq' = [dreq EXCEPT ![d] = {}]
    /\ UNCHANGED <<files, own, portal, sigterm, queue, cpc, cmd, target, history>>

HandledShutdown(d) ==
    /\ DGoto(d, "handling", "teardown")
    /\ \E r \in dreq[d] : r.kind = "shutdown"
    /\ reply' = ReplyTo(dreq[d], "ok")
    /\ dreq' = [dreq EXCEPT ![d] = {}]
    /\ Decided
    /\ UNCHANGED <<files, own, portal, sigterm, queue, cpc, cmd, target>>

\* SIGTERM, between requests or during one, which is then abandoned.
SeeTerm(d) ==
    /\ dpc[d] \in Serving /\ sigterm[d]
    /\ dpc' = [dpc EXCEPT ![d] = "teardown"]
    /\ sigterm' = [sigterm EXCEPT ![d] = FALSE]
    /\ reply' = ReplyTo(dreq[d], "eof")
    /\ dreq' = [dreq EXCEPT ![d] = {}]
    /\ Decided
    /\ UNCHANGED <<files, own, portal, queue, cpc, cmd, target>>

\* Slips: the caller is told first and the stop recorded afterwards; a stop is
\* noticed only by a request.
ReplyFirst(d) ==
    /\ dpc[d] \in Serving /\ portal[d] = "closed"
    /\ dpc' = [dpc EXCEPT ![d] = "replying"]
    /\ UNCHANGED <<files, own, portal, sigterm, queue, dreq, cvars, history>>

ClosedInRequest(d) ==
    /\ dpc[d] = "handling" /\ portal[d] = "closed"
    /\ dpc' = [dpc EXCEPT ![d] = "stopping"]
    /\ UNCHANGED <<files, own, portal, sigterm, queue, dreq, cvars, history>>

\* The portal's Closed, between requests or during one.
SeeClosed(d) ==
    /\ dpc[d] \in Serving /\ portal[d] = "closed"
    /\ dpc' = [dpc EXCEPT ![d] = "stopping"]
    /\ UNCHANGED <<files, own, portal, sigterm, queue, dreq, cvars, history>>

\* record_stop_by_user, then the reply to the request the stop cut short.
RecordStop(d) ==
    /\ DGoto(d, "stopping", "dropping")
    /\ marker' = TRUE
    /\ UNCHANGED <<sockFile, pidFile, own, portal, sigterm, queue, dreq, cvars, history>>

DropSocket(d) ==
    /\ DGoto(d, "dropping", "droppid")
    /\ sockFile' = SocketWithout(own[d])
    /\ UNCHANGED <<pidFile, marker, own, portal, sigterm, queue, dreq, cvars, history>>

\* Slip: the pidfile is truncated instead of removed.
TruncatePid(d) ==
    /\ DGoto(d, "droppid", "replying")
    /\ pidFile' = ""
    /\ UNCHANGED <<sockFile, marker, own, portal, sigterm, queue, dreq, cvars, history>>

DropPid(d) ==
    /\ DGoto(d, "droppid", "replying")
    /\ pidFile' = PidfileWithout(d)
    /\ UNCHANGED <<sockFile, marker, own, portal, sigterm, queue, dreq, cvars, history>>

ReplyStopped(d) ==
    /\ DGoto(d, "replying", "teardown")
    /\ reply' = ReplyTo(dreq[d], "stopped")
    /\ dreq' = [dreq EXCEPT ![d] = {}]
    /\ UNCHANGED <<files, own, portal, sigterm, queue, cpc, cmd, target, history>>

\* Teardown: the portal session is shut down, unless that fails or hangs until
\* the watchdog; either way the files go if they are still this daemon's.
ShutPortal(d) ==
    /\ dpc[d] = "teardown" /\ portal[d] # "none"
    /\ portal' = [portal EXCEPT ![d] = "none"]
    /\ UNCHANGED <<files, dpc, own, sigterm, queue, dreq, cvars, history>>

Unlink(d) ==
    /\ DGoto(d, "teardown", "leaving")
    /\ sockFile' = SocketWithout(own[d])
    /\ UNCHANGED <<pidFile, marker, own, portal, sigterm, queue, dreq, cvars, history>>

Exit(d) ==
    /\ dpc[d] = "leaving"
    /\ Die(d)
    /\ pidFile' = PidfileWithout(d)
    /\ UNCHANGED <<sockFile, marker, cpc, cmd, target, history>>

\* A panic, the OOM killer, a kill from outside: no cleanup runs.
Crash(d) ==
    /\ Alive(d)
    /\ Die(d)
    /\ Decided
    /\ UNCHANGED <<files, cpc, cmd, target>>

\* The user (or the desktop) ends screen sharing from the indicator.
UserStop(d) ==
    /\ portal[d] = "open"
    /\ portal' = [portal EXCEPT ![d] = "closed"]
    /\ stopped' = IF dpc[d] \in {"ready", "identify"} \cup Serving THEN d ELSE stopped
    /\ UNCHANGED <<files, dpc, own, sigterm, queue, dreq, cvars, asked>>

-----------------------------------------------------------------------------
(* Callers: what every command does with a connection. *)

Send(c, kind) ==
    /\ queue' = [queue EXCEPT ![sockFile] = @ \cup {[from |-> c, kind |-> kind]}]
    /\ reply' = [reply EXCEPT ![c] = "none"]

\* The caller drops its connection.  A queued Shutdown is carried out without
\* it; serving any other request to nobody changes nothing modelled here.
HangUp(c) ==
    /\ queue' = [d \in Daemons |->
                    {IF r.from = c THEN [r EXCEPT !.from = Gone] ELSE r :
                     r \in {q \in queue[d] : q.from = c => q.kind = "shutdown"}}]
    /\ dreq' = [d \in Daemons |->
                   {IF r.from = c THEN [r EXCEPT !.from = Gone] ELSE r : r \in dreq[d]}]

\* Waiting for an answer ends in one of these: an answer (or a broken
\* connection), or the caller's limit.
Hears(c, answers) ==
    /\ reply[c] \in answers
    /\ UNCHANGED <<queue, dreq>>

GiveUp(c) ==
    /\ reply[c] = "none"
    /\ HangUp(c)

Begin(c, command, pc) ==
    /\ cpc[c] = "idle"
    /\ cpc' = [cpc EXCEPT ![c] = pc]
    /\ cmd' = [cmd EXCEPT ![c] = command]

Finish(c) ==
    /\ cpc' = [cpc EXCEPT ![c] = "idle"]
    /\ cmd' = [cmd EXCEPT ![c] = "request"]
    /\ target' = [target EXCEPT ![c] = None]
    /\ reply' = [reply EXCEPT ![c] = "none"]

-----------------------------------------------------------------------------
(* session-start: start_session_daemon, prepare_session_socket. *)

StartCommand(c) ==
    /\ c \in Starters
    /\ \E command \in {"start", "foreground"} : Begin(c, command, "begin")
    /\ UNCHANGED <<files, dvars, target, reply, history>>

StartBegin(c) ==
    /\ CGoto(c, "begin", "probe")
    /\ marker' = FALSE
    /\ Decided
    /\ UNCHANGED <<sockFile, pidFile, dvars, cmd, target, reply>>

\* daemon_state, first half: a SessionInfo request within PING_TIMEOUT.
StartProbe(c) ==
    /\ \/ Connectable /\ CGoto(c, "probe", "ping") /\ Send(c, "info")
       \/ ~Connectable /\ CGoto(c, "probe", "live") /\ UNCHANGED <<queue, reply>>
    /\ UNCHANGED <<files, dpc, own, portal, sigterm, dreq, cmd, target, history>>

\* A session is there already: an error, which mcp tolerates by asking for its
\* session again.
StartEnds(c) ==
    IF cmd[c] = "autostart"
    THEN /\ cpc' = [cpc EXCEPT ![c] = "gate"]
         /\ cmd' = [cmd EXCEPT ![c] = "autocheck"]
         /\ target' = [target EXCEPT ![c] = None]
         /\ reply' = [reply EXCEPT ![c] = "none"]
    ELSE Finish(c)

StartUp(c) ==
    /\ cpc[c] = "ping" /\ reply[c] = "ok"
    /\ StartEnds(c)
    /\ UNCHANGED <<files, dvars, history>>

StartNoAnswer(c) ==
    /\ CGoto(c, "ping", "live")
    /\ Hears(c, {"stopped", "eof"}) \/ GiveUp(c)
    /\ reply' = [reply EXCEPT ![c] = "none"]
    /\ UNCHANGED <<files, dpc, own, portal, sigterm, cmd, target, history>>

\* daemon_state, second half: a live process in the pidfile is a daemon that
\* is starting.  The detached form waits for it, the foreground form gives up.
StartLive(c) ==
    /\ cpc[c] = "live"
    /\ IF LiveDaemon # None /\ cmd[c] = "foreground"
       THEN Finish(c)
       ELSE /\ CGoto(c, "live", IF LiveDaemon = None THEN "clear" ELSE "await")
            /\ target' = [target EXCEPT ![c] = LiveDaemon]
            /\ UNCHANGED <<cmd, reply>>
    /\ UNCHANGED <<files, dvars, history>>

\* clear_for_new_daemon.
StartClear(c) ==
    /\ CGoto(c, "clear", "unmark")
    /\ sockFile' = IF Connectable THEN sockFile ELSE None
    /\ UNCHANGED <<pidFile, marker, dvars, cmd, target, reply, history>>

\* Slip: the marker was removed before the probe, which looks sufficient.
StartNotUnmarked(c) ==
    /\ CGoto(c, "unmark", "spawn")
    /\ Decided
    /\ UNCHANGED <<files, dvars, cmd, target, reply>>

StartUnmark(c) ==
    /\ CGoto(c, "unmark", "spawn")
    /\ marker' = FALSE
    /\ Decided
    /\ UNCHANGED <<sockFile, pidFile, dvars, cmd, target, reply>>

StartSpawn(c) ==
    /\ CGoto(c, "spawn", IF cmd[c] = "foreground" THEN "fore" ELSE "await")
    /\ \E d \in Daemons :
          /\ DGoto(d, "unborn", "spawned")
          /\ target' = [target EXCEPT ![c] = d]
    /\ UNCHANGED <<files, own, portal, sigterm, queue, dreq, cmd, reply, history>>

SpawnFails(c) ==
    /\ cpc[c] = "spawn"
    /\ Finish(c)
    /\ UNCHANGED <<files, dvars, history>>

\* The foreground process is the daemon: as a command it is over once the
\* pidfile says so, or once it has ended.
Foreground(c) ==
    /\ cpc[c] = "fore" /\ dpc[target[c]] \notin BeforePidfile
    /\ Finish(c)
    /\ UNCHANGED <<files, dvars, history>>

\* wait_until_ready: one connection held open, remade when it breaks.
StartConnect(c) ==
    /\ CGoto(c, "await", "hear")
    /\ Connectable /\ Send(c, "info")
    /\ UNCHANGED <<files, dpc, own, portal, sigterm, dreq, cmd, target, history>>

StartReady(c) ==
    /\ cpc[c] = "hear" /\ reply[c] = "ok"
    /\ StartEnds(c)
    /\ UNCHANGED <<files, dvars, history>>

StartReconnect(c) ==
    /\ CGoto(c, "hear", "await")
    /\ Hears(c, {"stopped", "eof"})
    /\ reply' = [reply EXCEPT ![c] = "none"]
    /\ UNCHANGED <<files, dpc, own, portal, sigterm, cmd, target, history>>

\* check_still_starting: the daemon is gone, by the user's stop if the marker
\* says so (exit 5), or otherwise (exit 1).
StartDead(c) ==
    /\ cpc[c] \in {"await", "hear"} /\ ~Alive(target[c])
    /\ HangUp(c)
    /\ Finish(c)
    /\ UNCHANGED <<files, dpc, own, portal, sigterm, history>>

\* READY_TIMEOUT, 120 s: by then a spawned daemon has written its pidfile.
StartDeadline(c) ==
    /\ cpc[c] \in {"await", "hear"} /\ Alive(target[c])
    /\ dpc[target[c]] \notin BeforePidfile
    /\ GiveUp(c)
    /\ Finish(c)
    /\ UNCHANGED <<files, dpc, own, portal, sigterm, history>>

-----------------------------------------------------------------------------
(* session-end and the first half of forget-session: stop_session_daemon and *)
(* reap_daemon.  Whether Shutdown was acknowledged only chooses the grace    *)
(* before SIGTERM, and any grace may expire here.                            *)

EndBegin(c) ==
    /\ c \in Enders
    /\ Begin(c, "end", "find")
    /\ Decided
    /\ UNCHANGED <<files, dvars, target, reply>>

EndFind(c) ==
    /\ CGoto(c, "find", "ask")
    /\ target' = [target EXCEPT ![c] = LiveDaemon]
    /\ UNCHANGED <<files, dvars, cmd, reply, history>>

EndAsk(c) ==
    /\ \/ Connectable /\ CGoto(c, "ask", "answer") /\ Send(c, "shutdown")
       \/ ~Connectable /\ CGoto(c, "ask", "reap") /\ UNCHANGED <<queue, reply>>
    /\ UNCHANGED <<files, dpc, own, portal, sigterm, dreq, cmd, target, history>>

\* Slip: the answer to Shutdown is waited for without a limit.
EndAnswerUnbounded(c) ==
    /\ CGoto(c, "answer", "reap")
    /\ Hears(c, {"ok", "stopped", "eof"})
    /\ reply' = [reply EXCEPT ![c] = "none"]
    /\ UNCHANGED <<files, dpc, own, portal, sigterm, cmd, target, history>>

\* SHUTDOWN_REQUEST_TIMEOUT bounds the wait for the answer.
EndAnswer(c) ==
    /\ CGoto(c, "answer", "reap")
    /\ Hears(c, {"ok", "stopped", "eof"}) \/ GiveUp(c)
    /\ reply' = [reply EXCEPT ![c] = "none"]
    /\ UNCHANGED <<files, dpc, own, portal, sigterm, cmd, target, history>>

\* No daemon was found: nothing to reap ("none", "shutdown-requested").
EndNothing(c) ==
    /\ CGoto(c, "reap", "forget")
    /\ target[c] = None
    /\ UNCHANGED <<files, dvars, cmd, target, reply, history>>

\* Slip: a signalled daemon is taken to be gone.
EndNotAwaited(c) ==
    /\ \/ CGoto(c, "reap", "rmsock") /\ target[c] # None /\ ~Alive(target[c])
       \/ CGoto(c, "term", "rmsock")
    /\ UNCHANGED <<files, dvars, cmd, target, reply, history>>

\* The daemon is gone: at the first look, within SHUTDOWN_GRACE or TERM_GRACE.
EndExited(c) ==
    /\ \/ CGoto(c, "reap", "rmsock") /\ target[c] # None
       \/ CGoto(c, "term", "rmsock")
    /\ ~Alive(target[c])
    /\ UNCHANGED <<files, dvars, cmd, target, reply, history>>

\* SIGTERM, at once or after SHUTDOWN_GRACE: it kills a daemon that has not
\* installed its handler, and is consumed by one that serves.
EndTerm(c) ==
    /\ CGoto(c, "reap", "term")
    /\ target[c] # None /\ Alive(target[c])
    /\ Decided
    /\ IF dpc[target[c]] \in Opening \cup Failing
       THEN Die(target[c])
       ELSE /\ sigterm' = [sigterm EXCEPT ![target[c]] = TRUE]
            /\ UNCHANGED <<dpc, own, portal, queue, dreq, reply>>
    /\ UNCHANGED <<files, cmd, target>>

\* SIGKILL, after TERM_GRACE.
EndKill(c) ==
    /\ CGoto(c, "term", "rmsock")
    /\ Alive(target[c])
    /\ Die(target[c])
    /\ Decided
    /\ UNCHANGED <<files, cmd, target>>

\* The socket, whoever bound it, then the pidfile if it is the target's.
EndSocket(c) ==
    /\ CGoto(c, "rmsock", "rmpid")
    /\ sockFile' = None
    /\ UNCHANGED <<pidFile, marker, dvars, cmd, target, reply, history>>

EndPid(c) ==
    /\ CGoto(c, "rmpid", "forget")
    /\ pidFile' = PidfileWithout(target[c])
    /\ UNCHANGED <<sockFile, marker, dvars, cmd, target, reply, history>>

EndForget(c) ==
    /\ cpc[c] = "forget"
    /\ Finish(c)
    /\ marker' = FALSE
    /\ Decided
    /\ UNCHANGED <<sockFile, pidFile, dvars>>

-----------------------------------------------------------------------------
(* A command the daemon serves, and mcp's ensure_portal_session: request. *)

RequestBegin(c) ==
    /\ \/ c \in Requesters /\ Begin(c, "request", "gate")
       \/ c \in Starters /\ Begin(c, "auto", "gate")
    /\ asked' = [asked EXCEPT ![c] = (stopped # None)]
    /\ UNCHANGED <<files, dvars, target, reply, stopped>>

RequestEnds(c) ==
    /\ Finish(c)
    /\ asked' = [asked EXCEPT ![c] = FALSE]
    /\ UNCHANGED stopped

\* refuse_if_stopped: the marker refuses the command (exit 5).
RequestGate(c) ==
    /\ cpc[c] = "gate"
    /\ IF marker
       THEN RequestEnds(c)
       ELSE CGoto(c, "gate", "connect") /\ UNCHANGED <<cmd, target, reply, history>>
    /\ UNCHANGED <<files, dvars>>

RequestConnect(c) ==
    /\ \/ /\ Connectable
          /\ CGoto(c, "connect", "wait")
          /\ Send(c, IF cmd[c] = "request" THEN "work" ELSE "info")
       \/ ~Connectable /\ CGoto(c, "connect", "absent") /\ UNCHANGED <<queue, reply>>
    /\ UNCHANGED <<files, dpc, own, portal, sigterm, dreq, cmd, target, history>>

\* A success, a stop and a classified failure are final.  Any other failure, a
\* broken connection and an expired request_timeout are final too, as a stop
\* (exit 5) if the marker is there now, else as they are (exit 1).
RequestAnswered(c) ==
    /\ cpc[c] = "wait"
    /\ Hears(c, {"ok", "stopped", "not_shared", "error", "eof"}) \/ GiveUp(c)
    /\ RequestEnds(c)
    /\ UNCHANGED <<files, dpc, own, portal, sigterm>>

\* No daemon: a stop (exit 5) if the marker is there, else "no active portal
\* session" (exit 4), upon which mcp, and only mcp, starts a session.
RequestAbsent(c) ==
    /\ cpc[c] = "absent"
    /\ IF ~marker /\ cmd[c] = "auto"
       THEN /\ cpc' = [cpc EXCEPT ![c] = "begin"]
            /\ cmd' = [cmd EXCEPT ![c] = "autostart"]
            /\ UNCHANGED <<target, reply, history>>
       ELSE RequestEnds(c)
    /\ UNCHANGED <<files, dvars>>

-----------------------------------------------------------------------------
(* The specification. *)

Open(d) == DropOldSocket(d) \/ Bind(d) \/ WritePid(d)
        \/ OverlaysUp(d) \/ OverlaysFail(d) \/ CleanupSocket(d) \/ CleanupPid(d)

Serve(d) == Identify(d) \/ Accept(d) \/ Handled(d) \/ HandledShutdown(d)
         \/ SeeTerm(d) \/ SeeClosed(d)

Stop(d) == RecordStop(d) \/ DropSocket(d) \/ DropPid(d) \/ ReplyStopped(d)

Teardown(d) == ShutPortal(d) \/ Unlink(d) \/ Exit(d)

DaemonStep(d) == Open(d) \/ Serve(d) \/ Stop(d) \/ Teardown(d)

User(d) == ConsentGiven(d) \/ ConsentRefused(d) \/ UserStop(d)

StartStep(c) ==
    StartBegin(c) \/ StartProbe(c) \/ StartUp(c) \/ StartNoAnswer(c)
 \/ StartLive(c) \/ StartClear(c) \/ StartUnmark(c) \/ StartSpawn(c)
 \/ SpawnFails(c) \/ Foreground(c) \/ StartConnect(c) \/ StartReady(c)
 \/ StartReconnect(c) \/ StartDead(c) \/ StartDeadline(c)

EndStep(c) ==
    EndFind(c) \/ EndAsk(c) \/ EndAnswer(c) \/ EndNothing(c) \/ EndExited(c)
 \/ EndTerm(c) \/ EndKill(c) \/ EndSocket(c) \/ EndPid(c) \/ EndForget(c)

RequestStep(c) ==
    RequestGate(c) \/ RequestConnect(c) \/ RequestAnswered(c) \/ RequestAbsent(c)

CallerStep(c) == StartStep(c) \/ EndStep(c) \/ RequestStep(c)

NewCommand(c) == StartCommand(c) \/ EndBegin(c) \/ RequestBegin(c)

Next ==
    \/ \E d \in Daemons : DaemonStep(d) \/ User(d) \/ Crash(d)
    \/ \E c \in Callers : CallerStep(c) \/ NewCommand(c)

Spec == Init /\ [][Next]_vars

\* A process that can run does; every limit of a command expires; a daemon's
\* select loop, which polls its branches in random order, sees a SIGTERM and a
\* Closed.  The user owes nobody an answer or a stop, and nothing has to crash.
Fairness ==
    /\ \A d \in Daemons : WF_vars(DaemonStep(d)) /\ WF_vars(SeeTerm(d))
                       /\ WF_vars(SeeClosed(d)) /\ WF_vars(Unlink(d))
    /\ \A c \in Callers : WF_vars(CallerStep(c)) /\ WF_vars(StartDeadline(c))

FairSpec == Spec /\ Fairness

-----------------------------------------------------------------------------
(* Properties. *)

Shared(d) == portal[d] \in {"asking", "open"}

\* "Spawning another would stack a second dialog" (start_session_daemon): no
\* two daemons ask for consent, or hold a session, at the same time.
OneSession == \A d, e \in Daemons : Shared(d) /\ Shared(e) => d = e

\* The marker of an earlier stop is gone before a daemon is spawned, and no
\* daemon on its way out writes it later (clear_for_new_daemon): it never
\* refuses the commands of a session the user has not stopped.
MarkerIsCleared ==
    marker => \A d \in Daemons : dpc[d] \in Opening \cup Serving => portal[d] = "closed"

\* The user's stop is reported as one (exit 5), never as a missing session or a
\* failed start, upon which mcp or an app would share the screen again: a
\* command that began under the stop and finds no daemon, and a session-start
\* whose daemon is gone, find the marker.  "The marker goes first, so a caller
\* that retries right after this reply already sees it" (serve_open_session).
StopIsVisible ==
    \A c \in Callers :
        /\ cpc[c] = "absent" /\ asked[c] => marker
        /\ cpc[c] \in {"await", "hear"} /\ stopped # None /\ ~Alive(target[c]) => marker

\* The promise of ScreenSharing is kept: whoever starts, ends, crashes and stops,
\* there is one dialog or session at a time (start_session_daemon), a session that
\* ended is not taken up again, and a stop that stands is not asked over
\* (clear_for_new_daemon).
Asked   == {d \in Daemons : portal[d] = "asking"}
Agreed  == {d \in Daemons : portal[d] = "open"}
Unasked == {d \in Daemons : dpc[d] \in BeforePidfile \cup {"unborn"}}
Over    == Daemons \ (Asked \cup Agreed \cup Unasked)
Sharing == INSTANCE ScreenSharing
    WITH Sessions <- Daemons, asking <- Asked, sharing <- Agreed, over <- Over,
         refused <- marker
SharingPromise == Sharing!Spec

\* A Shutdown whose sender gave up waits in the backlog (request_daemon): it
\* does not end a session somebody was told is ready, for the session-end that
\* sent it is still about to end that same daemon by a signal.
NoGhostShutdown ==
    \A d \in Daemons :
        /\ dpc[d] \in Opening \cup Serving /\ portal[d] # "closed"
        /\ \E r \in queue[d] \cup dreq[d] : r.from = Gone /\ r.kind = "shutdown"
        => \E c \in Callers : cpc[c] \in {"reap", "term"} /\ target[c] = d

\* "Files are removed only while they are still this daemon's": no step of one
\* daemon takes the path away from another one's session.
KeepsOthersSocket ==
    [][\A d, e \in Daemons :
          d # e /\ dpc'[d] # dpc[d] /\ sockFile = e /\ Shared(e) => sockFile' = e]_vars

\* "Remove the session socket only while it is still the one this daemon bound"
\* (remove_socket_if_own): the identity a daemon reads from the path after the
\* consent dialog is that of the socket it bound before, or of none.
OwnSocket == \A d \in Daemons : own[d] \in {None, d}

\* session-end leaves neither the daemon it found nor a file that names it.
EndLeavesNothing ==
    \A c \in Callers :
        cpc[c] = "forget" /\ target[c] # None =>
            ~Alive(target[c]) /\ target[c] \notin {sockFile, pidFile}

\* "No daemon (no socket, or a stale socket nobody listens on)" is what a
\* caller takes an unreachable path for (request_daemon): a daemon that serves
\* can be reached through the path.
ServingIsReachable == \A d \in Daemons : dpc[d] \in Serving => sockFile = d

\* A stop by the user ends the daemon and its session, whatever it was doing.
StopEndsDaemon == \A d \in Daemons : portal[d] = "closed" ~> dpc[d] = "exited"

\* No command hangs: "an app quit can never hang here" (stop_session_daemon),
\* "gives up early ... else after limit" (wait_until_ready).
CommandsEnd == \A c \in Callers : cpc[c] # "idle" ~> cpc[c] = "idle"

-----------------------------------------------------------------------------
(* Why one starter at a time never stacks a second dialog: a daemon is known  *)
(* to the process that spawned it until the pidfile names it, and the pidfile *)
(* names it for as long as it asks for, or holds, a session.                  *)

OneStarter ==
    \A a, b \in Starters : cpc[a] \in StartPc /\ cpc[b] \in StartPc => a = b

AfterPidfile == {"consent", "ready", "identify", "stopping", "dropping", "droppid"}
                \cup Failing \cup Serving
AfterBind    == AfterPidfile \cup {"pid"}
Active(d)    == dpc[d] \in BeforePidfile \cup AfterPidfile
Holder(d)    == Active(d) \/ Shared(d)

StartersStart ==
    \A c \in Callers : cpc[c] \in StartPc \/ cmd[c] = "auto" => c \in Starters

SpawnedIsKnown ==
    \A d \in Daemons : dpc[d] \in BeforePidfile =>
        \E c \in Callers : cpc[c] \in {"await", "hear", "fore"} /\ target[c] = d

PidfileNamesHolder ==
    \A d \in Daemons : dpc[d] \in AfterPidfile \/ Shared(d) => pidFile = d

PortalFollowsDaemon ==
    \A d \in Daemons :
        /\ dpc[d] \in BeforePidfile \cup {"unborn", "exited"} => portal[d] = "none"
        /\ dpc[d] = "consent" => portal[d] = "asking"
        /\ dpc[d] \in Stopping => portal[d] = "closed"

OneHolder == \A d, e \in Daemons : Holder(d) /\ Holder(e) => d = e

DownIsDown ==
    \A c \in Callers :
        /\ cpc[c] \in {"clear", "unmark", "spawn"} => \A d \in Daemons : ~Holder(d)
        /\ cpc[c] = "spawn" => ~marker

ReadyIsUp ==
    \A c \in Callers, d \in Daemons :
        cpc[c] = "hear" /\ reply[c] = "ok" /\ target[c] = d => dpc[d] \notin BeforePidfile

ReapedIsGone ==
    \A c \in Callers :
        /\ target[c] # None => dpc[target[c]] # "unborn"
        /\ cpc[c] = "term" => target[c] # None
        /\ cpc[c] \in {"rmsock", "rmpid"} => target[c] # None /\ dpc[target[c]] = "exited"

BoundIsOwn ==
    \A d \in Daemons : dpc[d] \in AfterBind => sockFile \in {None, d}

\* Why session-end leaves nothing: the process it reaped does not come back.
EndInductive ==
    \A c \in Callers :
        /\ target[c] # None => dpc[target[c]] # "unborn"
        /\ cpc[c] \in {"term", "rmsock", "rmpid"} => target[c] # None
        /\ target[c] # None =>
              /\ cpc[c] \in {"rmsock", "rmpid", "forget"} => dpc[target[c]] = "exited"
              /\ cpc[c] \in {"rmpid", "forget"} => sockFile # target[c]
              /\ cpc[c] = "forget" => pidFile # target[c]

\* Why the rest holds when sessions are started and ended in turn, as an
\* application does: whoever is at it knows the daemon there is, so nobody
\* takes a listening daemon's path away and a stop that is not recorded yet is
\* that of a daemon that can be reached.
Sequential ==
    \A a, b \in Starters \cup Enders :
        cpc[a] \in StartPc \cup EndPc /\ cpc[b] \in StartPc \cup EndPc => a = b

HolderIsKnown ==
    \A c \in Callers, d \in Daemons :
        cpc[c] \in {"await", "hear", "fore"} \cup (EndPc \ {"find"}) /\ Holder(d) => target[c] = d

Listening == {"pid", "consent", "ready", "identify", "stopping", "dropping"} \cup Serving

ListeningIsReachable == \A d \in Daemons : dpc[d] \in Listening => sockFile = d

StopStands ==
    /\ stopped # None =>
          marker \/ dpc[stopped] \in {"ready", "identify", "stopping"} \cup Serving
    /\ \A c \in Callers : asked[c] => stopped # None

ShutdownIsFollowedUp ==
    \A d \in Daemons : \A r \in queue[d] \cup dreq[d] :
        r.kind = "shutdown" /\ dpc[d] \in {"unborn"} \cup Opening \cup Serving =>
            /\ r.from \in Enders \cup {Gone}
            /\ \E c \in Enders :
                  /\ cpc[c] \in {"reap", "term"} \/ (r.from = c /\ cpc[c] = "answer")
                  /\ target[c] = d

SequentialInductive ==
    /\ \A c \in Callers : cpc[c] \in EndPc => c \in Enders
    /\ HolderIsKnown
    /\ ListeningIsReachable
    /\ StopStands
    /\ ShutdownIsFollowedUp
    /\ StopIsVisible

Inductive ==
    /\ StartersStart
    /\ SpawnedIsKnown
    /\ PidfileNamesHolder
    /\ PortalFollowsDaemon
    /\ OneHolder
    /\ DownIsDown
    /\ ReadyIsUp
    /\ ReapedIsGone
    /\ BoundIsOwn
    /\ OwnSocket
    /\ MarkerIsCleared

=============================================================================
