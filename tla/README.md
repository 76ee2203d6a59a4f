# A specification of kwin-portal-bridge

`kwin-portal-bridge` is a command-line program through which an application
(Claude Desktop, or an MCP client) sees and drives a KDE Plasma desktop: it
captures the screen, injects input, hides windows from captures and shows a
tutorial overlay.  Every command is a process of its own.  Three things outlive
a command, and they are what this directory specifies first:

* the **session daemon**, which holds the xdg-desktop-portal session the user
  consented to, and the files through which commands find it;
* the **exclude state**, a file that remembers which windows a
  `prepare-for-action` has hidden, so that a later command can show them again;
* the **teach controller**, a process with one thread per client that shows
  tutorial steps and waits for the user.

Paths below are relative to the repository; `daemon.rs` means `src/daemon.rs`.

## 1. The system

### 1.1 Components

| Component | State it keeps | Operations | Hard behaviours | What makes it correct |
|---|---|---|---|---|
| Session lifecycle: `session-start`, `session-end`, `forget-session`, the daemon's opening, serving, stopping and teardown (`daemon.rs`, `main.rs`) | `session.sock`, `session.pid`, the daemon process, its portal session | probe, clear, spawn, wait until ready; bind, write the pidfile, ask for consent, serve; shut down, SIGTERM, SIGKILL, reap, clean up | several processes with no lock; crashes that leave files behind; a consent dialog that is open for minutes; limits that expire while the other side is about to answer | one dialog and one session at a time; a daemon that serves can be reached; a quit leaves nothing and never hangs |
| Stopped-by-user marker (`stop_marker.rs`, `daemon.rs`) | the marker file | written by the daemon on the portal's `Closed`, read by every gated command, removed by start and end | order against the reply, the socket and the pidfile | a stop is seen as a stop by everybody who has to, and never stands against a new session |
| Request serving (`daemon.rs`, `error_kind.rs`) | the listen backlog, one request at a time, the deadline of each input request | accept, refuse stale input, watch for hang-up, cancel on `Closed` or SIGTERM, reply, map to an exit code | a caller that timed out or died while its request is queued | no input is injected for nobody; every failure keeps its exit code |
| Prepare/restore (`executor.rs`, `exclude_state.rs`, `kwin.rs`) | `exclude-state.json`, KWin's `excludeFromCapture` flags and stacking order | restore, list, choose, record, hide, show, clear, raise | a crash between two steps; a call that fails after its effect; windows that come and go; another process's restore | a hidden window is always on record; nobody else's windows are shown |
| Portal session opening (`portal.rs`, `token_store.rs`) | the restore token, a fallback without persistence | start, retry without persistence, save the token | a token the portal refuses or replaces | the dialog is skipped when it can be and shown when it must |
| Portal input (`portal.rs`) | which button the daemon holds down | click, drag, hold, type, key sequences | a gesture cut short by a stop, a SIGTERM or a failure | no button or key stays pressed |
| Capture (`capture.rs`, `settle.rs`, `portal.rs`) | `latest_frames`, `active_streams`, the frame channel | choose a stream, create it, wait for a first frame or for the screen to settle, crop, scale | one channel for all streams; an animation that never settles; a stream without frames; frame layouts that disagree with the stream | a frame is of the screen asked for, and comes in bounded time |
| Teach controller (`teach_overlay.rs`) | the step shown, who waits for it, who waits for events, the runner thread | show-step, set-working, hide, set-display, wait-event; start and stop of runner threads; Next and Exit | threads around one mutex; a window that hangs, fails or is left behind; two controllers at once | a waiting call is answered; one overlay, on its display; the service is never blocked for good |
| Session overlay (`session_overlay.rs`) | a child process that draws a border, the output the daemon believes it on | spawn, replace for another output, kill | a replacement that does not start; a child that ends by itself | there as long as the session is served, on the display that is shared |
| MCP server (`mcp.rs`) | none that matters | dispatch to the commands; start a session when there is none | start next to an application's start and stop | never shares again after the user's stop |
| KWin scripting (`kwin.rs`) | scripts loaded in the compositor, a receiver per call | load, run, poll, stop; activate a window and look whether it is active | calls that time out and are carried out all the same; answers that come too late; a script that says nothing; an activation that takes effect later | an answer is that of the script it was asked of; no script stays; every call returns |
| Desktop applications (`desktop_apps.rs`, `model.rs`) | an index of names, built once per process | list, look a name up, find the application of a window | names that several desktop files claim, files that are hidden or repeated, a dialog's names and its parent's | an allow list admits the windows of the applications it names |
| AT-SPI (`ax.rs`), doctor (`doctor.rs`), command line and helpers (`cli.rs`, `json.rs`, `util.rs`) | none | queries, parsing, printing | none | data only |

### 1.2 How they interact

Commands and the daemon share the runtime directory's three files and the
connections made to the socket.  A command looks for the daemon through the
socket (does somebody listen, does it answer?) and through the pidfile (is the
process alive?), sends one request per connection and waits with a limit of its
own.  The daemon serves one request at a time and watches two other things
meanwhile: SIGTERM and the portal's `Closed`.  The application that runs a
`prepare-for-action` shares KWin's window flags and the exclude state with the
teardown of the daemon, which restores windows too.  The teach controller shares
nothing with the daemon but its socket, over which the daemon tells it the
display; its clients' threads share one mutex, its runner threads a second one.

## 2. The modules

| Module | Models | Composes |
|---|---|---|
| `SessionLifecycle` | the session lifecycle and the marker, with a minimal view of request serving, `mcp`'s `ensure_portal_session` and the opening of a portal session | - |
| `ScreenSharing` | what the session lifecycle promises, in terms of three sets and a flag | - |
| `SessionLifecycle_proofs` | theorems about it, the refinement included | extends `SessionLifecycle`, which refines `ScreenSharing` |
| `HideTransaction` | what prepare/restore promises, in terms of two sets | - |
| `PrepareTransaction` | prepare/restore as the code does it | refines `HideTransaction` |
| `WindowOrder` | which windows a prepare hides and raises, on a desktop with a stacking order | extends `PrepareTransaction` |
| `PrepareTransaction_proofs` | theorems about both, the refinements included | extends `WindowOrder` |
| `TeachOverlay` | the teach controller | - |
| `TeachOverlay_proofs` | theorems about it | extends `TeachOverlay` |
| `PortalInput` | input through the portal: what the session holds, what the compositor has pressed | - |
| `RequestServing` | the daemon's serve loop and its callers | composes `PortalInput` |
| `RequestServing_proofs` | theorems about both | extends `RequestServing` |
| `ReapTiming` | the durations of `session-end` and of the teardown | - |
| `RequestBudget` | the time a client gives a request, and the deadline it sends | - |
| `Durations_proofs` | theorems about both | extends `ReapTiming`, `RequestBudget` |
| `FrameCapture` | captures from the daemon's PipeWire streams | - |
| `ScreenGeometry` | which stream is a screen's, which part of a frame a region is, how large the answer is | - |
| `FrameCapture_proofs` | theorems about both | extends `FrameCapture`, `ScreenGeometry` |
| `SharedSession` | the restore token, the consent dialog and the indicators of a shared screen | - |
| `SharedSession_proofs` | theorems about it | extends `SharedSession` |
| `KWinScript` | how a command has KWin run a script, and `activate_window` | - |
| `Applications` | the index of desktop files and the application a window is taken for | - |
| `Desktop_proofs` | theorems about both | extends `KWinScript`, `Applications` |
| `MC...` | model values and symmetry of the runs | extend the modules they are named after |
| `MCCapture`, `MCDurations`, `MCDesktop` | one run each for two modules that share no state | extend `FrameCapture` and `ScreenGeometry`, `ReapTiming` and `RequestBudget`, `KWinScript` and `Applications` |

`PROJECT.json` maps every definition that stands for code to its lines.
Operators whose comment says *Slip* are plausible bugs; no specification uses
them.  Each is put in the place of the definition below it to see that the
property named with it in `PROJECT.json` (`mutants`) notices.

`MCCapture`, `MCDurations` and `MCDesktop` put two small state machines of one
subject area side by side.  Their variable `subject` is chosen at the start and
says which of the two moves; the other one stays in its initial state, so a
behaviour of the run is a behaviour of one of them.

### 2.1 SessionLifecycle

*State.* `sockFile` and `pidFile` hold the daemon the file names; a socket file
of a dead daemon stays there and nobody listens on it.  `marker` is the marker
file.  Of a daemon: `dpc` (where it is in `open_session_daemon` or
`serve_open_session`), `own` (`socket_identity`), `portal` (its portal session:
`asking` while the dialog is open, `closed` once the user has stopped it),
`sigterm`, `queue` (the listen backlog, a set: requests are accepted in any
order), `dreq` (the request being served).  Of a caller: `cpc`, `cmd`, `target`
(the process it spawned or found through the pidfile) and `reply`.  Two history
variables, `stopped` and `asked`, say whether the user's stop still stands and
which commands began under it; no action reads them except to keep them.

*Actions.* A daemon: `DropOldSocket`, `Bind`/`BindFails`, `WritePid`, the user's
`ConsentGiven`/`ConsentRefused`, `OverlaysUp`/`OverlaysFail`, `Identify`, then
`Accept`, `Handled`, `HandledShutdown`, `SeeTerm`, `SeeClosed`; after a stop
`RecordStop`, `DropSocket`, `DropPid`, `ReplyStopped`; then `ShutPortal`,
`Unlink`, `Exit`.  `Crash` may come anywhere, `UserStop` whenever a session is
open.  A caller's actions follow `start_session_daemon` (`Start...`),
`stop_session_daemon` and `reap_daemon` (`End...`), and `request` with the gate
(`Request...`).  `mcp`'s `ensure_portal_session` is the command `auto`, which
becomes `autostart` when there is no session and `autocheck` at the end.

*What is abstracted.* Time: a limit is an action that may be taken whenever the
wait it bounds is going on, so every race between an answer and a limit is
there.  Two limits are tied to the state, because the code's own numbers do so:
`READY_TIMEOUT` (120 s) does not expire before the spawned daemon has written
its pidfile, and `CLOSED_GRACE` covers the delay of the portal's `Closed` after
a failed call.  Requests that nobody waits for any more and that change nothing
modelled (`info`, `work`) are dropped when their sender goes; `shutdown` stays.
The gate of `main` and the one in `request` are one step.  Checking whose a file
is and removing it is one step.

*Abstract specification.* `ScreenSharing` is what a user can rely on: one dialog
or session at a time, each session asked for anew, none that comes back, and
after a stop that is on record no dialog until somebody starts on purpose.
`SessionLifecycle` refines it (`SharingPromise`) with `asking` and `sharing` the
daemons whose portal session is in that state, `over` those that have been
through it, and `refused` the marker.

*What is left out.* A marker that cannot be written; a `Closed` subscription
that fails; a pidfile that is read between its truncation and its writing; a
caller that is killed (the daemon it spawned is then one nobody knows of until
its pidfile is there); reuse of process ids and inodes; the session of its own
that `mcp`'s screenshot tool opens; the teach controller the daemon spawns.

### 2.2 PrepareTransaction and WindowOrder

*State.* `unborn`, `open`: KWin's windows; `excluded`: their flags; `file` and
`listed`: `exclude-state.json` (`torn` is what a crash inside `fs::write`
leaves); per process `pc`, `op` and `todo`.  `hidden` and `foreign` are history:
the windows a prepare hid and nobody has shown since, and those somebody else
had excluded from the start (their flags do not change otherwise).

*Actions.* `restore_prepare_state` is `Load`/`LoadFails`, `List`, `Show`,
`Clear`; `prepare_for_action` restores, then `Scan`, `SaveBegins`, `SaveEnds`,
`Hide`, or `Drop` when there is nothing to hide, and `Raise`.  `ListWindows`
keeps the bridge's own overlays excluded, as the script behind `list_windows`
does.  Which windows are candidates is left open here: any set.
`Show` and `Hide` may fail after their effect, because a window had gone or
because the script answered too late; `Abort` is a failure without effect and a
kill, at any point.  A closed window's id is not reused.

*Abstract specification.* `HideTransaction` knows two sets, `hidden` and
`recorded`: a new record replaces an old one only when nothing is hidden, only
recorded windows get hidden, and windows can be shown at any time.
`PrepareTransaction` refines it with `recorded <- listed`.

*WindowOrder* adds to each of these steps what it does to the desktop:
`stack` is the stacking order (without the overlays, which every query leaves
out), `minimized` what it says, `scope` the windows of the display asked for and
`plan` the windows a prepare has decided to raise.  `ScanOnScreen` chooses the
candidates and the plan by the roles of the windows, which are constants: apps on
the allow list, the host, docks and desktops, surfaces KWin does not focus,
windows on another display.  `RaiseOnScreen` is one `activate_window`, which may
be refused.  The user opens, closes, raises and minimizes windows.  `calm` is
history: a prepare has come so far with nothing in between and nothing refused,
which is when `ClickMeetsShot` holds it to its purpose.  Left out: windows that
KWin keeps above others whatever is raised, and the geometry by which
`window_matches_screen` decides.

### 2.3 TeachOverlay

*State.* `mutex` is the service's mutex, held by a client's thread from `Lock`
until its request is done or has begun to wait; `mode`, `payload`, `display`,
`pending` and `waiters` are the fields of `TeachOverlayState`; `runner` is the
service's runner; `thread`, `on`, `quit` and `seen` are the runner threads: how
far each is, on which display, its shutdown flag and the mode of the snapshot it
draws; `leaving` is the thread `stop` waits for.  `lost` is history: the service's
runner has ended by itself since the service last started one or made sure of it.
Per client: `pc`, `call`, `where` (the display asked for) and `answer`.

*Actions.* `Request` sends any request; `Lock` takes the service; `SetDisplay`,
`Halt`/`NoHalt`, `Join`/`Detach`, `Restart` are the stages of `set_display`, also
inside a `show-step`; `Step` and `Ensure` are `show_step` and `ensure_runner`;
`SetWorking`, `Hide`, `WaitEvent` the other requests; `Respond` the end of each.
A runner thread does `Map`, `Tick` or `Fail`; the user does `NextPressed` and
`ExitPressed`, as long as the snapshot shows buttons, whatever the state has
become meanwhile.

*What is abstracted.* The step's text and anchors; a request that names no
display follows `display_for_anchor` to none.  A client that hangs up: its
thread on the server goes on, which is what the model's client is.  Calls to
KWin that the service makes while it is held only take time.  A thread that is
done may be started again: it then stands for a new one.  A thread in `Stuck`
never gets its window and never ends, which is what `stop`'s five seconds are
for.

### 2.4 PortalInput and RequestServing

*State.* Of the input: `held` is `held_buttons`, `down` what the compositor has
pressed, `gesture` and `todo` the gesture under way and the portal calls it has
left, `failed` whether it will answer with an error.  `broken` is history: of
which kinds, `button` and `key`, something may have been left pressed for good,
because a release failed, a key could not be pressed after others were, or a
gesture was cut short with calls of that kind still to make.  Of a caller:
`cpc` (has it written its whole request, and is it still there?), `kind` and
`late`, its deadline.  Of the daemon: `backlog` (served in order), `dpc`,
`serving` and `response`; `closed` is the portal's `Closed`.  `cause` is the
history behind `StopIsReported`, `made` the one behind `AnswerIsTrue`: how many
calls have been made of the present request.

*Actions.* A gesture is a sequence of calls, each of a *part*: a call of the
first or the last part that fails ends the gesture (`?`), one of the body skips
to the last part (`click_result`, `drag_result`), which releases what the first
one pressed.  A click has two modifiers: `press_keycodes` runs before the guarded
part, so the second one can fail and leave the first (section 5).  `Call` and `CallFails` are one call, `Abandon` is the future
dropped by `select!`, with or without its call having been made, `ReleaseHeld`
is what `shutdown` does.  Callers `Ask`, are `Written`, `Expire` and `Go`, while
their request waits: what becomes of them later changes nothing for the daemon.
The daemon does `Accept`, `Unread` (garbage, or `IPC_IO_TIMEOUT`), `Refuse` or
`Begin`, `Work`, one of `GestureDone`, `QueryDone`, `ShutdownDone` and
`NotShared`, `Grace`, `Answer`; `SeeClosed` and `SeeTerm` where it selects; then
`Teardown` and `Exit`, and `Restart` is the next daemon.

*What is abstracted.* Time, as above.  A SIGTERM is seen where the daemon looks
for one and waits elsewhere, so that it needs no state here; `ReapTiming` has its
wait.  A daemon with no `Closed` subscription is one whose `closed` never comes:
its calls fail all the same.  Pointer motion, scrolling and the clipboard press
nothing; `query` stands for every request that injects no input and for the
captures.  Typing is a chord of one key.  The restore and the files of the
teardown are in `SessionLifecycle` and `PrepareTransaction`.

### 2.5 ReapTiming

*State.* One daemon (`dpc`, and `dleft`, the time it has left for what it does),
one `session-end` (`epc`, `eleft`), `sigterm`, `shutdown` and a `clock` that runs
from the beginning of `session-end`.  `deaf` is history: the daemon was not
listening while a SIGTERM waited.

*Actions.* `Tick` lets a tenth of a second pass for both; it cannot pass over a
limit.  The daemon reads, works, waits in `CLOSED_GRACE` and writes for other
clients as long as it likes within its limits, tears down in `TEARDOWN_LIMIT` at
most, or is wedged.  `session-end` asks, waits for the answer, for the exit and,
after SIGTERM, for the exit again, then kills.  Its last second, after the kill,
is left out.

### 2.6 FrameCapture

*State.* Of the PipeWire thread: `emitted`, the newest frame of each stream (they
are counted), `running`, the commands it was `asked` to carry out and its
`reply`.  Of the daemon: `chan`, the frame channel; `latest` and `active`, the
fields of `LivePortalSession`; `pc` and `target`, what it captures; `fresh`, the
frame `settle` has in its hands; `asleep`, `elapsed` and `since`, its clocks; and
`got`, the frame it answers with.  `floor` is history: the newest frame when the
capture was asked for.

*Actions.* `Emit` and `Create` are the PipeWire thread's, at any moment.
`DrainTick` is the tick between two requests.  `Begin` is the first part of
`capture_screen_frame`, which goes on with `Created` or `NotCreated` if the
stream does not run yet; `Watch`, in both, drains the channel and turns to
`settle` (`Arrives`, `Settled`) or to the first frame (`First`, `FirstPolled`);
`Other` is the frame of another stream.  `Refuse` is a capture that fails
before it waits, `Done` the end of each.  `Wake` lets time pass, and nothing else
does: what the daemon does between two sleeps takes no time.

*What is abstracted.* Time is counted in `PIPEWIRE_POLL`s; a sleep takes up to
`Lag` longer than asked for.  A settle looks at the channel for the last time and
decides in one step.  The channel is taken to be unbounded: the code around it
knows of no loss.  Two commands for one stream, of a capture that gave up and of
the next one, count as one.  A stream is not removed while the session is open.
A capture that the user's stop or SIGTERM cuts short ends the session with it,
and is not modelled.

*What is left out.* The one-shot capture without a daemon
(`recv_frame_for_stream`) and the conversion of pixels.

### 2.7 SharedSession

*State.* `saved` is `restore-token.json`, `valid` the tokens the portal would
accept (external).  Of the daemon: `pc`, from `start_session` to the teardown;
`first`, whether this is the first of its two tries; `persist`, `offer` and
`token`, what `try_start_session` asks for, offers and gets; `portal`, its portal
session; `border` and `output`, where the session overlay is and where
`SessionOverlayProcess` believes it, with `spare` the replacement that
`set_output` has spawned; `teach`, the teach controller.  `forgotten` and
`remembered` are history: what the user has been told or has agreed to;
`died` says that the overlay ended by itself.

*Actions.* `Open` takes the token (or cannot read it), `Create` makes the
session, then the portal restores (`Restored`) or asks (`Asks`, `Consent`);
`Started` and `Save` finish.  `TryFails` is any error at any of these steps, and
closes the half-built session; after the first try it may be taken for a refusal
of persistence (`Retry`).  `BorderUp` and `TeachUp`, or `IndicatorFails`; then
`Replace` and `Switch` for `set_output`, `Ends`, `TeachDown`, `BorderDown`,
`PortalDown` in the order of the teardown; `Killed` at any moment, upon which the
children get the SIGTERM they asked for (`PR_SET_PDEATHSIG`).  `Forget` and
`Forgotten` are `forget_session`.

*What is abstracted.* One application, which starts and forgets sessions in turn:
other processes are `SessionLifecycle`'s subject.  The portal takes a token once,
and issues a new one when persistence was asked for and granted (external).  A
version 1 portal, which has no persistence, may turn up at any start.

### 2.8 KWinScript

*State.* Of a caller: `pc`, the D-Bus call it is in, or `poll`; `errand`, a query
or an activation; `looks`, how many lists an activation has asked for; `serial`
and `polls`; `heard`, what its present script has sent; `reply`, what the call has
returned; `answer`, how the errand ended.  Of KWin (external): `calls`, those it
has not got to; `loaded`; `raising` and `active`, the window asked for.  `sent`
is what scripts have sent and nobody has heard.  `ran`, `left` and `met` are
history.

*Actions.* `Ask`, `Loaded`, `Ran`, then `Hear`, `PollAgain` or `PollLast`, and at
the end of the script `Succeed`, `Look` (the next list of an activation) or
`Fail`: together they are `run_script`, and `activate_window` around it.  `Refused`
is a script KWin does not load, `TimeOut` a call that takes longer than
`DBUS_TIMEOUT` or fails, after which KWin still carries it out; `Killed` the end
of the process at any point.  KWin `Loads`, `Runs` and `Stops` in order; a script
sends its result, an error or nothing; `Raised` is the activation that takes
effect or is refused, `UserActivates` the user's own.

*What is abstracted.* A result is whether the window is active; the scripts
themselves are the subject of `PrepareTransaction` and `WindowOrder`.  There is
one window activations are about.  KWin takes the calls of a bus in order: in
`PrepareTransaction`, where a script's effect may come after its failure, that is
what keeps it before the effect of the next one.

### 2.9 Applications

*State.* `entries` and `aliases` are the fields of `AliasIndex`; `walked` counts
the files.  A desktop file is a record of what `build_alias_index` looks at, a
name what `normalize_alias_key` makes of it.  A window is a sequence of parts, its
own reports and those of the window it is transient for, and so on.

*Actions.* `List` and `Skip` are one turn of the loop in `build_alias_index`, over
any desktop file; `Rebuild` is another process, with other files.  `BundlesOf` and
`Allowed` are what `bundle_id` and `is_window_allowed` make of a window.

### 2.10 RequestBudget

*State.* One request: `pc`, `request`, `sent` and `deadline` (two `MonoTime`s),
`passed` (the time since), `left` (what its gesture has left to repeat) and
`lost`, the history of time that no design accounts for.

*Actions.* `Send` computes the budget (`request_timeout`) and the deadline
(`MonoTime::after`); `Dawdle` is time that passes in the backlog or in a portal
call; `BeginInput` is the daemon's look at the deadline; `Repeat` is one
character, one chord or one hold, which takes any time from what its delay makes
it take to what `TYPE_PER_CHAR_ALLOWANCE_MS` allows; `Answer`, or `GiveUp` at the
client's limit.

*What is abstracted.* A millisecond is the unit of all times, and `MaxMs` stands
for the greatest u64; 64-bit seconds do not overflow.

### 2.11 ScreenGeometry

*State.* `result`: what was computed last, and from what.

*Actions.* `Aim` is `match_stream_to_screen` for any screen and any streams;
`Zoom` is `crop_logical_region` along one axis with the size `compute_target_dims`
gives the answer, for any region of any screen and any frame.

*What is abstracted.* Products of floating-point numbers are taken to be exact,
but a tie may be rounded to either side.  `Root` is the rounded square root as the
numbers near it, with no root taken.

## 3. The runs

| Run | Instance | What it shows |
|---|---|---|
| `session_quit` | one starter (start, foreground, mcp), one ender, two daemons | whatever interleaves, and whatever crashes: `ScreenSharing` is implemented, so one dialog or session at a time and none after a stop; `session-end` leaves nothing behind |
| `session_sequential` | one application that starts and ends in turn, a requester, two daemons | the marker's visibility; a serving daemon is reachable; a `Shutdown` that was given up on ends nothing but what is being ended; no daemon takes another one's socket |
| `session_live` | one starter, one ender, one daemon | every command comes back; a stop ends the daemon |
| `session_two_starts` | two starters | *violation:* two dialogs |
| `prepare_alone` | one process; a window and a surface of an allowed app, two other windows, one of them on another display, and an overlay | overlays and other programs' windows stay excluded, through failures and kills; `HideTransaction` is implemented, so what is hidden is on record; a click meets what the screenshot shows |
| `prepare_teardown` | a process and a daemon's teardown | *violation:* the teardown's restore strands a window |
| `teach` | two clients, two runner threads (one stuck), two displays | waiting calls are held, and only those; one overlay, where it belongs; what is shown has a thread that runs, unless that ended by itself; the service is always given up again |
| `serving` | two callers | the answer to a gesture is what was made of it, and nothing is made of stale input; a stop is reported as one; a held button stays pressed, and no other button or key does but in the ways `NothingStuck` names; a late `left_mouse_up` is carried out |
| `capture` | two streams, three frames each; or every screen, region and pair of streams with sides up to 7 at scales 1, 1.5 and 2 | a capture returns the newest frame of its stream, none from before it was asked for, in bounded time, and no other stream loses its newest frame; the pointer is not skewed and a zoom shows its region |
| `shared` | four tokens, two displays | the dialog comes after `forget-session`, and is spared a user who agreed to be remembered; the border is on the display the daemon believes |
| `durations` | the code's durations, in tenths of a second; or a request with a small base and a small greatest number | a daemon that answers is never killed; only a daemon that does not listen is killed in its teardown; no request is given up for the time it takes by design; the deadline in the envelope is the client's |
| `desktop` | one caller with two scripts, two polls and two looks; or any two desktop files of three names and every window of up to two parts | a call returns its own script's answer and comes back, an activation has seen its window active, no script stays; an allow list is exact, and what the index knows can be opened |

*Bounds.* Two daemons are enough for every interaction the properties are about
(one daemon and the one that follows it); after two have been used up a start
can only fail to spawn, as it may anyway.  Each caller may run any number of
commands.  `session_live` has one daemon, because its two properties are about a
daemon and the commands around it, not about the next one.  Two windows
that are not allowed, and an overlay, let a record differ from the windows
hidden, and let one close while the other stays; one window of an allowed app and
one surface that cannot be raised are enough for every order of the two kinds.
Docks and the host's windows are constants with no member there: the code drops
them from the list as it drops the overlays.
Two clients of the teach controller let a step be
superseded, and let one wait for events while the other shows a step; two
threads let a detached, stuck runner and the current one exist together.  Two
callers let one stall or be served while the other's request goes stale behind
it, any number of times.  `durations` needs no bound for `session-end`: the waits end by themselves.
`Lag`, the time the daemon takes to notice what it listens for, is a tenth of a
second there: the code leaves 0.2 s between `TEARDOWN_LIMIT` and `TERM_GRACE`.
`capture` has two streams, so that one interferes with the other, and three frames
of each: one stored, one queued, one that comes during the settle.  Its times
keep the order of the code's (`Quiet` 2 below `Deadline` 3, `Limit` 2, `Lag` 1).
Its screens have sides up to 5 and its frames up to 7 pixels, with limits of 6 and
20 in the place of `MAX_LONG_EDGE` and `MAX_PIXELS`, so that each of them is the
tighter one somewhere and every rounding goes either way.
That a stream sends three frames at most means for `CaptureEnds` that the daemon
gets to the end of the channel, which 60 frames a second cannot prevent.
`shared` has four tokens: one saved, one offered, one got and one left to issue.
A request of `durations` has a greatest number of 31, which a delay of 16 and a
text of 2 reach, and seconds of 4 milliseconds, so that a deadline carries.
In `desktop` two scripts let the answer of the first come while the second is
waited for, and let an activation look once; callers share nothing but the order
in which KWin takes their calls, which one caller that gives up and asks again
meets too.  Two desktop files let one claim the other's name, repeat it or be
hidden, and three names leave one that neither has.
The theorems of section 4 have none of these bounds.

*Deadlock.* It is checked in every run but `teach`, where it
is switched off, because the program can come to rest for good with everybody
waiting: all clients wait for a step or an event, and the runner has died since,
or nothing is shown and nobody is left to send a request.  The type invariants
are not among the runs' properties: they are proved (`TypeCorrect`,
`BudgetTypeCorrect`, `IndexTypeCorrect`), and what a wrong type would lead to is
an error of the run.

*Fairness.* `SessionLifecycle`: a daemon that can take a step does, and so does a
caller whose limit may expire (`StartDeadline` has a fairness of its own, since
its caller may be busy reconnecting); the daemon's `select!` polls its branches
in random order, hence `SeeTerm` and `SeeClosed` cannot be passed over for ever.
`Unlink` has one because a portal that keeps being shut down must not delay it,
which is what the watchdog does.  Nothing is assumed of the user or of crashes.
`TeachOverlay`: a client's thread and a runner thread run (`Tick` of a thread
whose window is up; `Map` unless it fails or is stuck).  The mutex gives no
order, nobody has to press a button, and nobody has to send a request.
`RequestServing`: the daemon takes a step when it can; its portal calls return
and its limits expire.  Nothing is assumed of callers, signals or the user, and a
caller that stalls is only got rid of by the limit.  `FrameCapture`: the daemon
runs and its sleeps end; nothing is assumed of the PipeWire thread.  `KWinScript`:
a caller runs, its D-Bus calls come back within `DBUS_TIMEOUT` (with a reply or
without one) and its polls within `SCRIPT_OUTPUT_POLL_INTERVAL`; nothing is
assumed of KWin.

## 4. The theorems

All of them are for any number of processes, windows, threads and displays.
The inductive invariants they rest on (`Inductive`, `Tracking` and their parts) are
proved, so the runs check what follows from them and not the invariants again.

**`SessionLifecycle_proofs`.** `TypeCorrect` and, from it, three invariants.
`Inductive` needs `OneStarter`, that no two processes are starting sessions at the
same time.  It says nothing of who they are: the theorems are about `Spec /\
[]OneStarter`, the behaviours in which starts come one after the other, and any
number of processes may take turns.  With a single starter it holds by itself; the
run `session_two_starts` shows that it cannot be dropped.
The argument: between its spawn and its pidfile a daemon is known to the process
that spawned it, which meanwhile starts no other; from then until its portal
session is gone the pidfile names it, and `live_daemon` finds it; hence nobody
gets past the probe while a daemon asks for, or holds, a session.  `OneSession`,
`MarkerIsCleared` and `OwnSocket` follow at once, `KeepsOthersSocket` by looking
at the steps that remove the path, and the refinement `SharingPromise` action by
action: a daemon asks only when no other holds anything, and the marker is gone
by then because the start it belongs to removed it after its probe.
`EndInductive` needs no assumption: a process that was reaped does not come back,
so the files that name it go once; `EndLeavesNothing` follows.
Three more theorems are about `Spec /\ []Sequential`: no two processes are
starting or ending sessions at the same time.  The one that does, if any, then
knows the daemon there is, whatever it is in the middle of (`HolderIsKnown`), so
that nobody but its
daemon takes a listening daemon's path away (`ListeningIsReachable`), a stop that
is not on record yet is that of the daemon everybody reaches (`StopStands`), and a
`Shutdown` in the backlog belongs to a `session-end` that is not done
(`ShutdownIsFollowedUp`).  `ServingIsReachable`, `StopIsVisible` and
`NoGhostShutdown` follow.  Other processes may send requests all the time.

**`PrepareTransaction_proofs`.** For any processes, `OursOnly`: no record and no
pending change names an overlay or a window somebody else excluded.  The others
are about `Spec /\ []Alone`: prepares and restores, the daemon's teardown among
them, come one after the other, however many processes run them.  Then `Tracking`:
what is hidden is what the restore is about to show, and nothing is hidden after
it.  `HiddenIsTracked`, `PreviousIsUndone` and the refinement `PromiseKept`
follow, so that what `prepare_teardown` refutes takes two that overlap.  They are
about any choice of candidates; `ImplementsPrepare` shows that a step on the
ordered desktop is one of these steps, whatever it chooses and raises, and
`OnScreenKeepsPromise` that they hold there.
`ClickMeetsShot` needs no assumption but that there are finitely many windows: a
prepare somebody interferes with is not `calm`.  The invariant is `OnCourse`.  A
window that should be hidden is, or is still to be; and wherever a window that may
not lie above an app that can be raised does, that app is still to be raised, in
the order of the stack.  Raising the first of them puts it above everything, and
above none that is still to come.  Whatever else closes or is minimized only takes
away from this.  The stack is filtered and rearranged by `Only`, a recursive
function; what it keeps, and in which order, is proved by well-founded induction on
the length of the prefix, with the set of counterexamples in the place of a
predicate.

**`TeachOverlay_proofs`.** With no assumption but that `None` is nobody.
`CallsFit`: at most one client's thread is inside the service, each stage fits
its call, and whoever waits is the pending step or an event waiter, and the other
way round.  `RunnersFit`: every runner but the service's own has been told to go,
and the service's own is on the overlay's display, except while its replacement
is under way.  `NobodyForgotten` and `NobodyMisled` (together
`HeldUntilAnswered`), `NoGhost` and `RunnerFits` follow.  `ShownHasWindow` needs
one part more, `LostFits`: an overlay that shows something has a running thread,
unless that is lost, is being replaced, or the step has not seen to it yet.

**`RequestServing_proofs`.** With no assumption but that `None` is nobody:
`HeldIsDown`, `AnswerIsTrue`, `StopIsReported` and `NothingStuck`.  A gesture
runs only inside a request, and while the session holds a button, what is left
of the gesture contains no release of it and no part that a failure would skip
to (`HeldIsSafe`); a caller that is served stays as it was found when its request
was begun.  For `AnswerIsTrue` the calls are counted: those made and those left make up
the gesture until one fails (`ProgressFits`), and an answer stands for the count
it was given at (`AnswerFits`).  For `NothingStuck` a `Ledger` says, of every
gesture and of all it may have left to call, what it has pressed by then, in one
column for the button and one for the keys; every call turns one page, and one that
fails goes to the last part.  It needs `held` to be what `HeldIsSafe` leaves of it,
and each column holds until something of its kind is left (`broken`).

**`Durations_proofs`.** For all durations that satisfy `LimitsAssumption`, which
is the order the comments on the constants ask for: `TEARDOWN_LIMIT` below
`SHUTDOWN_GRACE`, and with the daemon's `Lag` below `TERM_GRACE`, and the waits
within the application's budget.  The invariant compares clocks: what a daemon in
its teardown, or one that listens and has a SIGTERM waiting, still needs is less
than what `session-end` still waits.  `AnsweredIsLeft`, `QuitInBudget` and
`CutIsDeaf` follow.  For all requests, delays and moments: what a gesture has left
to repeat, each time at its longest, and the time passed are together no more
than what was lost and what the gesture may take (`BudgetInductive`); a
repetition moves time from one side to the other.  So a client that gives up has
lost its `REQUEST_BASE_TIMEOUT` (`PatientByDesign`), and carrying keeps the order
of moments (`DeadlineAgrees`).

**`FrameCapture_proofs`.** For all streams, times and numbers of frames.  What
the daemon has kept of a stream (`Kept`: stored, or in the hands of `settle`) and
what of it is in the channel are one ascending sequence that ends in the newest
frame (`InOrder`, `NothingLost`); taking the head of the channel, draining it and
a new frame keep it so.  A watched stream has kept nothing older than `floor`,
and a settle only sleeps before its deadline.  `NothingLost`, `NotStale`,
`SettlesInTime` and `UsesTheLast` follow.  For all screens, scales and streams
`PointerUnskewed`: with both sides of a stream rounded from the same scale, the
error of the proportion is at most half of one per side (`Skew`), and what
`find` returns is one that fits if there is any (`ChosenFits`).  For all of them,
all regions and all frames, every zoom has a crop and a size (`ZoomIsAnswered`),
and on a frame of more than half the logical size `ZoomShowsRegion` holds of both.
Nothing in it is divided: each rounding is a bound on a product (`2 * Apart(...)`),
the square root of the area limit one on a square, and the bounds are multiplied
out for the side that decides.  It assumes `LongEdge <= Area`, which the constants
of the code satisfy by far (`capture.rs:16-17`).

**`Desktop_proofs`.** For any callers, polls and looks.  Every script, call and
message is of a number its caller has reached (`Numbered`); a result is of a
script that was carried out (`Told`); one that was sent in this errand and says
that the window is active was right (`Right`); a script is loaded once, while its
caller waits for it, and is gone when the caller is told so, unless it gave up
(`Cleared`).  `AnswerIsOwn`, `ActivatedWasActive` and `NothingStaysLoaded` follow.
`CallIsBounded` and `NeverStuck` are what `CallsReturn` rests on, but for the
fairness: `StepsLeft`, the looks and the polls that remain and the D-Bus calls
around them, goes down with every step of the caller and up with nobody's, and a
caller that is not idle always meets a guard of its own.
For any names, desktop files and windows: a name stands for the first entry that
has it (`FirstNamesIt`), whence `KnownCanBeOpened`, and for every window
`AllowListIsExact`.

**`SharedSession_proofs`.** For any tokens and displays.  After `forget-session`
there is no token in the file nor on offer until the user is asked
(`NothingToOffer`); a remembered user's good token is in the file, unless it is
spent and its successor is with the daemon (`TokenOnTheWay`); the border only
changes with `output` (`BorderFits`).  `ForgetMeansDialog`, `SilentNextTime` and
`IndicatorFits` follow.

*Only model-checked:* the liveness properties (`StopEndsDaemon`, `CommandsEnd`,
`ServiceIsFreed`, `LateUpIsServed`, `CaptureEnds`, `CallsReturn`), which are out of
the provers' reach.  Every invariant and every action property of a run that
passes is proved.

## 5. Disagreements with the code's own words

Two are runs that TLC finds violated, with the quotation, in `PROJECT.json` under
`findings`: two starts stack two dialogs; the teardown's restore and a prepare
share one record.

The others have no run of their own.

`daemon.rs:59-61` says that `TERM_GRACE` is above `TEARDOWN_LIMIT`, "so a daemon
that handles SIGTERM finishes its own teardown (window restore, portal close)
before the group SIGKILL".  The daemon looks for SIGTERM in its two `select!`s
only: not while it reads a request (up to `IPC_IO_TIMEOUT`, 10 s), not in
`CLOSED_GRACE` (0.5 s), not while it writes a response.  `FinishesTeardown` in
`ReapTiming` says what the comment says, and is false; `CutIsDeaf`, which is
checked and proved, says that this is the only way for it to be.

A `left_mouse_up` whose portal call fails has forgotten the button already, and
says ok when it is called again, with the button down.  The model does so too
(`Start`).

A click with two modifiers whose second one cannot be pressed leaves the first one
pressed.  `press_keycodes` returns at the failure (`portal.rs:607-617`), and the `?`
at `portal.rs:443` leaves `click_screen_point` before the part that releases the
modifiers whatever happens (`portal.rs:446-465`).  Nobody remembers the key:
`held_buttons` is about buttons only, so `shutdown` does not release it either.  A
chord leaves its first key in the same way, and a release that fails leaves the keys
after it.  No comment or test promises otherwise, so there is no finding; the model
does so too (`Leaves`), `broken` records a `key`, and `NothingStuck` excepts the keys
from there on, but not the button.

With an ender that overlaps a starter, `ServingIsReachable` fails:
`stop_session_daemon` removes the socket file after the reaping without asking
whose it is (it does ask about the pidfile), and a `session-start` that found the
daemon gone may have bound a new socket there.  That is why the theorem about it
is about `[]Sequential`.

With two starters `OwnSocket` fails too: the socket's identity is read from the
path after the consent dialog, and may be another daemon's.

`AllowListIsExact` excepts an entry that shares a name with an earlier one, and has
to: the program of an `Exec` line is a name like any other.  A web application
whose file comes first, with `Exec=google-chrome ...` and
`StartupWMClass=crx_...`, takes the name `google-chrome`; the browser's windows
are then taken for the web application, and an allow list that names the browser
hides them.  `desktop_apps.rs:326-329` says that with `StartupWMClass` "windows
and installed-app entries agree on the same string".

`ZoomShowsRegion` is about frames of more than half the screen's logical size.  On
a smaller one, a region in the last column can round to a start beyond the frame;
the crop is then empty, although its size was clamped to at least one pixel.  The
answer keeps to `MAX_PIXELS` only but for rounding: a physical 1600 x 1200 picture
becomes 1238 x 929.

## 6. Plan

Done: the session lifecycle and the specification it implements, prepare/restore,
the teach controller, the serving of requests with portal input and the time they
are given, the timing of `session-end`, captures and their arithmetic, restore
tokens and indicators, the order of windows, scripts run by KWin, and the names of
applications.  What could follow:

1. The composition of the daemon's teardown with prepare and with the teach
   controller (spawn, kill, `set_output`) in one module.
2. Windows that are kept above others, and hit-testing (`app_under_point`) on
   `WindowOrder`'s stack.
3. The exit code a caller ends with, for every error and every marker.
4. The bounds behind the other liveness properties, as for `CallsReturn`: a start
   and a settle take no more steps than their limits allow.

*Not modelled*, and why:

* `ax.rs`: a walk over another program's tree of widgets, per command and without
  state; what it finds is what that program says.
* `doctor.rs`: a report that changes nothing.
* `cli.rs`, `json.rs`, `util.rs`, most of `model.rs`: declarations, serialisation
  and paths.
* The drawing of `session_overlay.rs` and `teach_overlay.rs`, the placement of the
  bubble, the conversion and encoding of pixels (`capture.rs`): no state outlives
  a frame, and no property here tells two pictures apart.
* The choice of a launcher (`desktop_apps.rs`), the commands behind `mcp.rs`'s
  tools and the scripts that set a window's geometry: one call after another to
  parts that are modelled, or to other programs.
