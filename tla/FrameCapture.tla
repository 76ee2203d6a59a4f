---------------------------- MODULE FrameCapture ----------------------------
(* Captures from the daemon's PipeWire streams (capture_screen_frame): the   *)
(* frames of all streams come over one channel, the newest of each is kept,  *)
(* and a capture waits for its screen to settle, or for a first frame.  Time *)
(* is in units of PIPEWIRE_POLL; a sleep may take up to Lag longer.          *)
EXTENDS Naturals, Sequences

CONSTANTS
    Streams,    \* the streams of the portal session, by node
    None,       \* no stream
    Quiet,      \* SETTLE_QUIET
    Deadline,   \* SETTLE_DEADLINE
    Limit,      \* CREATE_STREAM_TIMEOUT and FIRST_FRAME_TIMEOUT
    Lag,        \* how much longer than asked the daemon may sleep
    MaxFrames   \* bound: frames of one stream

ASSUME StreamsAssumption == None \notin Streams
ASSUME TimesAssumption == Quiet \in Nat /\ Deadline \in Nat /\ Limit \in Nat /\ Lag \in Nat
ASSUME FramesAssumption == MaxFrames \in Nat

VARIABLES
    emitted,    \* the newest frame of each stream, counted from 1
    running,    \* the streams the PipeWire thread runs
    asked,      \* CreateStream commands it has not carried out
    reply,      \* its answer to the command the daemon waits for
    chan,       \* the frame channel
    latest,     \* latest_frames; 0 is no frame
    active,     \* active_streams
    pc,         \* what the daemon does
    target,     \* the stream it captures
    fresh,      \* the last frame the settle has taken; 0 is none
    asleep,     \* the daemon sleeps between two polls
    elapsed,    \* since the wait began
    since,      \* since the last frame of the target
    got,        \* the frame that is answered; 0 is an error
    floor       \* history: the newest frame when the capture began

source  == <<emitted, running, asked, reply>>
store   == <<chan, latest, active>>
clock   == <<asleep, elapsed, since>>
vars    == <<source, store, clock, pc, target, fresh, got, floor>>

Frames  == [stream : Streams, n : Nat \ {0}]
Waiting == {"creating", "settling", "first"}

TypeOK ==
    /\ emitted \in [Streams -> Nat]
    /\ running \in SUBSET Streams /\ asked \in SUBSET Streams /\ active \in SUBSET Streams
    /\ reply \in {"none", "created", "rejected"}
    /\ chan \in Seq(Frames)
    /\ latest \in [Streams -> Nat]
    /\ pc \in {"idle", "answered"} \cup Waiting
    /\ target \in Streams \cup {None}
    /\ (target = None) = (pc = "idle")
    /\ asleep \in BOOLEAN
    /\ fresh \in Nat /\ elapsed \in Nat /\ since \in Nat /\ got \in Nat /\ floor \in Nat

Init ==
    /\ emitted = [s \in Streams |-> 0]
    /\ running = {} /\ asked = {} /\ reply = "none"
    /\ chan = <<>> /\ latest = [s \in Streams |-> 0] /\ active = {}
    /\ pc = "idle" /\ target = None
    /\ fresh = 0 /\ got = 0 /\ floor = 0
    /\ asleep = FALSE /\ elapsed = 0 /\ since = 0

-----------------------------------------------------------------------------
(* The PipeWire thread. *)

\* A frame, on damage or when the cursor moves.
Emit(s) ==
    /\ s \in running /\ emitted[s] < MaxFrames
    /\ emitted' = [emitted EXCEPT ![s] = @ + 1]
    /\ chan' = Append(chan, [stream |-> s, n |-> emitted[s] + 1])
    /\ UNCHANGED <<running, asked, reply, latest, active, clock, pc, target, fresh, got, floor>>

\* CreateStream, carried out or refused; who asked may have given up.
Create(s) ==
    /\ s \in asked
    /\ asked' = asked \ {s}
    /\ \E how \in {"created", "rejected"} :
          /\ running' = IF how = "created" THEN running \cup {s} ELSE running
          /\ reply' = IF pc = "creating" /\ target = s THEN how ELSE reply
    /\ UNCHANGED <<emitted, store, clock, pc, target, fresh, got, floor>>

-----------------------------------------------------------------------------
(* The daemon. *)

Queued(s) == {i \in DOMAIN chan : chan[i].stream = s}

LastQueued(s) == CHOOSE i \in Queued(s) : \A j \in Queued(s) : j <= i

\* drain_pending_frames
Drain ==
    /\ chan' = <<>>
    /\ latest' = [s \in Streams |->
                    IF Queued(s) = {} THEN latest[s] ELSE chan[LastQueued(s)].n]

\* capture_drain_tick, between requests.
DrainTick ==
    /\ pc = "idle" /\ chan # <<>>
    /\ Drain
    /\ UNCHANGED <<source, active, clock, pc, target, fresh, got, floor>>

StartClock == asleep' = FALSE /\ elapsed' = 0 /\ since' = 0

\* Slip: what waits in the channel is left there.
NoDrain(s) ==
    /\ UNCHANGED <<chan, latest>>
    /\ pc' = IF latest[s] # 0 THEN "settling" ELSE "first"
    /\ StartClock

\* The stream runs: the channel is drained, and a stored frame makes it a settle.
Watch(s) ==
    /\ Drain
    /\ pc' = IF latest'[s] # 0 THEN "settling" ELSE "first"
    /\ StartClock

\* send_create_stream
SendCreate(s) ==
    /\ asked' = asked \cup {s} /\ reply' = "none"
    /\ pc' = "creating" /\ StartClock

Begin(s) ==
    /\ pc = "idle"
    /\ target' = s /\ floor' = emitted[s]
    /\ \/ s \in active /\ Watch(s) /\ UNCHANGED <<asked, reply>>
       \/ s \notin active /\ SendCreate(s) /\ UNCHANGED <<chan, latest>>
    /\ UNCHANGED <<emitted, running, active, fresh, got>>

\* The screen is not shared, or there is no PipeWire connection.
Refuse ==
    /\ pc = "idle" /\ pc' = "answered" /\ got' = 0
    /\ target' \in Streams
    /\ UNCHANGED <<source, store, clock, fresh, floor>>

Fail ==
    /\ pc' = "answered" /\ got' = 0
    /\ UNCHANGED <<source, store, clock, target, fresh, floor>>

Sleep ==
    /\ asleep' = TRUE
    /\ UNCHANGED <<source, store, elapsed, since, pc, target, fresh, got, floor>>

\* Time passes while the daemon sleeps.
Wake ==
    /\ asleep /\ asleep' = FALSE
    /\ \E d \in 1 .. 1 + Lag : elapsed' = elapsed + d /\ since' = since + d
    /\ UNCHANGED <<source, store, pc, target, fresh, got, floor>>

\* finish_create_stream
Created ==
    /\ pc = "creating" /\ ~asleep /\ reply = "created"
    /\ active' = active \cup {target}
    /\ Watch(target)
    /\ UNCHANGED <<source, target, fresh, got, floor>>

\* Slip: the answer is waited for in a blocking call.
NotCreatedEver == pc = "creating" /\ ~asleep /\ reply = "rejected" /\ Fail

\* ensure_pipewire_stream_async
NotCreated ==
    /\ pc = "creating" /\ ~asleep
    /\ \/ reply = "rejected" /\ Fail
       \/ reply = "none" /\ elapsed >= Limit /\ Fail
       \/ reply = "none" /\ elapsed < Limit /\ Sleep

Polls == pc \in {"settling", "first"} /\ ~asleep

\* Slip: a frame of another stream is dropped.
OtherDropped ==
    /\ Polls /\ chan # <<>> /\ Head(chan).stream # target
    /\ chan' = Tail(chan)
    /\ UNCHANGED <<source, latest, active, clock, pc, target, fresh, got, floor>>

\* A frame of another stream is stored, and changes nothing else.
Other ==
    /\ Polls /\ chan # <<>> /\ Head(chan).stream # target
    /\ chan' = Tail(chan)
    /\ latest' = [latest EXCEPT ![Head(chan).stream] = Head(chan).n]
    /\ UNCHANGED <<source, active, clock, pc, target, fresh, got, floor>>

Taken(n) ==
    /\ pc' = "answered" /\ got' = n
    /\ latest' = [latest EXCEPT ![target] = n]
    /\ UNCHANGED <<source, active, clock, target, floor>>

\* recv_frame_for_stream_async takes the first frame there is.
First ==
    /\ pc = "first" /\ ~asleep /\ chan # <<>> /\ Head(chan).stream = target
    /\ chan' = Tail(chan)
    /\ Taken(Head(chan).n)
    /\ UNCHANGED fresh

FirstPolled ==
    /\ pc = "first" /\ ~asleep /\ chan = <<>>
    /\ IF elapsed >= Limit THEN Fail ELSE Sleep

\* settle: the last frame counts, and restarts the quiet clock.
Arrives ==
    /\ pc = "settling" /\ ~asleep /\ chan # <<>> /\ Head(chan).stream = target
    /\ chan' = Tail(chan)
    /\ fresh' = Head(chan).n /\ since' = 0
    /\ UNCHANGED <<source, latest, active, asleep, elapsed, pc, target, got, floor>>

\* Slip: the quiet gap alone decides.
IsQuiet == IF fresh = 0 THEN elapsed >= Deadline ELSE since >= Quiet

IsSettled == elapsed >= Deadline \/ (fresh # 0 /\ since >= Quiet)

\* Slip: the clock is looked at before the channel is empty.
SettledEarly ==
    /\ pc = "settling" /\ ~asleep /\ (chan = <<>> \/ fresh # 0)
    /\ \/ IsSettled /\ UNCHANGED chan /\ fresh' = 0
          /\ Taken(IF fresh # 0 THEN fresh ELSE latest[target])
       \/ ~IsSettled /\ Sleep

\* The channel is empty: the settle is over, or sleeps.
Settled ==
    /\ pc = "settling" /\ ~asleep /\ chan = <<>>
    /\ \/ IsSettled /\ UNCHANGED chan /\ fresh' = 0
          /\ Taken(IF fresh # 0 THEN fresh ELSE latest[target])
       \/ ~IsSettled /\ Sleep

\* Slip: the answered capture is not forgotten.
DoneInPart ==
    /\ pc = "answered"
    /\ pc' = "idle" /\ got' = 0 /\ floor' = 0
    /\ StartClock
    /\ UNCHANGED <<source, store, fresh, target>>

\* The daemon turns to its next request.
Done ==
    /\ pc = "answered"
    /\ pc' = "idle" /\ target' = None /\ got' = 0 /\ floor' = 0
    /\ StartClock
    /\ UNCHANGED <<source, store, fresh>>

-----------------------------------------------------------------------------
(* The specification. *)

Capture ==
    \/ Wake \/ Created \/ NotCreated \/ Other
    \/ First \/ FirstPolled \/ Arrives \/ Settled \/ Done

Next ==
    \/ \E s \in Streams : Emit(s) \/ Create(s) \/ Begin(s)
    \/ DrainTick \/ Refuse \/ Capture

Spec == Init /\ [][Next]_vars

\* The daemon runs, and its sleeps end; nothing is asked of the PipeWire thread.
FairSpec == Spec /\ WF_vars(Capture)

-----------------------------------------------------------------------------
(* Properties. *)

\* The newest frame of each stream that has been taken off the channel.
Kept == [s \in Streams |-> IF s = target /\ fresh # 0 THEN fresh ELSE latest[s]]

\* The channel is in order, and newer than what has been taken off it.
InOrder ==
    /\ \A i \in DOMAIN chan :
          Kept[chan[i].stream] < chan[i].n /\ chan[i].n <= emitted[chan[i].stream]
    /\ \A i, j \in DOMAIN chan :
          i < j /\ chan[i].stream = chan[j].stream => chan[i].n < chan[j].n

\* The newest frame of every stream is stored or still comes, whichever stream was
\* captured when it came: PipeWire sends none again until something is damaged.
NothingLost ==
    \A s \in Streams :
        \/ Kept[s] = emitted[s]
        \/ \E i \in DOMAIN chan : chan[i] = [stream |-> s, n |-> emitted[s]]

\* A screenshot taken right after an action does not return a frame from before it
\* (settle): none that was superseded when the capture was asked for.
NotStale == pc = "answered" /\ got # 0 => got >= floor

\* "A capture collects new frames [...] and uses the last one" (settle): what it
\* returns is the newest frame of its stream when it last looked at the channel,
\* whether that was stored by another capture or the tick, or came meanwhile.
UsesTheLast ==
    [][pc = "settling" /\ pc' = "answered" => got' = emitted[target]]_vars

\* A screen that never rests is captured at SETTLE_DEADLINE all the same, but for
\* one late wake-up, whatever the other streams send (settle).
SettlesInTime == pc = "settling" => elapsed <= Deadline + Lag

\* The inductive invariant behind the others: what the daemon has kept, and what
\* is in the channel, are one ascending sequence that ends in the newest frame.
Inductive ==
    /\ InOrder /\ NothingLost
    /\ pc # "settling" => fresh = 0
    /\ pc \in Waiting => floor <= emitted[target]
    /\ pc \in {"settling", "first"} => Kept[target] >= floor
    /\ NotStale
    /\ pc = "settling" /\ asleep => elapsed < Deadline
    /\ SettlesInTime
    /\ asleep => pc \in Waiting

\* "A PipeWire thread that never answers must not wedge the daemon"
\* (finish_create_stream), and neither must a stream without frames.
CaptureEnds == pc \in Waiting ~> pc = "answered"

=============================================================================
