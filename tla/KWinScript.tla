----------------------------- MODULE KWinScript -----------------------------
(* How a command has KWin do something (run_script): it loads a script over   *)
(* D-Bus, runs it, waits for what the script sends back to a connection made  *)
(* for it, and stops it.  Each of the three calls may time out while KWin     *)
(* still carries it out; the script may be silent, or answer when nobody      *)
(* listens any more.  activate_window runs one script, then looks at the list *)
(* of windows until the window asked for is the active one.                   *)
EXTENDS Naturals, Sequences

CONSTANTS
    Callers,    \* processes, or threads of mcp
    MaxPolls,   \* SCRIPT_OUTPUT_MAX_POLLS
    MaxLooks,   \* ACTIVATION_MAX_POLLS
    MaxScripts  \* bound: a caller asks for nothing more after so many scripts

ASSUME PollsAssumption == {MaxPolls, MaxLooks} \subseteq Nat \ {0}

VARIABLES
    pc,         \* the D-Bus call a caller is in, or "poll"
    errand,     \* what it was asked for
    looks,      \* 0 in the errand's own script, n in the nth list of windows
    serial,     \* the scripts it has made so far
    polls,      \* how often it has polled for this script
    heard,      \* what this script has sent it
    reply,      \* what the D-Bus call has returned
    answer,     \* how its last errand ended
    calls,      \* KWin: the calls it has not got to, in order
    loaded,     \* KWin: the scripts
    sent,       \* what scripts have sent and nobody has heard
    raising,    \* KWin is about to make the window asked for the active one
    active,     \* it is the active one
    ran,        \* history: the scripts that have sent a result
    left,       \* history: the scripts their caller gave up on
    met         \* history: the callers in whose errand the window was active

caller == <<pc, errand, looks, serial, polls, heard, reply, answer>>
kwin   == <<calls, loaded, sent, raising, active, ran>>
vars   == <<caller, kwin, left, met>>

Errands == {"query", "activate"}
Results == {"active", "other"}
Scripts == [by : Callers, nth : Nat, raises : BOOLEAN]

\* The script of a caller's present call: unique_suffix tells them apart, and
\* each has a connection of its own to send to.  It lists the windows, changes
\* some, or makes one the active window (raises).
Script(c) == [by |-> c, nth |-> serial[c], raises |-> errand[c] = "activate" /\ looks[c] = 0]

TypeOK ==
    /\ pc \in [Callers -> {"idle", "load", "run", "poll", "stop"}]
    /\ errand \in [Callers -> Errands]
    /\ looks \in [Callers -> 0 .. MaxLooks]
    /\ serial \in [Callers -> Nat]
    /\ polls \in [Callers -> 0 .. MaxPolls]
    /\ heard \in [Callers -> {"nothing", "error"} \cup Results]
    /\ reply \in [Callers -> {"none", "ok", "refused"}]
    /\ answer \in [Callers -> {"none", "ok", "failed"}]
    /\ calls \in Seq([op : {"load", "run", "stop"}, of : Scripts])
    /\ loaded \subseteq Scripts
    /\ sent \subseteq [from : Scripts, kind : {"error"} \cup Results]
    /\ raising \in BOOLEAN /\ active \in BOOLEAN
    /\ ran \subseteq Scripts /\ left \subseteq Scripts
    /\ met \subseteq Callers

Init ==
    /\ pc = [c \in Callers |-> "idle"]
    /\ errand = [c \in Callers |-> "query"]
    /\ looks = [c \in Callers |-> 0]
    /\ serial = [c \in Callers |-> 0]
    /\ polls = [c \in Callers |-> 0]
    /\ heard = [c \in Callers |-> "nothing"]
    /\ reply = [c \in Callers |-> "none"]
    /\ answer = [c \in Callers |-> "none"]
    /\ calls = <<>> /\ loaded = {} /\ sent = {}
    /\ raising = FALSE /\ active \in BOOLEAN
    /\ ran = {} /\ left = {} /\ met = {}

-----------------------------------------------------------------------------
(* The caller. *)

\* A blocking D-Bus call: KWin has it before the reply or the timeout comes.
Call(c, op, s) ==
    /\ pc' = [pc EXCEPT ![c] = op]
    /\ reply' = [reply EXCEPT ![c] = "none"]
    /\ calls' = Append(calls, [op |-> op, of |-> s])

\* run_script begins: a new name, a new receiver, nothing heard.
LoadNext(c, raises) ==
    /\ serial' = [serial EXCEPT ![c] = @ + 1]
    /\ polls' = [polls EXCEPT ![c] = 0]
    /\ heard' = [heard EXCEPT ![c] = "nothing"]
    /\ Call(c, "load", [by |-> c, nth |-> serial[c] + 1, raises |-> raises])

Return(c, a) ==
    /\ pc' = [pc EXCEPT ![c] = "idle"]
    /\ answer' = [answer EXCEPT ![c] = a]

Ask(c, e) ==
    /\ pc[c] = "idle"
    /\ serial[c] < MaxScripts
    /\ errand' = [errand EXCEPT ![c] = e]
    /\ looks' = [looks EXCEPT ![c] = 0]
    /\ answer' = [answer EXCEPT ![c] = "none"]
    /\ met' = IF active THEN met \cup {c} ELSE met \ {c}
    /\ LoadNext(c, e = "activate")
    /\ UNCHANGED <<loaded, sent, raising, active, ran, left>>

Loaded(c) ==
    /\ pc[c] = "load" /\ reply[c] = "ok"
    /\ Call(c, "run", Script(c))
    /\ UNCHANGED <<errand, looks, serial, polls, heard, answer, loaded, sent, raising, active, ran, left, met>>

Refused(c) ==
    /\ pc[c] = "load" /\ reply[c] = "refused"
    /\ Return(c, "failed")
    /\ UNCHANGED <<errand, looks, serial, polls, heard, reply, kwin, left, met>>

Ran(c) ==
    /\ pc[c] = "run" /\ reply[c] = "ok"
    /\ pc' = [pc EXCEPT ![c] = "poll"]
    /\ UNCHANGED <<errand, looks, serial, polls, heard, reply, answer, kwin, left, met>>

\* Slip: one well-known receiver for all of a caller's scripts.
MineOrOlder(c) == {m \in sent : m.from.by = c}

\* What has come in for the receiver of this call.
Mine(c) == {m \in sent : m.from = Script(c)}

\* process() dispatches a message, and a result or an error ends the polling.
Hear(c) ==
    /\ pc[c] = "poll"
    /\ \E m \in Mine(c) :
        /\ heard' = [heard EXCEPT ![c] = m.kind]
        /\ sent' = sent \ {m}
    /\ Call(c, "stop", Script(c))
    /\ UNCHANGED <<errand, looks, serial, polls, answer, loaded, raising, active, ran, left, met>>

\* Slip: until there is something.
PollForever(c) ==
    /\ pc[c] = "poll"
    /\ polls' = [polls EXCEPT ![c] = IF @ + 1 < MaxPolls THEN @ + 1 ELSE 0]
    /\ UNCHANGED <<pc, errand, looks, serial, heard, reply, answer, kwin, left, met>>

\* It comes back with nothing, or with a message that is neither.
PollAgain(c) ==
    /\ pc[c] = "poll" /\ polls[c] + 1 < MaxPolls
    /\ polls' = [polls EXCEPT ![c] = @ + 1]
    /\ UNCHANGED <<pc, errand, looks, serial, heard, reply, answer, kwin, left, met>>

\* Slip: a script that has sent nothing is not stopped.
PollInVain(c) ==
    /\ pc[c] = "poll" /\ polls[c] + 1 = MaxPolls
    /\ Return(c, "failed")
    /\ UNCHANGED <<errand, looks, serial, polls, heard, reply, kwin, left, met>>

\* The last poll: the script is stopped all the same.
PollLast(c) ==
    /\ pc[c] = "poll" /\ polls[c] + 1 = MaxPolls
    /\ polls' = [polls EXCEPT ![c] = MaxPolls]
    /\ Call(c, "stop", Script(c))
    /\ UNCHANGED <<errand, looks, serial, heard, answer, loaded, sent, raising, active, ran, left, met>>

\* stop has returned ("No such object path" counts as stopped), and run_script
\* returns what it has heard.  An activation needs no result and goes on to
\* look; a look that does not show the window active is followed by another.
ScriptOver(c) == pc[c] = "stop" /\ reply[c] = "ok"

Looking(c) == errand[c] = "activate" /\ looks[c] > 0

\* Slip: an activation is over when its script is.
SucceedsAtOnce(c) ==
    \/ errand[c] = "query" /\ heard[c] \in Results
    \/ errand[c] = "activate" /\ heard[c] # "error"

Succeeds(c) ==
    \/ errand[c] = "query" /\ heard[c] \in Results
    \/ Looking(c) /\ heard[c] = "active"

LooksOn(c) ==
    \/ errand[c] = "activate" /\ looks[c] = 0 /\ heard[c] # "error"
    \/ Looking(c) /\ heard[c] = "other" /\ looks[c] < MaxLooks

Succeed(c) ==
    /\ ScriptOver(c) /\ Succeeds(c)
    /\ Return(c, "ok")
    /\ UNCHANGED <<errand, looks, serial, polls, heard, reply, kwin, left, met>>

Look(c) ==
    /\ ScriptOver(c) /\ ~Succeeds(c) /\ LooksOn(c)
    /\ looks' = [looks EXCEPT ![c] = @ + 1]
    /\ LoadNext(c, FALSE)
    /\ UNCHANGED <<errand, answer, loaded, sent, raising, active, ran, left, met>>

Fail(c) ==
    /\ ScriptOver(c) /\ ~Succeeds(c) /\ ~LooksOn(c)
    /\ Return(c, "failed")
    /\ UNCHANGED <<errand, looks, serial, polls, heard, reply, kwin, left, met>>

\* DBUS_TIMEOUT in one of the three calls, or a bus that fails: run_script
\* returns at once, and nothing is taken back.
TimeOut(c) ==
    /\ pc[c] \in {"load", "run", "stop"} /\ reply[c] = "none"
    /\ Return(c, "failed")
    /\ left' = left \cup {Script(c)}
    /\ UNCHANGED <<errand, looks, serial, polls, heard, reply, kwin, met>>

\* Killed at any point; or the bus fails while the caller polls.
Killed(c) ==
    /\ pc[c] # "idle"
    /\ Return(c, "failed")
    /\ left' = left \cup {Script(c)}
    /\ UNCHANGED <<errand, looks, serial, polls, heard, reply, kwin, met>>

-----------------------------------------------------------------------------
(* KWin, which takes its calls in order and its time.                         *)

Answered(op, s, r) ==
    LET c == s.by IN
    reply' = IF pc[c] = op /\ s = Script(c) THEN [reply EXCEPT ![c] = r] ELSE reply

Takes(op, s) ==
    /\ calls # <<>> /\ Head(calls) = [op |-> op, of |-> s]
    /\ calls' = Tail(calls)
    /\ UNCHANGED <<pc, errand, looks, serial, polls, heard, answer, left>>

Loads(s) ==
    /\ Takes("load", s)
    /\ \/ loaded' = loaded \cup {s} /\ Answered("load", s, "ok")
       \/ loaded' = loaded /\ Answered("load", s, "refused")
    /\ UNCHANGED <<sent, raising, active, ran, met>>

\* The script sends a result that tells whether the window is active, or an
\* error; or it does not even start, and sends nothing.
State == IF active THEN "active" ELSE "other"

Runs(s) ==
    /\ Takes("run", s)
    /\ Answered("run", s, "ok")
    /\ \/ /\ sent' = sent \cup {[from |-> s, kind |-> State]}
          /\ ran' = ran \cup {s}
          /\ raising' = (raising \/ s.raises)
       \/ /\ sent' = sent \cup {[from |-> s, kind |-> "error"]}
          /\ UNCHANGED <<ran, raising>>
       \/ UNCHANGED <<sent, ran, raising>>
    /\ UNCHANGED <<loaded, active, met>>

Stops(s) ==
    /\ Takes("stop", s)
    /\ loaded' = loaded \ {s}
    /\ Answered("stop", s, "ok")
    /\ UNCHANGED <<sent, raising, active, ran, met>>

Activate(on) ==
    /\ active' = on
    /\ met' = IF on THEN met \cup {c \in Callers : pc[c] # "idle"} ELSE met
    /\ UNCHANGED <<caller, calls, loaded, sent, ran, left>>

\* The activation a script asked for takes effect, or is refused.
Raised == raising /\ raising' = FALSE /\ (Activate(TRUE) \/ Activate(active))

\* The user turns to the window, or away from it.
UserActivates == Activate(~active) /\ UNCHANGED raising

-----------------------------------------------------------------------------
CallerStep(c) ==
    \/ Loaded(c) \/ Refused(c) \/ Ran(c) \/ Hear(c) \/ PollAgain(c) \/ PollLast(c)
    \/ Succeed(c) \/ Look(c) \/ Fail(c) \/ TimeOut(c)

KWinStep == calls # <<>> /\ LET s == Head(calls).of IN Loads(s) \/ Runs(s) \/ Stops(s)

Next ==
    \/ \E c \in Callers : CallerStep(c) \/ Killed(c)
    \/ \E c \in Callers, e \in Errands : Ask(c, e)
    \/ KWinStep \/ Raised \/ UserActivates

\* A caller runs, and its calls and polls come back in DBUS_TIMEOUT and
\* SCRIPT_OUTPUT_POLL_INTERVAL.  KWin need not.
Spec == Init /\ [][Next]_vars /\ \A c \in Callers : WF_vars(CallerStep(c))

-----------------------------------------------------------------------------
(* A query that succeeds has had its script carried out, and what it returns  *)
(* is that script's own result, not one an earlier script sent too late: the  *)
(* receiver that run_script makes for each call.                              *)
AnswerIsOwn == \A c \in Callers :
    answer[c] = "ok" => Script(c) \in ran

(* activate_window that succeeds has seen the window active since it was      *)
(* called, whoever made it so: the list it looks at is never an old one.      *)
ActivatedWasActive == \A c \in Callers :
    answer[c] = "ok" /\ errand[c] = "activate" => c \in met

(* No script stays behind in KWin, after a result, an error or silence; except*)
(* one whose caller gave up on a call KWin had not answered, or was killed.   *)
NothingStaysLoaded == \A s \in loaded :
    s \in left \/ (pc[s.by] # "idle" /\ s = Script(s.by))

(* Every command that has KWin do something comes back, whatever KWin does:   *)
(* SCRIPT_OUTPUT_MAX_POLLS and ACTIVATION_MAX_POLLS.                          *)
CallsReturn == \A c \in Callers : pc[c] # "idle" ~> pc[c] = "idle"
=============================================================================
