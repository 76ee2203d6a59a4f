--------------------------- MODULE RequestBudget ----------------------------
(* How long a client of the session daemon waits (request_timeout), against   *)
(* what its request takes by design: text is typed with a delay after each    *)
(* character, chords are repeated, keys are held.  And how the client tells   *)
(* the daemon (MonoTime::after), which must not begin input the client has    *)
(* given up on.                                                               *)
EXTENDS Naturals

CONSTANTS
    Base,       \* REQUEST_BASE_TIMEOUT, in milliseconds like all of these
    PerChar,    \* TYPE_PER_CHAR_ALLOWANCE_MS
    MaxMs,      \* the greatest u64: the budget's arithmetic saturates there
    Second,     \* milliseconds in a second
    Delays,     \* delays and durations a caller may ask for
    Counts,     \* lengths of texts and chords, and repetitions
    Starts      \* times at which a request may be sent

ASSUME BudgetAssumption ==
    /\ Base \in Nat /\ PerChar \in Nat /\ MaxMs \in Nat /\ Second \in Nat \ {0}
    /\ PerChar <= MaxMs
    /\ Delays \subseteq 0 .. MaxMs /\ Counts \subseteq 1 .. MaxMs /\ Starts \subseteq Nat

VARIABLES
    pc,         \* of the request: "unsent", "queued", "begun", "stale", "answered" or "givenup"
    request,
    sent,       \* when it was sent, as a MonoTime
    deadline,   \* the MonoTime the daemon is told
    passed,     \* the time since
    left,       \* characters, repetitions or holds left to do
    lost        \* history: the time that no design accounts for

budgetVars == <<pc, request, sent, deadline, passed, left, lost>>

\* TypeText, KeySequence (the executor makes of a repeat of 0 a repeat of 1),
\* HoldKeyCodes; the others take no time by design.
Requests == [kind : {"type"}, count : Counts, delay : Delays]
       \cup [kind : {"keys"}, count : Counts, repeat : Counts]
       \cup [kind : {"hold"}, delay : Delays]
       \cup [kind : {"other"}]

Times == [sec : Nat, nsec : 0 .. Second - 1]

BudgetTypeOK ==
    /\ pc \in {"unsent", "queued", "begun", "stale", "answered", "givenup"}
    /\ request \in Requests
    /\ sent \in Times /\ deadline \in Times
    /\ passed \in Nat /\ left \in Nat /\ lost \in Nat

-----------------------------------------------------------------------------
\* Slip: u64 arithmetic that wraps.
Wrapped(n) == n % (MaxMs + 1)

Saturated(n) == IF n <= MaxMs THEN n ELSE MaxMs

Extra(r) ==
    CASE r.kind = "type"  -> Saturated(Saturated(r.delay + PerChar) * r.count)
      [] r.kind = "keys"  -> Saturated(Saturated(r.repeat * r.count) * PerChar)
      [] r.kind = "hold"  -> r.delay
      [] r.kind = "other" -> 0

Timeout(r) == Base + Extra(r)

\* MonoTime::now, MonoTime::after and the order derived for MonoTime.
Mono(t) == [sec |-> t \div Second, nsec |-> t % Second]
Ms(m)   == m.sec * Second + m.nsec

\* Slip: the fraction is added and not carried.
AfterUncarried(m, d) == [sec |-> m.sec + (d \div Second), nsec |-> m.nsec + (d % Second)]

After(m, d) ==
    LET n == m.nsec + (d % Second)
    IN  [sec |-> m.sec + (d \div Second) + (n \div Second), nsec |-> n % Second]

Later(a, b) == a.sec > b.sec \/ (a.sec = b.sec /\ a.nsec > b.nsec)

\* What a gesture repeats, and the time one repetition takes by design.
Repeats(r) ==
    CASE r.kind = "type" -> r.count [] r.kind = "keys" -> r.repeat
      [] r.kind = "hold" -> 1       [] r.kind = "other" -> 0
Least(r) ==
    CASE r.kind = "type" -> r.delay [] r.kind = "keys" -> 0
      [] r.kind = "hold" -> r.delay [] r.kind = "other" -> 0
Most(r) ==
    CASE r.kind = "type" -> r.delay + PerChar [] r.kind = "keys" -> r.count * PerChar
      [] r.kind = "hold" -> r.delay           [] r.kind = "other" -> 0

-----------------------------------------------------------------------------
BudgetInit ==
    /\ pc = "unsent"
    /\ request = [kind |-> "other"]
    /\ sent = Mono(0) /\ deadline = sent
    /\ passed = 0 /\ left = 0 /\ lost = 0

Send(r, t) ==
    /\ pc \notin {"queued", "begun"} /\ pc' = "queued"
    /\ request' = r
    /\ sent' = Mono(t)
    /\ deadline' = After(Mono(t), Timeout(r))
    /\ passed' = 0 /\ left' = 0 /\ lost' = 0

InTime == passed <= Timeout(request)

\* Time that passes otherwise: in the backlog, in a slow portal call, between
\* the gesture's repetitions.
Dawdle ==
    /\ pc \in {"queued", "begun"} /\ InTime
    /\ passed' = passed + 1 /\ lost' = lost + 1
    /\ UNCHANGED <<pc, request, sent, deadline, left>>

\* The daemon gets to it (stale_input_refusal).
BeginInput ==
    /\ pc = "queued" /\ InTime
    /\ IF Later(Mono(Ms(sent) + passed), deadline)
       THEN pc' = "stale" /\ UNCHANGED left
       ELSE pc' = "begun" /\ left' = Repeats(request)
    /\ UNCHANGED <<request, sent, deadline, passed, lost>>

\* One character, one press and release of a chord, or the time keys are held.
Repeat ==
    /\ pc = "begun" /\ InTime /\ left > 0
    /\ left' = left - 1
    /\ \E t \in Least(request) .. Most(request) : passed' = passed + t
    /\ UNCHANGED <<pc, request, sent, deadline, lost>>

Answer ==
    /\ pc = "begun" /\ InTime /\ left = 0
    /\ pc' = "answered"
    /\ UNCHANGED <<request, sent, deadline, passed, left, lost>>

\* tokio's timeout, whatever the daemon does.
GiveUp ==
    /\ pc \in {"queued", "begun"} /\ passed >= Timeout(request)
    /\ pc' = "givenup"
    /\ UNCHANGED <<request, sent, deadline, passed, left, lost>>

BudgetNext ==
    \/ \E r \in Requests, t \in Starts : Send(r, t)
    \/ Dawdle \/ BeginInput \/ Repeat \/ Answer \/ GiveUp

BudgetSpec == BudgetInit /\ [][BudgetNext]_budgetVars

-----------------------------------------------------------------------------
Saturates(r) == Extra(r) = MaxMs

(* Nothing that takes its time by design is given up for it: a client gives   *)
(* up only after at least REQUEST_BASE_TIMEOUT was lost otherwise, or at the  *)
(* end of all u64 milliseconds (request_timeout, against type_text,           *)
(* key_sequence and hold_key_codes).                                          *)
PatientByDesign == pc = "givenup" => lost >= Base \/ Saturates(request)

(* The deadline the daemon compares with its own passed is the moment at which *)
(* the client gives up: the daemon refuses nothing a client still waits for,  *)
(* and begins nothing that one has given up on, at whatever fraction of a     *)
(* second the request was sent (MonoTime, stale_input_refusal).               *)
DeadlineAgrees ==
    /\ pc # "stale"
    /\ pc # "unsent" => (Later(Mono(Ms(sent) + passed), deadline) <=> passed > Timeout(request))
=============================================================================
