-------------------------- MODULE Durations_proofs --------------------------
(* What the waits of session-end promise, for every choice of durations that *)
(* keeps the order the code's comments ask for (LimitsAssumption); and what  *)
(* the time a client gives its request promises, for every delay and length. *)
EXTENDS ReapTiming, RequestBudget, TLAPS

\* Times are never negative: no limit is overrun.
LEMMA TypeStep == TypeOK /\ [Next]_vars => TypeOK'
<1> SUFFICES ASSUME TypeOK, [Next]_vars PROVE TypeOK'
    OBVIOUS
<1> USE DurationsAssumption
    DEF TypeOK, Listening, Busy, Over, Alive, DGo, EGo, daemon, ender
<1>1. CASE Tick
    BY <1>1 DEF Tick, Counting
<1>2. CASE Ready
    BY <1>2 DEF Ready
<1>3. CASE Accept
    BY <1>3 DEF Accept
<1>4. CASE Read
    BY <1>4 DEF Read
<1>5. CASE Handled
    BY <1>5 DEF Handled
<1>6. CASE Explained
    BY <1>6 DEF Explained
<1>7. CASE Written
    BY <1>7 DEF Written, TeardownTime
<1>8. CASE SeeClosed
    BY <1>8 DEF SeeClosed, TeardownTime
<1>9. CASE ServeShutdown
    BY <1>9 DEF ServeShutdown, TeardownTime
<1>10. CASE SeeTerm
    BY <1>10 DEF SeeTerm, TeardownTime
<1>11. CASE TornDown
    BY <1>11 DEF TornDown
<1>12. CASE Wedge
    BY <1>12 DEF Wedge
<1>13. CASE Begin
    BY <1>13 DEF Begin, Signal
<1>14. CASE Answered
    BY <1>14 DEF Answered
<1>15. CASE Unanswered
  <2>1. CASE Alive
    BY <1>15, <2>1 DEF Unanswered, Signal
  <2>2. CASE ~Alive
    BY <1>15, <2>2 DEF Unanswered, Done
  <2> QED
    BY <2>1, <2>2
<1>16. CASE GraceOver
  <2>1. CASE Alive
    BY <1>16, <2>1 DEF GraceOver, Signal
  <2>2. CASE ~Alive
    BY <1>16, <2>2 DEF GraceOver, Done
  <2> QED
    BY <2>1, <2>2
<1>17. CASE Exited
    BY <1>17 DEF Exited, Done
<1>18. CASE Kill
    BY <1>18 DEF Kill
<1>19. CASE UNCHANGED vars
    BY <1>19 DEF vars
<1> QED
    BY <1>1, <1>2, <1>3, <1>4, <1>5, <1>6, <1>7, <1>8, <1>9, <1>10,
       <1>11, <1>12, <1>13, <1>14, <1>15, <1>16, <1>17, <1>18, <1>19
       DEF Next, DaemonStep, EndStep

\* Every reachable state is well typed, so no wait goes on past its limit
\* (wait_for_exit, arm_teardown_watchdog).
THEOREM TypeCorrect == Spec => []TypeOK
<1>1. Init => TypeOK
  <2> SUFFICES ASSUME Init PROVE TypeOK
    OBVIOUS
  <2>1. sigterm \in BOOLEAN /\ deaf \in BOOLEAN
    BY DEF Init
  <2> QED
    BY <2>1 DEF Init, TypeOK, Listening, Busy, Over
<1> QED
    BY <1>1, TypeStep, PTL DEF Spec

\* A step of either process keeps what the daemon still needs below what
\* session-end still waits.
LEMMA InductiveStep == TypeOK /\ TypeOK' /\ Inductive /\ [Next]_vars => Inductive'
<1> SUFFICES ASSUME TypeOK, TypeOK', Inductive, [Next]_vars PROVE Inductive'
    OBVIOUS
<1> USE DurationsAssumption, LimitsAssumption
    DEF TypeOK, Listening, Busy, Over, Alive, DGo, EGo, daemon, ender, Inductive,
        TimesFit, TermIsSeen, GraceSuffices, ClockFits, QuitInBudget, CutIsDeaf
<1>1. CASE Tick
    BY <1>1 DEF Tick, Counting
<1>2. CASE Ready
    BY <1>2 DEF Ready
<1>3. CASE Accept
    BY <1>3 DEF Accept
<1>4. CASE Read
    BY <1>4 DEF Read
<1>5. CASE Handled
    BY <1>5 DEF Handled
<1>6. CASE Explained
    BY <1>6 DEF Explained
<1>7. CASE Written
    BY <1>7 DEF Written, TeardownTime
<1>8. CASE SeeClosed
    BY <1>8 DEF SeeClosed, TeardownTime
<1>9. CASE ServeShutdown
    BY <1>9 DEF ServeShutdown, TeardownTime
<1>10. CASE SeeTerm
    BY <1>10 DEF SeeTerm, TeardownTime
<1>11. CASE TornDown
    BY <1>11 DEF TornDown
<1>12. CASE Wedge
    BY <1>12 DEF Wedge
<1>13. CASE Begin
    BY <1>13 DEF Begin, Signal
<1>14. CASE Answered
    BY <1>14 DEF Answered
<1>15. CASE Unanswered
    BY <1>15 DEF Unanswered, Signal, Done
<1>16. CASE GraceOver
    BY <1>16 DEF GraceOver, Signal, Done
<1>17. CASE Exited
    BY <1>17 DEF Exited, Done
<1>18. CASE Kill
    BY <1>18 DEF Kill
<1>19. CASE UNCHANGED vars
    BY <1>19 DEF vars
<1> QED
    BY <1>1, <1>2, <1>3, <1>4, <1>5, <1>6, <1>7, <1>8, <1>9, <1>10,
       <1>11, <1>12, <1>13, <1>14, <1>15, <1>16, <1>17, <1>18, <1>19
       DEF Next, DaemonStep, EndStep

\* The inductive invariant: nobody waits yet, and then always long enough
\* (stop_session_daemon, reap_daemon).
LEMMA InductiveHolds == Spec => []Inductive
<1>1. Init => Inductive
    BY DurationsAssumption, LimitsAssumption
       DEF Init, Listening, Busy, Over, Alive, Inductive, TimesFit, TermIsSeen,
           GraceSuffices, ClockFits, QuitInBudget, CutIsDeaf
<1> QED
    BY <1>1, InductiveStep, TypeCorrect, PTL DEF Spec

\* A daemon that answered Shutdown has exited when SHUTDOWN_GRACE is over, so
\* it is never signalled: its teardown started before the grace did.
THEOREM AnsweredIsLeftHolds == Spec => []AnsweredIsLeft
<1>1. TypeOK /\ Inductive => AnsweredIsLeft
    BY DEF TypeOK, Inductive, GraceSuffices, AnsweredIsLeft
<1> QED
    BY <1>1, TypeCorrect, InductiveHolds, PTL

\* session-end is over within the application's budget, whatever the daemon
\* does and whenever it answers.
THEOREM QuitInBudgetHolds == Spec => []QuitInBudget
<1>1. Inductive => QuitInBudget
    BY DEF Inductive
<1> QED
    BY <1>1, InductiveHolds, PTL

\* A daemon that listens when the SIGTERM comes, and until it sees it, finishes
\* its teardown: TERM_GRACE is above TEARDOWN_LIMIT and the lag together.
THEOREM CutIsDeafHolds == Spec => []CutIsDeaf
<1>1. Inductive => CutIsDeaf
    BY DEF Inductive
<1> QED
    BY <1>1, InductiveHolds, PTL

-----------------------------------------------------------------------------
(* RequestBudget. *)

\* A budget that has not reached the greatest u64 is for all the repetitions.
LEMMA ExtraFits ==
    ASSUME NEW r \in Requests, ~Saturates(r)
    PROVE  Extra(r) = Repeats(r) * Most(r)
<1> USE BudgetAssumption DEF Saturates, Extra, Repeats, Most, Saturated
<1>1. CASE r \in [kind : {"type"}, count : Counts, delay : Delays]
    <2> DEFINE n == r.count
               d == r.delay + PerChar
    <2>1. n \in Nat \ {0} /\ d \in Nat /\ r.kind = "type"
        BY <1>1
    <2>2. MaxMs * n >= MaxMs
        BY <2>1
    <2>3. d <= MaxMs
        BY <1>1, <2>1, <2>2
    <2>4. d * n <= MaxMs /\ Extra(r) = d * n
        BY <1>1, <2>1, <2>3
    <2>5. d * n = n * d
        BY <2>1
    <2> QED
        BY <1>1, <2>1, <2>4, <2>5
<1>2. CASE r \in [kind : {"keys"}, count : Counts, repeat : Counts]
    <2> DEFINE n == r.count
               k == r.repeat
    <2>1. n \in Nat \ {0} /\ k \in Nat \ {0} /\ r.kind = "keys"
        BY <1>2
    <2>2. k * n \in Nat
        BY <2>1
    <2>3. (k * n) * PerChar = k * (n * PerChar)
        BY <2>1
    <2>4. CASE PerChar = 0
        <3>1. \A i \in Nat : i * 0 = 0
            OBVIOUS
        <3> QED
            BY <2>1, <2>2, <2>4, <3>1
    <2>5. CASE PerChar > 0
        <3>1. MaxMs * PerChar >= MaxMs
            BY <2>5
        <3>2. k * n <= MaxMs
            BY <2>1, <2>2, <3>1
        <3>3. Extra(r) = (k * n) * PerChar
            BY <2>1, <2>2, <3>2
        <3> QED
            BY <2>1, <2>3, <3>3
    <2>6. PerChar = 0 \/ PerChar > 0
        OBVIOUS
    <2> QED
        BY <2>4, <2>5, <2>6, Zenon
<1>3. CASE r \in [kind : {"hold"}, delay : Delays]
    BY <1>3
<1>4. CASE r \in [kind : {"other"}]
    BY <1>4
<1> QED
    BY <1>1, <1>2, <1>3, <1>4 DEF Requests

LEMMA RequestIsTyped ==
    ASSUME NEW r \in Requests
    PROVE  /\ Repeats(r) \in Nat /\ Least(r) \in Nat /\ Most(r) \in Nat
           /\ Extra(r) \in Nat /\ Timeout(r) \in Nat
<1> USE BudgetAssumption DEF Extra, Repeats, Least, Most, Saturated, Timeout
<1>1. CASE r \in [kind : {"type"}, count : Counts, delay : Delays]
    BY <1>1
<1>2. CASE r \in [kind : {"keys"}, count : Counts, repeat : Counts]
    BY <1>2
<1>3. CASE r \in [kind : {"hold"}, delay : Delays]
    BY <1>3
<1>4. CASE r \in [kind : {"other"}]
    BY <1>4
<1> QED
    BY <1>1, <1>2, <1>3, <1>4 DEF Requests

\* MonoTime counts milliseconds, and is ordered as they are.
LEMMA MonoCounts ==
    ASSUME NEW t \in Nat
    PROVE  Mono(t) \in Times /\ Ms(Mono(t)) = t
BY BudgetAssumption DEF Mono, Ms, Times

LEMMA AfterAdds ==
    ASSUME NEW m \in Times, NEW d \in Nat
    PROVE  After(m, d) \in Times /\ Ms(After(m, d)) = Ms(m) + d
<1> DEFINE n == m.nsec + (d % Second)
<1>1. m.sec \in Nat /\ m.nsec \in Nat /\ n \in Nat
    BY BudgetAssumption DEF Times
<1>0. \A x \in Nat : x = (x \div Second) * Second + (x % Second) /\ x \div Second \in Nat
    BY BudgetAssumption
<1>2. d = (d \div Second) * Second + (d % Second) /\ d \div Second \in Nat
    BY <1>0
<1> HIDE DEF n
<1>3. n = (n \div Second) * Second + (n % Second) /\ n \div Second \in Nat
    BY <1>0, <1>1
<1>4. n % Second \in 0 .. Second - 1
    BY <1>1, BudgetAssumption
<1>5. \A a, b, c, s \in Nat : (a + b + c) * s = a * s + b * s + c * s
    OBVIOUS
<1>6. (m.sec + (d \div Second) + (n \div Second)) * Second
        = m.sec * Second + (d \div Second) * Second + (n \div Second) * Second
    <2> DEFINE p == d \div Second
               q == n \div Second
    <2>1. p \in Nat /\ q \in Nat /\ m.sec \in Nat /\ Second \in Nat
        BY <1>1, <1>2, <1>3, BudgetAssumption
    <2> HIDE DEF p, q
    <2>2. (m.sec + p + q) * Second = m.sec * Second + p * Second + q * Second
        BY <1>5, <2>1
    <2> QED
        BY <2>2 DEF p, q
<1>7. After(m, d) = [sec |-> m.sec + (d \div Second) + (n \div Second), nsec |-> n % Second]
    BY DEF After, n
<1>8. n = m.nsec + (d % Second)
    BY DEF n
<1>9. d % Second \in Nat
    BY BudgetAssumption
<1> QED
    <2> DEFINE x == (d \div Second) * Second
               y == (n \div Second) * Second
               z == m.sec * Second
    <2>1. x \in Nat /\ y \in Nat /\ z \in Nat
        BY <1>1, <1>2, <1>3, BudgetAssumption
    <2>2. (m.sec + (d \div Second) + (n \div Second)) * Second = z + x + y
        BY <1>6
    <2>3. d = x + (d % Second) /\ n = y + (n % Second)
        BY <1>2, <1>3
    <2> HIDE DEF x, y, z
    <2>4. z + x + y + (n % Second) = z + m.nsec + d
        BY <1>1, <1>4, <1>8, <1>9, <2>1, <2>3
    <2>5. Ms(After(m, d)) = z + x + y + (n % Second)
        BY <1>7, <2>2 DEF Ms
    <2>6. Ms(m) = z + m.nsec
        BY DEF Ms, z
    <2>7. After(m, d) \in Times
        BY <1>1, <1>2, <1>3, <1>4, <1>7 DEF Times
    <2> QED
        BY <1>1, <2>1, <2>4, <2>5, <2>6, <2>7

LEMMA LaterIsGreater ==
    ASSUME NEW a \in Times, NEW b \in Times
    PROVE  Later(a, b) <=> Ms(a) > Ms(b)
<1>1. /\ a.sec \in Nat /\ a.nsec \in 0 .. Second - 1
      /\ b.sec \in Nat /\ b.nsec \in 0 .. Second - 1 /\ Second \in Nat
    BY BudgetAssumption DEF Times
<1>2. \A x, y, s \in Nat : x > y => x * s >= y * s + s
    <2> TAKE x, y, s \in Nat
    <2> HAVE x > y
    <2>1. PICK k \in Nat : x = y + 1 + k
        <3>1. x - y - 1 \in Nat /\ x = y + 1 + (x - y - 1)
            OBVIOUS
        <3> QED
            BY <3>1
    <2>2. (y + 1 + k) * s = y * s + s + k * s /\ k * s \in Nat /\ y * s \in Nat
        OBVIOUS
    <2> QED
        BY <2>1, <2>2
<1>3. CASE a.sec > b.sec
    BY <1>1, <1>2, <1>3 DEF Later, Ms
<1>4. CASE a.sec = b.sec
    BY <1>1, <1>4 DEF Later, Ms
<1>5. CASE a.sec < b.sec
    <2>1. b.sec * Second >= a.sec * Second + Second
        BY <1>1, <1>2, <1>5
    <2> QED
        BY <1>1, <1>5, <2>1 DEF Later, Ms
<1> QED
    BY <1>1, <1>3, <1>4, <1>5

BudgetInductive ==
    /\ pc # "unsent" => deadline = After(sent, Timeout(request))
    /\ pc = "queued" => passed = lost
    /\ pc = "begun" =>
          passed + left * Most(request) <= lost + Repeats(request) * Most(request)
    /\ DeadlineAgrees
    /\ PatientByDesign

\* What the daemon compares is what the client waits for.
LEMMA DeadlineIsTimeout ==
    ASSUME NEW m \in Times, NEW d \in Nat, NEW t \in Nat
    PROVE  Later(Mono(Ms(m) + t), After(m, d)) <=> t > d
<1>1. Ms(m) \in Nat
    BY BudgetAssumption DEF Ms, Times
<1>2. Mono(Ms(m) + t) \in Times /\ Ms(Mono(Ms(m) + t)) = Ms(m) + t
    BY <1>1, MonoCounts
<1>3. After(m, d) \in Times /\ Ms(After(m, d)) = Ms(m) + d
    BY AfterAdds
<1>4. Later(Mono(Ms(m) + t), After(m, d)) <=> Ms(m) + t > Ms(m) + d
    BY <1>2, <1>3, LaterIsGreater
<1> QED
    BY <1>1, <1>4

LEMMA BudgetTypeStep == BudgetTypeOK /\ [BudgetNext]_budgetVars => BudgetTypeOK'
<1> SUFFICES ASSUME BudgetTypeOK, [BudgetNext]_budgetVars PROVE BudgetTypeOK'
    OBVIOUS
<1>1. Repeats(request) \in Nat /\ Least(request) \in Nat /\ Most(request) \in Nat
    BY RequestIsTyped DEF BudgetTypeOK
<1>2. ASSUME NEW r \in Requests, NEW t \in Starts, Send(r, t) PROVE BudgetTypeOK'
    <2>1. t \in Nat /\ Timeout(r) \in Nat
        BY RequestIsTyped, BudgetAssumption
    <2>2. Mono(t) \in Times /\ After(Mono(t), Timeout(r)) \in Times
        BY <2>1, MonoCounts, AfterAdds
    <2> QED
        BY <1>2, <2>2 DEF Send, BudgetTypeOK
<1>3. CASE Dawdle
    BY <1>3 DEF Dawdle, BudgetTypeOK
<1>4. CASE BeginInput
    BY <1>1, <1>4 DEF BeginInput, BudgetTypeOK
<1>5. CASE Repeat
    <2>1. \A t \in Least(request) .. Most(request) : passed + t \in Nat
        BY <1>1 DEF BudgetTypeOK
    <2> QED
        BY <1>5, <2>1 DEF Repeat, BudgetTypeOK
<1>6. CASE Answer
    BY <1>6 DEF Answer, BudgetTypeOK
<1>7. CASE GiveUp
    BY <1>7 DEF GiveUp, BudgetTypeOK
<1>8. CASE UNCHANGED budgetVars
    BY <1>8 DEF budgetVars, BudgetTypeOK
<1> QED
    BY <1>2, <1>3, <1>4, <1>5, <1>6, <1>7, <1>8 DEF BudgetNext

\* Every reachable state of a request is well typed, for all delays and lengths.
THEOREM BudgetTypeCorrect == BudgetSpec => []BudgetTypeOK
<1>1. BudgetInit => BudgetTypeOK
    BY MonoCounts DEF BudgetInit, BudgetTypeOK, Requests
<1> QED
    BY <1>1, BudgetTypeStep, PTL DEF BudgetSpec

LEMMA BudgetInductiveStep ==
    BudgetTypeOK /\ BudgetInductive /\ [BudgetNext]_budgetVars => BudgetInductive'
<1> SUFFICES ASSUME BudgetTypeOK, BudgetInductive, [BudgetNext]_budgetVars
             PROVE  BudgetInductive'
    OBVIOUS
<1>1. /\ Repeats(request) \in Nat /\ Most(request) \in Nat
      /\ Least(request) \in Nat /\ Timeout(request) \in Nat
    BY RequestIsTyped DEF BudgetTypeOK
<1>2. \A t \in Nat : pc # "unsent" =>
          (Later(Mono(Ms(sent) + t), deadline) <=> t > Timeout(request))
    BY <1>1, DeadlineIsTimeout DEF BudgetTypeOK, BudgetInductive
<1>3. BudgetTypeOK'
    BY BudgetTypeStep
<1>4. ASSUME UNCHANGED <<sent, deadline, request>>, pc # "unsent", pc' # "stale"
      PROVE  (pc # "unsent" => deadline = After(sent, Timeout(request)))' /\ DeadlineAgrees'
    <2>1. Later(Mono(Ms(sent) + passed'), deadline) <=> passed' > Timeout(request)
        BY <1>2, <1>3, <1>4 DEF BudgetTypeOK
    <2> QED
        BY <1>4, <2>1 DEF DeadlineAgrees, BudgetInductive
<1>5. ASSUME NEW r \in Requests, NEW t \in Starts, Send(r, t) PROVE BudgetInductive'
    <2>1. t \in Nat /\ Timeout(r) \in Nat
        BY RequestIsTyped, BudgetAssumption
    <2>2. Later(Mono(Ms(Mono(t)) + 0), After(Mono(t), Timeout(r))) <=> 0 > Timeout(r)
        BY <2>1, MonoCounts, DeadlineIsTimeout
    <2> QED
        BY <1>5, <2>2 DEF Send, BudgetInductive, DeadlineAgrees, PatientByDesign
<1>6. CASE Dawdle
    <2>1. left * Most(request) \in Nat /\ Repeats(request) * Most(request) \in Nat
        BY <1>1 DEF BudgetTypeOK
    <2>2. pc' = "begun" =>
            passed' + left * Most(request) <= lost' + Repeats(request) * Most(request)
        BY <1>6, <2>1 DEF Dawdle, BudgetTypeOK, BudgetInductive
    <2> QED
        BY <1>4, <1>6, <2>2 DEF Dawdle, BudgetTypeOK, BudgetInductive, PatientByDesign
<1>7. CASE BeginInput
    <2>1. ~Later(Mono(Ms(sent) + passed), deadline)
        BY <1>1, <1>2, <1>7 DEF BeginInput, InTime, BudgetTypeOK
    <2>2. pc' = "begun" /\ left' = Repeats(request) /\ passed = lost
        BY <1>7, <2>1 DEF BeginInput, BudgetInductive
    <2>3. Repeats(request) * Most(request) \in Nat
        BY <1>1
    <2> QED
        BY <1>4, <1>7, <2>2, <2>3 DEF BeginInput, BudgetTypeOK, BudgetInductive, PatientByDesign
<1>8. CASE Repeat
    <2> DEFINE M == Most(request)
    <2>1. PICK t \in Least(request) .. M : passed' = passed + t
        BY <1>8 DEF Repeat
    <2>2. t \in Nat /\ t <= M
        BY <1>1, <2>1
    <2>3. left' = left - 1 /\ left \in Nat \ {0}
        BY <1>8 DEF Repeat, BudgetTypeOK
    <2>4. (left - 1) * M + M = left * M /\ (left - 1) * M \in Nat
        BY <1>1, <2>3
    <2>5. passed + left * M <= lost + Repeats(request) * M
        BY <1>8 DEF Repeat, BudgetInductive
    <2>6. Repeats(request) * M \in Nat /\ passed \in Nat /\ lost \in Nat /\ M \in Nat
        BY <1>1 DEF BudgetTypeOK
    <2>7. passed' + left' * M <= lost + Repeats(request) * M
        BY <2>1, <2>2, <2>3, <2>4, <2>5, <2>6
    <2> QED
        BY <1>4, <1>8, <2>7 DEF Repeat, BudgetInductive, PatientByDesign
<1>9. CASE Answer
    BY <1>4, <1>9 DEF Answer, BudgetInductive, PatientByDesign
<1>10. CASE GiveUp
    <2>1. CASE Saturates(request)
        BY <1>4, <1>10, <2>1 DEF GiveUp, BudgetInductive, PatientByDesign
    <2>2. CASE ~Saturates(request)
        <3> DEFINE R == Repeats(request) * Most(request)
        <3>1. Timeout(request) = Base + R /\ R \in Nat
            BY <1>1, <2>2, ExtraFits DEF Timeout, BudgetTypeOK
        <3>2. passed >= Base + R
            BY <1>10, <3>1 DEF GiveUp
        <3>3. left * Most(request) \in Nat
            BY <1>1 DEF BudgetTypeOK
        <3>4. passed <= lost + R
            BY <1>10, <3>1, <3>3 DEF GiveUp, BudgetInductive, BudgetTypeOK
        <3>5. lost >= Base
            BY <3>1, <3>2, <3>4, BudgetAssumption DEF BudgetTypeOK
        <3> QED
            BY <1>4, <1>10, <3>5 DEF GiveUp, BudgetInductive, PatientByDesign
    <2> QED
        BY <2>1, <2>2
<1>11. CASE UNCHANGED budgetVars
    BY <1>11 DEF budgetVars, BudgetInductive, DeadlineAgrees, PatientByDesign
<1> QED
    BY <1>5, <1>6, <1>7, <1>8, <1>9, <1>10, <1>11 DEF BudgetNext

LEMMA BudgetInductiveHolds == BudgetSpec => []BudgetInductive
<1>1. BudgetInit => BudgetInductive
    BY DEF BudgetInit, BudgetInductive, DeadlineAgrees, PatientByDesign
<1> QED
    BY <1>1, BudgetInductiveStep, BudgetTypeCorrect, PTL DEF BudgetSpec

\* A client gives up only after REQUEST_BASE_TIMEOUT was lost on what no design
\* accounts for, however long the text and its delays, unless u64 milliseconds
\* do not hold its budget (request_timeout, against type_text and the others).
THEOREM PatientByDesignHolds == BudgetSpec => []PatientByDesign
<1>1. BudgetInductive => PatientByDesign
    BY DEF BudgetInductive
<1> QED
    BY <1>1, BudgetInductiveHolds, PTL

\* The daemon's clock passes the deadline it was told at the moment the client
\* gives up, to the millisecond, whenever the request was sent (MonoTime::after).
THEOREM DeadlineAgreesHolds == BudgetSpec => []DeadlineAgrees
<1>1. BudgetInductive => DeadlineAgrees
    BY DEF BudgetInductive
<1> QED
    BY <1>1, BudgetInductiveHolds, PTL
=============================================================================
