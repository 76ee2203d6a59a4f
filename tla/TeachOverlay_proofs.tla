------------------------- MODULE TeachOverlay_proofs -------------------------
(* What TeachOverlay promises, for any number of clients, runner threads and *)
(* displays, whichever threads hang.                                         *)
EXTENDS TeachOverlay, TLAPS

\* Every state is well typed: in particular a show-step that goes through the
\* stages of set_display comes to one that handles it (handle_request).
THEOREM TypeCorrect == Spec => []TypeOK
<1>1. Init => TypeOK
  <2>1. Init => lost \in BOOLEAN
    BY DEF Init
  <2> QED
    BY <2>1 DEF Init, TypeOK, Modes, Calls
<1>2. TypeOK /\ [Next]_vars => TypeOK'
  <2> SUFFICES ASSUME TypeOK, [Next]_vars PROVE TypeOK'
    OBVIOUS
  <2> USE NoneAssumption DEF TypeOK, Modes, Calls
  <2>1. ASSUME NEW c \in Clients, Request(c) PROVE TypeOK'
    BY <2>1 DEF Request, state, threads, service
  <2>2. ASSUME NEW c \in Clients, Lock(c) PROVE TypeOK'
    BY <2>2 DEF Lock, Go, state, threads
  <2>3. ASSUME NEW c \in Clients, SetDisplay(c) PROVE TypeOK'
    BY <2>3 DEF SetDisplay, Go, Settled, threads
  <2>4. ASSUME NEW c \in Clients, Halt(c) PROVE TypeOK'
    BY <2>4 DEF Halt, Go, state
  <2>5. ASSUME NEW c \in Clients, NoHalt(c) PROVE TypeOK'
    BY <2>5 DEF NoHalt, Go, Halted, Settled, state, threads
  <2>6. ASSUME NEW c \in Clients, Join(c) \/ Detach(c) PROVE TypeOK'
    BY <2>6 DEF Join, Detach, Go, Halted, Settled, state, threads
  <2>7. ASSUME NEW c \in Clients, Restart(c) PROVE TypeOK'
    <3>1. PICK t \in Threads : Launch(t)
      BY <2>7 DEF Restart
    <3>2. /\ runner' \in Threads /\ lost' \in BOOLEAN
          /\ quit' = quit /\ seen' = seen
      BY <3>1 DEF Launch
    <3>3. /\ thread' \in [Threads -> {"done", "starting", "up"}]
          /\ on' \in [Threads -> Displays \cup {None}]
      BY <3>1 DEF Launch
    <3>4. /\ mutex' \in Clients \cup {None}
          /\ pc' \in [Clients -> {"idle", "lock", "run", "halt", "join", "restart",
                                "step", "ensure", "wait"}]
          /\ call' \in [Clients -> Calls]
      BY <2>7 DEF Restart, Go, Settled
    <3> QED
      BY <2>7, <3>2, <3>3, <3>4 DEF Restart, state
  <2>8. ASSUME NEW c \in Clients, Step(c) PROVE TypeOK'
    BY <2>8 DEF Step, Go, Answer, threads
  <2>9. ASSUME NEW c \in Clients, Ensure(c) PROVE TypeOK'
    <3>1. CASE Running
      BY <2>9, <3>1 DEF Ensure, Go, state, threads
    <3>2. CASE ~Running
      <4>1. PICK t \in Threads : Launch(t)
        BY <2>9, <3>2 DEF Ensure
      <4>2. /\ runner' \in Threads /\ lost' \in BOOLEAN
            /\ quit' = quit /\ seen' = seen
        BY <4>1 DEF Launch
      <4>3. /\ thread' \in [Threads -> {"done", "starting", "up"}]
            /\ on' \in [Threads -> Displays \cup {None}]
        BY <4>1 DEF Launch
      <4>4. /\ mutex' \in Clients \cup {None}
            /\ pc' \in [Clients -> {"idle", "lock", "run", "halt", "join", "restart",
                                  "step", "ensure", "wait"}]
            /\ call' \in [Clients -> Calls]
        BY <2>9 DEF Ensure, Go
      <4> QED
        BY <2>9, <4>2, <4>3, <4>4 DEF Ensure, state
    <3> QED
      BY <3>1, <3>2
  <2>10. ASSUME NEW c \in Clients, SetWorking(c) PROVE TypeOK'
    BY <2>10 DEF SetWorking, Go, threads
  <2>11. ASSUME NEW c \in Clients, Hide(c) PROVE TypeOK'
    BY <2>11 DEF Hide, Go, threads
  <2>12. ASSUME NEW c \in Clients, WaitEvent(c) PROVE TypeOK'
    BY <2>12 DEF WaitEvent, Go, threads
  <2>13. ASSUME NEW c \in Clients, Respond(c) PROVE TypeOK'
    BY <2>13 DEF Respond, state, threads, service
  <2>14. ASSUME NEW t \in Threads, Map(t) \/ Tick(t) \/ Fail(t) PROVE TypeOK'
    <3>1. CASE Map(t)
      BY <3>1 DEF Map, state, service, client
    <3>2. CASE Tick(t)
      BY <3>2 DEF Tick, End, state, service, client
    <3>3. CASE Fail(t)
      BY <3>3 DEF Fail, End, state, service, client
    <3> QED
      BY <2>14, <3>1, <3>2, <3>3
  <2>15. ASSUME NEW t \in Threads, User(t) PROVE TypeOK'
    BY <2>15 DEF User, NextPressed, ExitPressed, Answer, threads, service
  <2>16. CASE UNCHANGED vars
    BY <2>16 DEF vars, state, threads, service, client
  <2> QED
    BY <2>1, <2>2, <2>3, <2>4, <2>5, <2>6, <2>7, <2>8, <2>9, <2>10, <2>11,
       <2>12, <2>13, <2>14, <2>15, <2>16 DEF Next, Serve
<1> QED
  BY <1>1, <1>2, PTL DEF Spec

\* Every step of a client's thread or of a runner thread keeps the books of the
\* service: which calls it holds and which windows are still to go.
LEMMA InductiveStep == TypeOK /\ TypeOK' /\ Inductive /\ [Next]_vars => Inductive'
<1> SUFFICES ASSUME TypeOK, TypeOK', Inductive, [Next]_vars PROVE Inductive'
  OBVIOUS
<1> USE NoneAssumption
    DEF TypeOK, Modes, Calls, Inside, Running, Inductive, CallsFit, OneInside,
        StagesFit, StepIsHeld, PendingIsOpen, NobodyForgotten, NobodyMisled,
        RunnersFit, FlagsFit, RunnerIsWanted, RunnerInPlace, RunnerGone,
        ShownHasRunner, LostFits, NoGhost
<1>1. ASSUME NEW c \in Clients, Request(c) PROVE Inductive'
  <2>1. CallsFit'
    BY <1>1 DEF Request, state, threads, service
  <2>2. RunnersFit'
    BY <1>1 DEF Request, state, threads, service
  <2> QED
    BY <2>1, <2>2
<1>2. ASSUME NEW c \in Clients, Lock(c) PROVE Inductive'
  <2>1. CallsFit'
    BY <1>2 DEF Lock, Go, state, threads
  <2>2. RunnersFit'
    BY <1>2 DEF Lock, Go, state, threads
  <2> QED
    BY <2>1, <2>2
<1>3. ASSUME NEW c \in Clients, SetDisplay(c) PROVE Inductive'
  <2>1. CallsFit'
    BY <1>3 DEF SetDisplay, Go, Settled, threads
  <2>2. RunnersFit'
    BY <1>3 DEF SetDisplay, Go, Settled, threads
  <2> QED
    BY <2>1, <2>2
<1>4. ASSUME NEW c \in Clients, Halt(c) PROVE Inductive'
  <2>1. CallsFit'
    BY <1>4 DEF Halt, Go, state
  <2>2. RunnersFit'
    BY <1>4 DEF Halt, Go, state
  <2> QED
    BY <2>1, <2>2
<1>5. ASSUME NEW c \in Clients, NoHalt(c) PROVE Inductive'
  <2>1. CallsFit'
    BY <1>5 DEF NoHalt, Go, Halted, Settled, state, threads
  <2>2. RunnersFit'
    BY <1>5 DEF NoHalt, Go, Halted, Settled, state, threads
  <2> QED
    BY <2>1, <2>2
<1>6. ASSUME NEW c \in Clients, Join(c) PROVE Inductive'
  <2>1. CallsFit'
    BY <1>6 DEF Join, Go, Halted, Settled, state, threads
  <2>2. RunnersFit'
    BY <1>6 DEF Join, Go, Halted, Settled, state, threads
  <2> QED
    BY <2>1, <2>2
<1>7. ASSUME NEW c \in Clients, Detach(c) PROVE Inductive'
  <2>1. CallsFit'
    BY <1>7 DEF Detach, Go, Halted, Settled, state, threads
  <2>2. RunnersFit'
    BY <1>7 DEF Detach, Go, Halted, Settled, state, threads
  <2> QED
    BY <2>1, <2>2
<1>8. ASSUME NEW c \in Clients, Restart(c) PROVE Inductive'
  <2>1. CallsFit'
    BY <1>8 DEF Restart, Go, Launch, Settled, state
  <2>2. RunnersFit'
    BY <1>8 DEF Restart, Go, Launch, Settled, state
  <2> QED
    BY <2>1, <2>2
<1>9. ASSUME NEW c \in Clients, Step(c) PROVE Inductive'
  <2>1. CallsFit'
    BY <1>9 DEF Step, Go, Answer, threads
  <2>2. RunnersFit'
    BY <1>9 DEF Step, Go, Answer, threads
  <2> QED
    BY <2>1, <2>2
<1>10. ASSUME NEW c \in Clients, Ensure(c) PROVE Inductive'
  <2>1. CallsFit'
    BY <1>10 DEF Ensure, Go, Launch, state, threads
  <2>2. RunnersFit'
    BY <1>10 DEF Ensure, Go, Launch, state, threads
  <2> QED
    BY <2>1, <2>2
<1>11. ASSUME NEW c \in Clients, SetWorking(c) PROVE Inductive'
  <2>1. CallsFit'
    BY <1>11 DEF SetWorking, Go, threads
  <2>2. RunnersFit'
    BY <1>11 DEF SetWorking, Go, threads
  <2> QED
    BY <2>1, <2>2
<1>12. ASSUME NEW c \in Clients, Hide(c) PROVE Inductive'
  <2>1. CallsFit'
    BY <1>12 DEF Hide, Go, threads
  <2>2. RunnersFit'
    BY <1>12 DEF Hide, Go, threads
  <2> QED
    BY <2>1, <2>2
<1>13. ASSUME NEW c \in Clients, WaitEvent(c) PROVE Inductive'
  <2>1. CallsFit'
    BY <1>13 DEF WaitEvent, Go, threads
  <2>2. RunnersFit'
    BY <1>13 DEF WaitEvent, Go, threads
  <2> QED
    BY <2>1, <2>2
<1>14. ASSUME NEW c \in Clients, Respond(c) PROVE Inductive'
  <2>1. CallsFit'
    BY <1>14 DEF Respond, state, threads, service
  <2>2. RunnersFit'
    BY <1>14 DEF Respond, state, threads, service
  <2> QED
    BY <2>1, <2>2
<1>15. ASSUME NEW t \in Threads, Map(t) PROVE Inductive'
  <2>1. CallsFit'
    BY <1>15 DEF Map, state, service, client
  <2>2. RunnersFit'
    BY <1>15 DEF Map, state, service, client
  <2> QED
    BY <2>1, <2>2
<1>16. ASSUME NEW t \in Threads, Tick(t) PROVE Inductive'
  <2>1. CallsFit'
    BY <1>16 DEF Tick, End, state, service, client
  <2>2. RunnersFit'
    BY <1>16 DEF Tick, End, state, service, client
  <2> QED
    BY <2>1, <2>2
<1>17. ASSUME NEW t \in Threads, Fail(t) PROVE Inductive'
  <2>1. CallsFit'
    BY <1>17 DEF Fail, End, state, service, client
  <2>2. LostFits'
    <3>1. CASE t = runner
      BY <1>17, <3>1 DEF Fail, End
    <3>2. CASE t # runner
      BY <1>17, <3>2 DEF Fail, End, state, service, client
    <3> QED
      BY <3>1, <3>2
  <2>3. RunnersFit'
    BY <1>17, <2>2 DEF Fail, End, state, service, client
  <2> QED
    BY <2>1, <2>3
<1>18. ASSUME NEW t \in Threads, NextPressed(t) PROVE Inductive'
  <2>1. CallsFit'
    BY <1>18 DEF NextPressed, Answer, threads, service
  <2>2. RunnersFit'
    BY <1>18 DEF NextPressed, Answer, threads, service
  <2> QED
    BY <2>1, <2>2
<1>19. ASSUME NEW t \in Threads, ExitPressed(t) PROVE Inductive'
  <2>1. CallsFit'
    BY <1>19 DEF ExitPressed, Answer, threads, service
  <2>2. RunnersFit'
    BY <1>19 DEF ExitPressed, Answer, threads, service
  <2> QED
    BY <2>1, <2>2
<1>20. CASE UNCHANGED vars
  BY <1>20 DEF vars, state, threads, service, client
<1> QED
  BY <1>1, <1>2, <1>3, <1>4, <1>5, <1>6, <1>7, <1>8, <1>9, <1>10,
     <1>11, <1>12, <1>13, <1>14, <1>15, <1>16, <1>17, <1>18, <1>19, <1>20 DEF Next, Serve, User

\* The invariant behind the theorems below holds from the start, the overlay
\* hidden and no runner there (TeachOverlayService::new), and for ever.
LEMMA InductiveHolds == Spec => []Inductive
<1>1. Init => Inductive
  <2>1. Init => LostFits
    BY DEF Init, LostFits
  <2> QED
    BY <2>1, NoneAssumption
       DEF Init, Inside, Running, Inductive, CallsFit, OneInside,
           StagesFit, StepIsHeld, PendingIsOpen, NobodyForgotten, NobodyMisled,
           RunnersFit, FlagsFit, RunnerIsWanted, RunnerInPlace, RunnerGone,
           ShownHasRunner, NoGhost
<1> QED
  BY <1>1, InductiveStep, TypeCorrect, PTL DEF Spec

\* Whatever other clients do, a show-step or wait-event that waits is held by
\* the state: somebody will answer it (resolve_pending_locked, notify_waiters).
THEOREM NobodyForgottenHolds == Spec => []NobodyForgotten
<1>1. Inductive => NobodyForgotten
  BY DEF Inductive, CallsFit
<1> QED
  BY <1>1, InductiveHolds, PTL

\* No call that is over is held, so no answer is sent to it.
THEOREM NobodyMisledHolds == Spec => []NobodyMisled
<1>1. Inductive => NobodyMisled
  BY DEF Inductive, CallsFit
<1> QED
  BY <1>1, InductiveHolds, PTL

\* So clients wait for exactly the answers the service will give.
THEOREM HeldUntilAnsweredHolds == Spec => []HeldUntilAnswered
BY NobodyForgottenHolds, NobodyMisledHolds, PTL DEF HeldUntilAnswered

\* A display switch leaves no overlay behind that has not been told to go.
THEOREM NoGhostHolds == Spec => []NoGhost
<1>1. Inductive => NoGhost
  BY DEF Inductive, RunnersFit
<1> QED
  BY <1>1, InductiveHolds, PTL

\* Whenever no request holds the service, the runner is on the overlay's display
\* and a step or working overlay has one (set_display, ensure_runner).
THEOREM RunnerFitsHolds == Spec => []RunnerFits
<1>1. TypeOK /\ Inductive => RunnerFits
  <2> SUFFICES ASSUME TypeOK, Inductive, mutex = None
               PROVE  /\ Running => on[runner] = display /\ ~quit[runner]
                      /\ mode # "hidden" => runner # None
    BY DEF RunnerFits
  <2>1. \A c \in Clients : pc[c] \notin Inside
    BY NoneAssumption DEF Inductive, CallsFit, OneInside
  <2> QED
    BY <2>1 DEF Inside, Inductive, RunnersFit, RunnerInPlace, RunnerIsWanted, ShownHasRunner
<1> QED
  BY <1>1, TypeCorrect, InductiveHolds, PTL

\* Whatever is asked in whichever order, a visible overlay has a thread that runs,
\* unless that thread ended by itself after the service had last seen to it
\* (ensure_runner, set_display).
THEOREM ShownHasWindowHolds == Spec => []ShownHasWindow
<1>1. TypeOK /\ Inductive => ShownHasWindow
  <2> SUFFICES ASSUME TypeOK, Inductive, mutex = None, mode # "hidden", ~lost
               PROVE  \E t \in Threads : t = runner /\ thread[t] # "done"
    BY DEF ShownHasWindow
  <2>1. \A c \in Clients : pc[c] \notin Inside
    BY NoneAssumption DEF Inductive, CallsFit, OneInside
  <2>2. Running
    BY <2>1 DEF Inside, Inductive, RunnersFit, LostFits
  <2> QED
    BY <2>2 DEF Running, TypeOK
<1> QED
  BY <1>1, TypeCorrect, InductiveHolds, PTL

=============================================================================
