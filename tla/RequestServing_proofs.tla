------------------------ MODULE RequestServing_proofs ------------------------
(* Held buttons and stale input, for any number of callers.                  *)
EXTENDS RequestServing, SequenceTheorems, TLAPS

USE DEF Left

\* What there is of gestures.
LEMMA GesturesAre == Gestures = {"down", "up", "click", "drag", "chord", "scroll"}
    BY DEF Gestures, Plan

\* What a gesture is made of: calls on keys there are.
LEMMA PlansAreCalls == \A g \in Gestures : Plan[g] \in Seq(Calls)
<1>1. Drag \in Seq(Calls)
    BY DEF Drag, Calls, Pressable, Parts, Move, Press, Release
<1>2. Click \in Seq(Calls)
    BY DEF Click, Calls, Pressable, Parts, Move, Press, Release
<1>3. Chord \in Seq(Calls)
    BY DEF Chord, Calls, Pressable, Parts, Press, Release
<1>4. Scroll \in Seq(Calls)
    BY DEF Scroll, Calls, Pressable, Parts, Move
<1>5. <<Press(Left, "first")>> \in Seq(Calls) /\ <<Release(Left, "first")>> \in Seq(Calls)
    BY DEF Calls, Pressable, Parts, Press, Release
<1>6. /\ Plan["drag"] = Drag /\ Plan["click"] = Click
      /\ Plan["chord"] = Chord /\ Plan["scroll"] = Scroll
      /\ Plan["down"] = <<Press(Left, "first")>> /\ Plan["up"] = <<Release(Left, "first")>>
    BY DEF Plan
<1> QED
    BY <1>1, <1>2, <1>3, <1>4, <1>5, <1>6, GesturesAre

\* A chord and a scroll leave the left button alone.
LEMMA PlansAreHarmless ==
    \A g \in {"chord", "scroll"} : g \in Gestures /\ Plan[g] \in Seq(Harmless)
<1>1. Chord \in Seq(Harmless)
    BY DEF Chord, Harmless, Calls, Pressable, Parts, Press, Release
<1>2. Scroll \in Seq(Harmless)
    BY DEF Scroll, Harmless, Calls, Pressable, Parts, Move
<1> QED
    BY <1>1, <1>2 DEF Plan, Gestures

\* What is left of a gesture that failed, and what it may leave behind.
LEMMA LastParts == \A g : LastPart(g) \in Seq(Calls)
<1> DEFINE drag == <<Release(Left, "last")>>
           click == <<Release("shift", "last"), Release("ctrl", "last")>>
<1>1. drag \in Seq(Calls) /\ click \in Seq(Calls) /\ <<>> \in Seq(Calls)
    BY DEF Calls, Pressable, Parts, Release
<1>2. \A g : LastPart(g) \in {drag, click, <<>>}
    BY DEF LastPart
<1> QED
    BY <1>1, <1>2

LEMMA LeftBehind ==
    /\ \A call : Leaves(call) \subseteq {"button", "key"}
    /\ \A calls : Touched(calls) \subseteq {"button", "key"}
    BY DEF Leaves, Touched, Kind

\* One call, made or failed, keeps the state of the input well typed.
LEMMA CallTypes ==
    ASSUME InputTypeOK, todo # <<>>
    PROVE  /\ After(Head(todo)) \in SUBSET Pressable
           /\ Tail(todo) \in Seq(Calls)
           /\ AfterFailure(Head(todo)) \in Seq(Calls)
<1>1. todo \in Seq(Calls)
    BY DEF InputTypeOK
<1>2. Head(todo) \in Calls /\ Tail(todo) \in Seq(Calls)
    BY <1>1
<1>4. AfterFailure(Head(todo)) \in Seq(Calls)
    BY LastParts DEF AfterFailure
<1>5. After(Head(todo)) \in SUBSET Pressable
    BY <1>2 DEF After, Calls, InputTypeOK
<1> QED
    BY <1>2, <1>4, <1>5

\* Whatever is asked, and whatever fails, the state is well typed.
LEMMA TypeStep == TypeOK /\ Inductive /\ [Next]_vars => TypeOK'
<1> SUFFICES ASSUME TypeOK, Inductive, [Next]_vars PROVE TypeOK'
    OBVIOUS
<1> USE NoneAssumption DEF TypeOK, Present, Responses, Kinds, history
<1> DEFINE Rest == /\ cpc \in [Callers -> {"idle", "gone", "garbled"} \cup Present]
                   /\ kind \in [Callers -> Kinds]
                   /\ late \in [Callers -> BOOLEAN]
<1>0. serving # None => serving \in Callers
    OBVIOUS
<1>d. ASSUME NEW cs, Disconnect(cs) PROVE Rest'
    BY <1>d DEF Disconnect
<1>s. dpc = "running" => serving \in Callers /\ kind[serving] \in Kinds
    BY <1>0 DEF Inductive
<1>i. UNCHANGED input => InputTypeOK'
    BY DEF input, InputTypeOK
<1>a. Abandon => InputTypeOK'
  <2> SUFFICES ASSUME Abandon PROVE InputTypeOK'
    OBVIOUS
  <2>1. down' = down \/ (todo # <<>> /\ down' = After(Head(todo)))
    BY DEF Abandon
  <2>2. down' \in SUBSET Pressable
    BY <2>1, CallTypes DEF InputTypeOK
  <2>3. broken' \in SUBSET {"button", "key"}
    BY LeftBehind DEF Abandon, InputTypeOK
  <2>4. gesture' = "none" /\ todo' = <<>> /\ failed' = FALSE /\ held' = held
    BY DEF Abandon
  <2> QED
    <3>1. todo' \in Seq(Calls)
      BY <2>4
    <3> QED
      BY <2>2, <2>3, <2>4, <3>1 DEF InputTypeOK
<1>1. CASE \E c \in Callers : Caller(c)
  <2> SUFFICES ASSUME NEW c \in Callers, Caller(c) PROVE TypeOK'
    BY <1>1
  <2>1. CASE Ask(c)
    BY <2>1, <1>i DEF Ask
  <2>2. CASE Written(c)
    BY <2>2, <1>i DEF Written, loop
  <2>3. CASE Expire(c)
    BY <2>3, <1>i DEF Expire, loop
  <2>4. CASE Go(c)
    BY <2>4, <1>i DEF Go, loop
  <2> QED
    BY <2>1, <2>2, <2>3, <2>4 DEF Caller
<1>2. CASE Accept
    BY <1>2, <1>i DEF Accept, callers
<1>3. CASE Refuse
    BY <1>3, <1>i DEF Refuse, callers
<1>4. CASE Begin
  <2>1. serving \in Callers /\ kind[serving] \in Kinds
    BY <1>4, <1>0 DEF Begin, Inductive
  <2>2. ASSUME NEW g \in Gestures, Start(g) PROVE InputTypeOK'
    <3>1. todo' \in Seq(Calls) /\ held' \in SUBSET {Left}
      BY <2>2, PlansAreCalls DEF Start, InputTypeOK
    <3>2. failed' \in BOOLEAN
      BY <2>2 DEF Start, Refused
    <3> QED
      BY <2>2, <3>1, <3>2 DEF Start, InputTypeOK
  <2>3. InputTypeOK'
    BY <1>4, <1>i, <2>1, <2>2 DEF Begin
  <2> QED
    BY <1>4, <2>3 DEF Begin, callers
<1>5. CASE Unread
    BY <1>5, <1>i, <1>d DEF Unread
<1>6. CASE Work
  <2>1. ASSUME Call PROVE InputTypeOK'
    BY <2>1, CallTypes DEF Call, InputTypeOK
  <2>2. ASSUME CallFails PROVE InputTypeOK'
    BY <2>2, CallTypes, LeftBehind DEF CallFails, InputTypeOK
  <2> QED
    BY <1>6, <2>1, <2>2 DEF Work, callers
<1>7. CASE GestureDone
  <2>1. InputTypeOK'
    BY <1>7 DEF GestureDone, Finish, InputTypeOK
  <2> QED
    BY <1>7, <2>1 DEF GestureDone, Reply, callers
<1>8. CASE QueryDone
    BY <1>8, <1>i DEF QueryDone, Reply, callers
<1>9. CASE ShutdownDone
    BY <1>9, <1>i DEF ShutdownDone, Reply, callers
<1>10. CASE NotShared
  <2>1. InputTypeOK'
    BY <1>10 DEF NotShared, InputTypeOK
  <2> QED
    BY <1>10, <2>1 DEF NotShared, Reply, callers
<1>11. CASE Grace
    BY <1>11, <1>i DEF Grace, callers
<1>12. CASE SeeClosed
    BY <1>12, <1>i, <1>a DEF SeeClosed, callers
<1>13. CASE SeeTerm
  <2>1. InputTypeOK'
    BY <1>13, <1>i, <1>a DEF SeeTerm
  <2>2. Rest'
    BY <1>13, <1>d DEF SeeTerm, callers
  <2> QED
    BY <1>13, <2>1, <2>2 DEF SeeTerm
<1>14. CASE Answer
    BY <1>14, <1>i, <1>d DEF Answer
<1>15. CASE Teardown
  <2>1. InputTypeOK'
    BY <1>15 DEF Teardown, ReleaseHeld, InputTypeOK
  <2> QED
    BY <1>15, <2>1 DEF Teardown, callers
<1>16. CASE Exit
    BY <1>16, <1>i, <1>d DEF Exit
<1>17. CASE Restart
  <2>1. InputTypeOK'
    BY <1>17 DEF Restart, InputTypeOK
  <2> QED
    BY <1>17, <2>1 DEF Restart, callers
<1>18. CASE Close
    BY <1>18, <1>i DEF Close, callers, loop
<1>19. CASE UNCHANGED vars
    BY <1>19, <1>i DEF vars, callers, loop
<1> QED
    BY <1>1, <1>2, <1>3, <1>4, <1>5, <1>6, <1>7, <1>8, <1>9, <1>10,
       <1>11, <1>12, <1>13, <1>14, <1>15, <1>16, <1>17, <1>18, <1>19 DEF Next, Daemon

\* What a held button needs, of the input alone.
InputSafe ==
    /\ InputTypeOK
    /\ HeldIsDown /\ HeldIsSafe

\* No gesture that is begun takes a held button along.
LEMMA StartIsSafe ==
    ASSUME InputSafe, NEW g \in Gestures, Start(g)
    PROVE  HeldIsDown' /\ HeldIsSafe'
<1>1. HeldIsDown'
    BY DEF InputSafe, HeldIsDown, Start
<1>2. gesture' # "none" /\ (gesture' = "down" => todo' \in {<<>>, Plan["down"]})
    BY GesturesAre DEF Start
<1>3. ASSUME Left \in held' PROVE todo' \in Seq(Harmless)
  <2>1. Left \in held /\ g # "up"
    BY <1>3 DEF Start
  <2>2. CASE g \in {"down", "click", "drag"}
    BY <2>1, <2>2 DEF Start, Refused
  <2>3. CASE g \in {"chord", "scroll"}
    BY <2>1, <2>3, PlansAreHarmless DEF Start, Refused
  <2> QED
    BY <2>1, <2>2, <2>3, GesturesAre
<1> QED
    BY <1>1, <1>2, <1>3 DEF HeldIsSafe

\* No call, made or failed, releases a held button.
LEMMA WorkIsSafe ==
    ASSUME InputSafe, Call \/ CallFails
    PROVE  HeldIsDown' /\ HeldIsSafe'
<1> USE DEF InputSafe
<1>0. todo # <<>> /\ gesture' = gesture /\ gesture # "none"
    BY DEF Call, CallFails, HeldIsSafe
<1>1. CASE gesture = "down"
  <2>1. todo = <<[do |-> "press", key |-> Left, part |-> "first"]>>
    BY <1>0, <1>1 DEF HeldIsSafe, Plan, Press
  <2>2. Head(todo).do = "press" /\ Head(todo).key = Left /\ Head(todo).part = "first"
        /\ Tail(todo) = <<>>
    BY <2>1
  <2>3. todo' = <<>>
    BY <2>2 DEF Call, CallFails, AfterFailure
  <2>4. HeldIsDown'
    BY <1>1, <2>2 DEF Call, CallFails, After, HeldIsDown
  <2> QED
    BY <1>0, <2>3, <2>4 DEF HeldIsSafe
<1>2. CASE gesture # "down" /\ Left \notin held
    BY <1>0, <1>2 DEF Call, CallFails, HeldIsSafe, HeldIsDown, InputTypeOK
<1>3. CASE gesture # "down" /\ Left \in held
  <2>1. todo \in Seq(Harmless) /\ Head(todo) \in Harmless /\ Tail(todo) \in Seq(Harmless)
    BY <1>0, <1>3 DEF HeldIsSafe
  <2>2. todo' \in Seq(Harmless)
    <3>1. AfterFailure(Head(todo)) = <<>>
      BY <2>1 DEF AfterFailure, Harmless
    <3>2. <<>> \in Seq(Harmless)
      OBVIOUS
    <3> QED
      BY <2>1, <3>1, <3>2 DEF Call, CallFails
  <2>3. Left \in After(Head(todo))
    BY <1>3, <2>1 DEF After, Harmless, HeldIsDown, InputTypeOK
  <2>4. HeldIsDown'
    BY <1>3, <2>3 DEF Call, CallFails, HeldIsDown, InputTypeOK
  <2> QED
    BY <1>0, <1>3, <2>2, <2>4 DEF HeldIsSafe
<1> QED
    BY <1>1, <1>2, <1>3

\* A gesture that is over, or abandoned, and a session that is gone leave a held
\* button where it is.
LEMMA EndIsSafe ==
    ASSUME InputSafe, \/ Finish \/ Abandon \/ ReleaseHeld
                      \/ UNCHANGED <<held, down>> /\ gesture' = "none" /\ todo' = <<>>
    PROVE  HeldIsDown' /\ HeldIsSafe'
<1> USE DEF InputSafe
<1>0. <<>> \in Seq(Harmless)
    OBVIOUS
<1>1. CASE Finish \/ (UNCHANGED <<held, down>> /\ gesture' = "none" /\ todo' = <<>>)
    BY <1>0, <1>1 DEF Finish, HeldIsDown, HeldIsSafe
<1>2. CASE ReleaseHeld
    BY <1>2 DEF ReleaseHeld, HeldIsDown, HeldIsSafe
<1>3. CASE Abandon
  <2>1. gesture' = "none" /\ todo' = <<>> /\ held' = held
    BY <1>3 DEF Abandon
  <2>2. CASE down' = down
    BY <1>0, <2>1, <2>2 DEF HeldIsDown, HeldIsSafe
  <2>3. CASE todo # <<>> /\ down' = After(Head(todo))
    <3>1. ASSUME Left \in held PROVE Left \in down'
      <4>1. Head(todo) \in Harmless /\ Left \in down
        BY <2>3, <3>1 DEF HeldIsSafe, HeldIsDown
      <4> QED
        BY <2>3, <4>1 DEF After, Harmless
    <3>2. HeldIsDown'
      BY <2>1, <3>1 DEF HeldIsDown, InputTypeOK
    <3> QED
      BY <1>0, <2>1, <3>2 DEF HeldIsSafe
  <2> QED
    BY <1>3, <2>2, <2>3 DEF Abandon
<1> QED
    BY <1>1, <1>2, <1>3

\* A failure on a closed session waits for the Closed that explains it, and is then
\* answered with the stop.
LEMMA ReportedStep ==
    TypeOK /\ Inductive /\ [Next]_vars =>
        /\ StopIsReported'
        /\ cause' => closed' /\ dpc' \in {"running", "grace", "writing"}
<1> SUFFICES ASSUME TypeOK, Inductive, [Next]_vars
             PROVE  /\ StopIsReported'
                    /\ cause' => closed' /\ dpc' \in {"running", "grace", "writing"}
    OBVIOUS
<1> USE DEF Inductive, StopIsReported, history
<1>1. CASE \E c \in Callers : Caller(c)
    BY <1>1 DEF Caller, Ask, Written, Expire, Go, loop
<1>2. CASE Accept \/ Refuse \/ Begin \/ Unread
    BY <1>2 DEF Accept, Refuse, Begin, Unread
<1>3. CASE Work
    BY <1>3 DEF Work, TypeOK
<1>4. CASE GestureDone \/ QueryDone \/ ShutdownDone \/ NotShared
  <2>1. CASE GestureDone
    <3>1. CASE failed
      BY <2>1, <3>1 DEF GestureDone, Reply
    <3>2. CASE ~failed
      BY <2>1, <3>2 DEF GestureDone, Reply
    <3> QED
      BY <3>1, <3>2
  <2>2. CASE QueryDone
    <3>1. PICK how \in {"ok", "error", "not_shared"} :
             Reply(how) /\ cause' = (how = "error" /\ closed)
      BY <2>2 DEF QueryDone
    <3>2. CASE how = "error"
      BY <3>1, <3>2 DEF Reply
    <3>3. CASE how # "error"
      BY <3>1, <3>3 DEF Reply
    <3> QED
      BY <3>2, <3>3
  <2>3. CASE ShutdownDone
    BY <2>3 DEF ShutdownDone, Reply
  <2>4. CASE NotShared
    BY <2>4 DEF NotShared, Reply
  <2> QED
    BY <1>4, <2>1, <2>2, <2>3, <2>4
<1>5. CASE Grace \/ SeeClosed \/ SeeTerm
    BY <1>5 DEF Grace, SeeClosed, SeeTerm
<1>6. CASE Answer \/ Teardown \/ Exit \/ Restart \/ Close
    BY <1>6 DEF Answer, Teardown, Exit, Restart, Close, loop
<1>7. CASE UNCHANGED vars
    BY <1>7 DEF vars, loop
<1> QED
    BY <1>1, <1>2, <1>3, <1>4, <1>5, <1>6, <1>7 DEF Next, Daemon

\* A caller waits in the backlog, or is served, for the one request it has made.
LEMMA QueueStep == TypeOK /\ Inductive /\ [Next]_vars => QueueFits'
<1> SUFFICES ASSUME TypeOK, Inductive, [Next]_vars PROVE QueueFits'
    OBVIOUS
<1> USE NoneAssumption DEF TypeOK, QueueFits, Inductive
<1>1. CASE \E c \in Callers : Caller(c)
  <2>1. PICK c \in Callers : Caller(c)
    BY <1>1
  <2>2. CASE Ask(c)
    <3>1. /\ backlog' = Append(backlog, c) /\ serving' = serving /\ cpc[c] = "idle"
          /\ cpc' = [cpc EXCEPT ![c] = "writing"]
      BY <2>2 DEF Ask
    <3>2. DOMAIN backlog' = (DOMAIN backlog) \cup {Len(backlog) + 1}
      BY <3>1
    <3>3. \A i \in DOMAIN backlog : backlog'[i] = backlog[i] /\ backlog[i] # c /\ backlog[i] \in Callers
      BY <3>1
    <3>4. backlog'[Len(backlog) + 1] = c /\ c # serving
      BY <3>1
    <3> QED
      BY <3>1, <3>2, <3>3, <3>4
  <2>3. CASE Written(c)
    BY <2>3 DEF Written, loop
  <2>4. CASE Expire(c)
    BY <2>4 DEF Expire, loop
  <2>5. CASE Go(c)
    BY <2>5 DEF Go, loop
  <2> QED
    BY <2>1, <2>2, <2>3, <2>4, <2>5 DEF Caller
<1>2. CASE Accept
  <2>1. /\ serving' = backlog[1] /\ backlog' = Tail(backlog) /\ cpc' = cpc
        /\ 1 \in DOMAIN backlog
    BY <1>2 DEF Accept, callers
  <2>2. \A i \in DOMAIN backlog' : i + 1 \in DOMAIN backlog /\ backlog'[i] = backlog[i + 1] /\ i \in Nat /\ i # 0
    BY <2>1
  <2> QED
    BY <2>1, <2>2
<1>3. ASSUME Disconnect({serving}), serving' = None, backlog' = backlog PROVE QueueFits'
  <2>1. \A i \in DOMAIN backlog : backlog[i] \in Callers
    OBVIOUS
  <2> QED
    BY <1>3, <2>1 DEF Disconnect
<1>4. CASE Unread \/ Answer
    BY <1>3, <1>4 DEF Unread, Answer
<1>5. CASE SeeTerm
    BY <1>3, <1>5 DEF SeeTerm, callers
<1>6. CASE Exit
    BY <1>6 DEF Exit
<1>7. CASE UNCHANGED <<cpc, backlog, serving>>
    BY <1>7
<1> QED
    BY <1>1, <1>2, <1>4, <1>5, <1>6, <1>7
    DEF Next, Daemon, Refuse, Begin, Work, GestureDone, QueryDone, ShutdownDone, NotShared, Reply,
        Grace, SeeClosed, Teardown, Restart, Close, callers, loop, vars

\* What callers do does not touch the request that is being carried out.
LEMMA CallersLeaveIt ==
    ASSUME TypeOK, Inductive, NEW c \in Callers, Caller(c), serving # None
    PROVE  /\ UNCHANGED <<input, dpc, serving, response, history>>
           /\ kind'[serving] = kind[serving]
           /\ dpc # "reading" => (Stale(serving))' = Stale(serving)
<1>1. serving \in Callers /\ cpc[serving] # "idle"
    BY DEF TypeOK, Inductive, QueueFits
<1>2. CASE Ask(c)
    BY <1>1, <1>2 DEF Ask, TypeOK, Stale
<1>3. CASE Written(c)
    BY <1>1, <1>3 DEF Written, TypeOK, Stale, loop, Present
<1>4. CASE Expire(c)
    BY <1>1, <1>4 DEF Expire, TypeOK, Stale, loop, Begun
<1>5. CASE Go(c)
    BY <1>1, <1>5 DEF Go, TypeOK, Stale, loop, Begun
<1> QED
    BY <1>2, <1>3, <1>4, <1>5 DEF Caller

\* A gesture that has begun has made the calls it has not left, until one fails.
LEMMA ProgressStep == TypeOK /\ Inductive /\ [Next]_vars => ProgressFits'
<1> SUFFICES ASSUME TypeOK, Inductive, [Next]_vars PROVE ProgressFits'
    OBVIOUS
<1> USE NoneAssumption DEF ProgressFits
<1>i. /\ (dpc \in {"reading", "running", "grace", "writing"}) = (serving # None)
      /\ gesture # "none" => dpc = "running"
      /\ gesture = "none" => todo = <<>>
      /\ ProgressFits
      /\ made \in Nat /\ todo \in Seq(Calls)
    BY DEF Inductive, HeldIsSafe, TypeOK, InputTypeOK
<1>1. CASE \E c \in Callers : Caller(c)
  <2>1. PICK c \in Callers : Caller(c)
    BY <1>1
  <2>2. CASE serving = None
    BY <1>i, <2>1, <2>2 DEF Caller, Ask, Written, Expire, Go, loop, history, input
  <2>3. CASE serving # None
    BY <1>i, <2>1, <2>3, CallersLeaveIt DEF history, input
  <2> QED
    BY <2>2, <2>3
<1>2. CASE Begin
  <2>1. made = 0 /\ made' = 0 /\ gesture = "none" /\ todo = <<>> /\ dpc' = "running"
    BY <1>2, <1>i DEF Begin, history
  <2>2. (~Stale(serving))' /\ kind' = kind /\ serving' = serving
    BY <1>2 DEF Begin, Stale, callers
  <2>3. CASE kind[serving] \in Gestures
    <3>1. Start(kind[serving]) /\ gesture' = kind[serving]
      BY <1>2, <2>3 DEF Begin, Start
    <3>2. gesture' = "up" => held' = {}
      BY <3>1 DEF Start, TypeOK, InputTypeOK
    <3>3. gesture' # "up" /\ ~failed' => todo' = Plan[gesture']
      BY <3>1 DEF Start
    <3>4. gesture' # "up" /\ ~failed' => made' + Len(todo') = Len(Plan[gesture'])
      BY <2>1, <2>3, <3>1, <3>3, PlansAreCalls
    <3>5. gesture' # "none"
      BY <2>3, <3>1, GesturesAre
    <3> QED
      BY <2>1, <2>2, <2>3, <3>1, <3>2, <3>4, <3>5
  <2>4. CASE kind[serving] \notin Gestures
    <3>1. gesture' = "none"
      BY <1>2, <2>1, <2>4 DEF Begin, input
    <3> QED
      BY <2>1, <2>2, <2>4, <3>1
  <2> QED
    BY <2>3, <2>4
<1>3. CASE Work
  <2>1. /\ todo # <<>> /\ gesture' = gesture /\ gesture # "none" /\ dpc' = "running" /\ dpc = "running"
        /\ serving' = serving /\ kind' = kind /\ (Stale(serving))' = Stale(serving)
        /\ made' \in Nat
    BY <1>3, <1>i DEF Work, Call, CallFails, callers, Stale
  <2>2. gesture = "up" => held' = {}
    BY <1>3, <1>i DEF Work, Call, CallFails
  <2>3. gesture # "up" /\ ~failed' => made' + Len(todo') = Len(Plan[gesture])
    <3> SUFFICES ASSUME gesture # "up", ~failed'
                 PROVE  made' + Len(todo') = Len(Plan[gesture])
      OBVIOUS
    <3>1. Call /\ made' = made + 1 /\ todo' = Tail(todo) /\ failed' = failed
      BY <1>3 DEF Work, Call, CallFails
    <3>2. Len(Tail(todo)) = Len(todo) - 1 /\ Len(todo) \in Nat
      BY <1>i, <2>1
    <3>3. made + Len(todo) = Len(Plan[gesture])
      BY <1>i, <2>1, <3>1
    <3>4. Len(todo') = Len(todo) - 1 /\ made \in Nat
      BY <1>i, <3>1, <3>2
    <3>5. ASSUME NEW a \in Nat, NEW b \in Nat PROVE (a + 1) + (b - 1) = a + b
      OBVIOUS
    <3>6. made' + Len(todo') = made + Len(todo)
      BY <3>1, <3>2, <3>4, <3>5
    <3> QED
      BY <3>3, <3>6
  <2> QED
    BY <1>i, <2>1, <2>2, <2>3
<1>4. CASE GestureDone \/ QueryDone \/ ShutdownDone \/ NotShared
  <2>1. gesture' = "none" /\ dpc' \in {"grace", "writing"} /\ (dpc' = "grace" => response' = "error")
    <3>1. CASE GestureDone
      BY <3>1 DEF GestureDone, Finish, Reply
    <3>2. CASE QueryDone
      BY <3>2 DEF QueryDone, Reply, input
    <3>3. CASE ShutdownDone
      BY <3>3 DEF ShutdownDone, Reply, input
    <3>4. CASE NotShared
      BY <3>4 DEF NotShared, Reply
    <3> QED
      BY <1>4, <3>1, <3>2, <3>3, <3>4
  <2> QED
    BY <2>1
<1>5. CASE Accept \/ Refuse \/ Unread
    BY <1>5, <1>i DEF Accept, Refuse, Unread, input, history
<1>6. CASE Grace \/ Answer \/ Exit
    BY <1>6, <1>i DEF Grace, Answer, Exit, input, history
<1>7. CASE SeeClosed \/ SeeTerm
    BY <1>7, <1>i DEF SeeClosed, SeeTerm, Abandon, input, history
<1>8. CASE Teardown \/ Restart
    BY <1>8, <1>i DEF Teardown, ReleaseHeld, Restart, history
<1>9. CASE Close \/ UNCHANGED vars
    BY <1>9, <1>i DEF Close, vars, input, callers, loop, history, Stale
<1> QED
    BY <1>1, <1>2, <1>3, <1>4, <1>5, <1>6, <1>7, <1>8, <1>9 DEF Next, Daemon

\* The answer goes by what was made, and what was made is the caller's own.
LEMMA AnswerStep == TypeOK /\ Inductive /\ [Next]_vars => AnswerFits'
<1> SUFFICES ASSUME TypeOK, Inductive, [Next]_vars PROVE AnswerFits'
    OBVIOUS
<1> USE NoneAssumption DEF AnswerFits
<1>i. /\ (dpc \in {"reading", "running", "grace", "writing"}) = (serving # None)
      /\ gesture # "none" => dpc = "running"
      /\ ProgressFits /\ AnswerFits
      /\ made \in Nat
    BY DEF Inductive, TypeOK
<1>j. /\ made = 0 \/ dpc \in {"running", "grace", "writing"}
      /\ dpc = "running" => ~Stale(serving)
      /\ dpc = "running" /\ kind[serving] \notin Gestures => gesture = "none"
      /\ dpc = "running" /\ kind[serving] \in Gestures => gesture = kind[serving]
      /\ gesture = "none" /\ dpc = "running" => made = 0
    BY <1>i DEF ProgressFits
<1>1. CASE \E c \in Callers : Caller(c)
  <2>1. PICK c \in Callers : Caller(c)
    BY <1>1
  <2>2. CASE serving = None
    BY <1>i, <2>1, <2>2 DEF Caller, Ask, Written, Expire, Go, loop
  <2>3. CASE serving # None
    BY <1>i, <1>j, <2>1, <2>3, CallersLeaveIt DEF history, input
  <2> QED
    BY <2>2, <2>3
<1>2. CASE Begin
    BY <1>2, <1>j DEF Begin, history
<1>3. CASE Work
  <2>1. gesture # "none" /\ dpc = "running" /\ dpc' = "running" /\ UNCHANGED <<callers, serving>>
    BY <1>3 DEF Work, Call, CallFails, Inductive, HeldIsSafe
  <2>2. ~Stale(serving) /\ kind[serving] \in Gestures
    BY <1>j, <2>1
  <2> QED
    BY <2>1, <2>2 DEF callers, Stale
<1>4. CASE GestureDone
  <2>1. /\ (Stale(serving))' = Stale(serving) /\ ~Stale(serving)
        /\ gesture = kind[serving] /\ kind' = kind /\ serving' = serving
        /\ kind[serving] \in Gestures /\ made' = made /\ held' = held /\ response' \in {"ok", "error"}
    BY <1>4, <1>j DEF GestureDone, Finish, Reply, callers, history, Stale
  <2>2. gesture # "none" /\ todo = <<>> /\ (response' = "ok" => ~failed)
    BY <1>4 DEF GestureDone, Finish, Reply
  <2>3. ~failed /\ gesture # "up" => made = Len(Plan[gesture])
    BY <1>i, <2>2 DEF ProgressFits
  <2>4. gesture = "up" => held = {}
    BY <1>i DEF ProgressFits
  <2> QED
    BY <2>1, <2>2, <2>3, <2>4
<1>5. CASE QueryDone
  <2>1. kind[serving] \notin Gestures /\ made = 0 /\ made' = 0 /\ serving' = serving /\ kind' = kind
    BY <1>5, <1>j, GesturesAre DEF QueryDone, Reply, callers
  <2>2. kind[serving] # "up"
    BY <1>5 DEF QueryDone
  <2> QED
    BY <2>1, <2>2
<1>6. CASE ShutdownDone
  <2>1. kind[serving] \notin Gestures /\ made = 0 /\ made' = 0 /\ serving' = serving /\ kind' = kind
    BY <1>6, <1>j, GesturesAre DEF ShutdownDone, Reply, callers, history
  <2>2. kind[serving] # "up"
    BY <1>6 DEF ShutdownDone
  <2> QED
    BY <2>1, <2>2
<1>7. CASE NotShared
  <2>1. /\ gesture \in {"click", "drag", "scroll"} /\ todo = Plan[gesture] /\ ~failed
        /\ made' = made /\ response' = "not_shared"
    BY <1>7 DEF NotShared, Reply, history
  <2>2. made + Len(todo) = Len(todo)
    BY <1>i, <2>1 DEF ProgressFits
  <2>3. Len(todo) \in Nat
    BY DEF TypeOK, InputTypeOK
  <2>4. made = 0
    BY <1>i, <2>2, <2>3
  <2> QED
    BY <2>1, <2>4
<1>8. CASE Accept \/ Refuse
    BY <1>8, <1>i, <1>j DEF Accept, Refuse, history
<1>9. CASE Unread \/ Answer \/ SeeTerm \/ Exit
    BY <1>9, <1>i DEF Unread, Answer, SeeTerm, Exit
<1>10. CASE Grace
    BY <1>10, <1>i DEF Grace, ProgressFits, callers, history, Stale
<1>11. CASE SeeClosed
    BY <1>11, <1>i, <1>j DEF SeeClosed, callers, history, Stale
<1>12. CASE Teardown \/ Restart
    BY <1>12, <1>i DEF Teardown, Restart
<1>13. CASE Close \/ UNCHANGED vars
    BY <1>13, <1>i DEF Close, vars, input, callers, loop, history, Stale
<1> QED
    BY <1>1, <1>2, <1>3, <1>4, <1>5, <1>6, <1>7, <1>8, <1>9, <1>10, <1>11, <1>12, <1>13
    DEF Next, Daemon

\* Every step keeps the invariant.
LEMMA InductiveStep == TypeOK /\ Inductive /\ [Next]_vars => Inductive'
<1> SUFFICES ASSUME TypeOK, Inductive, [Next]_vars PROVE Inductive'
    OBVIOUS
<1>o. QueueFits'
    BY QueueStep
<1>p. ProgressFits'
    BY ProgressStep
<1>q. AnswerFits'
    BY AnswerStep
<1>r. /\ StopIsReported'
      /\ cause' => closed' /\ dpc' \in {"running", "grace", "writing"}
    BY ReportedStep
<1>t. InputSafe
    BY DEF InputSafe, TypeOK, Inductive
<1> DEFINE Loop == /\ (dpc \in {"reading", "running", "grace", "writing"}) = (serving # None)
                   /\ gesture # "none" => dpc = "running"
                   /\ dpc \in {"closing", "exited"} => held = {}
           Safe == HeldIsDown /\ HeldIsSafe
<1> SUFFICES Loop' /\ Safe'
    BY <1>o, <1>p, <1>q, <1>r DEF Inductive
<1>i. UNCHANGED input => Safe'
    BY DEF Inductive, input, HeldIsDown, HeldIsSafe
<1> HIDE DEF Safe
<1> USE NoneAssumption DEF Inductive
<1>1. CASE \E c \in Callers : Caller(c)
    BY <1>1, <1>i DEF Caller, Ask, Written, Expire, Go, loop, input
<1>2. CASE Accept
  <2>1. Head(backlog) \in Callers
    BY <1>2 DEF Accept, TypeOK
  <2> QED
    BY <1>2, <1>i, <2>1 DEF Accept, input
<1>3. CASE Refuse
    BY <1>3, <1>i DEF Refuse, input
<1>4. CASE Begin
  <2>1. CASE UNCHANGED input
    BY <1>4, <1>i, <2>1 DEF Begin, input
  <2>2. CASE kind[serving] \in Gestures /\ Start(kind[serving])
    <3>1. Safe'
      BY <1>t, <2>2, StartIsSafe DEF Safe
    <3> QED
      BY <1>4, <3>1 DEF Begin
  <2> QED
    BY <1>4, <2>1, <2>2 DEF Begin
<1>5. CASE Unread
    BY <1>5, <1>i DEF Unread, input
<1>6. CASE Work
  <2>1. Safe'
    BY <1>6, <1>t, WorkIsSafe DEF Work, Safe
  <2> QED
    BY <1>6, <2>1 DEF Work, Call, CallFails
<1>7. CASE GestureDone
  <2>1. Safe'
    BY <1>7, <1>t, EndIsSafe DEF GestureDone, Safe
  <2> QED
    BY <1>7, <2>1 DEF GestureDone, Finish, Reply
<1>8. CASE QueryDone
    BY <1>8, <1>i DEF QueryDone, Reply, input
<1>9. CASE ShutdownDone
    BY <1>9, <1>i DEF ShutdownDone, Reply, input
<1>10. CASE NotShared
  <2>1. Safe'
    BY <1>10, <1>t, EndIsSafe DEF NotShared, Safe
  <2> QED
    BY <1>10, <2>1 DEF NotShared, Reply
<1>11. CASE Grace
    BY <1>11, <1>i DEF Grace, input
<1>12. CASE SeeClosed
  <2>1. Safe'
    BY <1>12, <1>i, <1>t, EndIsSafe DEF SeeClosed, Safe
  <2> QED
    BY <1>12, <2>1 DEF SeeClosed, Abandon, input
<1>13. CASE SeeTerm
  <2>1. Safe'
    BY <1>13, <1>i, <1>t, EndIsSafe DEF SeeTerm, Safe
  <2> QED
    BY <1>13, <2>1 DEF SeeTerm, Abandon, input
<1>14. CASE Answer
    BY <1>14, <1>i DEF Answer, input
<1>15. CASE Teardown
  <2>1. Safe'
    BY <1>15, <1>t, EndIsSafe DEF Teardown, Safe
  <2> QED
    BY <1>15, <2>1 DEF Teardown, ReleaseHeld
<1>16. CASE Exit
    BY <1>16, <1>i DEF Exit, input
<1>17. CASE Restart
  <2>1. Safe'
    BY <1>17 DEF Restart, Safe, HeldIsDown, HeldIsSafe
  <2> QED
    BY <1>17, <2>1 DEF Restart
<1>18. CASE Close
    BY <1>18, <1>i DEF Close, loop, input
<1>19. CASE UNCHANGED vars
    BY <1>19, <1>i DEF vars, loop, input
<1> QED
    BY <1>1, <1>2, <1>3, <1>4, <1>5, <1>6, <1>7, <1>8, <1>9, <1>10,
       <1>11, <1>12, <1>13, <1>14, <1>15, <1>16, <1>17, <1>18, <1>19 DEF Next, Daemon

\* The two together, at the start and for good.
LEMMA Invariance == Spec => [](TypeOK /\ Inductive)
<1>1. Init => TypeOK /\ Inductive
  <2> SUFFICES ASSUME Init PROVE TypeOK /\ Inductive
    OBVIOUS
  <2>0. <<>> \in Seq(Calls) /\ <<>> \in Seq(Callers)
    OBVIOUS
  <2>1. InputTypeOK /\ HeldIsDown /\ HeldIsSafe
    BY <2>0 DEF Init, InputInit, InputTypeOK, HeldIsDown, HeldIsSafe
  <2>2. TypeOK
    <3>1. /\ cpc \in [Callers -> {"idle", "gone", "garbled"} \cup Present]
          /\ kind \in [Callers -> Kinds]
          /\ late \in [Callers -> BOOLEAN]
      BY DEF Init, Kinds
    <3>2. backlog \in Seq(Callers)
      BY <2>0 DEF Init
    <3> QED
      BY <2>1, <3>1, <3>2 DEF Init, TypeOK, Responses
  <2> QED
    BY <2>1, <2>2 DEF Init, InputInit, Inductive, StopIsReported, QueueFits, ProgressFits, AnswerFits
<1>2. TypeOK /\ Inductive /\ [Next]_vars => (TypeOK /\ Inductive)'
    BY TypeStep, InductiveStep
<1> QED
    BY <1>1, <1>2, PTL DEF Spec

\* Every reachable state is well typed (LivePortalSession, serve_open_session).
THEOREM TypeCorrect == Spec => []TypeOK
    BY Invariance, PTL

\* The invariant holds whoever asks for what, in whichever order (handle_request).
LEMMA InductiveHolds == Spec => []Inductive
    BY Invariance, PTL

\* Whatever fails and whatever is abandoned, a button the session holds is pressed
\* (held_buttons).
THEOREM HeldIsDownHolds == Spec => []HeldIsDown
<1>1. Inductive => HeldIsDown
    BY DEF Inductive
<1> QED
    BY <1>1, InductiveHolds, PTL

\* A request that failed on a closed session is answered with the stop
\* (serve_open_session), whatever comes between the failure and the Closed.
THEOREM StopIsReportedHolds == Spec => []StopIsReported
<1>1. Inductive => StopIsReported
    BY DEF Inductive
<1> QED
    BY <1>1, InductiveHolds, PTL

-----------------------------------------------------------------------------
(* Nothing stays pressed: a ledger, with one column for the left button and  *)
(* one for the keys, of what each gesture has pressed by the time it has so  *)
(* much left to call.  A column is only kept while nothing of its kind was   *)
(* left behind (broken).                                                     *)

Page(rest, button, keys) ==
    /\ todo = rest
    /\ "button" \notin broken => down \cap {Left} = button
    /\ "key" \notin broken => down \ {Left} = keys

\* The page the next state is on.
Turned(rest, button, keys) ==
    /\ todo' = rest
    /\ "button" \notin broken' => down' \cap {Left} = button
    /\ "key" \notin broken' => down' \ {Left} = keys

Both == {"ctrl", "shift"}

Drag1 == <<Press(Left, "first"), Move("body"), Release(Left, "last")>>
Drag2 == <<Move("body"), Release(Left, "last")>>
Drag3 == <<Release(Left, "last")>>

DragPages ==
    \/ Page(Drag, {}, {}) \/ Page(Drag1, {}, {})
    \/ Page(Drag2, {Left}, {}) \/ Page(Drag3, {Left}, {})

Click1 == <<Press("ctrl", "first"), Press("shift", "first"), Press(Left, "body"),
            Release(Left, "body"), Release("shift", "last"), Release("ctrl", "last")>>
Click2 == <<Press("shift", "first"), Press(Left, "body"), Release(Left, "body"),
            Release("shift", "last"), Release("ctrl", "last")>>
Click3 == <<Press(Left, "body"), Release(Left, "body"), Release("shift", "last"),
            Release("ctrl", "last")>>
Click4 == <<Release(Left, "body"), Release("shift", "last"), Release("ctrl", "last")>>
Click5 == <<Release("shift", "last"), Release("ctrl", "last")>>
Click6 == <<Release("ctrl", "last")>>

ClickPages ==
    \/ Page(Click, {}, {}) \/ Page(Click1, {}, {}) \/ Page(Click2, {}, {"ctrl"})
    \/ Page(Click3, {}, Both) \/ Page(Click4, {Left}, Both)
    \/ Page(Click5, {}, Both) \/ Page(Click6, {}, {"ctrl"})

Chord1 == <<Press("v", "first"), Release("v", "first"), Release("ctrl", "first")>>
Chord2 == <<Release("v", "first"), Release("ctrl", "first")>>
Chord3 == <<Release("ctrl", "first")>>

ChordPages ==
    \/ Page(Chord, held, {}) \/ Page(Chord1, held, {"ctrl"})
    \/ Page(Chord2, held, {"ctrl", "v"}) \/ Page(Chord3, held, {"ctrl"})

Scroll1 == <<Move("first")>>

Even == Page(<<>>, held, {})

Ledger ==
    /\ gesture \in Gestures \cup {"none"}
    /\ held \in SUBSET {Left}
    /\ \/ Even
       \/ gesture = "down" /\ held = {} /\ Page(Plan["down"], {}, {})
       \/ gesture = "up" /\ held = {} /\ Page(Plan["up"], {Left}, {})
       \/ gesture = "drag" /\ held = {} /\ DragPages
       \/ gesture = "click" /\ held = {} /\ ClickPages
       \/ gesture = "chord" /\ ChordPages
       \/ gesture = "scroll" /\ (Page(Scroll, held, {}) \/ Page(Scroll1, held, {}))

\* One call after the other.
LEMMA Heads ==
    /\ Head(Drag) = Move("first") /\ Head(Drag1) = Press(Left, "first")
    /\ Head(Drag2) = Move("body") /\ Head(Drag3) = Release(Left, "last")
    /\ Head(Click) = Move("first") /\ Head(Click1) = Press("ctrl", "first")
    /\ Head(Click2) = Press("shift", "first") /\ Head(Click3) = Press(Left, "body")
    /\ Head(Click4) = Release(Left, "body") /\ Head(Click5) = Release("shift", "last")
    /\ Head(Click6) = Release("ctrl", "last")
    /\ Head(Chord) = Press("ctrl", "first") /\ Head(Chord1) = Press("v", "first")
    /\ Head(Chord2) = Release("v", "first") /\ Head(Chord3) = Release("ctrl", "first")
    /\ Head(Scroll) = Move("first") /\ Head(Scroll1) = Move("first")
    /\ Head(Plan["down"]) = Press(Left, "first") /\ Head(Plan["up"]) = Release(Left, "first")
<1>1. \A a, b, c, d, e, f, g :
          /\ Head(<<a>>) = a /\ Head(<<a, b>>) = a /\ Head(<<a, b, c>>) = a
          /\ Head(<<a, b, c, d>>) = a /\ Head(<<a, b, c, d, e>>) = a
          /\ Head(<<a, b, c, d, e, f>>) = a /\ Head(<<a, b, c, d, e, f, g>>) = a
    OBVIOUS
<1>2. Plan["down"] = <<Press(Left, "first")>> /\ Plan["up"] = <<Release(Left, "first")>>
    BY DEF Plan
<1> QED
    BY <1>1, <1>2 DEF Drag, Drag1, Drag2, Drag3, Click, Click1, Click2, Click3, Click4, Click5,
                      Click6, Chord, Chord1, Chord2, Chord3, Scroll, Scroll1

LEMMA Tails ==
    /\ Tail(Drag) = Drag1 /\ Tail(Drag1) = Drag2 /\ Tail(Drag2) = Drag3 /\ Tail(Drag3) = <<>>
    /\ Tail(Click) = Click1 /\ Tail(Click1) = Click2 /\ Tail(Click2) = Click3
    /\ Tail(Click3) = Click4 /\ Tail(Click4) = Click5 /\ Tail(Click5) = Click6
    /\ Tail(Click6) = <<>>
    /\ Tail(Chord) = Chord1 /\ Tail(Chord1) = Chord2 /\ Tail(Chord2) = Chord3
    /\ Tail(Chord3) = <<>>
    /\ Tail(Scroll) = Scroll1 /\ Tail(Scroll1) = <<>>
    /\ Tail(Plan["down"]) = <<>> /\ Tail(Plan["up"]) = <<>>
<1>1. \A a, b, c, d, e, f, g :
          /\ Tail(<<a>>) = <<>> /\ Tail(<<a, b>>) = <<b>> /\ Tail(<<a, b, c>>) = <<b, c>>
          /\ Tail(<<a, b, c, d>>) = <<b, c, d>> /\ Tail(<<a, b, c, d, e>>) = <<b, c, d, e>>
          /\ Tail(<<a, b, c, d, e, f>>) = <<b, c, d, e, f>>
          /\ Tail(<<a, b, c, d, e, f, g>>) = <<b, c, d, e, f, g>>
    OBVIOUS
<1>2. Plan["down"] = <<Press(Left, "first")>> /\ Plan["up"] = <<Release(Left, "first")>>
    BY DEF Plan
<1> QED
    BY <1>1, <1>2 DEF Drag, Drag1, Drag2, Drag3, Click, Click1, Click2, Click3, Click4, Click5,
                      Click6, Chord, Chord1, Chord2, Chord3, Scroll, Scroll1

\* A call that is made moves one page on.
LEMMA Turn ==
    ASSUME NEW rest, NEW button, NEW keys, Page(rest, button, keys), Call
    PROVE  /\ \A k, part : Head(rest) = Press(k, part) /\ k # Left =>
                  Turned(Tail(rest), button, keys \cup {k})
           /\ \A k, part : Head(rest) = Release(k, part) /\ k # Left =>
                  Turned(Tail(rest), button, keys \ {k})
           /\ \A part : Head(rest) = Press(Left, part) => Turned(Tail(rest), {Left}, keys)
           /\ \A part : Head(rest) = Release(Left, part) => Turned(Tail(rest), {}, keys)
           /\ \A part : Head(rest) = Move(part) => Turned(Tail(rest), button, keys)
<1> USE DEF Page, Turned
<1>1. todo = rest /\ todo' = Tail(rest) /\ broken' = broken /\ down' = After(Head(rest))
    BY DEF Call
<1>2. ASSUME NEW k, NEW part, Head(rest) = Press(k, part), k # Left
      PROVE  Turned(Tail(rest), button, keys \cup {k})
  <2>1. down' = down \cup {k}
    BY <1>1, <1>2 DEF After, Press
  <2> QED
    BY <1>1, <1>2, <2>1
<1>3. ASSUME NEW k, NEW part, Head(rest) = Release(k, part), k # Left
      PROVE  Turned(Tail(rest), button, keys \ {k})
  <2>1. down' = down \ {k}
    BY <1>1, <1>3 DEF After, Release
  <2> QED
    BY <1>1, <1>3, <2>1
<1>4. ASSUME NEW part, Head(rest) = Press(Left, part) PROVE Turned(Tail(rest), {Left}, keys)
  <2>1. down' = down \cup {Left}
    BY <1>1, <1>4 DEF After, Press
  <2> QED
    BY <1>1, <2>1
<1>5. ASSUME NEW part, Head(rest) = Release(Left, part) PROVE Turned(Tail(rest), {}, keys)
  <2>1. down' = down \ {Left}
    BY <1>1, <1>5 DEF After, Release
  <2> QED
    BY <1>1, <2>1
<1>6. ASSUME NEW part, Head(rest) = Move(part) PROVE Turned(Tail(rest), button, keys)
  <2>1. down' = down
    BY <1>1, <1>6 DEF After, Move
  <2> QED
    BY <1>1, <2>1
<1> QED
    BY <1>2, <1>3, <1>4, <1>5, <1>6

\* One that fails leaves what is pressed as it is, and may spoil a column.
LEMMA Cut ==
    ASSUME NEW rest, NEW button, NEW keys, Page(rest, button, keys), CallFails
    PROVE  /\ Turned(AfterFailure(Head(rest)), button, keys)
           /\ Leaves(Head(rest)) \subseteq broken'
    BY DEF Page, Turned, CallFails

LEMMA WhatFails ==
    /\ \A part : part # "body" =>
          /\ AfterFailure(Move(part)) = <<>>
          /\ \A k : AfterFailure(Press(k, part)) = <<>> /\ AfterFailure(Release(k, part)) = <<>>
    /\ \A k : AfterFailure(Press(k, "body")) = LastPart(gesture)
    /\ \A k : AfterFailure(Release(k, "body")) = LastPart(gesture)
    /\ AfterFailure(Move("body")) = LastPart(gesture)
    /\ \A part : Leaves(Release(Left, part)) = {"button"}
    /\ \A part, k : k # Left => Leaves(Release(k, part)) = {"key"}
    /\ \A part, k : k \in Later => Leaves(Press(k, part)) = {"key"}
    /\ LastPart("click") = Click5 /\ LastPart("drag") = Drag3
    BY DEF AfterFailure, Leaves, Kind, Later, Move, Press, Release, LastPart, Click5, Drag3

\* A spoiled column says nothing.
LEMMA Spoiled ==
    ASSUME NEW rest, NEW button, NEW keys, NEW b, NEW k, Turned(rest, b, k),
           b = button \/ "button" \in broken', k = keys \/ "key" \in broken'
    PROVE  Turned(rest, button, keys)
    BY DEF Turned

LEMMA KeySets ==
    /\ {} \cup {"ctrl"} = {"ctrl"} /\ {"ctrl"} \ {"ctrl"} = {}
    /\ {"ctrl"} \cup {"shift"} = Both /\ Both \ {"shift"} = {"ctrl"}
    /\ {"ctrl"} \cup {"v"} = {"ctrl", "v"} /\ {"ctrl", "v"} \ {"v"} = {"ctrl"}
    BY DEF Both

\* A page of its own is where every gesture starts.
LEMMA StartBalances ==
    ASSUME Ledger, gesture = "none", NEW g \in Gestures, Start(g)
    PROVE  Ledger'
<1>1. Even /\ held \in SUBSET {Left} /\ gesture' = g /\ down' = down /\ broken' = broken
    BY DEF Ledger, Start
<1>2. held' \in SUBSET {Left}
    BY <1>1 DEF Start
<1>3. CASE Refused(g) \/ (g = "up" /\ Left \notin held)
  <2>1. todo' = <<>> /\ held' = held
    BY <1>1, <1>3 DEF Start, Refused
  <2>2. Even'
    BY <1>1, <2>1 DEF Even, Page
  <2> QED
    BY <1>1, <1>2, <2>2 DEF Ledger
<1>4. CASE ~Refused(g) /\ (g = "up" => held = {Left})
  <2>1. todo' = Plan[g]
    BY <1>4 DEF Start
  <2>2. g \in {"down", "click", "drag", "up"} => held' = {}
    BY <1>1, <1>4 DEF Start, Refused
  <2>3. g \in {"chord", "scroll"} => held' = held
    BY DEF Start
  <2>4. g \in {"down", "click", "drag"} => held = {}
    BY <1>1, <1>4 DEF Refused
  <2>5. /\ "button" \notin broken' => down' \cap {Left} = held
        /\ "key" \notin broken' => down' \ {Left} = {}
    BY <1>1 DEF Even, Page
  <2>6. /\ Plan["drag"] = Drag /\ Plan["click"] = Click
        /\ Plan["chord"] = Chord /\ Plan["scroll"] = Scroll
    BY DEF Plan
  <2>7. CASE g = "down"
    <3>1. Page(Plan["down"], {}, {})'
      BY <2>1, <2>4, <2>5, <2>7 DEF Page
    <3> QED
      BY <1>1, <1>2, <2>2, <2>7, <3>1 DEF Ledger
  <2>8. CASE g = "up"
    <3>1. Page(Plan["up"], {Left}, {})'
      BY <1>4, <2>1, <2>5, <2>8 DEF Page
    <3> QED
      BY <1>1, <1>2, <2>2, <2>8, <3>1 DEF Ledger
  <2>9. CASE g = "drag"
    <3>1. Page(Drag, {}, {})'
      BY <2>1, <2>4, <2>5, <2>6, <2>9 DEF Page
    <3> QED
      BY <1>1, <1>2, <2>2, <2>9, <3>1 DEF Ledger, DragPages
  <2>10. CASE g = "click"
    <3>1. Page(Click, {}, {})'
      BY <2>1, <2>4, <2>5, <2>6, <2>10 DEF Page
    <3> QED
      BY <1>1, <1>2, <2>2, <2>10, <3>1 DEF Ledger, ClickPages
  <2>11. CASE g = "chord"
    <3>1. Page(Chord, held, {})'
      BY <2>1, <2>3, <2>5, <2>6, <2>11 DEF Page
    <3> QED
      BY <1>1, <1>2, <2>11, <3>1 DEF Ledger, ChordPages
  <2>12. CASE g = "scroll"
    <3>1. Page(Scroll, held, {})'
      BY <2>1, <2>3, <2>5, <2>6, <2>12 DEF Page
    <3> QED
      BY <1>1, <1>2, <2>12, <3>1 DEF Ledger
  <2> QED
    BY <2>7, <2>8, <2>9, <2>10, <2>11, <2>12, GesturesAre
<1> QED
    BY <1>1, <1>3, <1>4

\* What a call of each gesture leaves.
LEMMA DragTurns ==
    ASSUME DragPages, gesture = "drag", Call \/ CallFails
    PROVE  \/ Turned(<<>>, {}, {})
           \/ Turned(Drag1, {}, {}) \/ Turned(Drag2, {Left}, {}) \/ Turned(Drag3, {Left}, {})
<1>1. CASE Page(Drag, {}, {})
  <2>1. Call => Turned(Drag1, {}, {})
    BY <1>1, Turn, Heads, Tails
  <2>2. CallFails => Turned(<<>>, {}, {})
    BY <1>1, Cut, Heads, WhatFails, Spoiled DEF Later
  <2> QED
    BY <2>1, <2>2
<1>2. CASE Page(Drag1, {}, {})
  <2>1. Call => Turned(Drag2, {Left}, {})
    BY <1>2, Turn, Heads, Tails
  <2>2. CallFails => Turned(<<>>, {}, {})
    BY <1>2, Cut, Heads, WhatFails, Spoiled DEF Later
  <2> QED
    BY <2>1, <2>2
<1>3. CASE Page(Drag2, {Left}, {})
  <2>1. Call => Turned(Drag3, {Left}, {})
    BY <1>3, Turn, Heads, Tails
  <2>2. CallFails => Turned(Drag3, {Left}, {})
    BY <1>3, Cut, Heads, WhatFails, Spoiled DEF Later
  <2> QED
    BY <2>1, <2>2
<1>4. CASE Page(Drag3, {Left}, {})
  <2>1. Call => Turned(<<>>, {}, {})
    BY <1>4, Turn, Heads, Tails
  <2>2. ASSUME CallFails PROVE Turned(<<>>, {}, {})
    <3>1. AfterFailure(Head(Drag3)) = <<>> /\ Leaves(Head(Drag3)) = {"button"}
      BY Heads, WhatFails
    <3>2. Turned(<<>>, {Left}, {}) /\ "button" \in broken'
      BY <1>4, <2>2, <3>1, Cut
    <3> QED
      BY <3>2, Spoiled
  <2> QED
    BY <2>1, <2>2
<1> QED
    BY <1>1, <1>2, <1>3, <1>4 DEF DragPages

LEMMA ClickTurns ==
    ASSUME ClickPages, gesture = "click", Call \/ CallFails
    PROVE  \/ Turned(<<>>, {}, {})
           \/ Turned(Click1, {}, {}) \/ Turned(Click2, {}, {"ctrl"}) \/ Turned(Click3, {}, Both)
           \/ Turned(Click4, {Left}, Both) \/ Turned(Click5, {}, Both)
           \/ Turned(Click6, {}, {"ctrl"})
<1>1. CASE Page(Click, {}, {})
  <2>1. Call => Turned(Click1, {}, {})
    BY <1>1, Turn, Heads, Tails
  <2>2. CallFails => Turned(<<>>, {}, {})
    BY <1>1, Cut, Heads, WhatFails, Spoiled DEF Later
  <2> QED
    BY <2>1, <2>2
<1>2. CASE Page(Click1, {}, {})
  <2>1. ASSUME Call PROVE Turned(Click2, {}, {"ctrl"})
    <3>1. Turned(Tail(Click1), {}, {} \cup {"ctrl"})
      BY <1>2, <2>1, Turn, Heads
    <3> QED
      BY <3>1, Tails, KeySets
  <2>2. CallFails => Turned(<<>>, {}, {})
    BY <1>2, Cut, Heads, WhatFails, Spoiled DEF Later
  <2> QED
    BY <2>1, <2>2
<1>3. CASE Page(Click2, {}, {"ctrl"})
  <2>1. ASSUME Call PROVE Turned(Click3, {}, Both)
    <3>1. Turned(Tail(Click2), {}, {"ctrl"} \cup {"shift"})
      BY <1>3, <2>1, Turn, Heads
    <3> QED
      BY <3>1, Tails, KeySets
  <2>2. CallFails => Turned(<<>>, {}, {})
    BY <1>3, Cut, Heads, WhatFails, Spoiled DEF Later
  <2> QED
    BY <2>1, <2>2
<1>4. CASE Page(Click3, {}, Both)
  <2>1. Call => Turned(Click4, {Left}, Both)
    BY <1>4, Turn, Heads, Tails
  <2>2. CallFails => Turned(Click5, {}, Both)
    BY <1>4, Cut, Heads, WhatFails, Spoiled DEF Later
  <2> QED
    BY <2>1, <2>2
<1>5. CASE Page(Click4, {Left}, Both)
  <2>1. Call => Turned(Click5, {}, Both)
    BY <1>5, Turn, Heads, Tails
  <2>2. CallFails => Turned(Click5, {}, Both)
    BY <1>5, Cut, Heads, WhatFails, Spoiled DEF Later
  <2> QED
    BY <2>1, <2>2
<1>6. CASE Page(Click5, {}, Both)
  <2>1. ASSUME Call PROVE Turned(Click6, {}, {"ctrl"})
    <3>1. Turned(Tail(Click5), {}, Both \ {"shift"})
      BY <1>6, <2>1, Turn, Heads
    <3> QED
      BY <3>1, Tails, KeySets
  <2>2. CallFails => Turned(<<>>, {}, {})
    BY <1>6, Cut, Heads, WhatFails, Spoiled DEF Later
  <2> QED
    BY <2>1, <2>2
<1>7. CASE Page(Click6, {}, {"ctrl"})
  <2>1. ASSUME Call PROVE Turned(<<>>, {}, {})
    <3>1. Turned(Tail(Click6), {}, {"ctrl"} \ {"ctrl"})
      BY <1>7, <2>1, Turn, Heads
    <3> QED
      BY <3>1, Tails, KeySets
  <2>2. CallFails => Turned(<<>>, {}, {})
    BY <1>7, Cut, Heads, WhatFails, Spoiled DEF Later
  <2> QED
    BY <2>1, <2>2
<1> QED
    BY <1>1, <1>2, <1>3, <1>4, <1>5, <1>6, <1>7 DEF ClickPages

LEMMA ChordTurns ==
    ASSUME ChordPages, Call \/ CallFails
    PROVE  \/ Turned(<<>>, held, {})
           \/ Turned(Chord1, held, {"ctrl"}) \/ Turned(Chord2, held, {"ctrl", "v"})
           \/ Turned(Chord3, held, {"ctrl"})
<1>1. CASE Page(Chord, held, {})
  <2>1. ASSUME Call PROVE Turned(Chord1, held, {"ctrl"})
    <3>1. Turned(Tail(Chord), held, {} \cup {"ctrl"})
      BY <1>1, <2>1, Turn, Heads
    <3> QED
      BY <3>1, Tails, KeySets
  <2>2. CallFails => Turned(<<>>, held, {})
    BY <1>1, Cut, Heads, WhatFails, Spoiled DEF Later
  <2> QED
    BY <2>1, <2>2
<1>2. CASE Page(Chord1, held, {"ctrl"})
  <2>1. ASSUME Call PROVE Turned(Chord2, held, {"ctrl", "v"})
    <3>1. Turned(Tail(Chord1), held, {"ctrl"} \cup {"v"})
      BY <1>2, <2>1, Turn, Heads
    <3> QED
      BY <3>1, Tails, KeySets
  <2>2. CallFails => Turned(<<>>, held, {})
    BY <1>2, Cut, Heads, WhatFails, Spoiled DEF Later
  <2> QED
    BY <2>1, <2>2
<1>3. CASE Page(Chord2, held, {"ctrl", "v"})
  <2>1. ASSUME Call PROVE Turned(Chord3, held, {"ctrl"})
    <3>1. Turned(Tail(Chord2), held, {"ctrl", "v"} \ {"v"})
      BY <1>3, <2>1, Turn, Heads
    <3> QED
      BY <3>1, Tails, KeySets
  <2>2. CallFails => Turned(<<>>, held, {})
    BY <1>3, Cut, Heads, WhatFails, Spoiled DEF Later
  <2> QED
    BY <2>1, <2>2
<1>4. CASE Page(Chord3, held, {"ctrl"})
  <2>1. ASSUME Call PROVE Turned(<<>>, held, {})
    <3>1. Turned(Tail(Chord3), held, {"ctrl"} \ {"ctrl"})
      BY <1>4, <2>1, Turn, Heads
    <3> QED
      BY <3>1, Tails, KeySets
  <2>2. CallFails => Turned(<<>>, held, {})
    BY <1>4, Cut, Heads, WhatFails, Spoiled DEF Later
  <2> QED
    BY <2>1, <2>2
<1> QED
    BY <1>1, <1>2, <1>3, <1>4 DEF ChordPages

\* A call that is made turns the page, and one that fails closes the book, or goes
\* to the last page.
LEMMA CallBalances ==
    ASSUME Ledger, gesture # "none", Call \/ CallFails
    PROVE  Ledger'
<1>1. gesture' = gesture /\ gesture \in Gestures /\ held \in SUBSET {Left} /\ todo # <<>>
    BY DEF Ledger, Call, CallFails
<1>2. gesture # "down" => held' = held
    BY DEF Call, CallFails
<1>3. ~Even
    BY <1>1 DEF Even, Page
<1>4. CASE gesture = "down"
  <2>1. held = {} /\ Page(Plan["down"], {}, {})
    BY <1>3, <1>4 DEF Ledger
  <2>2. Call => Turned(<<>>, {Left}, {}) /\ held' = {Left}
    BY <1>4, <2>1, Turn, Heads, Tails DEF Call
  <2>3. CallFails => Turned(<<>>, {}, {}) /\ held' = {}
    BY <2>1, Cut, Heads, WhatFails DEF CallFails
  <2>4. Even' /\ held' \in SUBSET {Left}
    BY <2>2, <2>3 DEF Even, Page, Turned
  <2> QED
    BY <1>1, <2>4 DEF Ledger
<1>5. CASE gesture = "up"
  <2>1. held = {} /\ held' = {} /\ Page(Plan["up"], {Left}, {})
    BY <1>2, <1>3, <1>5 DEF Ledger
  <2>2. Call => Turned(<<>>, {}, {})
    BY <2>1, Turn, Heads, Tails
  <2>3. ASSUME CallFails PROVE Turned(<<>>, {}, {})
    <3>1. Turned(<<>>, {Left}, {}) /\ "button" \in broken'
      BY <2>1, <2>3, Cut, Heads, WhatFails
    <3> QED
      BY <3>1, Spoiled
  <2>4. Even'
    BY <2>1, <2>2, <2>3 DEF Even, Page, Turned
  <2> QED
    BY <1>1, <2>1, <2>4 DEF Ledger
<1>6. CASE gesture = "drag"
  <2>1. held = {} /\ held' = {} /\ DragPages
    BY <1>2, <1>3, <1>6 DEF Ledger
  <2>2. (Even \/ DragPages)'
    BY <1>6, <2>1, DragTurns DEF Even, DragPages, Page, Turned
  <2> QED
    BY <1>1, <1>6, <2>1, <2>2 DEF Ledger
<1>7. CASE gesture = "click"
  <2>1. held = {} /\ held' = {} /\ ClickPages
    BY <1>2, <1>3, <1>7 DEF Ledger
  <2>2. (Even \/ ClickPages)'
    BY <1>7, <2>1, ClickTurns DEF Even, ClickPages, Page, Turned
  <2> QED
    BY <1>1, <1>7, <2>1, <2>2 DEF Ledger
<1>8. CASE gesture = "chord"
  <2>1. held' = held /\ ChordPages
    BY <1>2, <1>3, <1>8 DEF Ledger
  <2>2. (Even \/ ChordPages)'
    BY <2>1, ChordTurns DEF Even, ChordPages, Page, Turned
  <2> QED
    BY <1>1, <1>8, <2>1, <2>2 DEF Ledger
<1>9. CASE gesture = "scroll"
  <2>1. held' = held /\ (Page(Scroll, held, {}) \/ Page(Scroll1, held, {}))
    BY <1>2, <1>3, <1>9 DEF Ledger
  <2>2. Call => Turned(Scroll1, held, {}) \/ Turned(<<>>, held, {})
    BY <2>1, Turn, Heads, Tails
  <2>3. CallFails => Turned(<<>>, held, {})
    BY <2>1, Cut, Heads, WhatFails
  <2>4. (Even \/ Page(Scroll1, held, {}))'
    BY <2>1, <2>2, <2>3 DEF Even, Page, Turned
  <2> QED
    BY <1>1, <1>9, <2>1, <2>4 DEF Ledger
<1> QED
    BY <1>1, <1>4, <1>5, <1>6, <1>7, <1>8, <1>9, GesturesAre

\* A gesture that has made no call has pressed nothing.
LEMMA StartsEven ==
    ASSUME Ledger, gesture \in {"click", "drag", "scroll"}, todo = Plan[gesture]
    PROVE  Page(todo, held, {})
<1>1. todo # <<>> /\ ~Even
    BY DEF Plan, Click, Drag, Scroll, Even, Page
<1>2. CASE gesture = "scroll"
    BY <1>1, <1>2 DEF Ledger, Page
<1>3. CASE gesture = "click"
  <2>1. held = {} /\ ClickPages /\ Len(todo) = 7
    BY <1>1, <1>3 DEF Ledger, Plan, Click
  <2>2. \/ todo = Click1 \/ todo = Click2 \/ todo = Click3 \/ todo = Click4 \/ todo = Click5
        \/ todo = Click6 \/ Page(Click, {}, {})
    BY <2>1 DEF ClickPages, Page
  <2>3. /\ Len(Click1) = 6 /\ Len(Click2) = 5 /\ Len(Click3) = 4 /\ Len(Click4) = 3
        /\ Len(Click5) = 2 /\ Len(Click6) = 1
    BY DEF Click1, Click2, Click3, Click4, Click5, Click6
  <2> QED
    BY <2>1, <2>2, <2>3 DEF Page
<1>4. CASE gesture = "drag"
  <2>1. held = {} /\ DragPages /\ Len(todo) = 4
    BY <1>1, <1>4 DEF Ledger, Plan, Drag
  <2>2. todo = Drag1 \/ todo = Drag2 \/ todo = Drag3 \/ Page(Drag, {}, {})
    BY <2>1 DEF DragPages, Page
  <2>3. Len(Drag1) = 3 /\ Len(Drag2) = 2 /\ Len(Drag3) = 1
    BY DEF Drag1, Drag2, Drag3
  <2> QED
    BY <2>1, <2>2, <2>3 DEF Page
<1> QED
    BY <1>2, <1>3, <1>4

\* A gesture whose screen is not shared closes the book where it is.
LEMMA EndBalances ==
    ASSUME Ledger, Page(todo, held, {}), todo' = <<>>, gesture' = "none",
           UNCHANGED <<held, down, broken>>
    PROVE  Ledger'
<1>1. Even'
    BY DEF Even, Page
<1> QED
    BY <1>1 DEF Ledger

\* What a gesture still has to press or release.
LEMMA TouchedIs ==
    \A calls : \A i \in DOMAIN calls :
        calls[i].do # "move" => Kind(calls[i].key) \in Touched(calls)
    BY DEF Touched

LEMMA PagesTouch ==
    /\ "button" \in Touched(Drag2) /\ "button" \in Touched(Drag3)
    /\ "button" \in Touched(Click4) /\ "button" \in Touched(Plan["up"])
    /\ "key" \in Touched(Click2) /\ "key" \in Touched(Click3) /\ "key" \in Touched(Click4)
    /\ "key" \in Touched(Click5) /\ "key" \in Touched(Click6)
    /\ "key" \in Touched(Chord1) /\ "key" \in Touched(Chord2) /\ "key" \in Touched(Chord3)
<1>1. ASSUME NEW calls, NEW i \in DOMAIN calls, NEW part, calls[i] = Release(Left, part)
      PROVE  "button" \in Touched(calls)
    BY <1>1, TouchedIs DEF Release, Kind
<1>2. ASSUME NEW calls, NEW i \in DOMAIN calls, NEW part, calls[i] = Release("ctrl", part)
      PROVE  "key" \in Touched(calls)
    BY <1>2, TouchedIs DEF Release, Kind
<1>3. /\ 2 \in DOMAIN Drag2 /\ Drag2[2] = Release(Left, "last")
      /\ 1 \in DOMAIN Drag3 /\ Drag3[1] = Release(Left, "last")
      /\ 1 \in DOMAIN Click4 /\ Click4[1] = Release(Left, "body")
    BY DEF Drag2, Drag3, Click4
<1>4. 1 \in DOMAIN Plan["up"] /\ Plan["up"][1] = Release(Left, "first")
    BY DEF Plan
<1>5. /\ 5 \in DOMAIN Click2 /\ Click2[5] = Release("ctrl", "last")
      /\ 4 \in DOMAIN Click3 /\ Click3[4] = Release("ctrl", "last")
      /\ 3 \in DOMAIN Click4 /\ Click4[3] = Release("ctrl", "last")
    BY DEF Click2, Click3, Click4
<1>6. /\ 2 \in DOMAIN Click5 /\ Click5[2] = Release("ctrl", "last")
      /\ 1 \in DOMAIN Click6 /\ Click6[1] = Release("ctrl", "last")
    BY DEF Click5, Click6
<1>7. /\ 3 \in DOMAIN Chord1 /\ Chord1[3] = Release("ctrl", "first")
      /\ 2 \in DOMAIN Chord2 /\ Chord2[2] = Release("ctrl", "first")
      /\ 1 \in DOMAIN Chord3 /\ Chord3[1] = Release("ctrl", "first")
    BY DEF Chord1, Chord2, Chord3
<1>8. /\ "button" \in Touched(Drag2) /\ "button" \in Touched(Drag3)
      /\ "button" \in Touched(Click4) /\ "button" \in Touched(Plan["up"])
    BY <1>1, <1>3, <1>4
<1>9. /\ "key" \in Touched(Click2) /\ "key" \in Touched(Click3) /\ "key" \in Touched(Click4)
      /\ "key" \in Touched(Click5) /\ "key" \in Touched(Click6)
    BY <1>2, <1>5, <1>6
<1>10. "key" \in Touched(Chord1) /\ "key" \in Touched(Chord2) /\ "key" \in Touched(Chord3)
    BY <1>2, <1>7
<1> QED
    BY <1>8, <1>9, <1>10

\* Whatever is pressed in the middle of a gesture, the gesture still has to release.
LEMMA OpenIsTouched ==
    ASSUME Ledger
    PROVE  \E button, keys :
              /\ Page(todo, button, keys)
              /\ button = held \/ "button" \in Touched(todo)
              /\ keys = {} \/ "key" \in Touched(todo)
<1> DEFINE Fits(button, keys) == /\ Page(todo, button, keys)
                                 /\ button = held \/ "button" \in Touched(todo)
                                 /\ keys = {} \/ "key" \in Touched(todo)
<1> SUFFICES \E button, keys : Fits(button, keys)
    OBVIOUS
<1>0. \A rest, button, keys : Page(rest, button, keys) => todo = rest /\ Page(todo, button, keys)
    BY DEF Page
<1> HIDE DEF Fits
<1>1. CASE Even
  <2>1. Fits(held, {})
    BY <1>0, <1>1 DEF Fits, Even
  <2> QED
    BY <2>1
<1>2. CASE gesture = "down" /\ held = {} /\ Page(Plan["down"], {}, {})
  <2>1. Fits({}, {})
    BY <1>0, <1>2 DEF Fits
  <2> QED
    BY <2>1
<1>3. CASE gesture = "up" /\ held = {} /\ Page(Plan["up"], {Left}, {})
  <2>1. Fits({Left}, {})
    BY <1>0, <1>3, PagesTouch DEF Fits
  <2> QED
    BY <2>1
<1>4. CASE gesture = "drag" /\ held = {} /\ DragPages
  <2>1. Fits({}, {}) \/ Fits({Left}, {})
    BY <1>0, <1>4, PagesTouch DEF Fits, DragPages
  <2> QED
    BY <2>1
<1>5. CASE gesture = "click" /\ held = {} /\ ClickPages
  <2>1. Page(Click, {}, {}) \/ Page(Click1, {}, {}) => Fits({}, {})
    BY <1>0, <1>5 DEF Fits
  <2>2. Page(Click2, {}, {"ctrl"}) \/ Page(Click6, {}, {"ctrl"}) => Fits({}, {"ctrl"})
    BY <1>0, <1>5, PagesTouch DEF Fits
  <2>3. Page(Click3, {}, Both) \/ Page(Click5, {}, Both) => Fits({}, Both)
    BY <1>0, <1>5, PagesTouch DEF Fits
  <2>4. Page(Click4, {Left}, Both) => Fits({Left}, Both)
    BY <1>0, <1>5, PagesTouch DEF Fits
  <2> QED
    BY <1>5, <2>1, <2>2, <2>3, <2>4 DEF ClickPages
<1>6. CASE gesture = "chord" /\ ChordPages
  <2>1. Page(Chord, held, {}) => Fits(held, {})
    BY <1>0 DEF Fits
  <2>2. Page(Chord1, held, {"ctrl"}) \/ Page(Chord3, held, {"ctrl"}) => Fits(held, {"ctrl"})
    BY <1>0, PagesTouch DEF Fits
  <2>3. Page(Chord2, held, {"ctrl", "v"}) => Fits(held, {"ctrl", "v"})
    BY <1>0, PagesTouch DEF Fits
  <2> QED
    BY <1>6, <2>1, <2>2, <2>3 DEF ChordPages
<1>7. CASE gesture = "scroll" /\ (Page(Scroll, held, {}) \/ Page(Scroll1, held, {}))
  <2>1. Fits(held, {})
    BY <1>0, <1>7 DEF Fits
  <2> QED
    BY <2>1
<1> QED
    BY <1>1, <1>2, <1>3, <1>4, <1>5, <1>6, <1>7 DEF Ledger

\* A gesture that is cut short spoils the columns it still had to balance.
LEMMA AbandonBalances ==
    ASSUME Ledger, Abandon, todo \in Seq(Calls)
    PROVE  Ledger'
<1>1. todo' = <<>> /\ held' = held /\ gesture' = "none" /\ broken' = broken \cup Touched(todo)
    BY DEF Abandon
<1>2. PICK button, keys : /\ Page(todo, button, keys)
                          /\ button = held \/ "button" \in Touched(todo)
                          /\ keys = {} \/ "key" \in Touched(todo)
    BY OpenIsTouched
<1>3. /\ "button" \in Touched(todo) \/ down' \cap {Left} = down \cap {Left}
      /\ "key" \in Touched(todo) \/ down' \ {Left} = down \ {Left}
  <2>1. CASE down' = down
    BY <2>1
  <2>2. CASE todo # <<>> /\ down' = After(Head(todo))
    <3>1. 1 \in DOMAIN todo /\ todo[1] = Head(todo)
      BY <2>2
    <3>2. Head(todo).do # "move" => Kind(Head(todo).key) \in Touched(todo)
      BY <3>1, TouchedIs
    <3>3. CASE Head(todo).do \notin {"press", "release"}
      BY <2>2, <3>3 DEF After
    <3>4. CASE Head(todo).do \in {"press", "release"} /\ Head(todo).key = Left
      BY <2>2, <3>2, <3>4 DEF After, Kind
    <3>5. CASE Head(todo).do \in {"press", "release"} /\ Head(todo).key # Left
      BY <2>2, <3>2, <3>5 DEF After, Kind
    <3> QED
      BY <3>3, <3>4, <3>5
  <2> QED
    BY <2>1, <2>2 DEF Abandon
<1>4. Even'
    BY <1>1, <1>2, <1>3 DEF Even, Page
<1> QED
    BY <1>1, <1>4 DEF Ledger

\* The ledger balances after every step, in the columns that are still kept.
LEMMA LedgerStep == TypeOK /\ Inductive /\ Ledger /\ [Next]_vars => Ledger'
<1> SUFFICES ASSUME TypeOK, Inductive, Ledger, [Next]_vars PROVE Ledger'
    OBVIOUS
<1>0. gesture = "none" => Even
    BY DEF Ledger
<1>1. CASE UNCHANGED input
    BY <1>1 DEF input, Ledger, Even, Page, DragPages, ClickPages, ChordPages
<1>2. CASE Restart
  <2>1. held = {} /\ gesture = "none" /\ todo = <<>>
    BY <1>2 DEF Inductive, HeldIsSafe, Restart
  <2>2. Even' /\ held' = {} /\ gesture' = "none"
    BY <1>2, <2>1 DEF Restart, Even, Page
  <2> QED
    BY <2>2 DEF Ledger
<1>3. CASE Teardown
  <2>1. gesture = "none" /\ todo = <<>> /\ Even /\ held \in SUBSET {Left}
    BY <1>0, <1>3 DEF Inductive, HeldIsSafe, Teardown, Ledger
  <2>2. /\ held' = {} /\ gesture' = gesture /\ todo' = todo /\ down' \in {down \ held, down}
        /\ broken' = IF down' = down \ held THEN broken ELSE broken \cup {"button"}
    BY <1>3 DEF Teardown, ReleaseHeld
  <2>3. CASE down' = down \ held
    <3>1. Even'
      BY <2>1, <2>2, <2>3 DEF Even, Page
    <3> QED
      BY <2>1, <2>2, <3>1 DEF Ledger
  <2>4. CASE down' # down \ held
    <3>1. down' = down /\ "button" \in broken' /\ broken \subseteq broken'
      BY <2>2, <2>4
    <3>2. Even'
      BY <2>1, <2>2, <3>1 DEF Even, Page
    <3> QED
      BY <2>1, <2>2, <3>2 DEF Ledger
  <2> QED
    BY <2>3, <2>4
<1>4. CASE Begin
  <2>1. CASE UNCHANGED input
    BY <1>1, <2>1
  <2>2. CASE kind[serving] \in Gestures /\ Start(kind[serving])
    <3>1. gesture = "none"
      BY <2>2 DEF Start
    <3> QED
      BY <2>2, <3>1, StartBalances
  <2> QED
    BY <1>4, <2>1, <2>2 DEF Begin
<1>5. CASE Work
  <2>1. gesture # "none"
    BY <1>5 DEF Work, Call, CallFails, Inductive, HeldIsSafe
  <2> QED
    BY <1>5, <2>1, CallBalances DEF Work
<1>6. CASE GestureDone
  <2>1. todo = <<>> /\ todo' = todo /\ gesture' = "none" /\ UNCHANGED <<held, down, broken>>
    BY <1>6 DEF GestureDone, Finish
  <2>2. Plan["down"] # <<>> /\ Plan["up"] # <<>> /\ Scroll # <<>> /\ Scroll1 # <<>>
    BY DEF Plan, Scroll, Scroll1
  <2>3. ~DragPages
    BY <2>1 DEF DragPages, Page, Drag, Drag1, Drag2, Drag3
  <2>4. ~ClickPages
    BY <2>1 DEF ClickPages, Page, Click, Click1, Click2, Click3, Click4, Click5, Click6
  <2>5. ~ChordPages
    BY <2>1 DEF ChordPages, Page, Chord, Chord1, Chord2, Chord3
  <2>6. Even
    BY <2>1, <2>2, <2>3, <2>4, <2>5 DEF Ledger, Page
  <2> QED
    BY <2>1, <2>6, EndBalances DEF Even
<1>7. CASE NotShared
  <2>1. todo = Plan[gesture] /\ gesture \in {"click", "drag", "scroll"}
    BY <1>7 DEF NotShared
  <2>2. Page(todo, held, {})
    BY <2>1, StartsEven
  <2> QED
    BY <1>7, <2>2, EndBalances DEF NotShared
<1>8. CASE Abandon
    BY <1>8, AbandonBalances DEF TypeOK, InputTypeOK
<1>9. CASE \E c \in Callers : Caller(c)
    BY <1>1, <1>9 DEF Caller, Ask, Written, Expire, Go
<1> QED
    BY <1>1, <1>2, <1>3, <1>4, <1>5, <1>6, <1>7, <1>8, <1>9
    DEF Next, Daemon, Accept, Refuse, Unread, QueryDone, ShutdownDone, Grace, SeeClosed, SeeTerm,
        Answer, Exit, Close, vars

LEMMA LedgerHolds == Spec => []Ledger
<1>1. Init => Ledger
    BY DEF Init, InputInit, Ledger, Even, Page
<1> QED
    BY <1>1, Invariance, LedgerStep, PTL DEF Spec

\* Between gestures nothing is pressed but the button somebody holds, in either kind
\* nothing was left behind of (LivePortalSession): a release that failed, a key that
\* could not be pressed after others, a gesture cut short.  Whichever other call of
\* whichever gesture fails, what was pressed before it is released.
THEOREM NothingStuckHolds == Spec => []NothingStuck
<1>1. Inductive /\ Ledger => NothingStuck
  <2> SUFFICES ASSUME Ledger, gesture = "none"
               PROVE  /\ "button" \notin broken => (Left \in down <=> Left \in held)
                      /\ "key" \notin broken => down \subseteq {Left}
    BY DEF NothingStuck
  <2>1. Even
    BY DEF Ledger
  <2> QED
    BY <2>1 DEF Even, Page
<1> QED
    BY <1>1, InductiveHolds, LedgerHolds, PTL

\* However many callers there are and whatever fails, a caller that is answered "ok"
\* has had its whole gesture, one that is told the screen is not shared has had none
\* of it, and so has one that went or was late before it came to its turn
\* (handle_request, stale_input_refusal).
THEOREM AnswerIsTrueHolds == Spec => []AnswerIsTrue
<1>1. TypeOK /\ Inductive /\ NothingStuck => AnswerIsTrue
  <2> SUFFICES ASSUME TypeOK, Inductive, NothingStuck, serving # None
               PROVE  /\ (late[serving] \/ cpc[serving] \notin Present) /\ kind[serving] # "up"
                            => made = 0
                      /\ dpc = "writing" /\ response = "not_shared" => made = 0
                      /\ dpc = "writing" /\ response = "ok" /\ kind[serving] \in Gestures =>
                            IF kind[serving] = "up"
                            THEN Left \notin down \/ "button" \in broken
                            ELSE made = Len(Plan[kind[serving]])
    BY DEF AnswerIsTrue
  <2>1. AnswerFits /\ ProgressFits /\ (gesture # "none" => dpc = "running")
    BY DEF Inductive
  <2>2. ASSUME late[serving] \/ cpc[serving] \notin Present, kind[serving] # "up"
        PROVE  made = 0
    <3>1. CASE kind[serving] \in {"query", "shutdown"}
      BY <2>1, <3>1, GesturesAre DEF AnswerFits
    <3>2. CASE kind[serving] \notin {"query", "shutdown"}
      BY <2>1, <2>2, <3>2 DEF AnswerFits, Stale, Injects
    <3> QED
      BY <3>1, <3>2
  <2>3. ASSUME dpc = "writing", kind[serving] = "up", response = "ok"
        PROVE  Left \notin down \/ "button" \in broken
    BY <2>1, <2>3 DEF AnswerFits, NothingStuck
  <2> QED
    BY <2>1, <2>2, <2>3 DEF AnswerFits
<1> QED
    BY <1>1, TypeCorrect, InductiveHolds, NothingStuckHolds, PTL

=============================================================================
