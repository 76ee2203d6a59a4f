---------------------- MODULE SessionLifecycle_proofs ----------------------
(* The safety of SessionLifecycle for every set of daemons and callers: its  *)
(* types, and with one starter at a time no second consent dialog, no marker *)
(* left to refuse a session, and no socket taken for one's own that is not.  *)
EXTENDS SessionLifecycle, TLAPS

USE DEF files, dvars, cvars, history

-----------------------------------------------------------------------------
(* Types. *)

LEMMA TypeStep == TypeOK /\ [Next]_vars => TypeOK'
<1> SUFFICES ASSUME TypeOK, [Next]_vars PROVE TypeOK'
    OBVIOUS
<1> USE NoneAssumption DEF TypeOK, Callers, DaemonPc, Running, Opening, Failing, Serving,
        Stopping, Leaving, CallerPc, StartPc, EndPc, RequestPc, Commands, Requests, Replies,
        Gone, DGoto, CGoto, BeforePidfile
<1>1. ASSUME NEW d \in Daemons, DropOldSocket(d) PROVE TypeOK'
    BY <1>1 DEF DropOldSocket
<1>2. ASSUME NEW d \in Daemons, Bind(d), sockFile = None PROVE TypeOK'
    BY <1>2 DEF Bind, Bound
<1>3. ASSUME NEW d \in Daemons, Bind(d), sockFile # None PROVE TypeOK'
    <2>1. BindFails(d)
        BY <1>3 DEF Bind
    <2> QED
        BY <2>1 DEF BindFails, Die, ReplyTo
<1>4. ASSUME NEW d \in Daemons, WritePid(d) PROVE TypeOK'
    BY <1>4 DEF WritePid
<1>5. ASSUME NEW d \in Daemons, OverlaysUp(d) PROVE TypeOK'
    BY <1>5 DEF OverlaysUp
<1>6. ASSUME NEW d \in Daemons, OverlaysFail(d) PROVE TypeOK'
    BY <1>6 DEF OverlaysFail, Decided
<1>7. ASSUME NEW d \in Daemons, CleanupSocket(d) PROVE TypeOK'
    BY <1>7 DEF CleanupSocket
<1>8. ASSUME NEW d \in Daemons, CleanupPid(d) PROVE TypeOK'
    BY <1>8 DEF CleanupPid, Die, ReplyTo, PidfileWithout
<1>9. ASSUME NEW d \in Daemons, Identify(d) PROVE TypeOK'
    BY <1>9 DEF Identify
<1>10. ASSUME NEW d \in Daemons, Accept(d) PROVE TypeOK'
    BY <1>10 DEF Accept
<1>11. ASSUME NEW d \in Daemons, Handled(d) PROVE TypeOK'
    BY <1>11 DEF Handled, ReplyTo
<1>12. ASSUME NEW d \in Daemons, HandledShutdown(d) PROVE TypeOK'
    BY <1>12 DEF HandledShutdown, ReplyTo, Decided
<1>13. ASSUME NEW d \in Daemons, SeeTerm(d) PROVE TypeOK'
    BY <1>13 DEF SeeTerm, ReplyTo, Decided
<1>14. ASSUME NEW d \in Daemons, SeeClosed(d) PROVE TypeOK'
    BY <1>14 DEF SeeClosed
<1>15. ASSUME NEW d \in Daemons, RecordStop(d) PROVE TypeOK'
    BY <1>15 DEF RecordStop
<1>16. ASSUME NEW d \in Daemons, DropSocket(d) PROVE TypeOK'
    BY <1>16 DEF DropSocket, SocketWithout
<1>17. ASSUME NEW d \in Daemons, DropPid(d) PROVE TypeOK'
    BY <1>17 DEF DropPid, PidfileWithout
<1>18. ASSUME NEW d \in Daemons, ReplyStopped(d) PROVE TypeOK'
    BY <1>18 DEF ReplyStopped, ReplyTo
<1>19. ASSUME NEW d \in Daemons, ShutPortal(d) PROVE TypeOK'
    BY <1>19 DEF ShutPortal
<1>20. ASSUME NEW d \in Daemons, Unlink(d) PROVE TypeOK'
    BY <1>20 DEF Unlink, SocketWithout
<1>21. ASSUME NEW d \in Daemons, Exit(d) PROVE TypeOK'
    BY <1>21 DEF Exit, Die, ReplyTo, PidfileWithout
<1>22. ASSUME NEW d \in Daemons, ConsentGiven(d) PROVE TypeOK'
    BY <1>22 DEF ConsentGiven
<1>23. ASSUME NEW d \in Daemons, ConsentRefused(d) PROVE TypeOK'
    BY <1>23 DEF ConsentRefused
<1>24. ASSUME NEW d \in Daemons, UserStop(d) PROVE TypeOK'
    BY <1>24 DEF UserStop
<1>25. ASSUME NEW d \in Daemons, Crash(d) PROVE TypeOK'
    BY <1>25 DEF Crash, Die, ReplyTo, Decided, Alive
<1>26. ASSUME NEW c \in Callers, StartBegin(c) PROVE TypeOK'
    BY <1>26 DEF StartBegin, Decided
<1>27. ASSUME NEW c \in Callers, StartProbe(c) PROVE TypeOK'
    BY <1>27 DEF StartProbe, Send, Connectable, Alive
<1>28. ASSUME NEW c \in Callers, StartUp(c) PROVE TypeOK'
    BY <1>28 DEF StartUp, StartEnds, Finish
<1>29. ASSUME NEW c \in Callers, StartNoAnswer(c) PROVE TypeOK'
    BY <1>29 DEF StartNoAnswer, Hears, GiveUp, HangUp
<1>30. ASSUME NEW c \in Callers, StartLive(c) PROVE TypeOK'
    BY <1>30 DEF StartLive, Finish, LiveDaemon, Alive
<1>31. ASSUME NEW c \in Callers, StartClear(c) PROVE TypeOK'
    BY <1>31 DEF StartClear, Connectable
<1>32. ASSUME NEW c \in Callers, StartUnmark(c) PROVE TypeOK'
    BY <1>32 DEF StartUnmark, Decided
<1>33. ASSUME NEW c \in Callers, StartSpawn(c) PROVE TypeOK'
    BY <1>33 DEF StartSpawn
<1>34. ASSUME NEW c \in Callers, SpawnFails(c) PROVE TypeOK'
    BY <1>34 DEF SpawnFails, Finish
<1>35. ASSUME NEW c \in Callers, Foreground(c) PROVE TypeOK'
    BY <1>35 DEF Foreground, Finish
<1>36. ASSUME NEW c \in Callers, StartConnect(c) PROVE TypeOK'
    BY <1>36 DEF StartConnect, Connectable, Send, Alive
<1>37. ASSUME NEW c \in Callers, StartReady(c) PROVE TypeOK'
    BY <1>37 DEF StartReady, StartEnds, Finish
<1>38. ASSUME NEW c \in Callers, StartReconnect(c) PROVE TypeOK'
    BY <1>38 DEF StartReconnect, Hears
<1>39. ASSUME NEW c \in Callers, StartDead(c) PROVE TypeOK'
    BY <1>39 DEF StartDead, HangUp, Finish, Alive
<1>40. ASSUME NEW c \in Callers, StartDeadline(c) PROVE TypeOK'
    BY <1>40 DEF StartDeadline, GiveUp, HangUp, Finish, Alive
<1>41. ASSUME NEW c \in Callers, EndFind(c) PROVE TypeOK'
    BY <1>41 DEF EndFind, LiveDaemon, Alive
<1>42. ASSUME NEW c \in Callers, EndAsk(c) PROVE TypeOK'
    BY <1>42 DEF EndAsk, Connectable, Send, Alive
<1>43. ASSUME NEW c \in Callers, EndAnswer(c) PROVE TypeOK'
    BY <1>43 DEF EndAnswer, Hears, GiveUp, HangUp
<1>44. ASSUME NEW c \in Callers, EndNothing(c) PROVE TypeOK'
    BY <1>44 DEF EndNothing
<1>45. ASSUME NEW c \in Callers, EndExited(c) PROVE TypeOK'
    BY <1>45 DEF EndExited, Alive
<1>46. ASSUME NEW c \in Callers, EndTerm(c) PROVE TypeOK'
  <2>1. CASE dpc[target[c]] \in Opening \cup Failing
    <3>1. target[c] \in Daemons /\ Die(target[c])
        BY <1>46, <2>1 DEF EndTerm
    <3>2. /\ dpc' \in [Daemons -> DaemonPc]
          /\ own' \in [Daemons -> Daemons \cup {None}]
          /\ portal' \in [Daemons -> {"none", "asking", "open", "closed"}]
          /\ sigterm' \in [Daemons -> BOOLEAN]
          /\ queue' \in [Daemons -> SUBSET Requests]
          /\ dreq' \in [Daemons -> SUBSET Requests]
          /\ reply' \in [Callers -> Replies]
        BY <3>1 DEF Die, ReplyTo
    <3> QED
        BY <1>46, <3>2 DEF EndTerm, Decided
  <2>2. CASE dpc[target[c]] \notin Opening \cup Failing
    BY <1>46, <2>2 DEF EndTerm, Decided, Alive
  <2> QED
    BY <2>1, <2>2
<1>47. ASSUME NEW c \in Callers, EndKill(c) PROVE TypeOK'
    BY <1>47 DEF EndKill, Decided, Die, ReplyTo, Alive
<1>48. ASSUME NEW c \in Callers, EndSocket(c) PROVE TypeOK'
    BY <1>48 DEF EndSocket
<1>49. ASSUME NEW c \in Callers, EndPid(c) PROVE TypeOK'
    BY <1>49 DEF EndPid, PidfileWithout
<1>50. ASSUME NEW c \in Callers, EndForget(c) PROVE TypeOK'
    BY <1>50 DEF EndForget, Finish, Decided
<1>51. ASSUME NEW c \in Callers, RequestGate(c) PROVE TypeOK'
    BY <1>51 DEF RequestGate, RequestEnds, Finish
<1>52. ASSUME NEW c \in Callers, RequestConnect(c) PROVE TypeOK'
    BY <1>52 DEF RequestConnect, Connectable, Send, Alive
<1>53. ASSUME NEW c \in Callers, RequestAnswered(c) PROVE TypeOK'
    BY <1>53 DEF RequestAnswered, Hears, GiveUp, HangUp, RequestEnds, Finish
<1>54. ASSUME NEW c \in Callers, RequestAbsent(c) PROVE TypeOK'
    BY <1>54 DEF RequestAbsent, RequestEnds, Finish
<1>55. ASSUME NEW c \in Callers, StartCommand(c) PROVE TypeOK'
    BY <1>55 DEF StartCommand, Begin
<1>56. ASSUME NEW c \in Callers, EndBegin(c) PROVE TypeOK'
    BY <1>56 DEF EndBegin, Begin, Decided
<1>57. ASSUME NEW c \in Callers, RequestBegin(c) PROVE TypeOK'
    BY <1>57 DEF RequestBegin, Begin
<1>58. CASE UNCHANGED vars
    BY <1>58 DEF vars
<1> QED
    BY <1>1, <1>2, <1>3, <1>4, <1>5, <1>6, <1>7, <1>8, <1>9, <1>10, <1>11, <1>12,
       <1>13, <1>14, <1>15, <1>16, <1>17, <1>18, <1>19, <1>20, <1>21, <1>22, <1>23, <1>24,
       <1>25, <1>26, <1>27, <1>28, <1>29, <1>30, <1>31, <1>32, <1>33, <1>34, <1>35, <1>36,
       <1>37, <1>38, <1>39, <1>40, <1>41, <1>42, <1>43, <1>44, <1>45, <1>46, <1>47, <1>48,
       <1>49, <1>50, <1>51, <1>52, <1>53, <1>54, <1>55, <1>56, <1>57, <1>58
    DEF Next, DaemonStep, Open, Serve, Stop, Teardown, User, CallerStep, StartStep, EndStep,
        RequestStep, NewCommand

\* Every variable keeps its type: the files name daemons or nothing, a request
\* in a backlog is one a caller can send (all modules of the daemon rely on it).
THEOREM TypeCorrect == Spec => []TypeOK
<1>1. Init => TypeOK
  <2> SUFFICES ASSUME Init PROVE TypeOK
      OBVIOUS
  <2>1. queue \in [Daemons -> SUBSET Requests] /\ dreq \in [Daemons -> SUBSET Requests]
      BY DEF Init
  <2>2. cpc \in [Callers -> CallerPc] /\ dpc \in [Daemons -> DaemonPc]
      BY DEF Init, CallerPc, DaemonPc
  <2>3. cmd \in [Callers -> Commands] /\ reply \in [Callers -> Replies]
      BY DEF Init, Commands, Replies
  <2>4. sigterm \in [Daemons -> BOOLEAN] /\ asked \in [Callers -> BOOLEAN]
      BY DEF Init
  <2> QED
      BY <2>1, <2>2, <2>3, <2>4 DEF Init, TypeOK
<1> QED
    BY <1>1, TypeStep, PTL DEF Spec

-----------------------------------------------------------------------------
(* One starter at a time. *)

LEMMA InductiveStep ==
    ASSUME OneStarter, OneStarter', TypeOK, TypeOK', Inductive, [Next]_vars
    PROVE  Inductive'
<1> USE NoneAssumption DEF TypeOK, OneStarter, Callers, DaemonPc, Running, Opening, Failing,
        Serving, Stopping, Leaving, CallerPc, StartPc, EndPc, RequestPc, Commands, Requests,
        Replies, Gone, DGoto, CGoto, BeforePidfile, AfterPidfile, AfterBind, Active, Shared,
        Holder, Inductive, StartersStart, SpawnedIsKnown, PidfileNamesHolder,
        PortalFollowsDaemon, OneHolder, DownIsDown, ReadyIsUp, ReapedIsGone, BoundIsOwn,
        OwnSocket, MarkerIsCleared
<1>1. ASSUME NEW d \in Daemons, DropOldSocket(d) PROVE Inductive'
    BY <1>1 DEF DropOldSocket
<1>2. ASSUME NEW d \in Daemons, Bind(d), sockFile = None PROVE Inductive'
    BY <1>2 DEF Bind, Bound
<1>3. ASSUME NEW d \in Daemons, Bind(d), sockFile # None PROVE Inductive'
    BY <1>3 DEF Bind, BindFails, Die, ReplyTo
<1>4. ASSUME NEW d \in Daemons, WritePid(d) PROVE Inductive'
    BY <1>4 DEF WritePid
<1>5. ASSUME NEW d \in Daemons, OverlaysUp(d) PROVE Inductive'
    BY <1>5 DEF OverlaysUp
<1>6. ASSUME NEW d \in Daemons, OverlaysFail(d) PROVE Inductive'
    BY <1>6 DEF OverlaysFail, Decided
<1>7. ASSUME NEW d \in Daemons, CleanupSocket(d) PROVE Inductive'
    BY <1>7 DEF CleanupSocket
<1>8. ASSUME NEW d \in Daemons, CleanupPid(d) PROVE Inductive'
    BY <1>8 DEF CleanupPid, Die, ReplyTo, PidfileWithout
<1>9. ASSUME NEW d \in Daemons, Identify(d) PROVE Inductive'
    BY <1>9 DEF Identify
<1>10. ASSUME NEW d \in Daemons, Accept(d) PROVE Inductive'
    BY <1>10 DEF Accept
<1>11. ASSUME NEW d \in Daemons, Handled(d) PROVE Inductive'
  <2>1. StartersStart'
    BY <1>11 DEF Handled, ReplyTo
  <2>2. SpawnedIsKnown'
    BY <1>11 DEF Handled, ReplyTo
  <2>3. PidfileNamesHolder'
    BY <1>11 DEF Handled, ReplyTo
  <2>4. PortalFollowsDaemon'
    BY <1>11 DEF Handled, ReplyTo
  <2>5. OneHolder'
    BY <1>11 DEF Handled, ReplyTo
  <2>6. DownIsDown'
    BY <1>11 DEF Handled, ReplyTo
  <2>7. ReadyIsUp'
    BY <1>11 DEF Handled, ReplyTo
  <2>8. ReapedIsGone'
    BY <1>11 DEF Handled, ReplyTo
  <2>9. BoundIsOwn'
    BY <1>11 DEF Handled, ReplyTo
  <2>10. OwnSocket'
    BY <1>11 DEF Handled, ReplyTo
  <2>11. MarkerIsCleared'
    BY <1>11 DEF Handled, ReplyTo
  <2> QED
    BY <2>1, <2>2, <2>3, <2>4, <2>5, <2>6, <2>7, <2>8, <2>9, <2>10, <2>11
<1>12. ASSUME NEW d \in Daemons, HandledShutdown(d) PROVE Inductive'
  <2>1. StartersStart'
    BY <1>12 DEF HandledShutdown, ReplyTo, Decided
  <2>2. SpawnedIsKnown'
    BY <1>12 DEF HandledShutdown, ReplyTo, Decided
  <2>3. PidfileNamesHolder'
    BY <1>12 DEF HandledShutdown, ReplyTo, Decided
  <2>4. PortalFollowsDaemon'
    BY <1>12 DEF HandledShutdown, ReplyTo, Decided
  <2>5. OneHolder'
    BY <1>12 DEF HandledShutdown, ReplyTo, Decided
  <2>6. DownIsDown'
    BY <1>12 DEF HandledShutdown, ReplyTo, Decided
  <2>7. ReadyIsUp'
    BY <1>12 DEF HandledShutdown, ReplyTo, Decided
  <2>8. ReapedIsGone'
    BY <1>12 DEF HandledShutdown, ReplyTo, Decided
  <2>9. BoundIsOwn'
    BY <1>12 DEF HandledShutdown, ReplyTo, Decided
  <2>10. OwnSocket'
    BY <1>12 DEF HandledShutdown, ReplyTo, Decided
  <2>11. MarkerIsCleared'
    BY <1>12 DEF HandledShutdown, ReplyTo, Decided
  <2> QED
    BY <2>1, <2>2, <2>3, <2>4, <2>5, <2>6, <2>7, <2>8, <2>9, <2>10, <2>11
<1>13. ASSUME NEW d \in Daemons, SeeTerm(d) PROVE Inductive'
    BY <1>13 DEF SeeTerm, ReplyTo, Decided
<1>14. ASSUME NEW d \in Daemons, SeeClosed(d) PROVE Inductive'
    BY <1>14 DEF SeeClosed
<1>15. ASSUME NEW d \in Daemons, RecordStop(d) PROVE Inductive'
  <2>1. \A e \in Daemons : dpc[e] \in Opening \cup Serving => portal[e] = "closed"
    \* The daemon that records the stop is the only active one.
    BY <1>15 DEF RecordStop
  <2>2. MarkerIsCleared'
    BY <1>15, <2>1 DEF RecordStop
  <2>3. DownIsDown'
    \* ... so no starter is past its probe.
    BY <1>15 DEF RecordStop
  <2> QED
    BY <1>15, <2>2, <2>3 DEF RecordStop
<1>16. ASSUME NEW d \in Daemons, DropSocket(d) PROVE Inductive'
    BY <1>16 DEF DropSocket, SocketWithout
<1>17. ASSUME NEW d \in Daemons, DropPid(d) PROVE Inductive'
    BY <1>17 DEF DropPid, PidfileWithout
<1>18. ASSUME NEW d \in Daemons, ReplyStopped(d) PROVE Inductive'
    BY <1>18 DEF ReplyStopped, ReplyTo
<1>19. ASSUME NEW d \in Daemons, ShutPortal(d) PROVE Inductive'
    BY <1>19 DEF ShutPortal
<1>20. ASSUME NEW d \in Daemons, Unlink(d) PROVE Inductive'
    BY <1>20 DEF Unlink, SocketWithout
<1>21. ASSUME NEW d \in Daemons, Exit(d) PROVE Inductive'
    BY <1>21 DEF Exit, Die, ReplyTo, PidfileWithout
<1>22. ASSUME NEW d \in Daemons, ConsentGiven(d) PROVE Inductive'
    BY <1>22 DEF ConsentGiven
<1>23. ASSUME NEW d \in Daemons, ConsentRefused(d) PROVE Inductive'
    BY <1>23 DEF ConsentRefused
<1>24. ASSUME NEW d \in Daemons, UserStop(d) PROVE Inductive'
    BY <1>24 DEF UserStop
<1>25. ASSUME NEW d \in Daemons, Crash(d) PROVE Inductive'
    BY <1>25 DEF Crash, Die, ReplyTo, Decided, Alive
<1>26. ASSUME NEW c \in Callers, StartBegin(c) PROVE Inductive'
    BY <1>26 DEF StartBegin, Decided
<1>27. ASSUME NEW c \in Callers, StartProbe(c) PROVE Inductive'
    BY <1>27 DEF StartProbe, Send, Connectable, Alive
<1>28. ASSUME NEW c \in Callers, StartUp(c) PROVE Inductive'
    BY <1>28 DEF StartUp, StartEnds, Finish
<1>29. ASSUME NEW c \in Callers, StartNoAnswer(c) PROVE Inductive'
    BY <1>29 DEF StartNoAnswer, Hears, GiveUp, HangUp
<1>30. ASSUME NEW c \in Callers, StartLive(c) PROVE Inductive'
  <2>1. CASE LiveDaemon = None
    \* No pidfile names a live daemon, and this starter, the only one at it, waits
    \* for none: nobody holds a session.
    <3>1. \A d \in Daemons : ~Holder(d)
        BY <1>30, <2>1 DEF StartLive, LiveDaemon, Alive
    <3>2. Inductive'
        BY <1>30, <2>1, <3>1 DEF StartLive, Finish
    <3> QED
        BY <3>2
  <2>2. CASE LiveDaemon # None
    BY <1>30, <2>2 DEF StartLive, Finish, LiveDaemon, Alive
  <2> QED
    BY <2>1, <2>2
<1>31. ASSUME NEW c \in Callers, StartClear(c) PROVE Inductive'
    BY <1>31 DEF StartClear, Connectable
<1>32. ASSUME NEW c \in Callers, StartUnmark(c) PROVE Inductive'
    BY <1>32 DEF StartUnmark, Decided
<1>33. ASSUME NEW c \in Callers, StartSpawn(c) PROVE Inductive'
  <2>1. PICK d \in Daemons : DGoto(d, "unborn", "spawned") /\ target' = [target EXCEPT ![c] = d]
    BY <1>33 DEF StartSpawn
  <2>2. \A e \in Daemons : ~Holder(e)
    BY <1>33 DEF StartSpawn
  <2>3. \A e \in Daemons : Holder(e)' => e = d
    BY <1>33, <2>1, <2>2 DEF StartSpawn
  <2>4. OneHolder' /\ SpawnedIsKnown' /\ DownIsDown'
    BY <1>33, <2>1, <2>2, <2>3 DEF StartSpawn
  <2>5. MarkerIsCleared' /\ PidfileNamesHolder' /\ PortalFollowsDaemon' /\ BoundIsOwn' /\ OwnSocket'
    BY <1>33, <2>1, <2>2 DEF StartSpawn
  <2>6. StartersStart' /\ ReadyIsUp' /\ ReapedIsGone'
    BY <1>33, <2>1 DEF StartSpawn
  <2> QED
    BY <2>4, <2>5, <2>6
<1>34. ASSUME NEW c \in Callers, SpawnFails(c) PROVE Inductive'
    BY <1>34 DEF SpawnFails, Finish
<1>35. ASSUME NEW c \in Callers, Foreground(c) PROVE Inductive'
    BY <1>35 DEF Foreground, Finish
<1>36. ASSUME NEW c \in Callers, StartConnect(c) PROVE Inductive'
    BY <1>36 DEF StartConnect, Connectable, Send, Alive
<1>37. ASSUME NEW c \in Callers, StartReady(c) PROVE Inductive'
    BY <1>37 DEF StartReady, StartEnds, Finish
<1>38. ASSUME NEW c \in Callers, StartReconnect(c) PROVE Inductive'
    BY <1>38 DEF StartReconnect, Hears
<1>39. ASSUME NEW c \in Callers, StartDead(c) PROVE Inductive'
    BY <1>39 DEF StartDead, HangUp, Finish, Alive
<1>40. ASSUME NEW c \in Callers, StartDeadline(c) PROVE Inductive'
    BY <1>40 DEF StartDeadline, GiveUp, HangUp, Finish, Alive
<1>41. ASSUME NEW c \in Callers, EndFind(c) PROVE Inductive'
    BY <1>41 DEF EndFind, LiveDaemon, Alive
<1>42. ASSUME NEW c \in Callers, EndAsk(c) PROVE Inductive'
    BY <1>42 DEF EndAsk, Connectable, Send, Alive
<1>43. ASSUME NEW c \in Callers, EndAnswer(c) PROVE Inductive'
    BY <1>43 DEF EndAnswer, Hears, GiveUp, HangUp
<1>44. ASSUME NEW c \in Callers, EndNothing(c) PROVE Inductive'
    BY <1>44 DEF EndNothing
<1>45. ASSUME NEW c \in Callers, EndExited(c) PROVE Inductive'
    BY <1>45 DEF EndExited, Alive
<1>46. ASSUME NEW c \in Callers, EndTerm(c) PROVE Inductive'
  <2>1. CASE dpc[target[c]] \in Opening \cup Failing
    BY <1>46, <2>1, SMTT(60) DEF EndTerm, Decided, Die, ReplyTo, Alive
  <2>2. CASE dpc[target[c]] \notin Opening \cup Failing
    BY <1>46, <2>2 DEF EndTerm, Decided, Alive
  <2> QED
    BY <2>1, <2>2
<1>47. ASSUME NEW c \in Callers, EndKill(c) PROVE Inductive'
    BY <1>47 DEF EndKill, Decided, Die, ReplyTo, Alive
<1>48. ASSUME NEW c \in Callers, EndSocket(c) PROVE Inductive'
    BY <1>48 DEF EndSocket
<1>49. ASSUME NEW c \in Callers, EndPid(c) PROVE Inductive'
    BY <1>49 DEF EndPid, PidfileWithout
<1>50. ASSUME NEW c \in Callers, EndForget(c) PROVE Inductive'
    BY <1>50 DEF EndForget, Finish, Decided
<1>51. ASSUME NEW c \in Callers, RequestGate(c) PROVE Inductive'
    BY <1>51 DEF RequestGate, RequestEnds, Finish
<1>52. ASSUME NEW c \in Callers, RequestConnect(c) PROVE Inductive'
    BY <1>52 DEF RequestConnect, Connectable, Send, Alive
<1>53. ASSUME NEW c \in Callers, RequestAnswered(c) PROVE Inductive'
    BY <1>53 DEF RequestAnswered, Hears, GiveUp, HangUp, RequestEnds, Finish
<1>54. ASSUME NEW c \in Callers, RequestAbsent(c) PROVE Inductive'
    BY <1>54 DEF RequestAbsent, RequestEnds, Finish
<1>55. ASSUME NEW c \in Callers, StartCommand(c) PROVE Inductive'
    BY <1>55 DEF StartCommand, Begin
<1>56. ASSUME NEW c \in Callers, EndBegin(c) PROVE Inductive'
    BY <1>56 DEF EndBegin, Begin, Decided
<1>57. ASSUME NEW c \in Callers, RequestBegin(c) PROVE Inductive'
    BY <1>57 DEF RequestBegin, Begin
<1>58. CASE UNCHANGED vars
    BY <1>58 DEF vars
<1> QED
    BY <1>1, <1>2, <1>3, <1>4, <1>5, <1>6, <1>7, <1>8, <1>9, <1>10, <1>11, <1>12,
       <1>13, <1>14, <1>15, <1>16, <1>17, <1>18, <1>19, <1>20, <1>21, <1>22, <1>23, <1>24,
       <1>25, <1>26, <1>27, <1>28, <1>29, <1>30, <1>31, <1>32, <1>33, <1>34, <1>35, <1>36,
       <1>37, <1>38, <1>39, <1>40, <1>41, <1>42, <1>43, <1>44, <1>45, <1>46, <1>47, <1>48,
       <1>49, <1>50, <1>51, <1>52, <1>53, <1>54, <1>55, <1>56, <1>57, <1>58
    DEF Next, DaemonStep, Open, Serve, Stop, Teardown, User, CallerStep, StartStep, EndStep,
        RequestStep, NewCommand

\* The invariant behind the theorems below: from the spawn to the pidfile the
\* starter knows the daemon, from the pidfile to the end the pidfile names it.
LEMMA InductiveHolds == Spec /\ []OneStarter => []Inductive
<1>1. Init => Inductive
    BY NoneAssumption DEF Init, Inductive, StartersStart, SpawnedIsKnown, PidfileNamesHolder,
        PortalFollowsDaemon, OneHolder, DownIsDown, ReadyIsUp, ReapedIsGone, BoundIsOwn,
        OwnSocket, MarkerIsCleared, Holder, Active, Shared, StartPc, BeforePidfile,
        AfterPidfile, AfterBind, Failing, Serving, Stopping, Opening
<1>2. OneStarter /\ OneStarter' /\ TypeOK /\ TypeOK' /\ Inductive /\ [Next]_vars => Inductive'
    BY InductiveStep
<1> QED
    BY <1>1, <1>2, TypeCorrect, PTL DEF Spec

\* session-start never opens a second consent dialog, and never a second
\* session beside one that is still shared (daemon.rs, start_session_daemon).
THEOREM OneSessionHolds == Spec /\ []OneStarter => []OneSession
<1>1. Inductive => OneSession
    BY DEF Inductive, OneHolder, Holder, OneSession
<1> QED
    BY <1>1, InductiveHolds, PTL

\* The marker of a stop never outlives the start of the next session
\* (daemon.rs, clear_for_new_daemon).
THEOREM MarkerIsClearedHolds == Spec /\ []OneStarter => []MarkerIsCleared
<1>1. Inductive => MarkerIsCleared
    BY DEF Inductive
<1> QED
    BY <1>1, InductiveHolds, PTL

\* The socket a daemon removes on its way out is the one it bound
\* (daemon.rs, remove_socket_if_own).
THEOREM OwnSocketHolds == Spec /\ []OneStarter => []OwnSocket
<1>1. Inductive => OwnSocket
    BY DEF Inductive
<1> QED
    BY <1>1, InductiveHolds, PTL

\* No step of one daemon takes the socket path away from another daemon that
\* asks for, or holds, a session (daemon.rs, serve_open_session).
THEOREM KeepsOthersSocketHolds == Spec /\ []OneStarter => KeepsOthersSocket
<1> DEFINE Keeps == \A d, e \in Daemons :
                       d # e /\ dpc'[d] # dpc[d] /\ sockFile = e /\ Shared(e) => sockFile' = e
<1>1. ASSUME TypeOK, Inductive, [Next]_vars PROVE Keeps
  <2> USE <1>1 DEF TypeOK, Inductive, OneHolder, Holder, Active, BeforePidfile, AfterPidfile,
          Failing, Serving, OwnSocket, DGoto, CGoto
  <2>1. ASSUME NEW f \in Daemons, DropOldSocket(f) \/ CleanupSocket(f) \/ DropSocket(f)
        PROVE  Keeps
      \* f is active, so the session e shares is its own.
      BY <2>1 DEF DropOldSocket, CleanupSocket, DropSocket
  <2>2. ASSUME NEW f \in Daemons, Bind(f) PROVE Keeps
      BY <2>2, NoneAssumption DEF Bind, Bound, BindFails
  <2>3. ASSUME NEW f \in Daemons, Unlink(f) PROVE Keeps
      BY <2>3, NoneAssumption DEF Unlink, SocketWithout
  <2>4. ASSUME NEW f \in Daemons, WritePid(f) \/ OverlaysUp(f)
                  \/ OverlaysFail(f) \/ CleanupPid(f) \/ Serve(f) \/ RecordStop(f)
                  \/ DropPid(f) \/ ReplyStopped(f) \/ ShutPortal(f) \/ Exit(f)
                  \/ User(f) \/ Crash(f)
        PROVE  sockFile' = sockFile
      BY <2>4 DEF WritePid, OverlaysUp, OverlaysFail, CleanupPid, Serve, Identify,
          Accept, Handled, HandledShutdown, SeeTerm, SeeClosed, RecordStop, DropPid,
          ReplyStopped, ShutPortal, Exit, User, ConsentGiven, ConsentRefused, UserStop, Crash
  <2>5. ASSUME NEW c \in Callers, CallerStep(c) \/ NewCommand(c)
        PROVE  sockFile' = sockFile \/ dpc' = dpc
    <3>1. CASE StartStep(c)
        BY <3>1 DEF StartStep, StartBegin, StartProbe, StartUp, StartNoAnswer, StartLive,
            StartClear, StartUnmark, StartSpawn, SpawnFails, Foreground, StartConnect,
            StartReady, StartReconnect, StartDead, StartDeadline
    <3>2. CASE EndStep(c)
        BY <3>2 DEF EndStep, EndFind, EndAsk, EndAnswer, EndNothing, EndExited, EndTerm,
            EndKill, EndSocket, EndPid, EndForget
    <3>3. CASE RequestStep(c)
        BY <3>3 DEF RequestStep, RequestGate, RequestConnect, RequestAnswered, RequestAbsent
    <3>4. CASE NewCommand(c)
        BY <3>4 DEF NewCommand, StartCommand, EndBegin, RequestBegin
    <3> QED
        BY <2>5, <3>1, <3>2, <3>3, <3>4 DEF CallerStep
  <2>6. CASE UNCHANGED vars
      BY <2>6 DEF vars
  <2> QED
      BY <2>1, <2>2, <2>3, <2>4, <2>5, <2>6 DEF Next, DaemonStep, Open, Stop, Teardown
<1> QED
    BY <1>1, TypeCorrect, InductiveHolds, PTL DEF Spec, KeepsOthersSocket

-----------------------------------------------------------------------------
(* The abstract specification.  A step shares, agrees to, ends or records     *)
(* something for one daemon, and most steps do none of these.                 *)

LEMMA NothingHappens ==
    ASSUME \A d \in Daemons :
               /\ portal'[d] = portal[d]
               /\ dpc'[d] \in BeforePidfile \cup {"unborn"}
                      <=> dpc[d] \in BeforePidfile \cup {"unborn"},
           marker' \in {marker, FALSE}
    PROVE  [Sharing!Next]_<<Asked, Agreed, Over, marker>>
<1>1. Asked' = Asked /\ Agreed' = Agreed /\ Unasked' = Unasked
    BY DEF Asked, Agreed, Unasked
<1> QED
    BY <1>1 DEF Sharing!Next, Sharing!StartOver, Over

LEMMA OneEnds ==
    ASSUME NEW f \in Daemons,
           \A d \in Daemons \ {f} : portal'[d] = portal[d] /\ dpc'[d] = dpc[d],
           portal'[f] \notin {"asking", "open"},
           dpc'[f] \notin BeforePidfile \cup {"unborn"},
           marker' = marker
    PROVE  Sharing!Next
<1>1. Asked' = Asked \ {f} /\ Agreed' = Agreed \ {f} /\ Unasked' = Unasked \ {f}
    BY DEF Asked, Agreed, Unasked
<1> QED
    BY <1>1 DEF Sharing!Next, Sharing!End, Over

LEMMA DeathEnds ==
    ASSUME TypeOK, NEW f \in Daemons, Die(f), marker' = marker
    PROVE  Sharing!Next
<1>1. /\ \A d \in Daemons \ {f} : portal'[d] = portal[d] /\ dpc'[d] = dpc[d]
      /\ portal'[f] = "none" /\ dpc'[f] = "exited"
    BY DEF Die, TypeOK
<1> QED
    BY <1>1, OneEnds DEF BeforePidfile

\* session-start, session-end, the commands in between, crashes and the user's
\* stops implement ScreenSharing (daemon.rs, start_session_daemon and
\* clear_for_new_daemon).
THEOREM SharingPromiseHolds == Spec /\ []OneStarter => SharingPromise
<1>1. Init => Sharing!Init
    BY DEF Init, Sharing!Init, Asked, Agreed, Unasked, Over
<1>2. TypeOK /\ Inductive /\ MarkerIsCleared' /\ [Next]_vars
          => [Sharing!Next]_<<Asked, Agreed, Over, marker>>
  <2> DEFINE Kept == [Sharing!Next]_<<Asked, Agreed, Over, marker>>
  <2> SUFFICES ASSUME TypeOK, Inductive, MarkerIsCleared', [Next]_vars PROVE Kept
      OBVIOUS
  <2> USE DEF DGoto, CGoto, BeforePidfile
  <2>1. ASSUME NEW f \in Daemons, WritePid(f) PROVE Kept
      \* f is a holder already, so no other daemon asks or shares.
    <3>1. ~marker /\ \A d \in Daemons : ~Shared(d)
        BY <2>1 DEF WritePid, TypeOK, Inductive, OneHolder, Holder, Active, MarkerIsCleared,
            PortalFollowsDaemon, Opening, Shared
    <3>2. Asked' = {f} /\ Agreed' = {} /\ Unasked' = Unasked \ {f} /\ f \in Unasked
        BY <2>1, <3>1 DEF WritePid, TypeOK, Asked, Agreed, Unasked, Shared
    <3>3. Asked = {} /\ Agreed = {}
        BY <3>1 DEF Asked, Agreed, Shared
    <3> QED
        BY <2>1, <3>1, <3>2, <3>3 DEF Sharing!Next, Sharing!Ask, Over, WritePid
  <2>2. ASSUME NEW f \in Daemons, ConsentGiven(f) PROVE Kept
    <3>1. /\ Asked' = Asked \ {f} /\ Agreed' = Agreed \cup {f} /\ Unasked' = Unasked
          /\ f \in Asked
        BY <2>2 DEF ConsentGiven, TypeOK, Inductive, PortalFollowsDaemon, Asked, Agreed, Unasked
    <3> QED
        BY <2>2, <3>1 DEF Sharing!Next, Sharing!Agree, Over, ConsentGiven
  <2>3. ASSUME NEW f \in Daemons, RecordStop(f) PROVE Kept
      \* f is a holder that does not share, and a marker stands against nobody.
    <3>1. \A d \in Daemons : ~Shared(d)
        BY <2>3 DEF RecordStop, TypeOK, Inductive, OneHolder, Holder, Active, AfterPidfile,
            PortalFollowsDaemon, Stopping, Shared
    <3>2. Asked = {} /\ Agreed = {} /\ Asked' = {} /\ Agreed' = {} /\ Unasked' = Unasked
        BY <2>3, <3>1 DEF RecordStop, TypeOK, Asked, Agreed, Unasked, Shared
    <3> QED
        BY <2>3, <3>2 DEF Sharing!Next, Sharing!Refuse, Over, RecordStop
  <2>4. ASSUME NEW f \in Daemons, ConsentRefused(f) \/ OverlaysFail(f) \/ ShutPortal(f) PROVE Kept
    <3>1. /\ \A d \in Daemons \ {f} : portal'[d] = portal[d] /\ dpc'[d] = dpc[d]
          /\ portal'[f] = "none" /\ dpc'[f] \in {"failed", "teardown"} /\ marker' = marker
        BY <2>4 DEF ConsentRefused, OverlaysFail, ShutPortal, TypeOK
    <3> QED
        BY <3>1, OneEnds
  <2>5. ASSUME NEW f \in Daemons, UserStop(f) PROVE Kept
    <3>1. /\ \A d \in Daemons \ {f} : portal'[d] = portal[d] /\ dpc'[d] = dpc[d]
          /\ portal'[f] = "closed" /\ dpc'[f] = dpc[f] /\ marker' = marker
          /\ dpc[f] \notin BeforePidfile \cup {"unborn"}
        BY <2>5 DEF UserStop, TypeOK, Inductive, PortalFollowsDaemon
    <3> QED
        BY <3>1, OneEnds
  <2>6. ASSUME NEW f \in Daemons, BindFails(f) \/ CleanupPid(f) \/ Exit(f) \/ Crash(f) PROVE Kept
      BY <2>6, DeathEnds DEF BindFails, CleanupPid, Exit, Crash
  <2>7. ASSUME NEW f \in Daemons,
               \/ DropOldSocket(f) \/ Bound(f) \/ OverlaysUp(f) \/ CleanupSocket(f)
               \/ Serve(f) \/ DropSocket(f) \/ DropPid(f) \/ ReplyStopped(f) \/ Unlink(f)
        PROVE  Kept
    <3>1. /\ \A d \in Daemons :
               /\ portal'[d] = portal[d]
               /\ dpc'[d] \in BeforePidfile \cup {"unborn"}
                      <=> dpc[d] \in BeforePidfile \cup {"unborn"}
          /\ marker' = marker
        BY <2>7 DEF TypeOK, DropOldSocket, Bound, OverlaysUp, CleanupSocket, Serve, Identify,
            Accept, Handled, HandledShutdown, SeeTerm, SeeClosed, DropSocket, DropPid,
            ReplyStopped, Unlink, Serving
    <3> QED
        BY <3>1, NothingHappens
  <2>8. ASSUME NEW c \in Callers, EndTerm(c) \/ EndKill(c) PROVE Kept
    <3>1. CASE Die(target[c]) /\ target[c] \in Daemons
        BY <2>8, <3>1, DeathEnds DEF EndTerm, EndKill
    <3>2. CASE ~Die(target[c]) \/ target[c] \notin Daemons
        BY <2>8, <3>2, NothingHappens, NoneAssumption
        DEF EndTerm, EndKill, TypeOK, Inductive, ReapedIsGone
    <3> QED
        BY <3>1, <3>2
  <2>9. ASSUME NEW c \in Callers,
               StartStep(c) \/ RequestStep(c) \/ NewCommand(c) \/ EndFind(c) \/ EndAsk(c)
               \/ EndAnswer(c) \/ EndNothing(c) \/ EndExited(c) \/ EndSocket(c) \/ EndPid(c)
               \/ EndForget(c)
        PROVE  Kept
    <3>1. CASE StartSpawn(c)
        BY <3>1, NothingHappens DEF StartSpawn, TypeOK
    <3>2. CASE StartStep(c) /\ ~StartSpawn(c)
        BY <3>2, NothingHappens DEF StartStep, StartBegin, StartProbe, StartUp, StartNoAnswer,
            StartLive, StartClear, StartUnmark, SpawnFails, Foreground, StartConnect,
            StartReady, StartReconnect, StartDead, StartDeadline
    <3>3. CASE RequestStep(c) \/ NewCommand(c)
        BY <3>3, NothingHappens DEF RequestStep, RequestGate, RequestConnect, RequestAnswered,
            RequestAbsent, NewCommand, StartCommand, EndBegin, RequestBegin
    <3> QED
        BY <2>9, <3>1, <3>2, <3>3, NothingHappens DEF EndFind, EndAsk, EndAnswer, EndNothing,
            EndExited, EndSocket, EndPid, EndForget
  <2>10. CASE UNCHANGED vars
      BY <2>10, NothingHappens DEF vars
  <2> QED
      BY <2>1, <2>2, <2>3, <2>4, <2>5, <2>6, <2>7, <2>8, <2>9, <2>10
      DEF Next, DaemonStep, Open, Bind, Stop, Teardown, User, CallerStep, EndStep
<1>3. Inductive => MarkerIsCleared
    BY DEF Inductive
<1> QED
    BY <1>1, <1>2, <1>3, InductiveHolds, TypeCorrect, PTL DEF Spec, SharingPromise, Sharing!Spec

-----------------------------------------------------------------------------
(* Sessions started and ended in turn. *)

LEMMA HangUpKeeps ==
    ASSUME TypeOK, ShutdownIsFollowedUp, NEW c \in Callers, HangUp(c),
           cpc[c] \notin {"answer", "reap", "term"}, dpc' = dpc,
           \A b \in Callers \ {c} : cpc'[b] = cpc[b] /\ target'[b] = target[b]
    PROVE  ShutdownIsFollowedUp'
<1> SUFFICES ASSUME NEW d \in Daemons, NEW q \in (queue[d] \cup dreq[d])',
                    q.kind = "shutdown", dpc[d] \in {"unborn"} \cup Opening \cup Serving
             PROVE  /\ q.from \in Enders \cup {Gone}
                    /\ \E b \in Enders :
                          /\ cpc'[b] \in {"reap", "term"} \/ (q.from = b /\ cpc'[b] = "answer")
                          /\ target'[b] = d
    BY DEF ShutdownIsFollowedUp
<1>1. PICK r \in queue[d] \cup dreq[d] :
          q = IF r.from = c THEN [r EXCEPT !.from = Gone] ELSE r
    BY DEF HangUp
<1>2. r \in Requests /\ r.kind = "shutdown" /\ q.from \in {r.from, Gone}
      /\ (r.from # c => q.from = r.from)
    BY <1>1 DEF TypeOK, Requests
<1>3. r.from \in Enders \cup {Gone}
    BY <1>2 DEF ShutdownIsFollowedUp
<1>4. PICK b \in Enders : /\ cpc[b] \in {"reap", "term"} \/ (r.from = b /\ cpc[b] = "answer")
                          /\ target[b] = d
    BY <1>2 DEF ShutdownIsFollowedUp
<1> QED
    BY <1>2, <1>3, <1>4 DEF Callers

LEMMA SequentialStep ==
    ASSUME Sequential, Sequential', TypeOK, TypeOK', Inductive, Inductive',
           SequentialInductive, [Next]_vars
    PROVE  SequentialInductive'
<1> USE NoneAssumption DEF TypeOK, Sequential, Callers, Opening, Failing, Serving, Stopping,
        Leaving, Listening, EndPc, StartPc, Requests, Gone, DGoto, CGoto, BeforePidfile,
        AfterPidfile, AfterBind, Active, Shared, Holder, Alive, Running, Inductive,
        SpawnedIsKnown, PidfileNamesHolder, PortalFollowsDaemon, OneHolder, DownIsDown,
        ReapedIsGone, OwnSocket, SequentialInductive, HolderIsKnown, ListeningIsReachable,
        StopStands, ShutdownIsFollowedUp, StopIsVisible
<1>1. ASSUME NEW d \in Daemons, DropOldSocket(d) PROVE SequentialInductive'
    BY <1>1 DEF DropOldSocket
<1>2. ASSUME NEW d \in Daemons, Bind(d), sockFile = None PROVE SequentialInductive'
    BY <1>2 DEF Bind, Bound
<1>3. ASSUME NEW d \in Daemons, Bind(d), sockFile # None PROVE SequentialInductive'
    BY <1>3 DEF Bind, BindFails, Die, ReplyTo
<1>4. ASSUME NEW d \in Daemons, WritePid(d) PROVE SequentialInductive'
    BY <1>4 DEF WritePid
<1>5. ASSUME NEW d \in Daemons, OverlaysUp(d) PROVE SequentialInductive'
    BY <1>5 DEF OverlaysUp
<1>6. ASSUME NEW d \in Daemons, OverlaysFail(d) PROVE SequentialInductive'
    BY <1>6 DEF OverlaysFail, Decided
<1>7. ASSUME NEW d \in Daemons, CleanupSocket(d) PROVE SequentialInductive'
    BY <1>7 DEF CleanupSocket
<1>8. ASSUME NEW d \in Daemons, CleanupPid(d) PROVE SequentialInductive'
    BY <1>8 DEF CleanupPid, Die, ReplyTo, PidfileWithout
<1>9. ASSUME NEW d \in Daemons, Identify(d) PROVE SequentialInductive'
    BY <1>9 DEF Identify
<1>10. ASSUME NEW d \in Daemons, Accept(d) PROVE SequentialInductive'
    BY <1>10 DEF Accept
<1>11. ASSUME NEW d \in Daemons, Handled(d) PROVE SequentialInductive'
    BY <1>11 DEF Handled, ReplyTo
<1>12. ASSUME NEW d \in Daemons, HandledShutdown(d) PROVE SequentialInductive'
    BY <1>12 DEF HandledShutdown, ReplyTo, Decided
<1>13. ASSUME NEW d \in Daemons, SeeTerm(d) PROVE SequentialInductive'
    BY <1>13 DEF SeeTerm, ReplyTo, Decided
<1>14. ASSUME NEW d \in Daemons, SeeClosed(d) PROVE SequentialInductive'
    BY <1>14 DEF SeeClosed
<1>15. ASSUME NEW d \in Daemons, RecordStop(d) PROVE SequentialInductive'
  <2>1. \A e \in Daemons : dpc[e] \in Opening \cup Serving => portal[e] = "closed"
    \* The daemon that records the stop is the only active one.
    BY <1>15 DEF RecordStop
  <2>2. MarkerIsCleared'
    BY <1>15, <2>1 DEF RecordStop
  <2>3. DownIsDown'
    \* ... so no starter is past its probe.
    BY <1>15 DEF RecordStop
  <2> QED
    BY <1>15, <2>2, <2>3 DEF RecordStop
<1>16. ASSUME NEW d \in Daemons, DropSocket(d) PROVE SequentialInductive'
    BY <1>16 DEF DropSocket, SocketWithout
<1>17. ASSUME NEW d \in Daemons, DropPid(d) PROVE SequentialInductive'
    BY <1>17 DEF DropPid, PidfileWithout
<1>18. ASSUME NEW d \in Daemons, ReplyStopped(d) PROVE SequentialInductive'
    BY <1>18 DEF ReplyStopped, ReplyTo
<1>19. ASSUME NEW d \in Daemons, ShutPortal(d) PROVE SequentialInductive'
    BY <1>19 DEF ShutPortal
<1>20. ASSUME NEW d \in Daemons, Unlink(d) PROVE SequentialInductive'
    BY <1>20 DEF Unlink, SocketWithout
<1>21. ASSUME NEW d \in Daemons, Exit(d) PROVE SequentialInductive'
    BY <1>21 DEF Exit, Die, ReplyTo, PidfileWithout
<1>22. ASSUME NEW d \in Daemons, ConsentGiven(d) PROVE SequentialInductive'
    BY <1>22 DEF ConsentGiven
<1>23. ASSUME NEW d \in Daemons, ConsentRefused(d) PROVE SequentialInductive'
    BY <1>23 DEF ConsentRefused
<1>24. ASSUME NEW d \in Daemons, UserStop(d) PROVE SequentialInductive'
    BY <1>24 DEF UserStop
<1>25. ASSUME NEW d \in Daemons, Crash(d) PROVE SequentialInductive'
    BY <1>25 DEF Crash, Die, ReplyTo, Decided, Alive
<1>26. ASSUME NEW c \in Callers, StartBegin(c) PROVE SequentialInductive'
    BY <1>26 DEF StartBegin, Decided
<1>27. ASSUME NEW c \in Callers, StartProbe(c) PROVE SequentialInductive'
    BY <1>27 DEF StartProbe, Send, Connectable, Alive
<1>28. ASSUME NEW c \in Callers, StartUp(c) PROVE SequentialInductive'
    BY <1>28 DEF StartUp, StartEnds, Finish
<1>29. ASSUME NEW c \in Callers, StartNoAnswer(c) PROVE SequentialInductive'
  <2>1. ShutdownIsFollowedUp'
      BY <1>29, HangUpKeeps DEF StartNoAnswer, Hears, GiveUp
  <2> QED
      BY <1>29, <2>1 DEF StartNoAnswer, Hears, GiveUp, HangUp
<1>30. ASSUME NEW c \in Callers, StartLive(c) PROVE SequentialInductive'
    \* This starter, the only one at it, waits for no daemon: the pidfile names it.
  <2>1. \A d \in Daemons : Holder(d) => LiveDaemon = d
      BY <1>30 DEF StartLive, LiveDaemon, StartersStart
  <2>2. CASE LiveDaemon = None
      BY <1>30, <2>1, <2>2 DEF StartLive, Finish
  <2>3. CASE LiveDaemon # None
    <3>1. HolderIsKnown'
        BY <1>30, <2>1, <2>3 DEF StartLive, Finish
    <3>2. ListeningIsReachable' /\ StopStands'
        BY <1>30, <2>3 DEF StartLive, Finish
    <3>3. ShutdownIsFollowedUp'
        BY <1>30, <2>3 DEF StartLive, Finish
    <3>4. StopIsVisible'
      <4>1. LiveDaemon \in Daemons /\ Alive(LiveDaemon)
          BY <2>3 DEF LiveDaemon
      <4> QED
          BY <1>30, <2>3, <4>1 DEF StartLive, Finish
    <3> QED
        BY <1>30, <3>1, <3>2, <3>3, <3>4 DEF StartLive, Finish
  <2> QED
      BY <2>2, <2>3
<1>31. ASSUME NEW c \in Callers, StartClear(c) PROVE SequentialInductive'
    BY <1>31 DEF StartClear, Connectable
<1>32. ASSUME NEW c \in Callers, StartUnmark(c) PROVE SequentialInductive'
    BY <1>32 DEF StartUnmark, Decided
<1>33. ASSUME NEW c \in Callers, StartSpawn(c) PROVE SequentialInductive'
  <2>1. PICK d \in Daemons : DGoto(d, "unborn", "spawned") /\ target' = [target EXCEPT ![c] = d]
      BY <1>33 DEF StartSpawn
  <2>2. \A e \in Daemons : Holder(e)' => e = d
      BY <1>33, <2>1 DEF StartSpawn
  <2>3. \A b \in Callers : b # c => cpc[b] \notin {"await", "hear", "fore"} \cup EndPc
      BY <1>33 DEF StartSpawn, StartersStart
  <2>4. HolderIsKnown'
      BY <1>33, <2>1, <2>2, <2>3 DEF StartSpawn
  <2>5. ListeningIsReachable' /\ StopStands'
      BY <1>33, <2>1 DEF StartSpawn
  <2>6. ShutdownIsFollowedUp'
      BY <1>33, <2>1 DEF StartSpawn
  <2>7. StopIsVisible'
      BY <1>33, <2>1, <2>3 DEF StartSpawn, StartersStart
  <2> QED
      BY <1>33, <2>4, <2>5, <2>6, <2>7 DEF StartSpawn
<1>34. ASSUME NEW c \in Callers, SpawnFails(c) PROVE SequentialInductive'
    BY <1>34 DEF SpawnFails, Finish
<1>35. ASSUME NEW c \in Callers, Foreground(c) PROVE SequentialInductive'
    BY <1>35 DEF Foreground, Finish
<1>36. ASSUME NEW c \in Callers, StartConnect(c) PROVE SequentialInductive'
    BY <1>36 DEF StartConnect, Connectable, Send, Alive
<1>37. ASSUME NEW c \in Callers, StartReady(c) PROVE SequentialInductive'
    BY <1>37 DEF StartReady, StartEnds, Finish
<1>38. ASSUME NEW c \in Callers, StartReconnect(c) PROVE SequentialInductive'
    BY <1>38 DEF StartReconnect, Hears
<1>39. ASSUME NEW c \in Callers, StartDead(c) PROVE SequentialInductive'
  <2>1. ShutdownIsFollowedUp'
      BY <1>39, HangUpKeeps DEF StartDead, Finish
  <2> QED
      BY <1>39, <2>1 DEF StartDead, HangUp, Finish
<1>40. ASSUME NEW c \in Callers, StartDeadline(c) PROVE SequentialInductive'
  <2>1. ShutdownIsFollowedUp'
      BY <1>40, HangUpKeeps DEF StartDeadline, GiveUp, Finish
  <2>2. HolderIsKnown' /\ ListeningIsReachable'
      BY <1>40 DEF StartDeadline, Finish
  <2>3. StopStands' /\ StopIsVisible'
      BY <1>40 DEF StartDeadline, Finish
  <2> QED
      BY <1>40, <2>1, <2>2, <2>3 DEF StartDeadline, Finish
<1>41. ASSUME NEW c \in Callers, EndFind(c) PROVE SequentialInductive'
    \* No starter waits for a daemon while this one, the only one at it, looks for it.
  <2>1. \A d \in Daemons : dpc[d] \notin BeforePidfile
      BY <1>41 DEF EndFind, StartersStart
  <2>2. \A d \in Daemons : Holder(d) => LiveDaemon = d
      BY <2>1 DEF LiveDaemon, DaemonPc
  <2>3. HolderIsKnown'
      BY <1>41, <2>2 DEF EndFind
  <2>4. ListeningIsReachable' /\ StopStands' /\ StopIsVisible'
      BY <1>41 DEF EndFind
  <2>5. ShutdownIsFollowedUp'
      BY <1>41 DEF EndFind
  <2> QED
      BY <1>41, <2>3, <2>4, <2>5 DEF EndFind
<1>42. ASSUME NEW c \in Callers, EndAsk(c) PROVE SequentialInductive'
    BY <1>42 DEF EndAsk, Connectable, Send, Alive
<1>43. ASSUME NEW c \in Callers, EndAnswer(c) PROVE SequentialInductive'
    BY <1>43 DEF EndAnswer, Hears, GiveUp, HangUp
<1>44. ASSUME NEW c \in Callers, EndNothing(c) PROVE SequentialInductive'
    BY <1>44 DEF EndNothing
<1>45. ASSUME NEW c \in Callers, EndExited(c) PROVE SequentialInductive'
    BY <1>45 DEF EndExited, Alive
<1>46. ASSUME NEW c \in Callers, EndTerm(c) PROVE SequentialInductive'
  <2>1. CASE dpc[target[c]] \in Opening \cup Failing
    <3>1. target[c] \in Daemons /\ Die(target[c])
        BY <1>46, <2>1 DEF EndTerm
    <3>2. HolderIsKnown'
        BY <1>46, <3>1 DEF EndTerm, Die
    <3>3. ListeningIsReachable' /\ StopStands' /\ StopIsVisible'
        BY <1>46, <3>1 DEF EndTerm, Die, Decided
    <3>4. ShutdownIsFollowedUp'
        BY <1>46, <3>1 DEF EndTerm, Die
    <3> QED
        BY <1>46, <3>2, <3>3, <3>4 DEF EndTerm
  <2>2. CASE dpc[target[c]] \notin Opening \cup Failing
      BY <1>46, <2>2 DEF EndTerm, Decided
  <2> QED
      BY <2>1, <2>2
<1>47. ASSUME NEW c \in Callers, EndKill(c) PROVE SequentialInductive'
    BY <1>47 DEF EndKill, Decided, Die, ReplyTo, Alive
<1>48. ASSUME NEW c \in Callers, EndSocket(c) PROVE SequentialInductive'
    BY <1>48 DEF EndSocket
<1>49. ASSUME NEW c \in Callers, EndPid(c) PROVE SequentialInductive'
    BY <1>49 DEF EndPid, PidfileWithout
<1>50. ASSUME NEW c \in Callers, EndForget(c) PROVE SequentialInductive'
    BY <1>50 DEF EndForget, Finish, Decided
<1>51. ASSUME NEW c \in Callers, RequestGate(c) PROVE SequentialInductive'
    BY <1>51 DEF RequestGate, RequestEnds, Finish
<1>52. ASSUME NEW c \in Callers, RequestConnect(c) PROVE SequentialInductive'
    BY <1>52 DEF RequestConnect, Connectable, Send, Alive
<1>53. ASSUME NEW c \in Callers, RequestAnswered(c) PROVE SequentialInductive'
  <2>1. ShutdownIsFollowedUp'
      BY <1>53, HangUpKeeps DEF RequestAnswered, Hears, GiveUp, RequestEnds, Finish
  <2> QED
      BY <1>53, <2>1 DEF RequestAnswered, Hears, GiveUp, HangUp, RequestEnds, Finish
<1>54. ASSUME NEW c \in Callers, RequestAbsent(c) PROVE SequentialInductive'
    BY <1>54 DEF RequestAbsent, RequestEnds, Finish
<1>55. ASSUME NEW c \in Callers, StartCommand(c) PROVE SequentialInductive'
    BY <1>55 DEF StartCommand, Begin
<1>56. ASSUME NEW c \in Callers, EndBegin(c) PROVE SequentialInductive'
    BY <1>56 DEF EndBegin, Begin, Decided
<1>57. ASSUME NEW c \in Callers, RequestBegin(c) PROVE SequentialInductive'
    BY <1>57 DEF RequestBegin, Begin
<1>58. CASE UNCHANGED vars
    BY <1>58 DEF vars
<1> QED
    BY <1>1, <1>2, <1>3, <1>4, <1>5, <1>6, <1>7, <1>8, <1>9, <1>10, <1>11, <1>12,
       <1>13, <1>14, <1>15, <1>16, <1>17, <1>18, <1>19, <1>20, <1>21, <1>22, <1>23, <1>24,
       <1>25, <1>26, <1>27, <1>28, <1>29, <1>30, <1>31, <1>32, <1>33, <1>34, <1>35, <1>36,
       <1>37, <1>38, <1>39, <1>40, <1>41, <1>42, <1>43, <1>44, <1>45, <1>46, <1>47, <1>48,
       <1>49, <1>50, <1>51, <1>52, <1>53, <1>54, <1>55, <1>56, <1>57, <1>58
    DEF Next, DaemonStep, Open, Serve, Stop, Teardown, User, CallerStep, StartStep, EndStep,
        RequestStep, NewCommand

\* The invariant behind the next theorems: the process that is starting or ending a
\* session knows the daemon there is.
LEMMA SequentialInductiveHolds == Spec /\ []Sequential => []SequentialInductive
<1>1. Sequential => OneStarter
    BY DEF Sequential, OneStarter
<1>2. Init => SequentialInductive
    BY NoneAssumption DEF Init, SequentialInductive, HolderIsKnown, ListeningIsReachable,
        StopStands, ShutdownIsFollowedUp, StopIsVisible, EndPc, Listening, Serving
<1>3. Sequential /\ Sequential' /\ TypeOK /\ TypeOK' /\ Inductive /\ Inductive'
        /\ SequentialInductive /\ [Next]_vars => SequentialInductive'
    BY SequentialStep
<1> QED
    BY <1>1, <1>2, <1>3, InductiveHolds, TypeCorrect, PTL DEF Spec

\* A daemon that serves can be reached through the path (daemon.rs,
\* request_daemon), for any number of daemons and requesting commands.
THEOREM ServingIsReachableHolds == Spec /\ []Sequential => []ServingIsReachable
<1>1. SequentialInductive => ServingIsReachable
    BY DEF SequentialInductive, ListeningIsReachable, ServingIsReachable, Listening
<1> QED
    BY <1>1, SequentialInductiveHolds, PTL

\* A caller that finds the session gone after the user's stop finds the marker
\* (daemon.rs, serve_open_session), for any number of requesting commands.
THEOREM StopIsVisibleHolds == Spec /\ []Sequential => []StopIsVisible
<1>1. SequentialInductive => StopIsVisible
    BY DEF SequentialInductive
<1> QED
    BY <1>1, SequentialInductiveHolds, PTL

\* A Shutdown nobody waits for any more is behind a session-end that ends the
\* same daemon by a signal (daemon.rs, request_daemon and reap_daemon).
THEOREM NoGhostShutdownHolds == Spec /\ []Sequential => []NoGhostShutdown
<1>1. SequentialInductive => NoGhostShutdown
    BY NoneAssumption DEF SequentialInductive, ShutdownIsFollowedUp, NoGhostShutdown, Gone, Callers
<1> QED
    BY <1>1, SequentialInductiveHolds, PTL

-----------------------------------------------------------------------------
(* session-end, whatever else runs at the same time. *)

LEMMA EndStepKeeps ==
    ASSUME TypeOK, EndInductive, [Next]_vars
    PROVE  EndInductive'
<1> USE NoneAssumption DEF TypeOK, EndInductive, Alive, Running, Opening, Failing, Serving,
        Stopping, Leaving, BeforePidfile, DGoto, CGoto, Callers
<1>1. ASSUME NEW d \in Daemons, DropOldSocket(d) PROVE EndInductive'
    BY <1>1 DEF DropOldSocket
<1>2. ASSUME NEW d \in Daemons, Bind(d), sockFile = None PROVE EndInductive'
    BY <1>2 DEF Bind, Bound
<1>3. ASSUME NEW d \in Daemons, Bind(d), sockFile # None PROVE EndInductive'
    BY <1>3 DEF Bind, BindFails, Die, ReplyTo
<1>4. ASSUME NEW d \in Daemons, WritePid(d) PROVE EndInductive'
    BY <1>4 DEF WritePid
<1>5. ASSUME NEW d \in Daemons, OverlaysUp(d) PROVE EndInductive'
    BY <1>5 DEF OverlaysUp
<1>6. ASSUME NEW d \in Daemons, OverlaysFail(d) PROVE EndInductive'
    BY <1>6 DEF OverlaysFail, Decided
<1>7. ASSUME NEW d \in Daemons, CleanupSocket(d) PROVE EndInductive'
    BY <1>7 DEF CleanupSocket
<1>8. ASSUME NEW d \in Daemons, CleanupPid(d) PROVE EndInductive'
    BY <1>8 DEF CleanupPid, Die, ReplyTo, PidfileWithout
<1>9. ASSUME NEW d \in Daemons, Identify(d) PROVE EndInductive'
    BY <1>9 DEF Identify
<1>10. ASSUME NEW d \in Daemons, Accept(d) PROVE EndInductive'
    BY <1>10 DEF Accept
<1>11. ASSUME NEW d \in Daemons, Handled(d) PROVE EndInductive'
    BY <1>11 DEF Handled, ReplyTo
<1>12. ASSUME NEW d \in Daemons, HandledShutdown(d) PROVE EndInductive'
    BY <1>12 DEF HandledShutdown, ReplyTo, Decided
<1>13. ASSUME NEW d \in Daemons, SeeTerm(d) PROVE EndInductive'
    BY <1>13 DEF SeeTerm, ReplyTo, Decided
<1>14. ASSUME NEW d \in Daemons, SeeClosed(d) PROVE EndInductive'
    BY <1>14 DEF SeeClosed
<1>15. ASSUME NEW d \in Daemons, RecordStop(d) PROVE EndInductive'
    BY <1>15 DEF RecordStop
<1>16. ASSUME NEW d \in Daemons, DropSocket(d) PROVE EndInductive'
    BY <1>16 DEF DropSocket, SocketWithout
<1>17. ASSUME NEW d \in Daemons, DropPid(d) PROVE EndInductive'
    BY <1>17 DEF DropPid, PidfileWithout
<1>18. ASSUME NEW d \in Daemons, ReplyStopped(d) PROVE EndInductive'
    BY <1>18 DEF ReplyStopped, ReplyTo
<1>19. ASSUME NEW d \in Daemons, ShutPortal(d) PROVE EndInductive'
    BY <1>19 DEF ShutPortal
<1>20. ASSUME NEW d \in Daemons, Unlink(d) PROVE EndInductive'
    BY <1>20 DEF Unlink, SocketWithout
<1>21. ASSUME NEW d \in Daemons, Exit(d) PROVE EndInductive'
    BY <1>21 DEF Exit, Die, ReplyTo, PidfileWithout
<1>22. ASSUME NEW d \in Daemons, ConsentGiven(d) PROVE EndInductive'
    BY <1>22 DEF ConsentGiven
<1>23. ASSUME NEW d \in Daemons, ConsentRefused(d) PROVE EndInductive'
    BY <1>23 DEF ConsentRefused
<1>24. ASSUME NEW d \in Daemons, UserStop(d) PROVE EndInductive'
    BY <1>24 DEF UserStop
<1>25. ASSUME NEW d \in Daemons, Crash(d) PROVE EndInductive'
    BY <1>25 DEF Crash, Die, ReplyTo, Decided, Alive
<1>26. ASSUME NEW c \in Callers, StartBegin(c) PROVE EndInductive'
    BY <1>26 DEF StartBegin, Decided
<1>27. ASSUME NEW c \in Callers, StartProbe(c) PROVE EndInductive'
    BY <1>27 DEF StartProbe, Send, Connectable, Alive
<1>28. ASSUME NEW c \in Callers, StartUp(c) PROVE EndInductive'
    BY <1>28 DEF StartUp, StartEnds, Finish
<1>29. ASSUME NEW c \in Callers, StartNoAnswer(c) PROVE EndInductive'
    BY <1>29 DEF StartNoAnswer, Hears, GiveUp, HangUp
<1>30. ASSUME NEW c \in Callers, StartLive(c) PROVE EndInductive'
    BY <1>30 DEF StartLive, Finish, LiveDaemon, Alive
<1>31. ASSUME NEW c \in Callers, StartClear(c) PROVE EndInductive'
    BY <1>31 DEF StartClear, Connectable
<1>32. ASSUME NEW c \in Callers, StartUnmark(c) PROVE EndInductive'
    BY <1>32 DEF StartUnmark, Decided
<1>33. ASSUME NEW c \in Callers, StartSpawn(c) PROVE EndInductive'
    BY <1>33 DEF StartSpawn
<1>34. ASSUME NEW c \in Callers, SpawnFails(c) PROVE EndInductive'
    BY <1>34 DEF SpawnFails, Finish
<1>35. ASSUME NEW c \in Callers, Foreground(c) PROVE EndInductive'
    BY <1>35 DEF Foreground, Finish
<1>36. ASSUME NEW c \in Callers, StartConnect(c) PROVE EndInductive'
    BY <1>36 DEF StartConnect, Connectable, Send, Alive
<1>37. ASSUME NEW c \in Callers, StartReady(c) PROVE EndInductive'
    BY <1>37 DEF StartReady, StartEnds, Finish
<1>38. ASSUME NEW c \in Callers, StartReconnect(c) PROVE EndInductive'
    BY <1>38 DEF StartReconnect, Hears
<1>39. ASSUME NEW c \in Callers, StartDead(c) PROVE EndInductive'
    BY <1>39 DEF StartDead, HangUp, Finish, Alive
<1>40. ASSUME NEW c \in Callers, StartDeadline(c) PROVE EndInductive'
    BY <1>40 DEF StartDeadline, GiveUp, HangUp, Finish, Alive
<1>41. ASSUME NEW c \in Callers, EndFind(c) PROVE EndInductive'
    BY <1>41 DEF EndFind, LiveDaemon, Alive
<1>42. ASSUME NEW c \in Callers, EndAsk(c) PROVE EndInductive'
    BY <1>42 DEF EndAsk, Connectable, Send, Alive
<1>43. ASSUME NEW c \in Callers, EndAnswer(c) PROVE EndInductive'
    BY <1>43 DEF EndAnswer, Hears, GiveUp, HangUp
<1>44. ASSUME NEW c \in Callers, EndNothing(c) PROVE EndInductive'
    BY <1>44 DEF EndNothing
<1>45. ASSUME NEW c \in Callers, EndExited(c) PROVE EndInductive'
    BY <1>45 DEF EndExited, Alive, DaemonPc
<1>46. ASSUME NEW c \in Callers, EndTerm(c) PROVE EndInductive'
  <2>1. CASE dpc[target[c]] \in Opening \cup Failing
    BY <1>46, <2>1 DEF EndTerm, Decided, Die, ReplyTo, Alive
  <2>2. CASE dpc[target[c]] \notin Opening \cup Failing
    BY <1>46, <2>2 DEF EndTerm, Decided, Alive
  <2> QED
    BY <2>1, <2>2
<1>47. ASSUME NEW c \in Callers, EndKill(c) PROVE EndInductive'
    BY <1>47 DEF EndKill, Decided, Die, ReplyTo, Alive
<1>48. ASSUME NEW c \in Callers, EndSocket(c) PROVE EndInductive'
    BY <1>48 DEF EndSocket
<1>49. ASSUME NEW c \in Callers, EndPid(c) PROVE EndInductive'
    BY <1>49 DEF EndPid, PidfileWithout
<1>50. ASSUME NEW c \in Callers, EndForget(c) PROVE EndInductive'
    BY <1>50 DEF EndForget, Finish, Decided
<1>51. ASSUME NEW c \in Callers, RequestGate(c) PROVE EndInductive'
    BY <1>51 DEF RequestGate, RequestEnds, Finish
<1>52. ASSUME NEW c \in Callers, RequestConnect(c) PROVE EndInductive'
    BY <1>52 DEF RequestConnect, Connectable, Send, Alive
<1>53. ASSUME NEW c \in Callers, RequestAnswered(c) PROVE EndInductive'
    BY <1>53 DEF RequestAnswered, Hears, GiveUp, HangUp, RequestEnds, Finish
<1>54. ASSUME NEW c \in Callers, RequestAbsent(c) PROVE EndInductive'
    BY <1>54 DEF RequestAbsent, RequestEnds, Finish
<1>55. ASSUME NEW c \in Callers, StartCommand(c) PROVE EndInductive'
    BY <1>55 DEF StartCommand, Begin
<1>56. ASSUME NEW c \in Callers, EndBegin(c) PROVE EndInductive'
    BY <1>56 DEF EndBegin, Begin, Decided
<1>57. ASSUME NEW c \in Callers, RequestBegin(c) PROVE EndInductive'
    BY <1>57 DEF RequestBegin, Begin
<1>58. CASE UNCHANGED vars
    BY <1>58 DEF vars
<1> QED
    BY <1>1, <1>2, <1>3, <1>4, <1>5, <1>6, <1>7, <1>8, <1>9, <1>10, <1>11, <1>12,
       <1>13, <1>14, <1>15, <1>16, <1>17, <1>18, <1>19, <1>20, <1>21, <1>22, <1>23, <1>24,
       <1>25, <1>26, <1>27, <1>28, <1>29, <1>30, <1>31, <1>32, <1>33, <1>34, <1>35, <1>36,
       <1>37, <1>38, <1>39, <1>40, <1>41, <1>42, <1>43, <1>44, <1>45, <1>46, <1>47, <1>48,
       <1>49, <1>50, <1>51, <1>52, <1>53, <1>54, <1>55, <1>56, <1>57, <1>58
    DEF Next, DaemonStep, Open, Serve, Stop, Teardown, User, CallerStep, StartStep, EndStep,
        RequestStep, NewCommand

\* The daemon session-end found is gone when it finishes, and neither file names
\* it (daemon.rs, stop_session_daemon).
THEOREM EndLeavesNothingHolds == Spec => []EndLeavesNothing
<1>1. Init => EndInductive
    BY DEF Init, EndInductive
<1>2. TypeOK /\ EndInductive /\ [Next]_vars => EndInductive'
    BY EndStepKeeps
<1>3. TypeOK /\ EndInductive => EndLeavesNothing
    BY NoneAssumption DEF TypeOK, EndInductive, EndLeavesNothing, Alive, Running, Opening,
        Failing, Serving, Stopping, Leaving
<1> QED
    BY <1>1, <1>2, <1>3, TypeCorrect, PTL DEF Spec

=============================================================================
