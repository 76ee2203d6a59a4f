--------------------------- MODULE Desktop_proofs ---------------------------
(* What run_script and activate_window promise their callers, for any number *)
(* of callers, polls and looks; and that the index of applications gives no   *)
(* name to an application that cannot be opened.                             *)
EXTENDS KWinScript, Applications, TLAPS

-----------------------------------------------------------------------------
(* KWinScript. *)

Pending == {calls[i] : i \in DOMAIN calls}

LEMMA CallAdds ==
    ASSUME TypeOK, NEW x \in [op : {"load", "run", "stop"}, of : Scripts],
           calls' = Append(calls, x)
    PROVE  /\ calls' \in Seq([op : {"load", "run", "stop"}, of : Scripts])
           /\ Pending' = Pending \cup {x}
           /\ x \notin Pending =>
                \A i, j \in DOMAIN calls' : i # j /\ calls'[i] = calls'[j] =>
                    i \in DOMAIN calls /\ j \in DOMAIN calls
                        /\ calls'[i] = calls[i] /\ calls'[j] = calls[j]
<1>1. calls \in Seq([op : {"load", "run", "stop"}, of : Scripts])
    BY DEF TypeOK
<1>2. /\ DOMAIN calls = 1 .. Len(calls) /\ DOMAIN calls' = 1 .. Len(calls) + 1
      /\ Len(calls) \in Nat
      /\ calls'[Len(calls) + 1] = x
      /\ \A i \in DOMAIN calls : calls'[i] = calls[i]
    BY <1>1
<1>3. calls' \in Seq([op : {"load", "run", "stop"}, of : Scripts])
    BY <1>1
<1>4. Pending' = Pending \cup {x}
    BY <1>2 DEF Pending
<1>5. \A i, j \in DOMAIN calls' : x \notin Pending /\ i # j /\ calls'[i] = calls'[j] =>
          i \in DOMAIN calls /\ j \in DOMAIN calls
    BY <1>2 DEF Pending
<1> QED
    BY <1>2, <1>3, <1>4, <1>5

LEMMA TakeRemoves ==
    ASSUME TypeOK, calls # <<>>, calls' = Tail(calls)
    PROVE  /\ calls' \in Seq([op : {"load", "run", "stop"}, of : Scripts])
           /\ Head(calls) \in Pending /\ Pending' \subseteq Pending
           /\ Head(calls) \in [op : {"load", "run", "stop"}, of : Scripts]
           /\ Head(calls) \in Pending' =>
                \E i, j \in DOMAIN calls : i # j /\ calls[i] = Head(calls) /\ calls[j] = Head(calls)
           /\ \A i, j \in DOMAIN calls' : i # j /\ calls'[i] = calls'[j] =>
                \E k, l \in DOMAIN calls : k # l /\ calls[k] = calls[l] /\ calls[k] = calls'[i]
<1>1. calls \in Seq([op : {"load", "run", "stop"}, of : Scripts])
    BY DEF TypeOK
<1>2. /\ Len(calls) \in Nat \ {0}
      /\ DOMAIN calls = 1 .. Len(calls) /\ DOMAIN calls' = 1 .. Len(calls) - 1
      /\ calls[1] = Head(calls)
      /\ \A i \in DOMAIN calls' : i + 1 \in DOMAIN calls /\ calls'[i] = calls[i + 1]
    BY <1>1
<1>3. calls' \in Seq([op : {"load", "run", "stop"}, of : Scripts])
    BY <1>1
<1>4. Head(calls) \in [op : {"load", "run", "stop"}, of : Scripts]
    <2> DEFINE S == [op : {"load", "run", "stop"}, of : Scripts]
    <2>1. calls \in Seq(S)
        BY <1>1
    <2> HIDE DEF S
    <2>2. Head(calls) \in S
        BY <1>2, <2>1
    <2> QED
        BY <2>2 DEF S
<1>5. Head(calls) \in Pending /\ Pending' \subseteq Pending
    BY <1>2 DEF Pending
<1>6. Head(calls) \in Pending' =>
          \E i, j \in DOMAIN calls : i # j /\ calls[i] = Head(calls) /\ calls[j] = Head(calls)
    <2> SUFFICES ASSUME NEW i \in DOMAIN calls', calls'[i] = Head(calls)
                 PROVE  \E k, j \in DOMAIN calls :
                            k # j /\ calls[k] = Head(calls) /\ calls[j] = Head(calls)
        BY DEF Pending
    <2>1. 1 \in DOMAIN calls /\ i + 1 \in DOMAIN calls /\ 1 # i + 1 /\ calls[i + 1] = Head(calls)
        BY <1>2
    <2> QED
        BY <1>2, <2>1
<1>7. \A i, j \in DOMAIN calls' : i # j /\ calls'[i] = calls'[j] =>
          \E k, l \in DOMAIN calls : k # l /\ calls[k] = calls[l] /\ calls[k] = calls'[i]
    <2> TAKE i, j \in DOMAIN calls'
    <2> HAVE i # j /\ calls'[i] = calls'[j]
    <2>1. i + 1 # j + 1
        BY <1>2
    <2> QED
        BY <1>2, <2>1
<1> QED
    BY <1>3, <1>4, <1>5, <1>6, <1>7

LEMMA PendingTyped ==
    TypeOK => \A k \in Pending : k \in [op : {"load", "run", "stop"}, of : Scripts]
<1> DEFINE S == [op : {"load", "run", "stop"}, of : Scripts]
<1>1. TypeOK => calls \in Seq(S)
    BY DEF TypeOK
<1> HIDE DEF S
<1>2. TypeOK => \A i \in DOMAIN calls : calls[i] \in S
    BY <1>1
<1>3. TypeOK => \A k \in Pending : k \in S
    BY <1>2 DEF Pending
<1> QED
    BY <1>3 DEF S

LEMMA ScriptTyped == TypeOK => \A c \in Callers : Script(c) \in Scripts
BY DEF TypeOK, Script, Scripts

LEMMA TypeStep == TypeOK /\ [Next]_vars => TypeOK'
<1> SUFFICES ASSUME TypeOK, [Next]_vars PROVE TypeOK'
    OBVIOUS
<1> USE DEF Errands, Results
<1>1. \A c \in Callers : Script(c) \in Scripts
    BY ScriptTyped
<1>2. \A c \in Callers, r \in BOOLEAN : [by |-> c, nth |-> serial[c] + 1, raises |-> r] \in Scripts
    BY DEF TypeOK, Scripts
<1>3. ASSUME NEW c \in Callers, NEW e \in Errands, Ask(c, e) PROVE TypeOK'
    <2> DEFINE x == [op |-> "load", of |-> [by |-> c, nth |-> serial[c] + 1, raises |-> e = "activate"]]
    <2>1. x \in [op : {"load", "run", "stop"}, of : Scripts] /\ calls' = Append(calls, x)
        BY <1>2, <1>3 DEF Ask, LoadNext, Call
    <2>2. calls' \in Seq([op : {"load", "run", "stop"}, of : Scripts])
        BY <2>1, CallAdds
    <2> QED
        BY <1>3, <2>2, PollsAssumption DEF Ask, LoadNext, Call, TypeOK
<1>4. ASSUME NEW c \in Callers, Loaded(c) PROVE TypeOK'
    <2>1. calls' \in Seq([op : {"load", "run", "stop"}, of : Scripts])
        BY <1>1, <1>4, CallAdds DEF Loaded, Call
    <2> QED
        BY <1>4, <2>1 DEF Loaded, Call, TypeOK
<1>5. ASSUME NEW c \in Callers, Refused(c) PROVE TypeOK'
    BY <1>5 DEF Refused, Return, TypeOK, kwin
<1>6. ASSUME NEW c \in Callers, Ran(c) PROVE TypeOK'
    BY <1>6 DEF Ran, TypeOK, kwin
<1>7. ASSUME NEW c \in Callers, Hear(c) PROVE TypeOK'
    <2>1. calls' \in Seq([op : {"load", "run", "stop"}, of : Scripts])
        BY <1>1, <1>7, CallAdds DEF Hear, Call
    <2> QED
        BY <1>7, <2>1 DEF Hear, Call, Mine, TypeOK
<1>8. ASSUME NEW c \in Callers, PollAgain(c) PROVE TypeOK'
    BY <1>8, PollsAssumption DEF PollAgain, TypeOK, kwin
<1>9. ASSUME NEW c \in Callers, PollLast(c) PROVE TypeOK'
    <2>1. calls' \in Seq([op : {"load", "run", "stop"}, of : Scripts])
        BY <1>1, <1>9, CallAdds DEF PollLast, Call
    <2> QED
        BY <1>9, <2>1, PollsAssumption DEF PollLast, Call, TypeOK
<1>10. ASSUME NEW c \in Callers, Succeed(c) PROVE TypeOK'
    BY <1>10 DEF Succeed, Return, TypeOK, kwin
<1>11. ASSUME NEW c \in Callers, Look(c) PROVE TypeOK'
    <2>1. calls' \in Seq([op : {"load", "run", "stop"}, of : Scripts])
        BY <1>2, <1>11, CallAdds DEF Look, LoadNext, Call
    <2>2. looks[c] + 1 \in 0 .. MaxLooks
        BY <1>11, PollsAssumption DEF Look, LooksOn, TypeOK
    <2> QED
        BY <1>11, <2>1, <2>2, PollsAssumption DEF Look, LoadNext, Call, TypeOK
<1>12. ASSUME NEW c \in Callers, Fail(c) PROVE TypeOK'
    BY <1>12 DEF Fail, Return, TypeOK, kwin
<1>13. ASSUME NEW c \in Callers, TimeOut(c) \/ Killed(c) PROVE TypeOK'
    BY <1>1, <1>13 DEF TimeOut, Killed, Return, TypeOK, kwin
<1>14. ASSUME NEW s, Loads(s) \/ Runs(s) \/ Stops(s) PROVE TypeOK'
    <2>1. calls # <<>> /\ calls' = Tail(calls) /\ s = Head(calls).of
        BY <1>14 DEF Loads, Runs, Stops, Takes
    <2>2. calls' \in Seq([op : {"load", "run", "stop"}, of : Scripts]) /\ s \in Scripts
        BY <2>1, TakeRemoves
    <2>3. reply' \in [Callers -> {"none", "ok", "refused"}]
        BY <1>14 DEF Loads, Runs, Stops, Answered, TypeOK
    <2>4. State \in Results
        BY DEF State
    <2>5. CASE Loads(s)
        BY <2>2, <2>3, <2>5 DEF Loads, Takes, TypeOK
    <2>6. CASE Runs(s)
        <3>1. s.raises \in BOOLEAN
            BY <2>2 DEF Scripts
        <3>2. raising' \in BOOLEAN
            BY <2>6, <3>1 DEF Runs, TypeOK
        <3>3. sent' \subseteq [from : Scripts, kind : {"error"} \cup Results]
            BY <2>2, <2>4, <2>6 DEF Runs, TypeOK
        <3> QED
            BY <2>2, <2>3, <2>6, <3>2, <3>3 DEF Runs, Takes, TypeOK
    <2>7. CASE Stops(s)
        BY <2>2, <2>3, <2>7 DEF Stops, Takes, TypeOK
    <2> QED
        BY <1>14, <2>5, <2>6, <2>7
<1>15. CASE Raised
    BY <1>15 DEF Raised, Activate, TypeOK, caller
<1>16. CASE UserActivates
    BY <1>16 DEF UserActivates, Activate, TypeOK, caller
<1>17. CASE UNCHANGED vars
    BY <1>17 DEF vars, caller, kwin, TypeOK
<1> QED
    BY <1>3, <1>4, <1>5, <1>6, <1>7, <1>8, <1>9, <1>10, <1>11, <1>12, <1>13, <1>14, <1>15, <1>16, <1>17
       DEF Next, CallerStep, KWinStep

\* Every reachable state of any number of callers is well typed.
THEOREM TypeCorrect == Spec => []TypeOK
<1>1. Init => TypeOK
    <2>1. 0 \in 0 .. MaxLooks /\ 0 \in 0 .. MaxPolls
        BY PollsAssumption
    <2>2. <<>> \in Seq([op : {"load", "run", "stop"}, of : Scripts])
        OBVIOUS
    <2> SUFFICES ASSUME Init PROVE TypeOK
        OBVIOUS
    <2>3. calls \in Seq([op : {"load", "run", "stop"}, of : Scripts])
        BY <2>2 DEF Init
    <2>4. /\ pc \in [Callers -> {"idle", "load", "run", "poll", "stop"}]
          /\ errand \in [Callers -> Errands] /\ serial \in [Callers -> Nat]
          /\ looks \in [Callers -> 0 .. MaxLooks] /\ polls \in [Callers -> 0 .. MaxPolls]
        BY <2>1 DEF Init, Errands
    <2>5. /\ heard \in [Callers -> {"nothing", "error"} \cup Results]
          /\ reply \in [Callers -> {"none", "ok", "refused"}]
          /\ answer \in [Callers -> {"none", "ok", "failed"}]
        BY DEF Init, Results
    <2>6. /\ loaded \subseteq Scripts /\ ran \subseteq Scripts /\ left \subseteq Scripts
          /\ sent \subseteq [from : Scripts, kind : {"error"} \cup Results]
          /\ raising \in BOOLEAN /\ active \in BOOLEAN /\ met \subseteq Callers
        BY DEF Init
    <2> QED
        BY <2>3, <2>4, <2>5, <2>6 DEF TypeOK
<1> QED
    BY <1>1, TypeStep, PTL DEF Spec

-----------------------------------------------------------------------------
(* The inductive invariant of KWinScript. *)

\* Nothing is about a script that has not been made yet.
Numbered ==
    /\ \A k \in Pending : k.of.nth <= serial[k.of.by]
    /\ \A s \in loaded \cup ran : s.nth <= serial[s.by]
    /\ \A m \in sent : m.from.nth <= serial[m.from.by]

\* A result comes from a script that was carried out.
Told ==
    /\ \A m \in sent : m.kind \in Results => m.from \in ran
    /\ \A c \in Callers : heard[c] \in Results => Script(c) \in ran
    /\ \A c \in Callers : answer[c] = "ok" => pc[c] = "idle" /\ Script(c) \in ran

\* And one that says the window is active, sent in this errand, was right.
Witness(c) == pc[c] # "idle" => c \in met

Right ==
    /\ \A c \in Callers : active => Witness(c)
    /\ \A m \in sent : m.kind = "active" /\ m.from = Script(m.from.by) => Witness(m.from.by)
    /\ \A c \in Callers : heard[c] = "active" => Witness(c)
    /\ ActivatedWasActive

Loading(s) ==
    s = Script(s.by) /\ pc[s.by] = "load" /\ reply[s.by] = "none" /\ s \notin loaded

\* A script is loaded once, while its caller waits for that; and it is gone when
\* the caller is told that it was refused or stopped.
Cleared ==
    /\ \A k \in Pending : k.op = "load" => k.of \in left \/ Loading(k.of)
    /\ \A i, j \in DOMAIN calls :
            i # j /\ calls[i] = calls[j] /\ calls[i].op = "load" => calls[i].of \in left
    /\ \A c \in Callers :
            \/ pc[c] = "load" /\ reply[c] = "refused"
            \/ pc[c] = "stop" /\ reply[c] = "ok"
            => Script(c) \notin loaded \ left
    /\ NothingStaysLoaded

Inductive == Numbered /\ Told /\ Right /\ Cleared

LEMMA NumberedStep == TypeOK /\ Numbered /\ [Next]_vars => Numbered'
<1> SUFFICES ASSUME TypeOK, Numbered, [Next]_vars PROVE Numbered'
    OBVIOUS
<1> USE DEF Numbered
<1>1. \A c \in Callers : Script(c) \in Scripts /\ Script(c).by = c /\ Script(c).nth = serial[c]
    BY DEF TypeOK, Script, Scripts
<1>2. serial \in [Callers -> Nat]
    BY DEF TypeOK
<1>3. ASSUME NEW c \in Callers, NEW op \in {"load", "run", "stop"},
             Call(c, op, Script(c)), serial' = serial, loaded' = loaded, ran' = ran, sent' \subseteq sent
      PROVE  Numbered'
    <2>1. Pending' = Pending \cup {[op |-> op, of |-> Script(c)]}
        BY <1>1, <1>3, CallAdds DEF Call
    <2> QED
        BY <1>1, <1>2, <1>3, <2>1
<1>4. ASSUME NEW c \in Callers, NEW raises \in BOOLEAN, LoadNext(c, raises),
             loaded' = loaded, ran' = ran, sent' = sent
      PROVE  Numbered'
    <2> DEFINE s == [by |-> c, nth |-> serial[c] + 1, raises |-> raises]
    <2>1. s \in Scripts /\ s.by = c /\ s.nth = serial[c] + 1
        BY <1>2 DEF Scripts
    <2>2. Pending' = Pending \cup {[op |-> "load", of |-> s]}
        BY <1>4, <2>1, CallAdds DEF LoadNext, Call
    <2>3. \A d \in Callers : serial'[d] \in Nat /\ serial[d] <= serial'[d]
        <3>1. \A d \in Callers : serial'[d] = IF d = c THEN serial[c] + 1 ELSE serial[d]
            BY <1>2, <1>4 DEF LoadNext
        <3> QED
            BY <1>2, <3>1
    <2>4. serial'[c] = serial[c] + 1
        BY <1>2, <1>4 DEF LoadNext
    <2>5. \A k \in Pending : k.of \in Scripts
        BY PendingTyped
    <2>6. \A t \in loaded \cup ran : t \in Scripts
        BY DEF TypeOK
    <2>7. \A m \in sent : m.from \in Scripts
        BY DEF TypeOK
    <2>8. \A t \in Scripts : t.nth \in Nat /\ t.by \in Callers
        BY DEF Scripts
    <2>9. \A t \in Scripts : t.nth <= serial[t.by] => t.nth <= serial'[t.by]
        BY <1>2, <2>3, <2>8
    <2>10. s.nth <= serial'[s.by]
        BY <1>2, <2>1, <2>4
    <2> HIDE DEF s
    <2> QED
        BY <1>4, <2>2, <2>5, <2>6, <2>7, <2>9, <2>10
<1>5. ASSUME NEW s, Loads(s) \/ Runs(s) \/ Stops(s) PROVE Numbered'
    <2>1. calls # <<>> /\ calls' = Tail(calls) /\ s = Head(calls).of /\ serial' = serial
        BY <1>5 DEF Loads, Runs, Stops, Takes
    <2>2. Head(calls) \in Pending /\ Pending' \subseteq Pending
        BY <2>1, TakeRemoves
    <2>3. s.nth <= serial[s.by]
        BY <2>1, <2>2
    <2> QED
        BY <1>5, <2>1, <2>2, <2>3 DEF Loads, Runs, Stops
<1>6. ASSUME UNCHANGED <<calls, serial, loaded, ran, sent>> PROVE Numbered'
    BY <1>6 DEF Pending
<1>7. ASSUME NEW c \in Callers, CallerStep(c) \/ Killed(c) PROVE Numbered'
    <2>1. CASE Loaded(c)
        BY <1>3, <2>1 DEF Loaded
    <2>2. CASE Hear(c)
        BY <1>3, <2>2 DEF Hear
    <2>3. CASE PollLast(c)
        BY <1>3, <2>3 DEF PollLast
    <2>4. CASE Look(c)
        BY <1>4, <2>4 DEF Look
    <2>5. CASE Refused(c) \/ Ran(c) \/ PollAgain(c) \/ Succeed(c) \/ Fail(c) \/ TimeOut(c) \/ Killed(c)
        BY <1>6, <2>5 DEF Refused, Ran, PollAgain, Succeed, Fail, TimeOut, Killed, kwin
    <2> QED
        BY <1>7, <2>1, <2>2, <2>3, <2>4, <2>5 DEF CallerStep
<1>8. ASSUME NEW c \in Callers, NEW e \in Errands, Ask(c, e) PROVE Numbered'
    BY <1>4, <1>8 DEF Ask
<1>9. CASE Raised \/ UserActivates
    BY <1>6, <1>9 DEF Raised, UserActivates, Activate, caller
<1>10. CASE UNCHANGED vars
    BY <1>6, <1>10 DEF vars, caller, kwin
<1> QED
    BY <1>5, <1>7, <1>8, <1>9, <1>10 DEF Next, KWinStep

LEMMA ToldStep == TypeOK /\ Told /\ [Next]_vars => Told'
<1> SUFFICES ASSUME TypeOK, Told, [Next]_vars PROVE Told'
    OBVIOUS
<1> USE DEF Told
<1>1. /\ pc \in [Callers -> {"idle", "load", "run", "poll", "stop"}]
      /\ answer \in [Callers -> {"none", "ok", "failed"}]
      /\ heard \in [Callers -> {"nothing", "error"} \cup Results]
    BY DEF TypeOK
<1>2. ASSUME UNCHANGED <<errand, looks, serial>>
      PROVE  \A c \in Callers : Script(c)' = Script(c)
    BY <1>2 DEF Script
<1>3. ASSUME NEW c \in Callers, NEW raises \in BOOLEAN, LoadNext(c, raises),
             sent' = sent, ran' = ran, answer[c] # "ok" \/ pc[c] = "idle",
             \A d \in Callers \ {c} : Script(d)' = Script(d) /\ answer'[d] = answer[d],
             answer'[c] = "none"
      PROVE  Told'
    <2>1. heard'[c] = "nothing" /\ \A d \in Callers \ {c} : heard'[d] = heard[d] /\ pc'[d] = pc[d]
        BY <1>1, <1>3 DEF LoadNext, Call
    <2> QED
        BY <1>3, <2>1 DEF Results
<1>4. ASSUME NEW c \in Callers, NEW e \in Errands, Ask(c, e) PROVE Told'
    <2>1. \A d \in Callers \ {c} : Script(d)' = Script(d) /\ answer'[d] = answer[d]
        BY <1>1, <1>4 DEF Ask, LoadNext, Script, TypeOK
    <2>2. answer'[c] = "none"
        BY <1>1, <1>4 DEF Ask
    <2> QED
        BY <1>3, <1>4, <2>1, <2>2 DEF Ask
<1>5. ASSUME NEW c \in Callers, Look(c) PROVE Told'
    <2>1. \A d \in Callers \ {c} : Script(d)' = Script(d)
        BY <1>5 DEF Look, LoadNext, Script, TypeOK
    <2>2. answer[c] # "ok"
        BY <1>5 DEF Look, ScriptOver
    <2>3. answer'[c] # "ok" /\ \A d \in Callers : answer'[d] = answer[d]
        BY <2>2, <1>5 DEF Look
    <2>4. heard'[c] = "nothing" /\ \A d \in Callers \ {c} : heard'[d] = heard[d] /\ pc'[d] = pc[d]
        BY <1>1, <1>5 DEF Look, LoadNext, Call
    <2> QED
        BY <1>5, <2>1, <2>3, <2>4 DEF Look, Results
<1>6. ASSUME NEW c \in Callers, Loaded(c) \/ Ran(c) \/ PollAgain(c) \/ PollLast(c) PROVE Told'
    <2>1. UNCHANGED <<errand, looks, serial, heard, answer, sent, ran>>
        BY <1>6 DEF Loaded, Ran, PollAgain, PollLast, kwin
    <2>2. pc[c] # "idle" /\ \A d \in Callers \ {c} : pc'[d] = pc[d]
        BY <1>1, <1>6 DEF Loaded, Ran, PollAgain, PollLast, Call
    <2> QED
        BY <1>2, <2>1, <2>2
<1>7. ASSUME NEW c \in Callers, Hear(c) PROVE Told'
    <2>1. PICK m \in Mine(c) : heard' = [heard EXCEPT ![c] = m.kind] /\ sent' = sent \ {m}
        BY <1>7 DEF Hear
    <2>2. m \in sent /\ m.from = Script(c)
        BY <2>1 DEF Mine
    <2>3. UNCHANGED <<errand, looks, serial, answer, ran>>
        BY <1>7 DEF Hear
    <2>4. pc[c] # "idle" /\ \A d \in Callers \ {c} : pc'[d] = pc[d]
        BY <1>1, <1>7 DEF Hear, Call
    <2>5. heard'[c] = m.kind /\ \A d \in Callers \ {c} : heard'[d] = heard[d]
        BY <1>1, <2>1
    <2> QED
        BY <1>2, <2>1, <2>2, <2>3, <2>4, <2>5
<1>8. ASSUME NEW c \in Callers, Succeed(c) PROVE Told'
    <2>1. heard[c] \in Results /\ Script(c) \in ran
        BY <1>8 DEF Succeed, Succeeds, Results
    <2>2. UNCHANGED <<errand, looks, serial, heard, sent, ran>>
        BY <1>8 DEF Succeed, kwin
    <2>3. pc'[c] = "idle" /\ \A d \in Callers \ {c} : pc'[d] = pc[d] /\ answer'[d] = answer[d]
        BY <1>1, <1>8 DEF Succeed, Return
    <2> QED
        BY <1>2, <2>1, <2>2, <2>3
<1>9. ASSUME NEW c \in Callers, Refused(c) \/ Fail(c) \/ TimeOut(c) \/ Killed(c) PROVE Told'
    <2>1. UNCHANGED <<errand, looks, serial, heard, sent, ran>>
        BY <1>9 DEF Refused, Fail, TimeOut, Killed, kwin
    <2>2. answer'[c] = "failed" /\ \A d \in Callers \ {c} : pc'[d] = pc[d] /\ answer'[d] = answer[d]
        BY <1>1, <1>9 DEF Refused, Fail, TimeOut, Killed, Return
    <2> QED
        BY <1>2, <2>1, <2>2
<1>10. ASSUME NEW s, Loads(s) \/ Stops(s) PROVE Told'
    BY <1>2, <1>10 DEF Loads, Stops, Takes
<1>11. ASSUME NEW s, Runs(s) PROVE Told'
    <2>1. UNCHANGED <<pc, errand, looks, serial, heard, answer>> /\ ran \subseteq ran'
        BY <1>11 DEF Runs, Takes
    <2>2. \A m \in sent' : m.kind \in Results => m.from \in ran'
        BY <1>11 DEF Runs, Results
    <2> QED
        BY <1>2, <2>1, <2>2
<1>12. CASE Raised \/ UserActivates
    BY <1>2, <1>12 DEF Raised, UserActivates, Activate, caller
<1>13. CASE UNCHANGED vars
    BY <1>2, <1>13 DEF vars, caller, kwin
<1> QED
    BY <1>4, <1>5, <1>6, <1>7, <1>8, <1>9, <1>10, <1>11, <1>12, <1>13
       DEF Next, CallerStep, KWinStep

LEMMA RightStep == TypeOK /\ Numbered /\ Told /\ Right /\ [Next]_vars => Right'
<1> SUFFICES ASSUME TypeOK, Numbered, Told, Right, [Next]_vars PROVE Right'
    OBVIOUS
<1> USE DEF Right, Witness, ActivatedWasActive
<1>1. /\ pc \in [Callers -> {"idle", "load", "run", "poll", "stop"}]
      /\ answer \in [Callers -> {"none", "ok", "failed"}]
      /\ heard \in [Callers -> {"nothing", "error"} \cup Results]
      /\ errand \in [Callers -> Errands]
      /\ serial \in [Callers -> Nat]
      /\ met \subseteq Callers
    BY DEF TypeOK
<1>2. \A m \in sent : m.from \in Scripts /\ m.from.by \in Callers /\ m.from.nth \in Nat
    BY DEF TypeOK, Scripts
\* A step that makes nobody busy and takes nobody off the list of witnesses.
<1>3. ASSUME UNCHANGED <<errand, looks, serial, heard, active>>, met \subseteq met',
             sent' \subseteq sent,
             \A c \in Callers : pc[c] = "idle" => pc'[c] = "idle",
             \A c \in Callers : answer'[c] = "ok" =>
                answer[c] = "ok" \/ (errand[c] = "activate" => c \in met)
      PROVE  Right'
    <2>1. \A c \in Callers : Script(c)' = Script(c)
        BY <1>3 DEF Script
    <2> QED
        BY <1>2, <1>3, <2>1
<1>4. ASSUME NEW c \in Callers, NEW raises \in BOOLEAN, LoadNext(c, raises),
             sent' = sent, active' = active,
             met \ {c} \subseteq met', active => c \in met',
             \A d \in Callers \ {c} : Script(d)' = Script(d) /\ errand'[d] = errand[d],
             \A d \in Callers : answer'[d] = "ok" => d # c /\ answer[d] = "ok"
      PROVE  Right'
    <2>1. heard'[c] = "nothing" /\ \A d \in Callers \ {c} : heard'[d] = heard[d] /\ pc'[d] = pc[d]
        BY <1>1, <1>4 DEF LoadNext, Call
    <2>2. \A m \in sent : m.from.by = c => m.from # Script(c)'
        <3>1. serial'[c] = serial[c] + 1 /\ Script(c)'.nth = serial'[c]
            BY <1>1, <1>4 DEF LoadNext, Script
        <3> QED
            BY <1>1, <1>2, <3>1 DEF Numbered
    <2>3. active => c \in met'
        BY <1>4
    <2>4. \A d \in Callers \ {c} : d \in met => d \in met'
        BY <1>4
    <2>5. \A m \in sent : m.kind = "active" /\ m.from = Script(m.from.by)' /\ pc'[m.from.by] # "idle"
              => m.from.by \in met'
        BY <1>2, <1>4, <2>1, <2>2, <2>4
    <2>6. \A d \in Callers : heard'[d] = "active" /\ pc'[d] # "idle" => d \in met'
        BY <2>1, <2>4
    <2>7. \A d \in Callers : active' /\ pc'[d] # "idle" => d \in met'
        BY <1>4, <2>1, <2>3, <2>4
    <2>8. \A d \in Callers : answer'[d] = "ok" /\ errand'[d] = "activate" => d \in met'
        BY <1>4, <2>4
    <2> QED
        BY <1>4, <2>5, <2>6, <2>7, <2>8
<1>5. ASSUME NEW c \in Callers, NEW e \in Errands, Ask(c, e) PROVE Right'
    <2>1. \A d \in Callers \ {c} : Script(d)' = Script(d) /\ errand'[d] = errand[d]
        BY <1>1, <1>5 DEF Ask, LoadNext, Script, TypeOK
    <2>2. \A d \in Callers : answer'[d] = "ok" => d # c /\ answer[d] = "ok"
        BY <1>1, <1>5 DEF Ask
    <2>3. met' = IF active THEN met \cup {c} ELSE met \ {c}
        BY <1>5 DEF Ask
    <2>4. LoadNext(c, e = "activate") /\ sent' = sent /\ active' = active
        BY <1>5 DEF Ask
    <2> QED
        BY <1>4, <2>1, <2>2, <2>3, <2>4
<1>6. ASSUME NEW c \in Callers, Look(c) PROVE Right'
    <2>1. \A d \in Callers \ {c} : Script(d)' = Script(d) /\ errand'[d] = errand[d]
        BY <1>6 DEF Look, LoadNext, Script, TypeOK
    <2>2. pc[c] # "idle" /\ answer' = answer /\ met' = met
        BY <1>6 DEF Look, ScriptOver
    <2>3. LoadNext(c, FALSE) /\ sent' = sent /\ active' = active
        BY <1>6 DEF Look
    <2>4. \A d \in Callers : answer'[d] = "ok" => d # c /\ answer[d] = "ok"
        BY <2>2 DEF Told
    <2> QED
        BY <1>4, <2>1, <2>2, <2>3, <2>4
<1>7. ASSUME NEW c \in Callers, Hear(c) PROVE Right'
    <2>1. PICK m \in Mine(c) : heard' = [heard EXCEPT ![c] = m.kind] /\ sent' = sent \ {m}
        BY <1>7 DEF Hear
    <2>2. m \in sent /\ m.from = Script(c) /\ m.from.by = c
        BY <2>1 DEF Mine, Script
    <2>3. UNCHANGED <<errand, looks, serial, answer, active, met>>
        BY <1>7 DEF Hear
    <2>4. pc[c] # "idle" /\ \A d \in Callers \ {c} : pc'[d] = pc[d]
        BY <1>1, <1>7 DEF Hear, Call
    <2>5. heard'[c] = m.kind /\ \A d \in Callers \ {c} : heard'[d] = heard[d]
        BY <1>1, <2>1
    <2>6. \A d \in Callers : Script(d)' = Script(d)
        BY <2>3 DEF Script
    <2> QED
        BY <1>2, <2>1, <2>2, <2>3, <2>4, <2>5, <2>6
<1>8. ASSUME NEW c \in Callers, Succeed(c) PROVE Right'
    <2>1. pc[c] # "idle" /\ (errand[c] = "activate" => heard[c] = "active")
        BY <1>8 DEF Succeed, ScriptOver, Succeeds, Looking
    <2>2. errand[c] = "activate" => c \in met
        BY <2>1
    <2>3. UNCHANGED <<errand, looks, serial, heard, active, met, sent>>
        BY <1>8 DEF Succeed, kwin
    <2>4. pc'[c] = "idle" /\ \A d \in Callers \ {c} : pc'[d] = pc[d] /\ answer'[d] = answer[d]
        BY <1>1, <1>8 DEF Succeed, Return
    <2> QED
        BY <1>3, <2>2, <2>3, <2>4
<1>9. ASSUME NEW c \in Callers, Refused(c) \/ Fail(c) \/ TimeOut(c) \/ Killed(c) PROVE Right'
    <2>1. UNCHANGED <<errand, looks, serial, heard, active, met, sent>>
        BY <1>9 DEF Refused, Fail, TimeOut, Killed, kwin
    <2>2. /\ pc'[c] = "idle" /\ answer'[c] = "failed"
          /\ \A d \in Callers \ {c} : pc'[d] = pc[d] /\ answer'[d] = answer[d]
        BY <1>1, <1>9 DEF Refused, Fail, TimeOut, Killed, Return
    <2> QED
        BY <1>3, <2>1, <2>2
<1>10. ASSUME NEW c \in Callers, Loaded(c) \/ Ran(c) \/ PollAgain(c) \/ PollLast(c) PROVE Right'
    <2>1. UNCHANGED <<errand, looks, serial, heard, active, met, sent, answer>>
        BY <1>10 DEF Loaded, Ran, PollAgain, PollLast, kwin
    <2>2. pc[c] # "idle" /\ \A d \in Callers \ {c} : pc'[d] = pc[d]
        BY <1>1, <1>10 DEF Loaded, Ran, PollAgain, PollLast, Call
    <2> QED
        BY <1>3, <2>1, <2>2
<1>11. ASSUME NEW s, Loads(s) \/ Stops(s) PROVE Right'
    <2>1. UNCHANGED <<pc, errand, looks, serial, heard, active, met, sent, answer>>
        BY <1>11 DEF Loads, Stops, Takes
    <2> QED
        BY <1>3, <2>1
<1>12. ASSUME NEW s, Runs(s), s \in Scripts PROVE Right'
    <2>1. UNCHANGED <<pc, errand, looks, serial, heard, active, met, answer>>
        BY <1>12 DEF Runs, Takes
    <2>2. \A m \in sent' : m \in sent \/ (m.from = s /\ (m.kind = "active" => active))
        BY <1>12 DEF Runs, State
    <2>3. s.by \in Callers
        BY <1>12 DEF Scripts
    <2>4. \A c \in Callers : Script(c)' = Script(c)
        BY <2>1 DEF Script
    <2> QED
        BY <1>2, <2>1, <2>2, <2>3, <2>4
<1>13. CASE Raised \/ UserActivates
    <2>1. PICK on \in BOOLEAN : Activate(on)
        BY <1>13 DEF Raised, UserActivates, TypeOK
    <2>2. UNCHANGED <<pc, errand, looks, serial, heard, sent, answer>>
        BY <2>1 DEF Activate, caller
    <2>3. active' = on /\ met' = IF on THEN met \cup {c \in Callers : pc[c] # "idle"} ELSE met
        BY <2>1 DEF Activate
    <2>4. \A c \in Callers : Script(c)' = Script(c)
        BY <2>2 DEF Script
    <2>5. \A c \in Callers : active' /\ pc'[c] # "idle" => c \in met'
        BY <2>2, <2>3
    <2>6. met \subseteq met'
        BY <2>3
    <2> QED
        BY <1>2, <2>2, <2>4, <2>5, <2>6
<1>14. CASE UNCHANGED vars
    BY <1>3, <1>14 DEF vars, caller, kwin
<1>15. ASSUME KWinStep PROVE Right'
    <2>1. PICK s : s = Head(calls).of /\ calls # <<>> /\ (Loads(s) \/ Runs(s) \/ Stops(s))
        BY <1>15 DEF KWinStep
    <2>2. calls' = Tail(calls)
        BY <2>1 DEF Loads, Runs, Stops, Takes
    <2>3. s \in Scripts
        BY <2>1, <2>2, TakeRemoves
    <2> QED
        BY <1>11, <1>12, <2>1, <2>3
<1> QED
    BY <1>5, <1>6, <1>7, <1>8, <1>9, <1>10, <1>13, <1>14, <1>15 DEF Next, CallerStep

LEMMA ClearedStep == TypeOK /\ Numbered /\ Cleared /\ [Next]_vars => Cleared'
<1> SUFFICES ASSUME TypeOK, Numbered, Cleared, [Next]_vars PROVE Cleared'
    OBVIOUS
<1> USE DEF Cleared, Loading, NothingStaysLoaded
<1>1. /\ pc \in [Callers -> {"idle", "load", "run", "poll", "stop"}]
      /\ reply \in [Callers -> {"none", "ok", "refused"}]
      /\ serial \in [Callers -> Nat]
    BY DEF TypeOK
<1>2. \A c \in Callers : Script(c) \in Scripts /\ Script(c).by = c /\ Script(c).nth = serial[c]
    BY DEF TypeOK, Script, Scripts
<1>3. /\ \A s \in loaded : s \in Scripts
      /\ \A k \in Pending : k.of \in Scripts
      /\ \A s \in Scripts : s.by \in Callers /\ s.nth \in Nat
    BY PendingTyped DEF TypeOK, Scripts
\* The caller goes on to run or stop a script that is loaded.
<1>4. ASSUME NEW c \in Callers, NEW op \in {"run", "stop"}, Call(c, op, Script(c)),
             pc[c] \in {"run", "poll"} \/ (pc[c] = "load" /\ reply[c] = "ok"),
             UNCHANGED <<errand, looks, serial, loaded, left>>
      PROVE  Cleared'
    <2> DEFINE x == [op |-> op, of |-> Script(c)]
    <2>1. x \in [op : {"load", "run", "stop"}, of : Scripts] /\ x.op # "load"
        BY <1>2
    <2>2. calls' = Append(calls, x)
        BY <1>4 DEF Call
    <2>3. Pending' = Pending \cup {x}
        BY <2>1, <2>2, CallAdds
    <2>4. /\ pc'[c] = op /\ reply'[c] = "none"
          /\ \A d \in Callers \ {c} : pc'[d] = pc[d] /\ reply'[d] = reply[d]
        BY <1>1, <1>4 DEF Call
    <2>5. \A d \in Callers : Script(d)' = Script(d)
        BY <1>4 DEF Script
    <2>6. \A k \in Pending' : k.op = "load" => k.of \in left \/ Loading(k.of)'
        BY <1>3, <1>4, <2>1, <2>3, <2>4, <2>5
    <2>7. \A i, j \in DOMAIN calls' : i # j /\ calls'[i] = calls'[j] /\ calls'[i].op = "load" => calls'[i].of \in left
        <3>1. calls \in Seq([op : {"load", "run", "stop"}, of : Scripts])
            BY DEF TypeOK
        <3>2. \A i \in DOMAIN calls' : calls'[i].op = "load" => i \in DOMAIN calls /\ calls'[i] = calls[i]
            BY <2>1, <2>2, <3>1
        <3> QED
            BY <3>2
    <2>8. \A s \in loaded : s \in left \/ (pc'[s.by] # "idle" /\ s = Script(s.by)')
        BY <1>3, <1>4, <2>4, <2>5
    <2> QED
        BY <1>4, <2>4, <2>5, <2>6, <2>7, <2>8
\* The caller goes on to another script: its last one is gone.
<1>5. ASSUME NEW c \in Callers, NEW raises \in BOOLEAN, LoadNext(c, raises),
             pc[c] = "idle" \/ ScriptOver(c),
             \A d \in Callers \ {c} : Script(d)' = Script(d),
             Script(c)' = [by |-> c, nth |-> serial[c] + 1, raises |-> raises],
             UNCHANGED <<loaded, left>>
      PROVE  Cleared'
    <2> DEFINE x == [op |-> "load", of |-> Script(c)']
    <2>1. Script(c)' \in Scripts /\ Script(c)'.by = c /\ Script(c)'.nth = serial[c] + 1
        BY <1>1, <1>5 DEF Scripts
    <2>2. x \in [op : {"load", "run", "stop"}, of : Scripts] /\ calls' = Append(calls, x)
        BY <1>5, <2>1 DEF LoadNext, Call
    <2>3. Pending' = Pending \cup {x}
        BY <2>2, CallAdds
    <2>4. \A s \in Scripts : s.nth <= serial[s.by] => s # Script(c)'
        BY <1>1, <2>1
    <2>5. x \notin Pending /\ Script(c)' \notin loaded
        BY <1>3, <2>4 DEF Numbered
    <2>6. \A i, j \in DOMAIN calls' : i # j /\ calls'[i] = calls'[j] =>
              i \in DOMAIN calls /\ j \in DOMAIN calls /\ calls'[i] = calls[i] /\ calls'[j] = calls[j]
        BY <2>2, <2>5, CallAdds
    <2>7. /\ pc'[c] = "load" /\ reply'[c] = "none"
          /\ \A d \in Callers \ {c} : pc'[d] = pc[d] /\ reply'[d] = reply[d]
        BY <1>1, <1>5 DEF LoadNext, Call
    <2>8. \A s \in loaded : s.by = c => s \in left
        BY <1>2, <1>3, <1>5 DEF ScriptOver
    <2>9. \A k \in Pending : k.op = "load" /\ k.of.by = c => k.of \in left
        BY <1>3, <1>5 DEF ScriptOver
    <2>10. \A k \in Pending' : k.op = "load" => k.of \in left \/ Loading(k.of)'
        BY <1>3, <1>5, <2>1, <2>3, <2>5, <2>7, <2>9
    <2>11. \A s \in loaded : s \in left \/ (pc'[s.by] # "idle" /\ s = Script(s.by)')
        BY <1>3, <1>5, <2>7, <2>8
    <2>12. \A d \in Callers :
              \/ pc'[d] = "load" /\ reply'[d] = "refused"
              \/ pc'[d] = "stop" /\ reply'[d] = "ok"
              => Script(d)' \notin loaded \ left
        BY <1>5, <2>7
    <2>13. \A i, j \in DOMAIN calls' : i # j /\ calls'[i] = calls'[j] /\ calls'[i].op = "load" => calls'[i].of \in left
        BY <2>6
    <2> QED
        BY <1>5, <2>10, <2>11, <2>12, <2>13
\* The caller returns: its script is gone, or it has given up on it.
<1>6. ASSUME NEW c \in Callers, NEW a, Return(c, a),
             UNCHANGED <<errand, looks, serial, reply, calls, loaded>>,
             left \subseteq left',
             \/ Script(c) \in left'
             \/ Script(c) \notin loaded \ left /\ ~(pc[c] = "load" /\ reply[c] = "none")
      PROVE  Cleared'
    <2>1. pc'[c] = "idle" /\ \A d \in Callers \ {c} : pc'[d] = pc[d]
        BY <1>1, <1>6 DEF Return
    <2>2. \A d \in Callers : Script(d)' = Script(d)
        BY <1>6 DEF Script
    <2>3. \A s \in loaded : s \in left' \/ (pc'[s.by] # "idle" /\ s = Script(s.by)')
        BY <1>3, <1>6, <2>1, <2>2
    <2>4. \A k \in Pending : k.op = "load" => k.of \in left' \/ Loading(k.of)'
        BY <1>3, <1>6, <2>1, <2>2
    <2>5. Pending' = Pending
        BY <1>6 DEF Pending
    <2> QED
        BY <1>6, <2>1, <2>2, <2>3, <2>4, <2>5
<1>7. ASSUME UNCHANGED <<calls, loaded, left, errand, looks, serial, reply>>,
             \/ pc' = pc
             \/ \E c \in Callers : pc[c] = "run" /\ pc' = [pc EXCEPT ![c] = "poll"]
      PROVE  Cleared'
    <2>1. \A d \in Callers : Script(d)' = Script(d)
        BY <1>7 DEF Script
    <2>2. \A d \in Callers : pc'[d] = pc[d] \/ (pc[d] = "run" /\ pc'[d] = "poll")
        BY <1>1, <1>7
    <2>3. Pending' = Pending
        BY <1>7 DEF Pending
    <2>4. \A k \in Pending : k.op = "load" => k.of \in left \/ Loading(k.of)'
        BY <1>3, <1>7, <2>1, <2>2
    <2>5. \A s \in loaded : s \in left \/ (pc'[s.by] # "idle" /\ s = Script(s.by)')
        BY <1>3, <2>1, <2>2
    <2>6. \A d \in Callers :
              \/ pc'[d] = "load" /\ reply'[d] = "refused"
              \/ pc'[d] = "stop" /\ reply'[d] = "ok"
              => Script(d)' \notin loaded \ left
        BY <1>7, <2>1, <2>2
    <2> QED
        BY <1>7, <2>3, <2>4, <2>5, <2>6
<1>8. ASSUME NEW c \in Callers, CallerStep(c) \/ Killed(c) PROVE Cleared'
    <2>1. CASE Loaded(c)
        BY <1>4, <2>1 DEF Loaded
    <2>2. CASE Hear(c)
        BY <1>4, <2>2 DEF Hear
    <2>3. CASE PollLast(c)
        BY <1>4, <2>3 DEF PollLast
    <2>4. CASE Look(c)
        <3>1. \A d \in Callers \ {c} : Script(d)' = Script(d)
            BY <2>4 DEF Look, LoadNext, Script, TypeOK
        <3>2. Script(c)' = [by |-> c, nth |-> serial[c] + 1, raises |-> FALSE]
            <4>1. serial'[c] = serial[c] + 1 /\ looks'[c] = looks[c] + 1 /\ looks[c] \in Nat
                BY <2>4 DEF Look, LoadNext, TypeOK
            <4>2. (errand'[c] = "activate" /\ looks'[c] = 0) = FALSE
                BY <4>1
            <4> QED
                BY <4>1, <4>2 DEF Script
        <3> QED
            BY <1>5, <2>4, <3>1, <3>2 DEF Look
    <2>5. CASE Refused(c)
        BY <1>6, <2>5 DEF Refused, kwin
    <2>6. CASE Succeed(c) \/ Fail(c)
        BY <1>6, <2>6 DEF Succeed, Fail, ScriptOver, kwin
    <2>7. CASE TimeOut(c) \/ Killed(c)
        BY <1>6, <2>7 DEF TimeOut, Killed, kwin
    <2>8. CASE Ran(c) \/ PollAgain(c)
        BY <1>7, <2>8 DEF Ran, PollAgain, kwin
    <2> QED
        BY <1>8, <2>1, <2>2, <2>3, <2>4, <2>5, <2>6, <2>7, <2>8 DEF CallerStep
<1>9. ASSUME NEW c \in Callers, NEW e \in Errands, Ask(c, e) PROVE Cleared'
    <2>1. \A d \in Callers \ {c} : Script(d)' = Script(d)
        BY <1>9 DEF Ask, LoadNext, Script, TypeOK
    <2>2. Script(c)' = [by |-> c, nth |-> serial[c] + 1, raises |-> e = "activate"]
        <3>1. serial'[c] = serial[c] + 1 /\ looks'[c] = 0 /\ errand'[c] = e
            BY <1>9 DEF Ask, LoadNext, TypeOK
        <3> QED
            BY <3>1 DEF Script
    <2> QED
        BY <1>5, <1>9, <2>1, <2>2 DEF Ask
<1>10. ASSUME NEW s, Loads(s) \/ Runs(s) \/ Stops(s) PROVE Cleared'
    <2>1. calls # <<>> /\ calls' = Tail(calls) /\ s = Head(calls).of
        BY <1>10 DEF Loads, Runs, Stops, Takes
    <2>2. /\ Head(calls) \in Pending /\ Pending' \subseteq Pending /\ s \in Scripts
          /\ \A i, j \in DOMAIN calls' : i # j /\ calls'[i] = calls'[j] =>
                \E k, l \in DOMAIN calls : k # l /\ calls[k] = calls[l] /\ calls[k] = calls'[i]
        BY <2>1, TakeRemoves
    <2>3. Head(calls).op = "load" /\ Head(calls) \in Pending' => s \in left
        BY <2>1, TakeRemoves
    <2>4. UNCHANGED <<pc, errand, looks, serial, left>>
        BY <1>10 DEF Loads, Runs, Stops, Takes
    <2>5. \A c \in Callers : Script(c)' = Script(c)
        BY <2>4 DEF Script
    <2>6. \A i, j \in DOMAIN calls' : i # j /\ calls'[i] = calls'[j] /\ calls'[i].op = "load" => calls'[i].of \in left
        BY <2>2
    <2>7. CASE Loads(s)
        <3>1. Head(calls) = [op |-> "load", of |-> s]
            BY <2>7 DEF Loads, Takes
        <3>2. s \in left \/ Loading(s)
            BY <2>2, <3>1
        <3>3. PICK r \in {"ok", "refused"} :
                  /\ Answered("load", s, r)
                  /\ loaded' = IF r = "ok" THEN loaded \cup {s} ELSE loaded
            BY <2>7 DEF Loads
        <3>4. \A c \in Callers :
                  reply'[c] = IF s = Script(c) /\ pc[c] = "load" THEN r ELSE reply[c]
            BY <1>1, <1>2, <2>2, <3>3 DEF Answered, Scripts
        <3>5. \A k \in Pending' : k.op = "load" => k.of \in left \/ (Loading(k.of) /\ k.of # s)
            <4>1. \A k \in Pending' : k.op = "load" /\ k.of = s => k = Head(calls)
                BY <2>2, <3>1, PendingTyped
            <4> QED
                BY <2>2, <2>3, <3>1, <4>1
        <3>6. \A k \in Pending' : k.op = "load" => k.of \in left \/ Loading(k.of)'
            BY <1>3, <2>2, <2>4, <2>5, <3>3, <3>4, <3>5
        <3>7. \A t \in loaded' : t \in left \/ (pc[t.by] # "idle" /\ t = Script(t.by)')
            BY <1>3, <2>2, <2>5, <3>2, <3>3
        <3>8. \A c \in Callers :
                  \/ pc[c] = "load" /\ reply'[c] = "refused"
                  \/ pc[c] = "stop" /\ reply'[c] = "ok"
                  => Script(c) \notin loaded' \ left
            BY <1>2, <3>2, <3>3, <3>4
        <3> HIDE DEF Loading
        <3> QED
            BY <2>4, <2>5, <2>6, <3>6, <3>7, <3>8
    <2>8. CASE Runs(s)
        <3>1. \A c \in Callers :
                  reply'[c] = reply[c] \/ pc[c] = "run"
            BY <1>1, <1>2, <2>2, <2>8 DEF Runs, Answered, Scripts
        <3>2. loaded' = loaded
            BY <2>8 DEF Runs
        <3>3. \A k \in Pending' : k.op = "load" => k.of \in left \/ Loading(k.of)'
            BY <1>3, <2>2, <2>4, <2>5, <3>1, <3>2
        <3>4. \A c \in Callers :
                  \/ pc[c] = "load" /\ reply'[c] = "refused"
                  \/ pc[c] = "stop" /\ reply'[c] = "ok"
                  => Script(c) \notin loaded' \ left
            BY <3>1, <3>2
        <3>5. \A t \in loaded' : t \in left \/ (pc[t.by] # "idle" /\ t = Script(t.by)')
            BY <1>3, <2>5, <3>2
        <3> HIDE DEF Loading
        <3> QED
            BY <2>4, <2>5, <2>6, <3>3, <3>4, <3>5
    <2>9. CASE Stops(s)
        <3>1. \A c \in Callers :
                  reply'[c] = reply[c] \/ (pc[c] = "stop" /\ s = Script(c))
            BY <1>1, <1>2, <2>2, <2>9 DEF Stops, Answered, Scripts
        <3>2. loaded' = loaded \ {s}
            BY <2>9 DEF Stops
        <3>3. \A k \in Pending' : k.op = "load" => k.of \in left \/ Loading(k.of)'
            BY <1>3, <2>2, <2>4, <2>5, <3>1, <3>2
        <3>4. \A c \in Callers :
                  \/ pc[c] = "load" /\ reply'[c] = "refused"
                  \/ pc[c] = "stop" /\ reply'[c] = "ok"
                  => Script(c) \notin loaded' \ left
            BY <3>1, <3>2
        <3>5. \A t \in loaded' : t \in left \/ (pc[t.by] # "idle" /\ t = Script(t.by)')
            BY <1>3, <2>5, <3>2
        <3> HIDE DEF Loading
        <3> QED
            BY <2>4, <2>5, <2>6, <3>3, <3>4, <3>5
    <2> QED
        BY <1>10, <2>7, <2>8, <2>9
<1>11. CASE Raised \/ UserActivates
    BY <1>7, <1>11 DEF Raised, UserActivates, Activate, caller
<1>12. CASE UNCHANGED vars
    BY <1>7, <1>12 DEF vars, caller, kwin
<1> QED
    BY <1>8, <1>9, <1>10, <1>11, <1>12 DEF Next, KWinStep

LEMMA InductiveHolds == Spec => []Inductive
<1>1. Init => Inductive
    <2> SUFFICES ASSUME Init PROVE Inductive
        OBVIOUS
    <2>1. Pending = {} /\ DOMAIN calls = {}
        BY DEF Init, Pending
    <2>2. Numbered
        BY <2>1 DEF Init, Numbered
    <2>3. Told /\ Right
        BY DEF Init, Told, Right, Witness, ActivatedWasActive, Results
    <2>4. Cleared
        BY <2>1 DEF Init, Cleared, NothingStaysLoaded
    <2> QED
        BY <2>2, <2>3, <2>4 DEF Inductive
<1>2. TypeOK /\ Inductive /\ [Next]_vars => Inductive'
    BY NumberedStep, ToldStep, RightStep, ClearedStep DEF Inductive
<1> QED
    BY <1>1, <1>2, TypeCorrect, PTL DEF Spec

\* What a query returns is what its own script has sent: each call of run_script
\* has a receiver to itself, which an earlier script cannot reach.
THEOREM AnswerIsOwnHolds == Spec => []AnswerIsOwn
<1>1. Inductive => AnswerIsOwn
    BY DEF Inductive, Told, AnswerIsOwn
<1> QED
    BY <1>1, InductiveHolds, PTL

\* An activation that succeeds has met the window active since it was asked for,
\* however late KWin acts and whatever the user does (activate_window).
THEOREM ActivatedWasActiveHolds == Spec => []ActivatedWasActive
<1>1. Inductive => ActivatedWasActive
    BY DEF Inductive, Right
<1> QED
    BY <1>1, InductiveHolds, PTL

\* A script is in KWin only while its caller is about it, or after the caller gave
\* up on a call KWin had not answered (run_script).
THEOREM NothingStaysLoadedHolds == Spec => []NothingStaysLoaded
<1>1. Inductive => NothingStaysLoaded
    BY DEF Inductive, Cleared
<1> QED
    BY <1>1, InductiveHolds, PTL

-----------------------------------------------------------------------------
(* Every call comes back: what CallsReturn rests on, but for the fairness. *)

\* The steps a caller can still take, about the script it is at and in all.
InScript(c) ==
    CASE pc[c] = "load" -> MaxPolls + 3
      [] pc[c] = "run"  -> MaxPolls + 2
      [] pc[c] = "poll" -> MaxPolls + 1 - polls[c]
      [] pc[c] = "stop" -> 1
      [] OTHER -> 0

InLooks(c) == (MaxLooks - looks[c]) * (MaxPolls + 3)

StepsLeft(c) == IF pc[c] = "idle" THEN 0 ELSE InLooks(c) + InScript(c)

\* One of the guards of CallerStep(c) is met.
HasStep(c) ==
    \/ pc[c] \in {"load", "run", "stop"} /\ reply[c] \in {"none", "ok"}
    \/ pc[c] = "load" /\ reply[c] = "refused"
    \/ pc[c] = "poll" /\ polls[c] < MaxPolls

NeverStuck == \A c \in Callers : pc[c] # "idle" => HasStep(c)

CallIsBounded ==
    [][\A c \in Callers :
          /\ pc[c] # "idle" => StepsLeft(c)' <= StepsLeft(c)
          /\ CallerStep(c) => StepsLeft(c)' < StepsLeft(c)]_vars

\* Only a load is refused, and a script is polled for fewer times than the limit.
Going == \A c \in Callers :
    /\ pc[c] \in {"run", "stop"} => reply[c] # "refused"
    /\ pc[c] \in {"load", "run", "poll"} => polls[c] < MaxPolls

LEMMA GoingStep == TypeOK /\ Going /\ [Next]_vars => Going'
<1> SUFFICES ASSUME TypeOK, Going, [Next]_vars PROVE Going'
    OBVIOUS
<1> USE DEF Going
<1>1. /\ pc \in [Callers -> {"idle", "load", "run", "poll", "stop"}]
      /\ polls \in [Callers -> 0 .. MaxPolls]
      /\ reply \in [Callers -> {"none", "ok", "refused"}]
    BY DEF TypeOK
<1>2. ASSUME NEW c \in Callers, NEW r, LoadNext(c, r) PROVE Going'
    BY <1>1, <1>2, PollsAssumption DEF LoadNext, Call
<1>3. ASSUME NEW c \in Callers, NEW a, Return(c, a), UNCHANGED <<polls, reply>>
      PROVE  Going'
    BY <1>1, <1>3 DEF Return
<1>4. ASSUME NEW c \in Callers, CallerStep(c) \/ Killed(c) PROVE Going'
    <2>1. CASE Loaded(c) \/ Hear(c) \/ PollLast(c)
        BY <1>1, <2>1 DEF Loaded, Hear, PollLast, Call
    <2>2. CASE Look(c)
        BY <1>2, <2>2 DEF Look
    <2>3. CASE Ran(c)
        BY <1>1, <2>3 DEF Ran
    <2>4. CASE PollAgain(c)
        BY <1>1, <2>4, PollsAssumption DEF PollAgain
    <2>5. CASE Refused(c) \/ Succeed(c) \/ Fail(c) \/ TimeOut(c) \/ Killed(c)
        BY <1>3, <2>5 DEF Refused, Succeed, Fail, TimeOut, Killed
    <2> QED
        BY <1>4, <2>1, <2>2, <2>3, <2>4, <2>5 DEF CallerStep
<1>5. ASSUME NEW c \in Callers, NEW e \in Errands, Ask(c, e) PROVE Going'
    BY <1>2, <1>5 DEF Ask
<1>6. ASSUME NEW s, Loads(s) \/ Runs(s) \/ Stops(s) PROVE Going'
    <2>1. pc' = pc /\ polls' = polls
        BY <1>6 DEF Loads, Runs, Stops, Takes
    <2>2. \A c \in Callers : pc[c] # "load" => reply'[c] \in {reply[c], "ok"}
        BY <1>1, <1>6 DEF Loads, Runs, Stops, Answered
    <2> QED
        BY <1>1, <2>1, <2>2
<1>7. CASE Raised \/ UserActivates \/ UNCHANGED vars
    BY <1>7 DEF Raised, UserActivates, Activate, vars, caller
<1> QED
    BY <1>4, <1>5, <1>6, <1>7 DEF Next, KWinStep

LEMMA GoingHolds == Spec => []Going
<1>1. Init => Going
    BY PollsAssumption DEF Init, Going
<1> QED
    BY <1>1, GoingStep, TypeCorrect, PTL DEF Spec

\* What is left of an errand, and that a look is taken from it.
LEMMA LooksTaken ==
    ASSUME TypeOK, NEW c \in Callers
    PROVE  /\ InLooks(c) \in Nat /\ InScript(c) \in Nat
           /\ pc[c] # "idle" => InScript(c) > 0 /\ StepsLeft(c) > 0
           /\ looks'[c] = looks[c] + 1 /\ looks[c] < MaxLooks =>
                InLooks(c)' = InLooks(c) - (MaxPolls + 3)
<1>1. /\ MaxPolls \in Nat \ {0} /\ MaxLooks \in Nat \ {0}
      /\ looks[c] \in 0 .. MaxLooks /\ polls[c] \in 0 .. MaxPolls
      /\ pc[c] \in {"idle", "load", "run", "poll", "stop"}
    BY PollsAssumption DEF TypeOK
<1>2. \A m, k \in Nat : m * k \in Nat /\ (m # 0 => (m - 1) * k = m * k - k)
    OBVIOUS
<1>3. MaxLooks - looks[c] \in Nat /\ MaxPolls + 3 \in Nat
    BY <1>1
<1>4. InLooks(c) \in Nat
    BY <1>2, <1>3 DEF InLooks
<1>5. InScript(c) \in Nat /\ (pc[c] # "idle" => InScript(c) > 0)
    BY <1>1 DEF InScript
<1>6. ASSUME looks'[c] = looks[c] + 1, looks[c] < MaxLooks
      PROVE  InLooks(c)' = InLooks(c) - (MaxPolls + 3)
    <2>1. MaxLooks - looks[c] # 0 /\ MaxLooks - looks'[c] = (MaxLooks - looks[c]) - 1
        BY <1>1, <1>6
    <2>2. InLooks(c)' = ((MaxLooks - looks[c]) - 1) * (MaxPolls + 3)
        BY <2>1 DEF InLooks
    <2>3. ((MaxLooks - looks[c]) - 1) * (MaxPolls + 3)
             = (MaxLooks - looks[c]) * (MaxPolls + 3) - (MaxPolls + 3)
        BY <1>2, <1>3, <2>1
    <2> QED
        BY <2>2, <2>3 DEF InLooks
<1> QED
    BY <1>4, <1>5, <1>6 DEF StepsLeft

LEMMA StepsLeftStep ==
    ASSUME TypeOK, TypeOK', Going, [Next]_vars, NEW c \in Callers
    PROVE  /\ pc[c] # "idle" => StepsLeft(c)' <= StepsLeft(c)
           /\ CallerStep(c) => StepsLeft(c)' < StepsLeft(c)
<1>1. /\ MaxPolls \in Nat \ {0} /\ MaxLooks \in Nat \ {0}
      /\ pc \in [Callers -> {"idle", "load", "run", "poll", "stop"}]
      /\ looks \in [Callers -> 0 .. MaxLooks] /\ polls \in [Callers -> 0 .. MaxPolls]
    BY PollsAssumption DEF TypeOK
<1>2. /\ InLooks(c) \in Nat /\ InScript(c) \in Nat /\ StepsLeft(c) \in Nat
      /\ pc[c] # "idle" => InScript(c) > 0 /\ StepsLeft(c) > 0
    BY LooksTaken DEF StepsLeft
<1>3. ASSUME pc[c] # "idle", pc'[c] = "idle" PROVE StepsLeft(c)' < StepsLeft(c)
    BY <1>2, <1>3 DEF StepsLeft
<1>4. ASSUME pc'[c] = pc[c], looks'[c] = looks[c], polls'[c] = polls[c]
      PROVE  StepsLeft(c)' = StepsLeft(c)
    BY <1>4 DEF StepsLeft, InLooks, InScript
<1>5. ASSUME pc[c] # "idle", pc'[c] # "idle", looks'[c] = looks[c], InScript(c)' < InScript(c)
      PROVE  StepsLeft(c)' < StepsLeft(c)
    <2>1. InLooks(c)' = InLooks(c)
        BY <1>5 DEF InLooks
    <2>2. InScript(c)' \in Nat
        BY <1>1, LooksTaken, PollsAssumption DEF InScript, TypeOK
    <2> QED
        BY <1>2, <1>5, <2>1, <2>2 DEF StepsLeft
<1>6. ASSUME CallerStep(c) PROVE StepsLeft(c)' < StepsLeft(c)
    <2>1. CASE Loaded(c)
        BY <1>1, <1>5, <2>1 DEF Loaded, Call, InScript
    <2>2. CASE Ran(c)
        <3>1. pc[c] = "run" /\ pc'[c] = "poll" /\ looks'[c] = looks[c] /\ polls'[c] \in Nat
            BY <1>1, <2>2 DEF Ran
        <3>2. InScript(c) = MaxPolls + 2 /\ InScript(c)' = MaxPolls + 1 - polls'[c]
            BY <3>1 DEF InScript
        <3> QED
            BY <1>1, <1>5, <3>1, <3>2
    <2>3. CASE Hear(c) \/ PollLast(c)
        <3>1. /\ pc[c] = "poll" /\ pc'[c] = "stop" /\ looks'[c] = looks[c]
              /\ polls[c] \in Nat /\ polls[c] < MaxPolls
            BY <1>1, <2>3 DEF Hear, PollLast, Call, Going
        <3>2. InScript(c) = MaxPolls + 1 - polls[c] /\ InScript(c)' = 1
            BY <3>1 DEF InScript
        <3> QED
            BY <1>1, <1>5, <3>1, <3>2
    <2>4. CASE PollAgain(c)
        BY <1>1, <1>5, <2>4 DEF PollAgain, InScript
    <2>5. CASE Look(c)
        <3>1. looks'[c] = looks[c] + 1 /\ looks[c] < MaxLooks
            BY <1>1, <2>5 DEF Look, LooksOn
        <3>2. pc[c] = "stop" /\ pc'[c] = "load"
            BY <1>1, <2>5 DEF Look, ScriptOver, LoadNext, Call
        <3>3. InLooks(c)' = InLooks(c) - (MaxPolls + 3)
            BY <3>1, LooksTaken
        <3> QED
            BY <1>1, <1>2, <3>2, <3>3 DEF StepsLeft, InScript
    <2>6. CASE Refused(c) \/ Succeed(c) \/ Fail(c) \/ TimeOut(c)
        BY <1>1, <1>3, <2>6 DEF Refused, Succeed, Fail, ScriptOver, TimeOut, Return
    <2> QED
        BY <1>6, <2>1, <2>2, <2>3, <2>4, <2>5, <2>6 DEF CallerStep
<1>7. ASSUME NEW d \in Callers, d # c, CallerStep(d) \/ Killed(d) PROVE StepsLeft(c)' = StepsLeft(c)
    <2>1. pc'[c] = pc[c] /\ looks'[c] = looks[c] /\ polls'[c] = polls[c]
        BY <1>1, <1>7
        DEF CallerStep, Loaded, Refused, Ran, Hear, PollAgain, PollLast, Succeed, Look, Fail,
            TimeOut, Killed, Return, LoadNext, Call
    <2> QED
        BY <1>4, <2>1
<1>8. ASSUME Killed(c) PROVE StepsLeft(c)' < StepsLeft(c)
    BY <1>1, <1>3, <1>8 DEF Killed, Return
<1>9. ASSUME NEW d \in Callers, NEW e \in Errands, Ask(d, e), pc[c] # "idle"
      PROVE  StepsLeft(c)' = StepsLeft(c)
    BY <1>1, <1>4, <1>9 DEF Ask, LoadNext, Call
<1>10. ASSUME NEW s, Loads(s) \/ Runs(s) \/ Stops(s) PROVE StepsLeft(c)' = StepsLeft(c)
    BY <1>4, <1>10 DEF Loads, Runs, Stops, Takes
<1>11. ASSUME Raised \/ UserActivates \/ UNCHANGED vars PROVE StepsLeft(c)' = StepsLeft(c)
    <2>1. UNCHANGED <<pc, looks, polls>>
        BY <1>11 DEF Raised, UserActivates, Activate, vars, caller
    <2> QED
        BY <1>4, <2>1
<1>12. pc[c] # "idle" => StepsLeft(c)' <= StepsLeft(c)
    <2>1. StepsLeft(c)' \in Nat
        <3>1. /\ MaxLooks - looks'[c] \in Nat /\ MaxPolls + 3 \in Nat
              /\ MaxPolls + 1 - polls'[c] \in Nat
            BY PollsAssumption DEF TypeOK
        <3>2. \A m, k \in Nat : m * k \in Nat
            OBVIOUS
        <3>3. InLooks(c)' \in Nat
            BY <3>1, <3>2 DEF InLooks
        <3>4. InScript(c)' \in Nat
            BY <1>1, <3>1 DEF InScript
        <3> QED
            BY <3>3, <3>4 DEF StepsLeft
    <2>2. StepsLeft(c)' = StepsLeft(c) \/ StepsLeft(c)' < StepsLeft(c) \/ pc[c] = "idle"
        BY <1>6, <1>7, <1>8, <1>9, <1>10, <1>11 DEF Next, KWinStep
    <2> QED
        BY <1>2, <2>1, <2>2
<1> QED
    BY <1>6, <1>12

\* Whatever KWin does and however many callers there are, the steps a call can
\* still take (three D-Bus calls, SCRIPT_OUTPUT_MAX_POLLS polls and
\* ACTIVATION_MAX_POLLS looks) are fixed when it is made: each of its own takes
\* one off, and nothing anybody else does adds one.
THEOREM CallIsBoundedHolds == Spec => CallIsBounded
<1>1. TypeOK /\ TypeOK' /\ Going /\ [Next]_vars =>
        [\A c \in Callers :
          /\ pc[c] # "idle" => StepsLeft(c)' <= StepsLeft(c)
          /\ CallerStep(c) => StepsLeft(c)' < StepsLeft(c)]_vars
    BY StepsLeftStep
<1> QED
    BY <1>1, TypeCorrect, GoingHolds, PTL DEF Spec, CallIsBounded

\* And it always has one to take: no call waits for something that is not bound
\* to come (run_script, DBUS_TIMEOUT).
THEOREM NeverStuckHolds == Spec => []NeverStuck
<1>1. TypeOK /\ Going => NeverStuck
    BY DEF TypeOK, Going, NeverStuck, HasStep
<1> QED
    BY <1>1, GoingHolds, TypeCorrect, PTL

-----------------------------------------------------------------------------
(* Applications. *)

LEMMA BundleIdTyped ==
    ASSUME NEW f \in Files
    PROVE  /\ BundleId(f) \in Raw /\ f.stem \in Names
           /\ Aliases(f) \subseteq Names
           /\ BundleId(f).name \in Aliases(f)
<1>1. CASE f.class = None
    BY <1>1 DEF Files, BundleId, Plain, Raw, Aliases
<1>2. CASE f.class # None
    <2>1. f.class \in Raw
        BY <1>2 DEF Files
    <2>2. f.class.name \in Names
        BY <2>1 DEF Raw
    <2> QED
        BY <1>2, <2>1, <2>2 DEF Files, BundleId, Aliases
<1> QED
    BY <1>1, <1>2

LEMMA IndexTypeStep == IndexTypeOK /\ [IndexNext]_indexVars => IndexTypeOK'
<1> SUFFICES ASSUME IndexTypeOK, [IndexNext]_indexVars PROVE IndexTypeOK'
    OBVIOUS
<1>1. CASE Rebuild
    <2>1. entries' \in Seq(Files) /\ walked' \in Nat
        BY <1>1 DEF Rebuild
    <2>2. aliases' \in [{} -> Raw]
        BY <1>1 DEF Rebuild
    <2> QED
        BY <2>1, <2>2 DEF IndexTypeOK
<1>2. ASSUME NEW f \in Files, List(f) PROVE IndexTypeOK'
    <2>1. entries' \in Seq(Files) /\ walked' \in Nat
        BY <1>2 DEF List, IndexTypeOK
    <2>2. PICK S \in SUBSET Names : aliases \in [S -> Raw]
        BY DEF IndexTypeOK
    <2>3. aliases' \in [S \cup Aliases(f) -> Raw]
        BY <1>2, <2>2, BundleIdTyped DEF List, Claim
    <2> QED
        BY <2>1, <2>2, <2>3, BundleIdTyped DEF IndexTypeOK
<1>3. ASSUME NEW f \in Files, Skip(f) PROVE IndexTypeOK'
    BY <1>3 DEF Skip, IndexTypeOK
<1>4. CASE UNCHANGED indexVars
    BY <1>4 DEF indexVars, IndexTypeOK
<1> QED
    BY <1>1, <1>2, <1>3, <1>4 DEF IndexNext

\* Every reachable index is well typed, whatever files there are.
THEOREM IndexTypeCorrect == IndexSpec => []IndexTypeOK
<1>1. IndexInit => IndexTypeOK
    <2>1. <<>> \in Seq(Files)
        OBVIOUS
    <2>2. [n \in {} |-> Plain(n)] \in [{} -> Raw]
        OBVIOUS
    <2> QED
        BY <2>1, <2>2 DEF IndexInit, IndexTypeOK
<1> QED
    BY <1>1, IndexTypeStep, PTL DEF IndexSpec

\* A name that is not taken yet stands for the entry that has it.
FirstNamesIt ==
    /\ DOMAIN aliases \subseteq UNION {Aliases(entries[i]) : i \in DOMAIN entries}
    /\ \A i \in DOMAIN entries : \A n \in Aliases(entries[i]) :
          /\ n \in DOMAIN aliases
          /\ (\A j \in 1 .. i - 1 : n \notin Aliases(entries[j])) => aliases[n] = BundleId(entries[i])

IndexInductive == FirstNamesIt /\ KnownCanBeOpened

LEMMA IndexStep == IndexTypeOK /\ IndexInductive /\ [IndexNext]_indexVars => IndexInductive'
<1> SUFFICES ASSUME IndexTypeOK, IndexInductive, [IndexNext]_indexVars PROVE IndexInductive'
    OBVIOUS
<1> USE DEF IndexInductive, FirstNamesIt, KnownCanBeOpened
<1>1. CASE Rebuild
    <2>1. DOMAIN entries' = {} /\ DOMAIN aliases' = {}
        BY <1>1 DEF Rebuild
    <2> QED
        BY <2>1
<1>2. ASSUME NEW f \in Files, List(f) PROVE IndexInductive'
    <2>1. /\ Len(entries) \in Nat
          /\ DOMAIN entries = 1 .. Len(entries) /\ DOMAIN entries' = 1 .. Len(entries) + 1
          /\ entries'[Len(entries) + 1] = f
          /\ \A i \in DOMAIN entries : entries'[i] = entries[i]
        BY <1>2 DEF List, IndexTypeOK
    <2>2. \A i \in DOMAIN entries : BundleId(entries[i]) # BundleId(f)
        BY <1>2 DEF List, Seen
    <2>3. /\ DOMAIN aliases' = DOMAIN aliases \cup Aliases(f)
          /\ \A n \in DOMAIN aliases : aliases'[n] = aliases[n]
          /\ \A n \in Aliases(f) : n \notin DOMAIN aliases => aliases'[n] = BundleId(f)
        BY <1>2 DEF List, Claim
    <2> QED
        BY <2>1, <2>2, <2>3
<1>3. ASSUME NEW f \in Files, Skip(f) PROVE IndexInductive'
    BY <1>3 DEF Skip
<1>4. CASE UNCHANGED indexVars
    BY <1>4 DEF indexVars
<1> QED
    BY <1>1, <1>2, <1>3, <1>4 DEF IndexNext

LEMMA IndexInductiveHolds == IndexSpec => []IndexInductive
<1>1. IndexInit => IndexInductive
    <2> SUFFICES ASSUME IndexInit PROVE IndexInductive
        OBVIOUS
    <2>1. DOMAIN entries = {} /\ DOMAIN aliases = {}
        BY DEF IndexInit
    <2> QED
        BY <2>1 DEF IndexInductive, FirstNamesIt, KnownCanBeOpened
<1> QED
    BY <1>1, IndexStep, IndexTypeCorrect, PTL DEF IndexSpec

\* A window whose name the index knows is taken for one application that can be
\* opened: neither hidden entries nor repeated bundle ids give anything a name.
THEOREM KnownCanBeOpenedHolds == IndexSpec => []KnownCanBeOpened
<1>1. IndexInductive => KnownCanBeOpened
    BY DEF IndexInductive
<1> QED
    BY <1>1, IndexInductiveHolds, PTL

\* Whoever speaks for a window is the window at the end of its way, if that has a
\* name (bundle_id_from_parts).
LEMMA RootSpeaks ==
    ASSUME NEW w \in Windows, NEW k \in Roots(w), Given(w[k]) # {}
    PROVE  Reported(w) = {Report(w[k])}
<1>1. DOMAIN w = 1 .. Len(w) /\ Len(w) \in Nat
    BY WindowsAssumption
<1>2. k \in DOMAIN w /\ (\A j \in 1 .. k - 1 : w[j].transient) /\ (k = Len(w) \/ ~w[k].transient)
    BY DEF Roots
<1> DEFINE Named == {i \in DOMAIN w : Given(w[i]) # {} /\ \A j \in 1 .. i - 1 : w[j].transient}
<1>3. k \in Named
    BY <1>2
<1>4. \A j \in Named : j <= k
    <2> SUFFICES ASSUME NEW j \in Named, j > k PROVE FALSE
        BY <1>1, <1>2
    <2>1. k \in 1 .. j - 1 /\ k # Len(w)
        BY <1>1, <1>2
    <2> QED
        BY <1>2, <2>1
<1>5. \A j \in Named : j \in Nat /\ k \in Nat
    BY <1>1, <1>2
<1>6. {i \in Named : \A j \in Named : j <= i} = {k}
    <2> HIDE DEF Named
    <2> QED
        BY <1>3, <1>4, <1>5
<1>7. Speaks(w) = {k}
    BY <1>6 DEF Speaks
<1> QED
    BY <1>7 DEF Reported

\* An allow list that names an application admits its windows and their dialogs,
\* and no others, whatever is installed besides: a bundle id that no alias leads
\* to is nobody's (canonicalize, is_window_allowed).
THEOREM AllowListIsExactHolds == IndexSpec => []AllowListIsExact
<1>1. IndexTypeOK /\ IndexInductive => AllowListIsExact
    <2> SUFFICES ASSUME IndexTypeOK, IndexInductive,
                        NEW i \in DOMAIN entries, ~Shadowed(i),
                        NEW w \in Windows, NEW k \in Roots(w), Given(w[k]) # {}
                 PROVE  Allowed(w, {BundleId(entries[i])})
                            <=> Report(w[k]).name \in Aliases(entries[i])
        BY DEF AllowListIsExact
    <2> DEFINE n == Report(w[k]).name
    <2>1. Allowed(w, {BundleId(entries[i])}) <=> Canonical(Report(w[k])) = BundleId(entries[i])
        BY RootSpeaks DEF Allowed, BundlesOf
    <2>2. entries[i] \in Files
        BY DEF IndexTypeOK
    <2>3. CASE n \in Aliases(entries[i])
        <3>1. n \in DOMAIN aliases /\ aliases[n] = BundleId(entries[i])
            BY <2>3 DEF IndexInductive, FirstNamesIt, Shadowed
        <3> QED
            BY <2>1, <2>3, <3>1 DEF Canonical
    <2>4. CASE n \notin Aliases(entries[i]) /\ n \in DOMAIN aliases
        <3>1. PICK j \in DOMAIN entries : aliases[n] = BundleId(entries[j]) /\ n \in Aliases(entries[j])
            BY <2>4 DEF IndexInductive, KnownCanBeOpened
        <3>2. j # i
            BY <2>4, <3>1
        <3>3. BundleId(entries[j]) # BundleId(entries[i])
            BY <3>2 DEF IndexInductive, KnownCanBeOpened
        <3> QED
            BY <2>1, <2>4, <3>1, <3>3 DEF Canonical
    <2>5. CASE n \notin Aliases(entries[i]) /\ n \notin DOMAIN aliases
        <3>1. Canonical(Report(w[k])) = Plain(n)
            BY <2>5 DEF Canonical
        <3>2. Plain(n).name = n
            BY DEF Plain
        <3> QED
            BY <2>1, <2>2, <2>5, <3>1, <3>2, BundleIdTyped
    <2> QED
        BY <2>3, <2>4, <2>5
<1> QED
    BY <1>1, IndexTypeCorrect, IndexInductiveHolds, PTL
=============================================================================
