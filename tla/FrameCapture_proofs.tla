------------------------- MODULE FrameCapture_proofs -------------------------
(* Captures, for any streams, any number of frames and any limits; and the   *)
(* sizes of their pictures, for any screens and any ways to ask for one.     *)
EXTENDS FrameCapture, ScreenGeometry, SequenceTheorems, WellFoundedInduction, TLAPS

USE StreamsAssumption, TimesAssumption

\* The last queued frame of a stream is its newest.
LEMMA LastIsNewest ==
    ASSUME TypeOK, InOrder, NothingLost, NEW s \in Streams, Queued(s) # {}
    PROVE  LastQueued(s) \in Queued(s) /\ chan[LastQueued(s)].n = emitted[s]
<1>1. PICK k \in Queued(s) : TRUE
    OBVIOUS
<1>2. Kept[s] # emitted[s]
  <2>1. k \in DOMAIN chan /\ chan[k].stream = s
    BY <1>1 DEF Queued
  <2>2. Kept[s] < chan[k].n /\ chan[k].n <= emitted[s]
    BY <2>1 DEF InOrder
  <2>3. Kept[s] \in Nat /\ emitted[s] \in Nat
    BY DEF TypeOK, Kept
  <2>4. chan[k] \in Frames
    BY <2>1 DEF TypeOK
  <2>5. chan[k].n \in Nat
    BY <2>4 DEF Frames
  <2> QED
    BY <2>2, <2>3, <2>5
<1>3. PICK i \in DOMAIN chan : chan[i] = [stream |-> s, n |-> emitted[s]]
    BY <1>2 DEF NothingLost
<1>4. i \in Queued(s) /\ chan[i].n = emitted[s]
    BY <1>3 DEF Queued
<1>5. DOMAIN chan \subseteq Nat /\ \A j \in DOMAIN chan : chan[j] \in Frames
    BY DEF TypeOK
<1>6. \A j \in Queued(s) : j <= i
  <2> SUFFICES ASSUME NEW j \in Queued(s), ~(j <= i)
               PROVE  FALSE
    OBVIOUS
  <2>1. i < j /\ j \in DOMAIN chan /\ chan[j].stream = chan[i].stream
    BY <1>3, <1>4, <1>5 DEF Queued
  <2>2. chan[i].n < chan[j].n /\ chan[j].n <= emitted[s]
    BY <2>1, <1>3 DEF InOrder, Queued
  <2> QED
    BY <2>2, <1>4, <1>5, <2>1 DEF Frames, TypeOK
<1>7. LastQueued(s) \in Queued(s) /\ \A j \in Queued(s) : j <= LastQueued(s)
    BY <1>4, <1>6 DEF LastQueued
<1>8. LastQueued(s) = i
    BY <1>4, <1>5, <1>6, <1>7 DEF Queued
<1> QED
    BY <1>4, <1>8

\* Draining, while no frame is in hand, stores the newest frame of every stream.
LEMMA DrainStores ==
    ASSUME TypeOK, InOrder, NothingLost, fresh = 0, Drain
    PROVE  chan' = <<>> /\ latest' = emitted
<1>1. \A s \in Streams : (IF Queued(s) = {} THEN latest[s] ELSE chan[LastQueued(s)].n) = emitted[s]
  <2> TAKE s \in Streams
  <2>1. CASE Queued(s) = {}
    BY <2>1 DEF NothingLost, Kept, Queued
  <2>2. CASE Queued(s) # {}
    BY <2>2, LastIsNewest
  <2> QED
    BY <2>1, <2>2
<1>2. emitted = [s \in Streams |-> emitted[s]]
    BY DEF TypeOK
<1> QED
    BY <1>1, <1>2 DEF Drain

\* What the daemon does with the first frame of the channel: it goes to the place
\* its stream is kept in.
LEMMA HeadTaken ==
    ASSUME TypeOK, InOrder, NothingLost, chan # <<>>, chan' = Tail(chan), emitted' = emitted,
           NEW h, h = Head(chan),
           \A s \in Streams : Kept'[s] = IF s = h.stream THEN h.n ELSE Kept[s]
    PROVE  InOrder' /\ NothingLost'
<1>1. /\ h = chan[1] /\ 1 \in DOMAIN chan /\ h \in Frames
      /\ Len(chan') = Len(chan) - 1 /\ Len(chan) \in Nat
      /\ \A i \in DOMAIN chan' : i + 1 \in DOMAIN chan /\ chan'[i] = chan[i + 1] /\ i \in Nat /\ i >= 1
      /\ \A i \in DOMAIN chan : i # 1 => i - 1 \in DOMAIN chan' /\ chan'[i - 1] = chan[i]
      /\ DOMAIN chan \subseteq Nat
      /\ \A i \in DOMAIN chan : chan[i] \in Frames
    BY DEF TypeOK
<1>2. \A i \in DOMAIN chan' :
          Kept'[chan'[i].stream] < chan'[i].n /\ chan'[i].n <= emitted'[chan'[i].stream]
  <2> TAKE i \in DOMAIN chan'
  <2>1. chan'[i] = chan[i + 1] /\ i + 1 \in DOMAIN chan /\ 1 < i + 1 /\ chan[i + 1].stream \in Streams
    BY <1>1 DEF Frames
  <2>2. Kept[chan[i + 1].stream] < chan[i + 1].n /\ chan[i + 1].n <= emitted[chan[i + 1].stream]
    BY <2>1 DEF InOrder
  <2>3. chan[i + 1].stream = h.stream => h.n < chan[i + 1].n
    BY <1>1, <2>1 DEF InOrder
  <2> QED
    BY <2>1, <2>2, <2>3
<1>3. \A i, j \in DOMAIN chan' :
          i < j /\ chan'[i].stream = chan'[j].stream => chan'[i].n < chan'[j].n
  <2> SUFFICES ASSUME NEW i \in DOMAIN chan', NEW j \in DOMAIN chan', i < j,
                      chan'[i].stream = chan'[j].stream
               PROVE  chan'[i].n < chan'[j].n
    OBVIOUS
  <2>1. i + 1 < j + 1
    BY <1>1
  <2> QED
    BY <1>1, <2>1 DEF InOrder
<1>4. NothingLost'
  <2> SUFFICES ASSUME NEW s \in Streams
               PROVE  \/ Kept'[s] = emitted[s]
                      \/ \E i \in DOMAIN chan' : chan'[i] = [stream |-> s, n |-> emitted[s]]
    BY DEF NothingLost
  <2>1. CASE Kept[s] = emitted[s]
    <3>1. s # h.stream
      <4> SUFFICES ASSUME s = h.stream PROVE FALSE
        OBVIOUS
      <4>1. Kept[s] < h.n /\ h.n <= emitted[s]
        BY <1>1 DEF InOrder
      <4> QED
        BY <4>1, <2>1, <1>1 DEF Frames, TypeOK
    <3> QED
      BY <3>1, <2>1
  <2>2. CASE \E i \in DOMAIN chan : chan[i] = [stream |-> s, n |-> emitted[s]]
    <3>1. PICK i \in DOMAIN chan : chan[i] = [stream |-> s, n |-> emitted[s]]
      BY <2>2
    <3>2. CASE i = 1
      <4>1. h = [stream |-> s, n |-> emitted[s]]
        BY <3>1, <3>2, <1>1
      <4>2. h.stream = s /\ h.n = emitted[s]
        BY <4>1
      <4> QED
        BY <4>2
    <3>3. CASE i # 1
      <4>1. i - 1 \in DOMAIN chan' /\ chan'[i - 1] = chan[i]
        BY <3>3, <1>1
      <4> QED
        BY <3>1, <4>1
    <3> QED
      BY <3>2, <3>3
  <2> QED
    BY <2>1, <2>2 DEF NothingLost
<1> QED
    BY <1>2, <1>3, <1>4 DEF InOrder

\* A frame that is emitted goes to the end of an ascending channel.
LEMMA EmitKeepsOrder ==
    ASSUME TypeOK, InOrder, NothingLost, NEW s \in Streams, Emit(s)
    PROVE  InOrder' /\ NothingLost' /\ chan' \in Seq(Frames)
<1> DEFINE f == [stream |-> s, n |-> emitted[s] + 1]
<1>1. /\ f \in Frames /\ chan' = Append(chan, f) /\ Kept' = Kept
      /\ emitted' = [emitted EXCEPT ![s] = @ + 1] /\ emitted \in [Streams -> Nat]
    BY DEF Emit, TypeOK, Frames, Kept
<1>2. /\ Len(chan) \in Nat /\ DOMAIN chan = 1 .. Len(chan)
      /\ DOMAIN chan' = 1 .. Len(chan) + 1
      /\ chan'[Len(chan) + 1] = f
      /\ \A i \in DOMAIN chan : chan'[i] = chan[i] /\ chan[i] \in Frames
      /\ chan' \in Seq(Frames)
    BY <1>1 DEF TypeOK
<1>3. \A t \in Streams : Kept[t] \in Nat /\ Kept[t] <= emitted[t]
  <2> TAKE t \in Streams
  <2>1. Kept[t] \in Nat
    BY DEF Kept, TypeOK
  <2>2. CASE Kept[t] = emitted[t]
    BY <2>1, <2>2
  <2>3. CASE \E i \in DOMAIN chan : chan[i] = [stream |-> t, n |-> emitted[t]]
    <3>1. PICK i \in DOMAIN chan : chan[i] = [stream |-> t, n |-> emitted[t]]
      BY <2>3
    <3>2. Kept[t] < emitted[t]
      BY <3>1 DEF InOrder
    <3> QED
      BY <2>1, <3>2, <1>1
  <2> QED
    BY <2>2, <2>3 DEF NothingLost
<1>4. \A i \in DOMAIN chan' :
          Kept'[chan'[i].stream] < chan'[i].n /\ chan'[i].n <= emitted'[chan'[i].stream]
  <2> TAKE i \in DOMAIN chan'
  <2>1. CASE i = Len(chan) + 1
    <3>1. chan'[i].stream = s /\ chan'[i].n = emitted[s] + 1
      BY <2>1, <1>2
    <3> QED
      BY <3>1, <1>1, <1>3
  <2>2. CASE i \in DOMAIN chan
    <3>1. chan'[i] = chan[i] /\ chan[i].stream \in Streams /\ chan[i].n \in Nat
      BY <2>2, <1>2 DEF Frames
    <3>2. Kept[chan[i].stream] < chan[i].n /\ chan[i].n <= emitted[chan[i].stream]
      BY <2>2 DEF InOrder
    <3>3. emitted[chan[i].stream] <= emitted'[chan[i].stream]
          /\ emitted[chan[i].stream] \in Nat /\ emitted'[chan[i].stream] \in Nat
      BY <3>1, <1>1
    <3> QED
      BY <3>1, <3>2, <3>3, <1>1
  <2> QED
    BY <2>1, <2>2, <1>2
<1>5. \A i, j \in DOMAIN chan' :
          i < j /\ chan'[i].stream = chan'[j].stream => chan'[i].n < chan'[j].n
  <2> SUFFICES ASSUME NEW i \in DOMAIN chan', NEW j \in DOMAIN chan', i < j,
                      chan'[i].stream = chan'[j].stream
               PROVE  chan'[i].n < chan'[j].n
    OBVIOUS
  <2>1. i \in DOMAIN chan /\ chan'[i] = chan[i]
    BY <1>2
  <2>2. CASE j \in DOMAIN chan
    BY <2>1, <2>2, <1>2 DEF InOrder
  <2>3. CASE j = Len(chan) + 1
    <3>1. chan[i].stream = s /\ chan'[j].n = emitted[s] + 1
      BY <2>1, <2>3, <1>2
    <3>2. chan[i].n <= emitted[s] /\ chan[i].n \in Nat
      BY <2>1, <3>1, <1>2 DEF InOrder, Frames
    <3> QED
      BY <2>1, <3>1, <3>2, <1>1
  <2> QED
    BY <2>2, <2>3, <1>2
<1>6. NothingLost'
  <2> SUFFICES ASSUME NEW t \in Streams
               PROVE  \/ Kept'[t] = emitted'[t]
                      \/ \E i \in DOMAIN chan' : chan'[i] = [stream |-> t, n |-> emitted'[t]]
    BY DEF NothingLost
  <2>1. CASE t = s
    <3>1. chan'[Len(chan) + 1] = [stream |-> t, n |-> emitted'[t]]
      BY <2>1, <1>1, <1>2
    <3>2. Len(chan) + 1 \in DOMAIN chan'
      BY <1>2
    <3> QED
      BY <3>1, <3>2
  <2>2. CASE t # s
    <3>1. emitted'[t] = emitted[t]
      BY <2>2, <1>1
    <3>2. Kept[t] = emitted[t] \/ \E i \in DOMAIN chan : chan[i] = [stream |-> t, n |-> emitted[t]]
      BY DEF NothingLost
    <3> QED
      BY <3>1, <3>2, <1>1, <1>2
  <2> QED
    BY <2>1, <2>2
<1> QED
    BY <1>2, <1>4, <1>5, <1>6 DEF InOrder

\* Every step keeps the state well typed.
LEMMA TypeStep == TypeOK /\ Inductive /\ [Next]_vars => TypeOK'
<1> SUFFICES ASSUME TypeOK, Inductive, [Next]_vars
             PROVE  TypeOK'
    OBVIOUS
<1>1. InOrder /\ NothingLost /\ (pc # "settling" => fresh = 0)
    BY DEF Inductive
<1>2. ASSUME NEW s \in Streams, Emit(s)
      PROVE  TypeOK'
  <2>1. chan' \in Seq(Frames)
    BY <1>1, <1>2, EmitKeepsOrder
  <2> QED
    BY <2>1, <1>2 DEF Emit, TypeOK, clock
<1>3. ASSUME NEW s \in Streams, Create(s)
      PROVE  TypeOK'
    BY <1>3 DEF Create, TypeOK, store, clock
<1>4. ASSUME Drain, pc # "settling", emitted' = emitted
      PROVE  chan' \in Seq(Frames) /\ latest' \in [Streams -> Nat]
  <2>1. chan' = <<>> /\ latest' = emitted
    BY <1>1, <1>4, DrainStores
  <2> QED
    BY <2>1 DEF TypeOK
<1>5. ASSUME NEW s \in Streams, Begin(s)
      PROVE  TypeOK'
  <2>1. chan' \in Seq(Frames) /\ latest' \in [Streams -> Nat]
    BY <1>4, <1>5 DEF Begin, SendCreate, Watch, TypeOK
  <2>2. /\ pc = "idle" /\ target' = s /\ floor' = emitted[s] /\ pc' \in Waiting
        /\ StartClock /\ asked' \in SUBSET Streams /\ reply' \in {"none", "created", "rejected"}
        /\ UNCHANGED <<emitted, running, active, fresh, got>>
    BY <1>5 DEF Begin, SendCreate, Watch, TypeOK, Waiting
  <2> QED
    BY <2>1, <2>2 DEF TypeOK, StartClock, Waiting
<1>6. CASE DrainTick
  <2>1. chan' \in Seq(Frames) /\ latest' \in [Streams -> Nat]
    BY <1>4, <1>6 DEF DrainTick, source
  <2> QED
    BY <2>1, <1>6 DEF DrainTick, TypeOK, source, clock
<1>7. CASE Refuse
    BY <1>7 DEF Refuse, TypeOK, source, store, clock, Waiting
<1>8. CASE Wake
  <2>1. elapsed' \in Nat /\ since' \in Nat
    BY <1>8 DEF Wake, TypeOK
  <2> QED
    BY <2>1, <1>8 DEF Wake, TypeOK, source, store
<1>9. CASE Created
  <2>1. chan' \in Seq(Frames) /\ latest' \in [Streams -> Nat]
    BY <1>4, <1>9 DEF Created, Watch, source
  <2>2. target \in Streams
    BY <1>9 DEF Created, TypeOK
  <2>3. pc' \in {"settling", "first"} /\ StartClock /\ active' = active \cup {target}
        /\ UNCHANGED <<source, target, fresh, got, floor>>
    BY <1>9 DEF Created, Watch
  <2> QED
    BY <2>1, <2>2, <2>3 DEF TypeOK, source, StartClock, Waiting
<1>10. ASSUME Fail, pc \in Waiting
       PROVE  TypeOK'
    BY <1>10 DEF Fail, TypeOK, source, store, clock, Waiting
<1>11. ASSUME Sleep
       PROVE  TypeOK'
    BY <1>11 DEF Sleep, TypeOK, source, store
<1>12. CASE NotCreated \/ FirstPolled
    BY <1>10, <1>11, <1>12 DEF NotCreated, FirstPolled, Waiting
<1>13. ASSUME chan # <<>>
       PROVE  Head(chan) \in Frames /\ Tail(chan) \in Seq(Frames)
    BY <1>13 DEF TypeOK
<1>14. CASE Other
  <2>1. /\ Head(chan).stream \in Streams /\ Head(chan).n \in Nat /\ chan' \in Seq(Frames)
        /\ latest' = [latest EXCEPT ![Head(chan).stream] = Head(chan).n]
        /\ UNCHANGED <<source, active, clock, pc, target, fresh, got, floor>>
    BY <1>13, <1>14 DEF Other, Frames
  <2> QED
    BY <2>1 DEF TypeOK, source, clock
<1>15. ASSUME NEW n \in Nat, Taken(n), pc \in Waiting, chan' \in Seq(Frames), fresh' = 0
       PROVE  TypeOK'
    BY <1>15 DEF Taken, TypeOK, source, clock, Waiting
<1>16. CASE First
  <2>1. Head(chan).n \in Nat /\ chan' \in Seq(Frames)
    BY <1>13, <1>16 DEF First, Frames
  <2> QED
    BY <2>1, <1>1, <1>15, <1>16 DEF First, Waiting
<1>17. CASE Arrives
  <2>1. Head(chan).n \in Nat /\ chan' \in Seq(Frames)
    BY <1>13, <1>17 DEF Arrives, Frames
  <2> QED
    BY <2>1, <1>17 DEF Arrives, TypeOK, source
<1>18. CASE Settled
  <2>1. (IF fresh # 0 THEN fresh ELSE latest[target]) \in Nat
    BY <1>18 DEF Settled, TypeOK
  <2> QED
    BY <2>1, <1>11, <1>15, <1>18 DEF Settled, Waiting, TypeOK
<1>19. CASE Done
    BY <1>19 DEF Done, StartClock, TypeOK, source, store, Waiting
<1>20. CASE UNCHANGED vars
    BY <1>20 DEF vars, source, store, clock, TypeOK
<1> QED
    BY <1>2, <1>3, <1>5, <1>6, <1>7, <1>8, <1>9, <1>12, <1>14, <1>16, <1>17, <1>18, <1>19, <1>20
    DEF Next, Capture

\* While no frame is in hand, what is kept is what is stored.
LEMMA KeptIsStored == TypeOK /\ fresh = 0 => Kept = latest
    BY DEF TypeOK, Kept

\* Steps that touch neither the channel nor what is kept leave both in order.
LEMMA KeptInOrder ==
    ASSUME InOrder, NothingLost, UNCHANGED <<emitted, chan, Kept>>
    PROVE  InOrder' /\ NothingLost'
    BY DEF InOrder, NothingLost

\* Every step keeps the channel and what is kept one ascending sequence, and with
\* it every capture as fresh as it was asked for.
LEMMA InductiveStep == TypeOK /\ Inductive /\ [Next]_vars => Inductive'
<1> SUFFICES ASSUME TypeOK, Inductive, [Next]_vars
             PROVE  Inductive'
    OBVIOUS
<1> USE DEF NotStale, SettlesInTime, Waiting
<1>0. TypeOK'
    BY TypeStep
<1>1. /\ InOrder /\ NothingLost /\ (pc # "settling" => fresh = 0)
      /\ (fresh = 0 => Kept = latest) /\ (fresh' = 0 => Kept' = latest')
  <2>1. fresh' = 0 => Kept' = latest'
    BY <1>0 DEF TypeOK, Kept
  <2> QED
    BY <2>1, KeptIsStored DEF Inductive
<1>2. /\ emitted \in [Streams -> Nat] /\ latest \in [Streams -> Nat] /\ Kept \in [Streams -> Nat]
      /\ floor \in Nat /\ elapsed \in Nat /\ (pc # "idle" => target \in Streams)
    BY DEF TypeOK, Kept
<1>3. ASSUME NEW s \in Streams, Emit(s)
      PROVE  Inductive'
  <2>1. InOrder' /\ NothingLost'
    BY <1>1, <1>3, EmitKeepsOrder
  <2>2. Kept' = Kept
    BY <1>3 DEF Emit, Kept
  <2>3. \A t \in Streams : emitted[t] <= emitted'[t] /\ emitted'[t] \in Nat
    BY <1>2, <1>3 DEF Emit
  <2>4. pc \in Waiting => floor <= emitted'[target]
    BY <1>2, <2>3 DEF Inductive
  <2> QED
    BY <2>1, <2>2, <2>4, <1>3 DEF Emit, Inductive, clock
<1>4. ASSUME NEW s \in Streams, Create(s)
      PROVE  Inductive'
  <2>1. InOrder' /\ NothingLost' /\ Kept' = Kept
    BY <1>1, <1>4, KeptInOrder DEF Create, store, Kept
  <2> QED
    BY <2>1, <1>4 DEF Create, Inductive, store, clock
<1>5. ASSUME Drain, pc # "settling", emitted' = emitted, fresh' = fresh
      PROVE  InOrder' /\ NothingLost' /\ Kept' = emitted
  <2>1. chan' = <<>> /\ latest' = emitted
    BY <1>1, <1>5, DrainStores
  <2>2. Kept' = emitted
    BY <1>1, <1>5, <2>1
  <2> QED
    BY <2>1, <2>2, <1>5 DEF InOrder, NothingLost
<1>6. ASSUME NEW s \in Streams, Begin(s)
      PROVE  Inductive'
  <2>1. pc = "idle" /\ fresh = 0 /\ fresh' = 0 /\ emitted' = emitted /\ target' = s
        /\ floor' = emitted[s] /\ asleep' = FALSE /\ elapsed' = 0 /\ emitted[s] \in Nat
    BY <1>1, <1>2, <1>6 DEF Begin, SendCreate, Watch, StartClock
  <2>2. CASE Watch(s)
    <3>1. InOrder' /\ NothingLost' /\ Kept' = emitted /\ pc' \in {"settling", "first"}
      BY <1>5, <2>1, <2>2 DEF Watch
    <3> QED
      BY <2>1, <3>1, TimesAssumption DEF Inductive
  <2>3. CASE pc' = "creating" /\ UNCHANGED <<chan, latest>>
    <3>1. InOrder' /\ NothingLost'
      BY <1>1, <2>1, <2>3, KeptInOrder
    <3> QED
      BY <2>1, <2>3, <3>1 DEF Inductive
  <2> QED
    BY <2>2, <2>3, <1>6 DEF Begin, SendCreate
<1>7. CASE DrainTick
  <2>1. InOrder' /\ NothingLost'
    BY <1>5, <1>7 DEF DrainTick, source
  <2> QED
    BY <2>1, <1>1, <1>7 DEF DrainTick, Inductive, clock
<1>8. CASE Refuse
  <2>1. InOrder' /\ NothingLost'
    BY <1>1, <1>8, KeptInOrder DEF Refuse, source, store
  <2> QED
    BY <2>1, <1>1, <1>8 DEF Refuse, Inductive, clock
<1>9. CASE Wake
  <2>1. InOrder' /\ NothingLost' /\ Kept' = Kept
    BY <1>1, <1>9, KeptInOrder DEF Wake, source, store, Kept
  <2>2. pc = "settling" => elapsed' <= Deadline + Lag
    <3> SUFFICES ASSUME pc = "settling"
                 PROVE  elapsed' <= Deadline + Lag
      OBVIOUS
    <3>1. elapsed < Deadline
      BY <1>9 DEF Wake, Inductive
    <3>2. PICK d \in 1 .. 1 + Lag : elapsed' = elapsed + d
      BY <1>9 DEF Wake
    <3> QED
      BY <1>2, <3>1, <3>2
  <2> QED
    BY <2>1, <2>2, <1>9 DEF Wake, Inductive, source
<1>10. CASE Created
  <2>1. pc = "creating" /\ fresh = 0 /\ fresh' = 0 /\ emitted' = emitted /\ target' = target
        /\ floor' = floor /\ floor <= emitted[target]
    BY <1>1, <1>10 DEF Created, source, Inductive
  <2>2. asleep' = FALSE /\ elapsed' = 0 /\ pc' \in {"settling", "first"} /\ Drain
    BY <1>10 DEF Created, Watch, StartClock
  <2>3. InOrder' /\ NothingLost' /\ Kept' = emitted
    BY <1>5, <2>1, <2>2
  <2>4. emitted[target] \in Nat
    BY <1>2, <2>1
  <2> QED
    BY <1>2, <2>1, <2>2, <2>3, <2>4, TimesAssumption DEF Inductive
<1>11. ASSUME Fail, ~asleep, pc # "settling"
       PROVE  Inductive'
  <2>1. InOrder' /\ NothingLost'
    BY <1>1, <1>11, KeptInOrder DEF Fail, source, store, Kept
  <2> QED
    BY <2>1, <1>1, <1>11 DEF Fail, Inductive, clock
<1>12. ASSUME Sleep, pc \in Waiting, pc = "settling" => elapsed < Deadline
       PROVE  Inductive'
  <2>1. InOrder' /\ NothingLost' /\ Kept' = Kept
    BY <1>1, <1>12, KeptInOrder DEF Sleep, source, store, Kept
  <2> QED
    BY <2>1, <1>12 DEF Sleep, Inductive, source
<1>13. CASE NotCreated \/ FirstPolled
    BY <1>11, <1>12, <1>13 DEF NotCreated, FirstPolled
<1>14. ASSUME chan # <<>>
       PROVE  /\ Head(chan) \in Frames /\ Head(chan).n \in Nat /\ Head(chan).n # 0
              /\ Head(chan).stream \in Streams
              /\ Kept[Head(chan).stream] < Head(chan).n
  <2>1. Head(chan) = chan[1] /\ 1 \in DOMAIN chan /\ chan[1] \in Frames
    BY <1>14 DEF TypeOK
  <2>2. Kept[chan[1].stream] < chan[1].n
    BY <1>1, <2>1 DEF InOrder
  <2> QED
    BY <2>1, <2>2 DEF Frames
<1>15. CASE Other
  <2> DEFINE h == Head(chan)
  <2>1. /\ h.stream \in Streams /\ h.n \in Nat /\ h.stream # target /\ chan # <<>>
        /\ chan' = Tail(chan) /\ latest' = [latest EXCEPT ![h.stream] = h.n]
        /\ UNCHANGED <<emitted, target, fresh, pc, floor, got, asleep, elapsed>>
    BY <1>14, <1>15 DEF Other, source, clock
  <2>2. \A s \in Streams : Kept'[s] = IF s = h.stream THEN h.n ELSE Kept[s]
    BY <1>2, <2>1 DEF Kept
  <2>3. InOrder' /\ NothingLost'
    BY <1>1, <2>1, <2>2, HeadTaken
  <2>4. pc \in Waiting => Kept'[target] = Kept[target]
    BY <1>2, <2>1, <2>2
  <2> QED
    BY <2>1, <2>3, <2>4 DEF Inductive
<1>16. CASE First
  <2> DEFINE h == Head(chan)
  <2>1. /\ h.stream = target /\ target \in Streams /\ h.n \in Nat /\ chan # <<>>
        /\ chan' = Tail(chan) /\ latest' = [latest EXCEPT ![target] = h.n]
        /\ fresh = 0 /\ fresh' = 0 /\ pc' = "answered" /\ got' = h.n /\ ~asleep'
        /\ Kept[target] >= floor /\ Kept[target] < h.n /\ pc = "first"
        /\ UNCHANGED <<emitted, target, floor>>
    BY <1>1, <1>14, <1>16 DEF First, Taken, source, clock, Inductive
  <2>2. \A s \in Streams : Kept'[s] = IF s = h.stream THEN h.n ELSE Kept[s]
    BY <1>1, <1>2, <2>1
  <2>3. InOrder' /\ NothingLost'
    BY <1>1, <2>1, <2>2, HeadTaken
  <2>4. got' >= floor'
    BY <1>2, <2>1
  <2> QED
    BY <2>1, <2>3, <2>4 DEF Inductive
<1>17. CASE Arrives
  <2> DEFINE h == Head(chan)
  <2>1. /\ h.stream = target /\ target \in Streams /\ h.n \in Nat /\ h.n # 0 /\ chan # <<>>
        /\ chan' = Tail(chan) /\ fresh' = h.n /\ pc = "settling" /\ ~asleep
        /\ Kept[target] >= floor /\ Kept[target] < h.n
        /\ UNCHANGED <<emitted, latest, target, floor, pc, asleep, elapsed>>
    BY <1>14, <1>17 DEF Arrives, source, Inductive
  <2>2. \A s \in Streams : Kept'[s] = IF s = h.stream THEN h.n ELSE Kept[s]
    BY <2>1 DEF Kept
  <2>3. InOrder' /\ NothingLost'
    BY <1>1, <2>1, <2>2, HeadTaken
  <2>4. Kept'[target] >= floor
    BY <1>2, <2>1, <2>2
  <2> QED
    BY <2>1, <2>3, <2>4 DEF Inductive
<1>18. CASE Settled
  <2>1. CASE ~IsSettled /\ Sleep
    <3>1. pc = "settling" /\ elapsed < Deadline
      BY <1>2, <1>18, <2>1, TimesAssumption DEF Settled, IsSettled
    <3> QED
      BY <1>12, <2>1, <3>1
  <2>2. CASE UNCHANGED chan /\ fresh' = 0 /\ Taken(IF fresh # 0 THEN fresh ELSE latest[target])
    <3>1. target \in Streams /\ Kept[target] = IF fresh # 0 THEN fresh ELSE latest[target]
      BY <1>2, <1>18 DEF Settled, Kept
    <3>2. latest' = [latest EXCEPT ![target] = Kept[target]] /\ got' = Kept[target]
          /\ pc' = "answered" /\ UNCHANGED <<emitted, target, floor, asleep>> /\ ~asleep
      BY <1>18, <2>2, <3>1 DEF Settled, Taken, source, clock
    <3>3. Kept' = latest'
      BY <1>1, <2>2
    <3>4. \A s \in Streams : latest'[s] = Kept[s]
      BY <1>2, <3>1, <3>2 DEF Kept
    <3>5. Kept' = Kept
      BY <1>2, <3>2, <3>3, <3>4 DEF Kept
    <3>6. InOrder' /\ NothingLost'
      BY <1>1, <2>2, <3>2, <3>5, KeptInOrder
    <3>7. Kept[target] >= floor
      BY <1>18 DEF Settled, Inductive
    <3> QED
      BY <2>2, <3>2, <3>6, <3>7 DEF Inductive
  <2> QED
    BY <1>18, <2>1, <2>2 DEF Settled
<1>19. CASE Done
  <2>1. InOrder' /\ NothingLost'
    BY <1>1, <1>19, KeptInOrder DEF Done, source, store
  <2> QED
    BY <2>1, <1>1, <1>19 DEF Done, StartClock, Inductive
<1>20. CASE UNCHANGED vars
  <2>1. InOrder' /\ NothingLost' /\ Kept' = Kept
    BY <1>1, <1>20, KeptInOrder DEF vars, source, store, Kept
  <2> QED
    BY <2>1, <1>20 DEF vars, source, store, clock, Inductive
<1> QED
    BY <1>3, <1>4, <1>6, <1>7, <1>8, <1>9, <1>10, <1>13, <1>15, <1>16, <1>17, <1>18, <1>19, <1>20
    DEF Next, Capture

LEMMA Invariance == Spec => [](TypeOK /\ Inductive)
<1>1. Init => TypeOK /\ Inductive
  <2> SUFFICES ASSUME Init
               PROVE  TypeOK /\ Inductive
    OBVIOUS
  <2>1. TypeOK
    <3>1. chan \in Seq(Frames)
      BY DEF Init
    <3>2. emitted \in [Streams -> Nat] /\ latest \in [Streams -> Nat]
      BY DEF Init
    <3> QED
      BY <3>1, <3>2 DEF Init, TypeOK, Waiting
  <2>2. InOrder /\ NothingLost
    BY DEF Init, InOrder, NothingLost, Kept
  <2>3. pc = "idle" /\ fresh = 0 /\ ~asleep
    BY DEF Init
  <2> QED
    BY <2>1, <2>2, <2>3 DEF Inductive, NotStale, SettlesInTime, Waiting
<1>2. TypeOK /\ Inductive /\ [Next]_vars => (TypeOK /\ Inductive)'
    BY TypeStep, InductiveStep
<1> QED
    BY <1>1, <1>2, PTL DEF Spec

-----------------------------------------------------------------------------
(* Theorems. *)

\* Every reachable state of the captures is well typed.
THEOREM TypeCorrect == Spec => []TypeOK
    BY Invariance, PTL

\* What is kept and what is queued is one ascending sequence per stream.
LEMMA InductiveHolds == Spec => []Inductive
    BY Invariance, PTL

\* The newest frame of every stream is stored or still comes (latest_frames), for
\* any number of streams and whichever of them are captured.
THEOREM NothingLostHolds == Spec => []NothingLost
<1>1. Inductive => NothingLost
    BY DEF Inductive
<1> QED
    BY <1>1, InductiveHolds, PTL

\* No capture returns a frame that was superseded when it was asked for
\* (capture_screen_frame), whatever timed out before.
THEOREM NotStaleHolds == Spec => []NotStale
<1>1. Inductive => NotStale
    BY DEF Inductive
<1> QED
    BY <1>1, InductiveHolds, PTL

\* The settle is bounded (SETTLE_DEADLINE) for any deadline and any lag.
THEOREM SettlesInTimeHolds == Spec => []SettlesInTime
<1>1. Inductive => SettlesInTime
    BY DEF Inductive
<1> QED
    BY <1>1, InductiveHolds, PTL

\* What a settled capture returns is the newest frame of its stream (settle).
THEOREM UsesTheLastHolds == Spec => UsesTheLast
<1>1. TypeOK /\ Inductive /\ [Next]_vars
        => [pc = "settling" /\ pc' = "answered" => got' = emitted[target]]_vars
  <2> SUFFICES ASSUME TypeOK, Inductive, Next, pc = "settling", pc' = "answered"
               PROVE  got' = emitted[target]
    BY DEF vars
  <2>1. Settled
    BY DEF Next, Capture, Emit, Create, Begin, DrainTick, Refuse, Wake, Created, NotCreated, Other,
       First, FirstPolled, Arrives, Settled, Done
  <2>2. target \in Streams /\ chan = <<>>
    BY <2>1 DEF Settled, TypeOK
  <2>3. got' = Kept[target]
    BY <2>1, <2>2 DEF Settled, Sleep, Taken, Kept
  <2>4. Kept[target] = emitted[target]
    BY <2>2 DEF Inductive, NothingLost
  <2> QED
    BY <2>3, <2>4
<1> QED
    BY <1>1, Invariance, PTL DEF Spec, UsesTheLast

-----------------------------------------------------------------------------
\* The index a search from the front finds: NatLessThanWellFounded makes sure
\* that there is one.
LEMMA EarliestIsOne ==
    ASSUME NEW S \in SUBSET Nat, S # {}
    PROVE  Earliest(S) \in S /\ \A j \in S : Earliest(S) <= j
<1>1. \E x \in S : \A y \in S : ~ (<<y, x>> \in OpToRel(<, Nat))
    BY NatLessThanWellFounded, WFMin, Zenon
<1>2. PICK x \in S : \A y \in S : <<y, x>> \notin {p \in Nat \X Nat : p[1] < p[2]}
    BY <1>1 DEF OpToRel
<1>3. ASSUME NEW y \in S PROVE x <= y
    <2>1. x \in Nat /\ y \in Nat
        BY <1>2, <1>3
    <2>2. <<y, x>> \in Nat \X Nat /\ <<y, x>>[1] = y /\ <<y, x>>[2] = x
        BY <2>1
    <2>3. ~(y < x)
        BY <1>2, <1>3, <2>2
    <2> QED
        BY <2>1, <2>3
<1> QED
    BY <1>2, <1>3 DEF Earliest

\* Rounding is off by half of one at most.
LEMMA NearestIsNear ==
    ASSUME NEW num \in Nat, NEW den \in Nat \ {0}, NEW n \in Nearest(num, den)
    PROVE  n \in Nat /\ 2 * (n * den - num) <= den /\ 2 * (num - n * den) <= den
<1>1. num \div den \in Nat
    OBVIOUS
<1>2. n \in Nat
    BY <1>1 DEF Nearest
<1>3. n * den \in Nat
    BY <1>2
<1> DEFINE p == n * den
<1>4. p \in Nat /\ 2 * Apart(p, num) <= den
    BY <1>3 DEF Nearest
<1> HIDE DEF p
<1>5. 2 * (p - num) <= den /\ 2 * (num - p) <= den
    BY <1>4 DEF Apart, Larger, Smaller
<1> QED
    BY <1>2, <1>5 DEF p

\* Two sides that are scaled and rounded keep their proportion but for half of
\* a pixel each: with pw = (w*num + a)/den and ph = (h*num + b)/den, what is off
\* in pw*h - ph*w is (h*a - w*b)/den, and both a and b are at most den/2.
LEMMA Skew ==
    ASSUME NEW w \in Nat, NEW h \in Nat, NEW num \in Nat, NEW den \in Nat \ {0},
           NEW pw \in Nearest(w * num, den), NEW ph \in Nearest(h * num, den)
    PROVE  pw \in Nat /\ ph \in Nat /\ 2 * Apart(pw * h, ph * w) <= w + h
<1>1. /\ pw \in Nat /\ 2 * (pw * den - w * num) <= den /\ 2 * (w * num - pw * den) <= den
      /\ ph \in Nat /\ 2 * (ph * den - h * num) <= den /\ 2 * (h * num - ph * den) <= den
    <2>1. w * num \in Nat /\ h * num \in Nat
        OBVIOUS
    <2> QED
        BY <2>1, NearestIsNear
<1> DEFINE a == pw * den - w * num
           b == ph * den - h * num
<1>2. a \in Int /\ b \in Int
    BY <1>1
<1>3. \A x, y, z \in Int : z >= 0 /\ x <= y => z * x <= z * y
    OBVIOUS
<1>4. /\ h * (2 * a) <= h * den /\ h * (2 * (0 - a)) <= h * den
      /\ w * (2 * b) <= w * den /\ w * (2 * (0 - b)) <= w * den
    <2>1. 2 * a <= den /\ 2 * (0 - a) <= den /\ 2 * b <= den /\ 2 * (0 - b) <= den
        BY <1>1
    <2> HIDE DEF a, b
    <2>2. 2 * a \in Int /\ 2 * (0 - a) \in Int /\ 2 * b \in Int /\ 2 * (0 - b) \in Int
        BY <1>2
    <2> QED
        BY <1>3, <2>1, <2>2
<1>5. h * a - w * b = (pw * h - ph * w) * den
    BY <1>1
<1> DEFINE d == pw * h - ph * w
<1>6. d \in Int
    BY <1>1
<1>7. 2 * d * den <= (w + h) * den /\ 2 * (0 - d) * den <= (w + h) * den
    <2> HIDE DEF a, b
    <2>1. h * a - w * b = d * den
        BY <1>5
    <2> HIDE DEF d
    <2> QED
        BY <1>2, <1>4, <1>6, <2>1
<1>8. \A x, y \in Int, z \in Nat \ {0} : x * z <= y * z => x <= y
    OBVIOUS
<1>9. 2 * d <= w + h /\ 2 * (0 - d) <= w + h
    <2> HIDE DEF d
    <2>1. 2 * d \in Int /\ 2 * (0 - d) \in Int /\ w + h \in Int
        BY <1>6
    <2> QED
        BY <1>7, <1>8, <2>1
<1>10. pw * h \in Nat /\ ph * w \in Nat
    BY <1>1
<1> QED
    <2> DEFINE x == pw * h
               y == ph * w
    <2>1. x \in Nat /\ y \in Nat /\ 2 * (x - y) <= w + h /\ 2 * (y - x) <= w + h
        BY <1>9, <1>10
    <2> HIDE DEF x, y
    <2>2. 2 * Apart(x, y) <= w + h
        BY <2>1 DEF Apart, Larger, Smaller
    <2> QED
        BY <1>1, <2>2 DEF x, y

\* The stream that is chosen begins where the screen does, and fits if one does.
LEMMA ChosenFits ==
    ASSUME NEW n \in Nat, NEW streams \in [1 .. n -> Shapes], NEW scr \in Screens, NEW pw, NEW ph
    PROVE  LET here    == {i \in DOMAIN streams : streams[i].at = scr.at}
               fitting == {i \in here : HasSize(streams[i], scr, pw, ph)}
           IN  /\ Chosen(streams, scr, pw, ph) = {} <=> here = {}
               /\ \A st \in Chosen(streams, scr, pw, ph) :
                    st.at = scr.at /\ (fitting # {} => HasSize(st, scr, pw, ph))
<1> DEFINE here  == {i \in DOMAIN streams : streams[i].at = scr.at}
           exact == {i \in DOMAIN streams : HasSize(streams[i], scr, pw, ph)}
<1>1. here \in SUBSET Nat /\ exact \in SUBSET Nat
    OBVIOUS
<1>2. exact = {i \in here : HasSize(streams[i], scr, pw, ph)}
    BY DEF HasSize
<1>3. CASE exact # {}
    <2>1. Earliest(exact) \in exact
        BY <1>1, <1>3, EarliestIsOne
    <2>2. Chosen(streams, scr, pw, ph) = {streams[Earliest(exact)]}
        BY <1>3 DEF Chosen
    <2> QED
        BY <1>2, <2>1, <2>2
<1>4. CASE exact = {} /\ here # {}
    <2>1. Earliest(here) \in here
        BY <1>1, <1>4, EarliestIsOne
    <2>2. Chosen(streams, scr, pw, ph) = {streams[Earliest(here)]}
        BY <1>4 DEF Chosen
    <2> QED
        BY <1>2, <1>4, <2>1, <2>2
<1>5. CASE exact = {} /\ here = {}
    <2>1. Chosen(streams, scr, pw, ph) = {}
        BY <1>5 DEF Chosen
    <2> QED
        BY <1>5, <2>1
<1> QED
    BY <1>3, <1>4, <1>5

\* A stream of the screen's size, logical or physical, has its proportions.
LEMMA FittingIsUnskewed ==
    ASSUME NEW scr \in Screens, NEW st \in Shapes,
           NEW pw \in Physical(scr.w, scr.scale), NEW ph \in Physical(scr.h, scr.scale),
           HasSize(st, scr, pw, ph)
    PROVE  2 * Apart(st.w * scr.h, st.h * scr.w) <= scr.w + scr.h
<1>1. scr.w \in Nat /\ scr.h \in Nat /\ scr.scale.num \in Nat /\ scr.scale.den \in Nat \ {0}
    BY GeometryAssumption DEF Screens
<1>2. CASE st.w = scr.w /\ st.h = scr.h
    <2>1. scr.w * scr.h = scr.h * scr.w /\ scr.w * scr.h \in Nat
        BY <1>1
    <2>2. \A x \in Nat : Apart(x, x) = 0
        BY DEF Apart, Larger, Smaller
    <2>3. Apart(st.w * scr.h, st.h * scr.w) = 0
        BY <1>2, <2>1, <2>2
    <2> QED
        BY <1>1, <2>3
<1>3. CASE st.w = pw /\ st.h = ph
    BY <1>1, <1>3, Skew DEF Physical
<1> QED
    BY <1>2, <1>3 DEF HasSize

\* A screen's stream begins where the screen does; and if one has its size, the
\* pointer is not skewed, for all scales and sizes (match_stream_to_screen).
THEOREM PointerUnskewedHolds == GeometrySpec => []PointerUnskewed
<1>1. GeometryInit => PointerUnskewed
    BY DEF GeometryInit, Idle, PointerUnskewed
<1>2. PointerUnskewed /\ [GeometryNext]_result => PointerUnskewed'
    <2> SUFFICES ASSUME PointerUnskewed, [GeometryNext]_result PROVE PointerUnskewed'
        OBVIOUS
    <2>1. ASSUME NEW scr \in Screens, NEW n \in 0 .. MaxStreams,
                 NEW streams \in [1 .. n -> Shapes], Aim(scr, streams)
          PROVE  PointerUnskewed'
        <3>1. PICK pw \in Physical(scr.w, scr.scale), ph \in Physical(scr.h, scr.scale) :
                  result' = [op |-> "aim", screen |-> scr, streams |-> streams, pw |-> pw, ph |-> ph,
                             stream |-> Chosen(streams, scr, pw, ph)]
            BY <2>1 DEF Aim
        <3>2. n \in Nat
            BY GeometryAssumption
        <3> DEFINE here    == {i \in DOMAIN streams : streams[i].at = scr.at}
                   fitting == {i \in here : HasSize(streams[i], scr, pw, ph)}
                   chosen  == Chosen(streams, scr, pw, ph)
        <3>3. chosen = {} <=> here = {}
            BY <3>2, ChosenFits
        <3>4. \A st \in chosen : st.at = scr.at /\ (fitting # {} => HasSize(st, scr, pw, ph))
            BY <3>2, ChosenFits
        <3>5. \A st \in chosen : st \in Shapes
            <4>1. \A st \in chosen : \E i \in DOMAIN streams : st = streams[i]
                <5> DEFINE exact == {i \in DOMAIN streams : HasSize(streams[i], scr, pw, ph)}
                <5>1. exact \in SUBSET Nat /\ here \in SUBSET Nat
                    BY <3>2
                <5>2. exact # {} => Earliest(exact) \in exact
                    BY <5>1, EarliestIsOne
                <5>3. here # {} => Earliest(here) \in here
                    BY <5>1, EarliestIsOne
                <5> QED
                    BY <5>2, <5>3 DEF Chosen
            <4> QED
                BY <4>1
        <3>6. \A st \in chosen : fitting # {} => 2 * Apart(st.w * scr.h, st.h * scr.w) <= scr.w + scr.h
            BY <3>4, <3>5, FittingIsUnskewed
        <3> QED
            BY <3>1, <3>3, <3>4, <3>6 DEF PointerUnskewed
    <2>2. ASSUME NEW f, NEW scr, NEW at, NEW length, NEW h, Zoom(f, scr, at, length, h)
          PROVE  PointerUnskewed'
        BY <2>2 DEF Zoom, PointerUnskewed
    <2>3. CASE Fetched
        BY <2>3 DEF Fetched, Idle, PointerUnskewed
    <2>4. CASE UNCHANGED result
        BY <2>4 DEF PointerUnskewed
    <2> QED
        BY <2>1, <2>2, <2>3, <2>4 DEF GeometryNext
<1> QED
    BY <1>1, <1>2, PTL DEF GeometrySpec

-----------------------------------------------------------------------------
(* What a zoom shows. *)

\* Products of naturals grow with their factors.
LEMMA ProductsGrow ==
    ASSUME NEW a \in Nat, NEW b \in Nat, NEW c \in Nat, NEW d \in Nat, a <= b, c <= d
    PROVE  a * c \in Nat /\ b * d \in Nat /\ a * c <= b * d
<1>1. a * c \in Nat /\ b * c \in Nat /\ b * d \in Nat
    OBVIOUS
<1>2. a * c <= b * c
    <2>1. \A x, y, z \in Nat : x <= y => x * z <= y * z
        OBVIOUS
    <2> QED
        BY <2>1
<1>3. b * c <= b * d
    <2>1. \A x, y, z \in Nat : x <= y => z * x <= z * y
        OBVIOUS
    <2> QED
        BY <2>1
<1> DEFINE x == a * c
           y == b * c
           z == b * d
<1> HIDE DEF x, y, z
<1>4. x \in Nat /\ y \in Nat /\ z \in Nat /\ x <= y /\ y <= z
    BY <1>1, <1>2, <1>3 DEF x, y, z
<1>5. x <= z
    BY <1>4
<1> QED
    BY <1>4, <1>5 DEF x, z

\* A common factor can be cancelled.
LEMMA FactorCancels ==
    ASSUME NEW a \in Int, NEW b \in Int, NEW z \in Nat \ {0}
    PROVE  /\ a * z <= b * z => a <= b
           /\ a * z < b * z => a < b
    OBVIOUS

\* Squares of naturals are in the order of these.
LEMMA SquaresOrder ==
    ASSUME NEW a \in Nat, NEW b \in Nat
    PROVE  /\ a * a <= b * b => a <= b
           /\ a * a < b * b => a < b
<1>1. ASSUME a <= b PROVE a * a <= b * b
    BY <1>1, ProductsGrow
<1>2. ASSUME a > b PROVE a * a > b * b
    <2>1. b + 1 <= a /\ b + 1 \in Nat
        BY <1>2
    <2>2. (b + 1) * (b + 1) <= a * a /\ a * a \in Nat
        BY <2>1, ProductsGrow
    <2>3. b * b < (b + 1) * (b + 1) /\ (b + 1) * (b + 1) \in Nat /\ b * b \in Nat
        OBVIOUS
    <2> DEFINE x == a * a
               y == (b + 1) * (b + 1)
               z == b * b
    <2> HIDE DEF x, y, z
    <2>4. x \in Nat /\ y \in Nat /\ z \in Nat /\ y <= x /\ z < y
        BY <2>2, <2>3 DEF x, y, z
    <2>5. x > z
        BY <2>4
    <2> QED
        BY <2>5 DEF x, z
<1>3. ASSUME a >= b PROVE a * a >= b * b
    <2>1. b <= a
        BY <1>3
    <2>2. b * b <= a * a /\ b * b \in Nat /\ a * a \in Nat
        BY <2>1, ProductsGrow
    <2> QED
        BY <2>2
<1> DEFINE x == a * a
           y == b * b
<1>4. x \in Nat /\ y \in Nat
    OBVIOUS
<1>5. (a > b => x > y) /\ (a >= b => x >= y)
    BY <1>2, <1>3
<1> HIDE DEF x, y
<1>6. (x <= y => a <= b) /\ (x < y => a < b)
    BY <1>4, <1>5
<1> QED
    BY <1>6 DEF x, y

\* The crop of a region lies in the frame, and its edges are near the region's:
\* as the frame has more than half as many pixels as the screen, a region of one
\* pixel is not rounded away, nor is one that begins with the last to beyond it.
LEMMA CropIsNear ==
    ASSUME NEW frame \in Nat, NEW logical \in Nat \ {0}, NEW at \in Nat, NEW length \in Nat \ {0},
           at + length <= logical, logical < 2 * frame,
           NEW c \in Crops(frame, logical, at, length)
    PROVE  CropCovers(frame, logical, at, length, c)
<1>1. PICK start \in Nearest(at * frame, logical), size \in Nearest(length * frame, logical) :
          c = [start |-> start, size |-> Clamped(frame, start, Larger(1, size))]
    BY DEF Crops
<1> DEFINE A == at * frame
           B == length * frame
           S == start * logical
           Z == size * logical
           T == frame * logical
<1>2. /\ A \in Nat /\ B \in Nat /\ T \in Nat
      /\ start \in Nat /\ 2 * (S - A) <= logical /\ 2 * (A - S) <= logical
      /\ size \in Nat /\ 2 * (Z - B) <= logical /\ 2 * (B - Z) <= logical
      /\ S \in Nat /\ Z \in Nat
    <2>1. A \in Nat /\ B \in Nat /\ T \in Nat
        OBVIOUS
    <2>2. start \in Nat /\ 2 * (S - A) <= logical /\ 2 * (A - S) <= logical
        BY <2>1, NearestIsNear
    <2>3. size \in Nat /\ 2 * (Z - B) <= logical /\ 2 * (B - Z) <= logical
        BY <2>1, NearestIsNear
    <2>4. S \in Nat /\ Z \in Nat
        BY <2>2, <2>3
    <2> QED
        BY <2>1, <2>2, <2>3, <2>4
<1>3. (at + length) * frame = A + B /\ A + B <= T /\ A + frame <= T /\ frame <= B
    <2>1. (at + length) * frame = A + B /\ (at + 1) * frame = A + frame
        OBVIOUS
    <2>2. logical * frame = T
        OBVIOUS
    <2>3. (at + length) * frame <= logical * frame
        BY ProductsGrow
    <2>4. (at + 1) * frame <= logical * frame
        <3>1. at + 1 <= logical /\ at + 1 \in Nat
            OBVIOUS
        <3> QED
            BY <3>1, ProductsGrow
    <2>5. 1 * frame <= length * frame
        <3>1. 1 <= length
            OBVIOUS
        <3> QED
            BY <3>1, ProductsGrow
    <2>6. 1 * frame = frame
        OBVIOUS
    <2> HIDE DEF A, B, T
    <2> QED
        BY <2>1, <2>2, <2>3, <2>4, <2>5, <2>6 DEF B
<1>4. start + 1 <= frame
    <2>1. S < T
        <3> HIDE DEF A, B, S, Z, T
        <3> QED
            BY <1>2, <1>3
    <2>2. start < frame
        BY <1>2, <2>1, FactorCancels
    <2> QED
        BY <1>2, <2>2
<1>5. size >= 1
    <2>1. Z > 0
        <3> HIDE DEF A, B, S, Z, T
        <3> QED
            BY <1>2, <1>3
    <2>2. size # 0
        BY <2>1
    <2> QED
        BY <1>2, <2>2
<1>6. c.start = start /\ c.size = IF size <= frame - start THEN size ELSE frame - start
    BY <1>1, <1>2, <1>4, <1>5 DEF Clamped, Larger, Smaller
<1>7. c.start + c.size <= frame /\ c.size >= 1
    BY <1>2, <1>4, <1>5, <1>6
<1>8. 2 * Apart(S, A) <= logical
    <2> HIDE DEF A, S
    <2> QED
        BY <1>2 DEF Apart, Larger, Smaller
<1> DEFINE E == (c.start + c.size) * logical
<1>9. E \in Nat /\ E - (A + B) <= logical /\ (A + B) - E <= logical
    <2>1. CASE size <= frame - start
        <3>1. E = S + Z
            <4>1. c.start + c.size = start + size
                BY <1>6, <2>1
            <4>2. (start + size) * logical = S + Z
                BY <1>2
            <4> QED
                BY <4>1, <4>2
        <3> HIDE DEF A, B, S, Z, T, E
        <3> QED
            BY <1>2, <3>1
    <2>2. CASE ~(size <= frame - start)
        <3>1. c.start + c.size = frame
            BY <1>2, <1>4, <1>6, <2>2
        <3>2. E = T
            BY <3>1
        <3>3. frame <= start + size
            BY <1>2, <2>2
        <3>4. T <= S + Z
            <4>1. (start + size) * logical = S + Z
                BY <1>2
            <4>2. start + size \in Nat
                BY <1>2
            <4>3. frame * logical <= (start + size) * logical
                BY <3>3, <4>2, ProductsGrow
            <4> QED
                BY <4>1, <4>3
        <3> HIDE DEF A, B, S, Z, T, E
        <3> QED
            BY <1>2, <1>3, <3>2, <3>4
    <2> QED
        BY <2>1, <2>2
<1>10. Apart(E, A + B) <= logical
    <2> HIDE DEF A, B, E
    <2> QED
        BY <1>2, <1>9 DEF Apart, Larger, Smaller
<1> QED
    BY <1>3, <1>6, <1>7, <1>8, <1>10 DEF CropCovers

\* A picture within the limits is sent as it is.
LEMMA UntouchedFits ==
    ASSUME NEW pw \in Nat \ {0}, NEW ph \in Nat \ {0},
           pw <= LongEdge, ph <= LongEdge, pw * ph <= Area
    PROVE  PictureFits(pw, ph, pw, ph)
<1> DEFINE P == pw * ph
<1>1. P \in Nat /\ P <= Area /\ Area \in Nat /\ ph * pw = P
    BY GeometryAssumption
<1>2. (2 * pw - 1) * (2 * ph - 1) = 4 * P - 2 * pw - 2 * ph + 1
    OBVIOUS
<1>3. Apart(pw * ph, ph * pw) = 0
    <2> HIDE DEF P
    <2>1. Apart(P, P) = 0
        BY <1>1 DEF Apart, Larger, Smaller
    <2> QED
        BY <1>1, <2>1 DEF P
<1>4. (2 * pw - 1) * (2 * ph - 1) <= 4 * Area
    <2> HIDE DEF P
    <2> QED
        BY <1>1, <1>2
<1> QED
    BY <1>3, <1>4 DEF PictureFits

\* The other of two sides comes out like this one: what is said of both is said
\* of them the other way round.
LEMMA FitsTurned ==
    ASSUME NEW pw \in Nat, NEW ph \in Nat, NEW tw \in Nat, NEW th \in Nat,
           PictureFits(ph, pw, th, tw)
    PROVE  PictureFits(pw, ph, tw, th)
<1>1. Area \in Nat /\ LongEdge \in Nat
    BY GeometryAssumption
<1>2. (2 * tw - 1) * (2 * th - 1) = (2 * th - 1) * (2 * tw - 1)
    OBVIOUS
<1>3. (2 * tw + 1) * (2 * th + 1) = (2 * th + 1) * (2 * tw + 1)
    OBVIOUS
<1>4. Apart(tw * ph, th * pw) = Apart(th * pw, tw * ph)
    <2>1. \A x, y \in Nat : Apart(x, y) = Apart(y, x)
        BY DEF Apart, Larger, Smaller
    <2>2. tw * ph \in Nat /\ th * pw \in Nat
        OBVIOUS
    <2> QED
        BY <2>1, <2>2
<1>5. Larger(tw, th) = Larger(th, tw)
    BY DEF Larger
<1>6. pw + ph = ph + pw
    OBVIOUS
<1> QED
    BY <1>2, <1>3, <1>4, <1>5, <1>6 DEF PictureFits

\* A side that is scaled down to the limit of the long edge: with a = pw and m the
\* longer side, n is LongEdge * a / m, rounded.
LEMMA ScaledSide ==
    ASSUME NEW a \in Nat \ {0}, NEW m \in Nat, a <= m, LongEdge < m,
           NEW n \in Nearest(a * LongEdge, m)
    PROVE  /\ n \in Nat /\ n <= a /\ n <= LongEdge
           /\ n >= 1 => (2 * n - 1) * m <= 2 * (a * LongEdge)
           /\ a = m => n = LongEdge
<1> DEFINE L == LongEdge
           X == a * L
           N == n * m
<1>1. /\ L \in Nat \ {0} /\ X \in Nat /\ m \in Nat \ {0} /\ L < m
      /\ n \in Nat /\ 2 * (N - X) <= m /\ 2 * (X - N) <= m /\ N \in Nat
    <2>1. L \in Nat \ {0} /\ m \in Nat \ {0}
        BY GeometryAssumption
    <2>2. X \in Nat
        BY <2>1
    <2>3. n \in Nat /\ 2 * (N - X) <= m /\ 2 * (X - N) <= m
        BY <2>1, <2>2, NearestIsNear
    <2>4. N \in Nat
        BY <2>1, <2>3
    <2> QED
        BY <2>1, <2>2, <2>3, <2>4
<1>2. n <= a
    <2>1. X <= a * m /\ a * m \in Nat
        BY <1>1, ProductsGrow
    <2>2. N < (a + 1) * m
        <3>1. (a + 1) * m = a * m + m
            BY <1>1
        <3> DEFINE Y == a * m
        <3> HIDE DEF X, N, Y
        <3>2. N < Y + m
            BY <1>1, <2>1 DEF Y
        <3> QED
            BY <3>1, <3>2 DEF Y
    <2>3. n < a + 1
        BY <1>1, <2>2, FactorCancels
    <2> QED
        BY <1>1, <2>3
<1>3. n <= L
    <2>1. X <= m * L /\ m * L \in Nat
        BY <1>1, ProductsGrow
    <2>2. N < (L + 1) * m
        <3>1. (L + 1) * m = m * L + m
            BY <1>1
        <3> DEFINE Y == m * L
        <3> HIDE DEF X, N, Y
        <3>2. N < Y + m
            BY <1>1, <2>1 DEF Y
        <3> QED
            BY <3>1, <3>2 DEF Y
    <2>3. n < L + 1
        BY <1>1, <2>2, FactorCancels
    <2> QED
        BY <1>1, <2>3
<1>4. (2 * n - 1) * m <= 2 * X
    <2>1. (2 * n - 1) * m = 2 * N - m
        BY <1>1
    <2> HIDE DEF X, N
    <2> QED
        BY <1>1, <2>1
<1>5. ASSUME a = m PROVE n = L
    <2>1. X = L * m
        BY <1>1, <1>5
    <2>2. L * m < (n + 1) * m
        <3>1. (n + 1) * m = N + m
            BY <1>1
        <3> DEFINE Y == L * m
        <3> HIDE DEF X, N, Y
        <3>2. Y < N + m
            BY <1>1, <2>1 DEF Y
        <3> QED
            BY <3>1, <3>2 DEF Y
    <2>3. L < n + 1
        BY <1>1, <2>2, FactorCancels
    <2> QED
        BY <1>1, <1>3, <2>3
<1> QED
    BY <1>1, <1>2, <1>3, <1>4, <1>5

\* A picture whose long edge is the limit: the other side keeps the proportion.
LEMMA LongEdgeFits ==
    ASSUME NEW pw \in Nat \ {0}, NEW ph \in Nat \ {0}, ph <= pw, LongEdge < pw,
           LongEdge * LongEdge * pw * ph <= Area * pw * pw,
           NEW tw \in Nearest(pw * LongEdge, pw), NEW th \in Nearest(ph * LongEdge, pw)
    PROVE  PictureFits(pw, ph, Larger(1, tw), Larger(1, th))
<1> DEFINE L == LongEdge
<1>1. L \in Nat \ {0} /\ Area \in Nat /\ L <= Area
    BY GeometryAssumption
<1>2. /\ tw = L
      /\ th \in Nat /\ th <= ph /\ th <= L
      /\ th >= 1 => (2 * th - 1) * pw <= 2 * (ph * L)
    <2>1. tw = L
        BY ScaledSide
    <2>2. pw \in Nat /\ L < pw
        BY <1>1
    <2> QED
        BY <2>1, <2>2, ScaledSide
<1>3. L * L * ph <= Area * pw
    <2>1. (L * L * ph) * pw = L * L * pw * ph
        BY <1>1
    <2>2. (Area * pw) * pw = Area * pw * pw
        BY <1>1
    <2>3. L * L * ph \in Int /\ Area * pw \in Int
        BY <1>1
    <2>4. (L * L * ph) * pw <= (Area * pw) * pw
        BY <2>1, <2>2
    <2> QED
        BY <2>3, <2>4, FactorCancels
<1>4. ASSUME th >= 1 PROVE (2 * L - 1) * (2 * th - 1) <= 4 * Area
    <2> DEFINE u == 2 * L - 1
               v == 2 * th - 1
               k == ph * L
    <2>1. u \in Nat /\ v \in Nat /\ k \in Nat /\ u <= 2 * L
        BY <1>1, <1>2, <1>4
    <2>2. u * (v * pw) <= (2 * L) * (2 * k)
        <3>1. v * pw <= 2 * k
            BY <1>2, <1>4
        <3>2. v * pw \in Nat /\ 2 * k \in Nat /\ 2 * L \in Nat
            BY <1>1, <2>1
        <3> HIDE DEF u, v, k
        <3> QED
            BY <2>1, <3>1, <3>2, ProductsGrow
    <2>3. u * (v * pw) = (u * v) * pw
        <3> HIDE DEF u, v
        <3> QED
            BY <2>1
    <2>4. (2 * L) * (2 * k) = 4 * (L * L * ph)
        BY <1>1
    <2>5. 4 * (L * L * ph) <= (4 * Area) * pw
        <3>1. (4 * Area) * pw = 4 * (Area * pw)
            BY <1>1
        <3> DEFINE x == L * L * ph
                   y == Area * pw
        <3>2. x \in Nat /\ y \in Nat /\ x <= y
            BY <1>1, <1>3
        <3> HIDE DEF x, y
        <3>3. 4 * x <= 4 * y
            BY <3>2
        <3> QED
            BY <3>1, <3>3 DEF x, y
    <2>6. (u * v) * pw <= (4 * Area) * pw
        <3> DEFINE x == (u * v) * pw
                   y == (2 * L) * (2 * k)
                   z == (4 * Area) * pw
        <3>1. x \in Int /\ y \in Int /\ z \in Int
            <4>1. u * v \in Nat /\ 4 * Area \in Nat
                BY <1>1, <2>1
            <4> HIDE DEF u, v, k
            <4> QED
                BY <1>1, <2>1, <4>1
        <3>2. x <= y /\ y <= z
            BY <2>2, <2>3, <2>4, <2>5
        <3> HIDE DEF x, y, z
        <3>3. x <= z
            BY <3>1, <3>2
        <3> QED
            BY <3>3 DEF x, z
    <2>7. u * v \in Int /\ 4 * Area \in Int
        BY <1>1, <2>1
    <2> HIDE DEF u, v
    <2>8. u * v <= 4 * Area
        BY <2>6, <2>7, FactorCancels
    <2> QED
        BY <2>8 DEF u, v
<1>5. ASSUME th > 1 PROVE 2 * Apart(L * ph, th * pw) <= pw + ph
    BY <1>1, <1>2, Skew
<1>6. Larger(1, tw) = L /\ Larger(1, th) = IF th >= 1 THEN th ELSE 1
    BY <1>1, <1>2 DEF Larger
<1>7. CASE th >= 1
    <2>1. Larger(1, tw) = L /\ Larger(1, th) = th /\ L <= pw
        BY <1>1, <1>6, <1>7
    <2>2. Larger(L, th) = L
        BY <1>1, <1>2 DEF Larger
    <2>3. (2 * L - 1) * (2 * th - 1) <= 4 * Area
        BY <1>4, <1>7
    <2> QED
        BY <1>2, <1>5, <2>1, <2>2, <2>3 DEF PictureFits
<1>8. CASE th = 0
    <2>1. Larger(1, tw) = L /\ Larger(1, th) = 1 /\ L <= pw /\ 1 <= ph /\ 1 <= L
        BY <1>1, <1>6, <1>8
    <2>2. Larger(L, 1) = L
        BY <1>1 DEF Larger
    <2>3. (2 * L - 1) * (2 * 1 - 1) <= 4 * Area
        BY <1>1
    <2>4. PictureFits(pw, ph, L, 1)
        <3>1. ~(1 > 1) /\ L <= L
            BY <1>1
        <3> QED
            BY <2>1, <2>2, <2>3, <3>1, Zenon DEF PictureFits
    <2> QED
        BY <2>1, <2>4
<1> QED
    BY <1>2, <1>7, <1>8

\* A side of a picture of the largest area: its square is Area * a / b, rounded.
LEMMA RootSide ==
    ASSUME NEW a \in Nat \ {0}, NEW b \in Nat \ {0}, NEW m \in Nat, a <= m, Area < a * b,
           Area * m * m < LongEdge * LongEdge * a * b,
           NEW n \in Root(Area * a, b)
    PROVE  /\ n \in Nat \ {0} /\ n <= a /\ n <= LongEdge
           /\ (2 * n - 1) * (2 * n - 1) * b <= 4 * (Area * a)
           /\ 4 * (Area * a) <= (2 * n + 1) * (2 * n + 1) * b
<1> DEFINE L == LongEdge
           u == 2 * n - 1
           X == Area * a
<1>1. L \in Nat \ {0} /\ Area \in Nat /\ X \in Nat
    BY GeometryAssumption
<1>2. /\ n \in Nat \ {0} /\ u \in Nat /\ u * u \in Nat
      /\ u * u * b <= 4 * X /\ 4 * X <= (2 * n + 1) * (2 * n + 1) * b
    <2>1. n \in 1 .. X /\ u * u * b <= 4 * X /\ 4 * X <= (2 * n + 1) * (2 * n + 1) * b
        BY DEF Root
    <2>2. n \in Nat \ {0} /\ u \in Nat
        BY <1>1, <2>1
    <2>3. u * u \in Nat
        BY <2>2
    <2> QED
        BY <2>1, <2>2, <2>3
<1>3. ASSUME NEW k \in Nat, X < (k * k) * b PROVE n <= k
    <2>1. (2 * k) * (2 * k) * b = 4 * ((k * k) * b)
        OBVIOUS
    <2>2. (u * u) * b < ((2 * k) * (2 * k)) * b
        <3> DEFINE y == (k * k) * b
                   x == (u * u) * b
        <3>1. y \in Nat /\ x \in Nat
            <4> HIDE DEF u
            <4> QED
                BY <1>2
        <3>2. x <= 4 * X /\ X < y
            BY <1>2, <1>3
        <3> HIDE DEF x, y, X
        <3>3. x < 4 * y
            BY <1>1, <3>1, <3>2
        <3> QED
            BY <2>1, <3>3 DEF x, y
    <2>3. u * u < (2 * k) * (2 * k)
        <3>1. (2 * k) * (2 * k) \in Int /\ u * u \in Int
            BY <1>2
        <3> HIDE DEF u
        <3> QED
            BY <2>2, <3>1, FactorCancels
    <2>4. u < 2 * k
        <3> HIDE DEF u
        <3> QED
            BY <1>2, <2>3, SquaresOrder
    <2> QED
        BY <1>2, <2>4
<1>4. n <= a
    <2>1. Area * a < (a * b) * a
        <3> DEFINE y == a * b
        <3>1. y \in Nat /\ Area + 1 <= y
            BY <1>1
        <3> HIDE DEF y
        <3>2. (Area + 1) * a <= y * a
            BY <1>1, <3>1, ProductsGrow
        <3>3. (Area + 1) * a = Area * a + a
            BY <1>1
        <3>4. y * a \in Nat
            BY <3>1
        <3> QED
            BY <1>1, <3>2, <3>3, <3>4 DEF y
    <2>2. (a * b) * a = (a * a) * b
        OBVIOUS
    <2>3. X < (a * a) * b
        BY <2>1, <2>2
    <2> HIDE DEF X
    <2> QED
        BY <1>3, <2>3
<1>5. n <= L
    <2>1. Area * (a * a) <= Area * (m * m)
        <3>1. a * a <= m * m /\ a * a \in Nat /\ m * m \in Nat
            BY ProductsGrow
        <3> QED
            BY <1>1, <3>1, ProductsGrow
    <2>2. Area * (a * a) = X * a /\ Area * (m * m) = Area * m * m
        BY <1>1
    <2>3. L * L * a * b = ((L * L) * b) * a
        BY <1>1
    <2>4. X * a < ((L * L) * b) * a
        <3> DEFINE x == X * a
                   y == Area * m * m
                   z == ((L * L) * b) * a
        <3>1. x \in Nat /\ y \in Nat /\ z \in Nat
            BY <1>1
        <3>2. x <= y /\ y < z
            BY <2>1, <2>2, <2>3
        <3> HIDE DEF x, y, z
        <3>3. x < z
            BY <3>1, <3>2
        <3> QED
            BY <3>3 DEF x, z
    <2>5. X < (L * L) * b
        <3>1. (L * L) * b \in Int /\ X \in Int
            BY <1>1
        <3> HIDE DEF X
        <3> QED
            BY <2>4, <3>1, FactorCancels
    <2> HIDE DEF X
    <2> QED
        BY <1>1, <1>3, <2>5
<1> QED
    BY <1>2, <1>4, <1>5

\* What holds of the squares of two products holds of these.
LEMMA ProductBound ==
    ASSUME NEW x \in Nat, NEW y \in Nat, NEW p \in Nat \ {0}, NEW q \in Nat \ {0}, NEW A \in Nat
    PROVE  /\ x * x * q <= 4 * (A * p) /\ y * y * p <= 4 * (A * q) => x * y <= 4 * A
           /\ 4 * (A * p) <= x * x * q /\ 4 * (A * q) <= y * y * p => 4 * A <= x * y
<1> DEFINE X == x * x * q
           Y == y * y * p
           P == 4 * (A * p)
           Q == 4 * (A * q)
           W == p * q
<1>1. X \in Nat /\ Y \in Nat /\ P \in Nat /\ Q \in Nat /\ W \in Nat \ {0}
    OBVIOUS
<1>2. X * Y = ((x * y) * (x * y)) * W
    OBVIOUS
<1>3. P * Q = ((4 * A) * (4 * A)) * W
    OBVIOUS
<1>4. /\ x * y \in Nat /\ 4 * A \in Nat
      /\ (x * y) * (x * y) \in Int /\ (4 * A) * (4 * A) \in Int
    OBVIOUS
<1>5. ASSUME X <= P, Y <= Q PROVE x * y <= 4 * A
    <2>1. X * Y <= P * Q
        <3> HIDE DEF X, Y, P, Q
        <3> QED
            BY <1>1, <1>5, ProductsGrow
    <2>2. ((x * y) * (x * y)) * W <= ((4 * A) * (4 * A)) * W
        <3> HIDE DEF X, Y, P, Q, W
        <3> QED
            BY <1>2, <1>3, <2>1
    <2>3. (x * y) * (x * y) <= (4 * A) * (4 * A)
        <3> HIDE DEF W
        <3> QED
            BY <1>1, <1>4, <2>2, FactorCancels
    <2> QED
        BY <1>4, <2>3, SquaresOrder
<1>6. ASSUME P <= X, Q <= Y PROVE 4 * A <= x * y
    <2>1. P * Q <= X * Y
        <3> HIDE DEF X, Y, P, Q
        <3> QED
            BY <1>1, <1>6, ProductsGrow
    <2>2. ((4 * A) * (4 * A)) * W <= ((x * y) * (x * y)) * W
        <3> HIDE DEF X, Y, P, Q, W
        <3> QED
            BY <1>2, <1>3, <2>1
    <2>3. (4 * A) * (4 * A) <= (x * y) * (x * y)
        <3> HIDE DEF W
        <3> QED
            BY <1>1, <1>4, <2>2, FactorCancels
    <2> QED
        BY <1>4, <2>3, SquaresOrder
<1> QED
    BY <1>5, <1>6

\* Two sides with one square root between them are in proportion, but for rounding.
LEMMA RootSkew ==
    ASSUME NEW x \in Nat, NEW y \in Nat, NEW p \in Nat \ {0}, NEW q \in Nat \ {0}, NEW A \in Nat,
           x * x * q <= 4 * (A * p), 4 * (A * q) <= y * y * p
    PROVE  x * q <= y * p
<1> DEFINE X == x * x * q
           Y == y * y * p
           P == 4 * (A * p)
           Q == 4 * (A * q)
<1>1. X \in Nat /\ Y \in Nat /\ P \in Nat /\ Q \in Nat
    OBVIOUS
<1>2. X * q <= P * q /\ Q * p <= Y * p
    <2>1. q \in Nat /\ p \in Nat /\ q <= q /\ p <= p /\ X <= P /\ Q <= Y
        OBVIOUS
    <2> HIDE DEF X, Y, P, Q
    <2> QED
        BY <1>1, <2>1, ProductsGrow
<1>3. P * q = Q * p /\ X * q = (x * q) * (x * q) /\ Y * p = (y * p) * (y * p)
    OBVIOUS
<1>4. X * q \in Nat /\ Y * p \in Nat /\ P * q \in Nat
    BY <1>1
<1>5. (x * q) * (x * q) <= (y * p) * (y * p)
    <2> DEFINE a == X * q
               b == Y * p
               c == P * q
    <2>1. a \in Nat /\ b \in Nat /\ c \in Nat /\ a <= c /\ c <= b
        BY <1>2, <1>3, <1>4
    <2>2. a = (x * q) * (x * q) /\ b = (y * p) * (y * p)
        BY <1>3
    <2> HIDE DEF a, b, c
    <2>3. a <= b
        BY <2>1
    <2> QED
        BY <2>2, <2>3
<1>6. x * q \in Nat /\ y * p \in Nat
    OBVIOUS
<1> QED
    BY <1>5, <1>6, SquaresOrder

\* A picture of the largest area.
LEMMA AreaFits ==
    ASSUME NEW pw \in Nat \ {0}, NEW ph \in Nat \ {0}, NEW m \in Nat, pw <= m, ph <= m,
           Area < pw * ph, Area * m * m < LongEdge * LongEdge * pw * ph,
           NEW tw \in Root(Area * pw, ph), NEW th \in Root(Area * ph, pw)
    PROVE  PictureFits(pw, ph, tw, th)
<1>1. Area \in Nat /\ LongEdge \in Nat
    BY GeometryAssumption
<1>2. /\ tw \in Nat \ {0} /\ tw <= pw /\ tw <= LongEdge
      /\ (2 * tw - 1) * (2 * tw - 1) * ph <= 4 * (Area * pw)
      /\ 4 * (Area * pw) <= (2 * tw + 1) * (2 * tw + 1) * ph
    BY RootSide
<1>3. /\ th \in Nat \ {0} /\ th <= ph /\ th <= LongEdge
      /\ (2 * th - 1) * (2 * th - 1) * pw <= 4 * (Area * ph)
      /\ 4 * (Area * ph) <= (2 * th + 1) * (2 * th + 1) * pw
    <2>1. Area < ph * pw
        OBVIOUS
    <2>2. LongEdge * LongEdge * pw * ph = LongEdge * LongEdge * ph * pw
        BY <1>1
    <2>3. Area * m * m < LongEdge * LongEdge * ph * pw
        BY <2>2
    <2> QED
        BY <2>1, <2>3, RootSide
<1>4. 2 * tw - 1 \in Nat /\ 2 * th - 1 \in Nat /\ 2 * tw + 1 \in Nat /\ 2 * th + 1 \in Nat
    BY <1>2, <1>3
<1>5. (2 * tw - 1) * (2 * th - 1) <= 4 * Area
    BY <1>1, <1>2, <1>3, <1>4, ProductBound
<1>6. 4 * Area <= (2 * tw + 1) * (2 * th + 1)
    BY <1>1, <1>2, <1>3, <1>4, ProductBound
<1>7. 2 * Apart(tw * ph, th * pw) <= pw + ph
    <2>1. (2 * tw - 1) * ph <= (2 * th + 1) * pw
        BY <1>1, <1>2, <1>3, <1>4, RootSkew
    <2>2. (2 * th - 1) * pw <= (2 * tw + 1) * ph
        BY <1>1, <1>2, <1>3, <1>4, RootSkew
    <2> DEFINE x == tw * ph
               y == th * pw
    <2>3. /\ x \in Nat /\ y \in Nat
          /\ (2 * tw - 1) * ph = 2 * x - ph /\ (2 * th + 1) * pw = 2 * y + pw
          /\ (2 * th - 1) * pw = 2 * y - pw /\ (2 * tw + 1) * ph = 2 * x + ph
        BY <1>2, <1>3
    <2>4. 2 * x - ph <= 2 * y + pw /\ 2 * y - pw <= 2 * x + ph
        BY <2>1, <2>2, <2>3
    <2>5. x \in Nat /\ y \in Nat
        BY <2>3
    <2> HIDE DEF x, y
    <2>6. 2 * Apart(x, y) <= pw + ph
        BY <2>4, <2>5 DEF Apart, Larger, Smaller
    <2> QED
        BY <2>6 DEF x, y
<1>8. (2 * tw + 1) * (2 * th + 1) >= 4 * Area
    <2>1. (2 * tw + 1) * (2 * th + 1) \in Nat /\ 4 * Area \in Nat
        BY <1>1, <1>4
    <2> QED
        BY <1>6, <2>1
<1> QED
    BY <1>2, <1>3, <1>5, <1>7, <1>8 DEF PictureFits

\* Every picture of a region fits, whichever of the limits it met.
LEMMA TargetFits ==
    ASSUME NEW pw \in Nat \ {0}, NEW ph \in Nat \ {0}, NEW t \in Targets(pw, ph)
    PROVE  PictureFits(pw, ph, t[1], t[2])
<1> DEFINE m == Larger(pw, ph)
           L == LongEdge
           longWins == L * L * pw * ph <= Area * m * m
<1>1. L \in Nat \ {0} /\ Area \in Nat
    BY GeometryAssumption
<1>2. m \in Nat \ {0} /\ pw <= m /\ ph <= m /\ m \in {pw, ph}
    BY DEF Larger
<1> HIDE DEF m
<1> DEFINE X == L * L * pw * ph
           Y == Area * m * m
<1>3. X \in Nat /\ Y \in Nat
    <2>1. L * L \in Nat /\ pw * ph \in Nat /\ m * m \in Nat
        BY <1>1, <1>2
    <2> QED
        BY <1>1, <1>2, <2>1
\* Either scale is below 1 exactly if its limit is exceeded.
<1>4. ASSUME pw * ph <= Area, m > L PROVE longWins
    <2>1. L * L <= m * m /\ L * L \in Nat /\ m * m \in Nat
        BY <1>1, <1>2, <1>4, ProductsGrow
    <2>2. (L * L) * (pw * ph) <= (m * m) * Area
        <3>1. pw * ph \in Nat
            OBVIOUS
        <3> QED
            BY <1>1, <1>4, <2>1, <3>1, ProductsGrow
    <2>3. (L * L) * (pw * ph) = X /\ (m * m) * Area = Y
        BY <1>1, <1>2
    <2> QED
        BY <2>2, <2>3
<1>5. ASSUME pw * ph > Area, m <= L PROVE ~longWins
    <2>1. m * m <= L * L /\ L * L \in Nat /\ m * m \in Nat \ {0}
        BY <1>1, <1>2, <1>5, ProductsGrow
    <2>2. (m * m) * (Area + 1) <= (L * L) * (pw * ph)
        <3>1. pw * ph \in Nat /\ Area + 1 <= pw * ph /\ Area + 1 \in Nat
            BY <1>1, <1>5
        <3> QED
            BY <2>1, <3>1, ProductsGrow
    <2>3. (L * L) * (pw * ph) = X /\ (m * m) * (Area + 1) = Y + m * m
        BY <1>1, <1>2
    <2> HIDE DEF X, Y
    <2>4. Y < X
        BY <1>3, <2>1, <2>2, <2>3
    <2> QED
        BY <1>3, <2>4 DEF X, Y
<1>6. CASE m <= L /\ pw * ph <= Area
    <2>1. t = <<pw, ph>>
        BY <1>1, <1>2, <1>6 DEF Targets, m
    <2>2. pw <= L /\ ph <= L
        BY <1>1, <1>2, <1>6
    <2> QED
        BY <1>6, <2>1, <2>2, UntouchedFits
<1>7. CASE ~(m <= L /\ pw * ph <= Area) /\ longWins
    <2>1. L < m
        BY <1>1, <1>2, <1>5, <1>7
    <2>2. PICK tw \in Nearest(pw * L, m), th \in Nearest(ph * L, m) :
              t = <<Larger(1, tw), Larger(1, th)>>
        BY <1>1, <1>2, <1>7 DEF Targets, m
    <2>3. CASE m = pw
        BY <1>2, <1>7, <2>1, <2>2, <2>3, LongEdgeFits
    <2>4. CASE m = ph
        <3>1. L * L * ph * pw <= Area * ph * ph
            <4>1. L * L * ph * pw = X
                BY <1>1
            <4> QED
                BY <1>7, <2>4, <4>1
        <3>2. PictureFits(ph, pw, Larger(1, th), Larger(1, tw))
            BY <1>2, <2>1, <2>2, <2>4, <3>1, LongEdgeFits
        <3>3. Larger(1, tw) \in Nat /\ Larger(1, th) \in Nat
            <4>1. tw \in Nat /\ th \in Nat
                <5>1. pw * L \in Nat /\ ph * L \in Nat
                    BY <1>1
                <5> QED
                    BY <1>2, <2>2, <5>1, NearestIsNear
            <4> QED
                BY <4>1 DEF Larger
        <3>4. PictureFits(pw, ph, Larger(1, tw), Larger(1, th))
            BY <3>2, <3>3, FitsTurned
        <3> QED
            BY <2>2, <3>4
    <2> QED
        BY <1>2, <2>3, <2>4
<1>8. CASE ~(m <= L /\ pw * ph <= Area) /\ ~longWins
    <2>1. pw * ph > Area
        BY <1>1, <1>2, <1>4, <1>8
    <2>2. Y < X
        BY <1>3, <1>8
    <2>3. t \in Root(Area * pw, ph) \X Root(Area * ph, pw)
        BY <1>1, <1>2, <1>8 DEF Targets, m
    <2>4. t[1] \in Root(Area * pw, ph) /\ t[2] \in Root(Area * ph, pw)
        BY <2>3
    <2> QED
        BY <1>1, <1>2, <2>1, <2>2, <2>4, AreaFits
<1> QED
    BY <1>6, <1>7, <1>8

\* Whatever region of whatever screen is zoomed into, on a frame of more than half
\* its logical size: the crop covers the region but for rounding, and the picture
\* keeps its proportions and the limits (crop_logical_region, compute_target_dims).
THEOREM ZoomShowsRegionHolds == GeometrySpec => []ZoomShowsRegion
<1>1. GeometryInit => ZoomShowsRegion
    BY DEF GeometryInit, Idle, ZoomShowsRegion
<1>2. ZoomShowsRegion /\ [GeometryNext]_result => ZoomShowsRegion'
    <2> SUFFICES ASSUME ZoomShowsRegion, [GeometryNext]_result PROVE ZoomShowsRegion'
        OBVIOUS
    <2>1. ASSUME NEW f \in Pixels, NEW scr \in Screens, NEW at \in 0 .. scr.w - 1,
                 NEW length \in 1 .. scr.w, NEW h \in 1 .. scr.h, Zoom(f, scr, at, length, h)
          PROVE  ZoomShowsRegion'
        <3>1. PICK c \in Crops(f, scr.w, at, length),
                   pw \in Physical(length, scr.scale), ph \in Physical(h, scr.scale) :
                 \E t \in Targets(Larger(1, pw), Larger(1, ph)) :
                    result' = [op |-> "zoom", frame |-> f, logical |-> scr.w, at |-> at,
                               length |-> length, crop |-> c, pw |-> Larger(1, pw),
                               ph |-> Larger(1, ph), target |-> t]
            BY <2>1 DEF Zoom
        <3>2. PICK t \in Targets(Larger(1, pw), Larger(1, ph)) :
                    result' = [op |-> "zoom", frame |-> f, logical |-> scr.w, at |-> at,
                               length |-> length, crop |-> c, pw |-> Larger(1, pw),
                               ph |-> Larger(1, ph), target |-> t]
            BY <3>1
        <3>3. /\ f \in Nat /\ scr.w \in Nat \ {0} /\ scr.h \in Nat \ {0}
              /\ scr.scale.num \in Nat \ {0} /\ scr.scale.den \in Nat \ {0}
            BY GeometryAssumption DEF Screens
        <3>4. at \in Nat /\ length \in Nat \ {0} /\ h \in Nat /\ at + length <= scr.w
            BY <2>1, <3>3 DEF Zoom
        <3>5. Larger(1, pw) \in Nat \ {0} /\ Larger(1, ph) \in Nat \ {0}
            <4>1. length * scr.scale.num \in Nat /\ h * scr.scale.num \in Nat
                BY <3>3, <3>4
            <4>2. pw \in Nat /\ ph \in Nat
                BY <3>3, <4>1, NearestIsNear DEF Physical
            <4> QED
                BY <4>2 DEF Larger
        <3>6. PictureFits(Larger(1, pw), Larger(1, ph), t[1], t[2])
            BY <3>5, TargetFits
        <3>7. scr.w < 2 * f => CropCovers(f, scr.w, at, length, c)
            BY <3>3, <3>4, CropIsNear
        <3>8. 2 * f > scr.w => scr.w < 2 * f
            BY <3>3
        <3> QED
            BY <3>2, <3>6, <3>7, <3>8 DEF ZoomShowsRegion
    <2>2. ASSUME NEW scr, NEW streams, Aim(scr, streams) PROVE ZoomShowsRegion'
        BY <2>2 DEF Aim, ZoomShowsRegion
    <2>3. CASE Fetched
        BY <2>3 DEF Fetched, Idle, ZoomShowsRegion
    <2>4. CASE UNCHANGED result
        BY <2>4 DEF ZoomShowsRegion
    <2> QED
        BY <2>1, <2>2, <2>3, <2>4 DEF GeometryNext
<1> QED
    BY <1>1, <1>2, PTL DEF GeometrySpec

\* Of the two neighbours one is near enough.
LEMMA NearestIsThere ==
    ASSUME NEW num \in Nat, NEW den \in Nat \ {0}
    PROVE  Nearest(num, den) # {}
<1> DEFINE q == num \div den
           r == num % den
<1>1. q \in Nat /\ r \in Nat /\ r < den /\ num = den * q + r
    OBVIOUS
<1> HIDE DEF q, r
<1>2. q * den = num - r /\ (q + 1) * den = num - r + den
    BY <1>1
<1>3. CASE 2 * r <= den
    <2>1. 2 * Apart(q * den, num) <= den
        BY <1>1, <1>2, <1>3 DEF Apart, Larger, Smaller
    <2> QED
        BY <2>1 DEF Nearest, q
<1>4. CASE 2 * r > den
    <2>1. 2 * Apart((q + 1) * den, num) <= den
        BY <1>1, <1>2, <1>4 DEF Apart, Larger, Smaller
    <2> QED
        BY <2>1 DEF Nearest, q
<1> QED
    BY <1>1, <1>3, <1>4

\* A square root of a half at least has a rounded one: the first number that is
\* not too small.
LEMMA RootIsThere ==
    ASSUME NEW num \in Nat \ {0}, NEW den \in Nat \ {0}, den <= 4 * num
    PROVE  Root(num, den) # {}
<1> DEFINE S == {n \in Nat \ {0} : 4 * num <= (2 * n + 1) * (2 * n + 1) * den}
           x == Earliest(S)
<1>1. num \in S
    <2>1. 4 * num <= (2 * num + 1) * (2 * num + 1)
        OBVIOUS
    <2>2. (2 * num + 1) * (2 * num + 1) * 1 <= (2 * num + 1) * (2 * num + 1) * den
        <3>1. (2 * num + 1) * (2 * num + 1) \in Nat
            OBVIOUS
        <3> QED
            BY <3>1, ProductsGrow
    <2>3. (2 * num + 1) * (2 * num + 1) \in Nat /\ (2 * num + 1) * (2 * num + 1) * den \in Nat
        OBVIOUS
    <2>4. 4 * num <= (2 * num + 1) * (2 * num + 1) * den
        BY <2>1, <2>2, <2>3
    <2> QED
        BY <2>4
<1>2. x \in S /\ \A j \in S : x <= j
    <2>1. S \in SUBSET Nat /\ S # {}
        BY <1>1
    <2> QED
        BY <2>1, EarliestIsOne
<1>3. x \in 1 .. num /\ 4 * num <= (2 * x + 1) * (2 * x + 1) * den
    BY <1>1, <1>2
<1> HIDE DEF x
<1>4. (2 * x - 1) * (2 * x - 1) * den <= 4 * num
    <2>1. CASE x = 1
        BY <2>1
    <2>2. CASE x > 1
        <3>1. x - 1 \in Nat \ {0} /\ x - 1 \notin S /\ 2 * (x - 1) + 1 = 2 * x - 1
            BY <1>2, <1>3, <2>2
        <3>2. ~(4 * num <= (2 * x - 1) * (2 * x - 1) * den)
            BY <3>1
        <3>3. (2 * x - 1) * (2 * x - 1) * den \in Int
            BY <1>3
        <3> QED
            BY <3>2, <3>3
    <2> QED
        BY <1>3, <2>1, <2>2
<1> QED
    BY <1>3, <1>4 DEF Root

\* When the area is the tighter limit, neither side shrinks below a half: the
\* other one would be beyond MAX_LONG_EDGE, which is no more than MAX_PIXELS.
LEMMA AreaLeavesSides ==
    ASSUME NEW a \in Nat \ {0}, NEW b \in Nat \ {0}, a <= b,
           LongEdge * LongEdge * a * b > Area * b * b
    PROVE  b <= 4 * (Area * a)
<1>1. LongEdge \in Nat \ {0} /\ Area \in Nat \ {0} /\ LongEdge <= Area
    BY GeometryAssumption
<1>2. Area * b < LongEdge * LongEdge * a
    <2>1. (Area * b) * b < (LongEdge * LongEdge * a) * b
        BY <1>1
    <2>2. Area * b \in Int /\ LongEdge * LongEdge * a \in Int
        BY <1>1
    <2> QED
        BY <2>1, <2>2, FactorCancels
<1>3. LongEdge * LongEdge * a <= Area * Area * a
    <2>1. LongEdge * LongEdge <= Area * Area /\ LongEdge * LongEdge \in Nat /\ Area * Area \in Nat
        BY <1>1, ProductsGrow
    <2> QED
        BY <2>1, ProductsGrow
<1>4. b < Area * a
    <2>1. b * Area < (Area * a) * Area
        <3>1. Area * b = b * Area /\ Area * Area * a = (Area * a) * Area
            BY <1>1
        <3>2. Area * b \in Int /\ LongEdge * LongEdge * a \in Int /\ Area * Area * a \in Int
            BY <1>1
        <3> QED
            BY <1>2, <1>3, <3>1, <3>2
    <2>2. Area * a \in Int
        BY <1>1
    <2> QED
        BY <1>1, <2>1, <2>2, FactorCancels
<1>5. Area * a \in Nat
    BY <1>1
<1> QED
    BY <1>4, <1>5

\* compute_target_dims has an answer for every picture.
LEMMA TargetIsThere ==
    ASSUME NEW pw \in Nat \ {0}, NEW ph \in Nat \ {0}
    PROVE  Targets(pw, ph) # {}
<1> DEFINE m == Larger(pw, ph)
           longWins == LongEdge * LongEdge * pw * ph <= Area * m * m
<1>1. LongEdge \in Nat \ {0} /\ Area \in Nat \ {0} /\ LongEdge <= Area
    BY GeometryAssumption
<1>2. m \in Nat \ {0} /\ pw <= m /\ ph <= m /\ m \in {pw, ph}
    BY DEF Larger
<1>3. CASE m <= LongEdge /\ pw * ph <= Area
    <2> HIDE DEF m
    <2>1. ~(m > LongEdge) /\ ~(pw * ph > Area)
        <3>1. pw * ph \in Nat
            OBVIOUS
        <3> QED
            BY <1>1, <1>2, <1>3, <3>1
    <2>2. Targets(pw, ph) = {<<pw, ph>>}
        BY <2>1 DEF Targets, m
    <2> QED
        BY <2>2
<1>4. CASE ~(m <= LongEdge /\ pw * ph <= Area) /\ longWins
    <2>1. Nearest(pw * LongEdge, m) # {} /\ Nearest(ph * LongEdge, m) # {}
        <3>1. pw * LongEdge \in Nat /\ ph * LongEdge \in Nat
            BY <1>1
        <3> QED
            BY <1>2, <3>1, NearestIsThere
    <2> HIDE DEF m
    <2>2. PICK tw \in Nearest(pw * LongEdge, m), th \in Nearest(ph * LongEdge, m) : TRUE
        BY <2>1
    <2>3. ~(~(m > LongEdge) /\ ~(pw * ph > Area))
        <3>1. pw * ph \in Nat
            OBVIOUS
        <3> QED
            BY <1>1, <1>2, <1>4, <3>1
    <2>4. <<Larger(1, tw), Larger(1, th)>> \in Targets(pw, ph)
        BY <1>4, <2>2, <2>3 DEF Targets, m
    <2> QED
        BY <2>4
<1>5. CASE ~(m <= LongEdge /\ pw * ph <= Area) /\ ~longWins
    <2>1. ~(~(m > LongEdge) /\ ~(pw * ph > Area))
        <3>1. pw * ph \in Nat
            OBVIOUS
        <3> QED
            BY <1>1, <1>2, <1>5, <3>1
    <2>2. Root(Area * pw, ph) # {} /\ Root(Area * ph, pw) # {}
        <3>1. LongEdge * LongEdge * pw * ph > Area * m * m
            <4>1. LongEdge * LongEdge * pw * ph \in Int /\ Area * m * m \in Int
                BY <1>1, <1>2
            <4> QED
                BY <1>5, <4>1
        <3>2. Area * pw \in Nat \ {0} /\ Area * ph \in Nat \ {0} /\ pw <= Area * pw /\ ph <= Area * ph
            <4>1. 1 * pw <= Area * pw /\ 1 * ph <= Area * ph /\ Area * pw \in Nat /\ Area * ph \in Nat
                BY <1>1, ProductsGrow
            <4> QED
                BY <4>1
        <3>3. ph <= 4 * (Area * pw) /\ pw <= 4 * (Area * ph)
            <4>1. CASE m = ph
                <5>1. ph <= 4 * (Area * pw)
                    BY <1>2, <3>1, <4>1, AreaLeavesSides
                <5> QED
                    BY <1>2, <3>2, <4>1, <5>1
            <4>2. CASE m = pw
                <5>1. LongEdge * LongEdge * ph * pw > Area * pw * pw
                    <6>1. LongEdge * LongEdge * ph * pw = LongEdge * LongEdge * pw * ph
                        BY <1>1
                    <6> QED
                        BY <3>1, <4>2, <6>1
                <5>2. pw <= 4 * (Area * ph)
                    BY <1>2, <4>2, <5>1, AreaLeavesSides
                <5> QED
                    BY <1>2, <3>2, <4>2, <5>2
            <4> QED
                BY <1>2, <4>1, <4>2
        <3> QED
            BY <3>2, <3>3, RootIsThere
    <2> HIDE DEF m
    <2>3. PICK tw \in Root(Area * pw, ph), th \in Root(Area * ph, pw) : TRUE
        BY <2>2
    <2>4. Targets(pw, ph) = Root(Area * pw, ph) \X Root(Area * ph, pw)
        BY <1>5, <2>1 DEF Targets, m
    <2>5. <<tw, th>> \in Targets(pw, ph)
        BY <2>3, <2>4
    <2> QED
        BY <2>5
<1> HIDE DEF m, longWins
<1> QED
    BY <1>3, <1>4, <1>5

\* Every zoom into a region of a screen has a crop and a size: neither the roundings
\* nor the two limits leave crop_logical_region and compute_target_dims without an
\* answer, so that ZoomShowsRegion is about every zoom.
THEOREM ZoomIsAnswered ==
    ASSUME NEW frame \in Pixels, NEW scr \in Screens, NEW at \in 0 .. scr.w - 1,
           NEW length \in 1 .. scr.w, NEW height \in 1 .. scr.h
    PROVE  /\ Crops(frame, scr.w, at, length) # {}
           /\ Physical(length, scr.scale) # {} /\ Physical(height, scr.scale) # {}
           /\ \A pw \in Physical(length, scr.scale), ph \in Physical(height, scr.scale) :
                 Targets(Larger(1, pw), Larger(1, ph)) # {}
<1>1. /\ frame \in Nat /\ scr.w \in Nat \ {0} /\ scr.h \in Nat \ {0}
      /\ scr.scale.num \in Nat \ {0} /\ scr.scale.den \in Nat \ {0}
    BY GeometryAssumption DEF Screens
<1>2. at \in Nat /\ length \in Nat /\ height \in Nat
    BY <1>1
<1>3. /\ at * frame \in Nat /\ length * frame \in Nat
      /\ length * scr.scale.num \in Nat /\ height * scr.scale.num \in Nat
    BY <1>1, <1>2
<1>4. Crops(frame, scr.w, at, length) # {}
    <2>1. PICK start \in Nearest(at * frame, scr.w), size \in Nearest(length * frame, scr.w) : TRUE
        BY <1>1, <1>3, NearestIsThere
    <2>2. [start |-> start, size |-> Clamped(frame, start, Larger(1, size))]
              \in Crops(frame, scr.w, at, length)
        BY <2>1 DEF Crops
    <2> QED
        BY <2>2
<1>5. Physical(length, scr.scale) # {} /\ Physical(height, scr.scale) # {}
    BY <1>1, <1>3, NearestIsThere DEF Physical
<1>6. ASSUME NEW pw \in Physical(length, scr.scale), NEW ph \in Physical(height, scr.scale)
      PROVE  Targets(Larger(1, pw), Larger(1, ph)) # {}
    <2>1. pw \in Nat /\ ph \in Nat
        BY <1>1, <1>3, NearestIsNear DEF Physical
    <2>2. Larger(1, pw) \in Nat \ {0} /\ Larger(1, ph) \in Nat \ {0}
        BY <2>1 DEF Larger
    <2> QED
        BY <2>2, TargetIsThere
<1> QED
    BY <1>4, <1>5, <1>6

=============================================================================
