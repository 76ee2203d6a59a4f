---------------------- MODULE PrepareTransaction_proofs ----------------------
(* Proofs about PrepareTransaction: what a record may name, for any number of *)
(* processes, and that commands that take turns never lose track of what they *)
(* hid; and about WindowOrder: that it is a PrepareTransaction, and that what *)
(* is seen in the screenshot is what a click meets, for any windows.          *)
EXTENDS WindowOrder, FiniteSetTheorems, TLAPS

\* Every step keeps the types: the windows of every set are windows, and every
\* process is at one of the points of the two commands.
LEMMA TypeStep == TypeOK /\ [Next]_vars => TypeOK'
<1> SUFFICES ASSUME TypeOK, [Next]_vars PROVE TypeOK'
    OBVIOUS
<1> USE DEF TypeOK, Pcs
<1>1. ASSUME NEW p \in Procs, Begin(p) PROVE TypeOK'
    BY <1>1 DEF Begin, Goto, desktop
<1>2. ASSUME NEW p \in Procs, Restore(p) PROVE TypeOK'
    <2>1. CASE Load(p)
        BY <2>1 DEF Load, AfterRestore, desktop
    <2>2. CASE LoadFails(p)
        BY <2>2 DEF LoadFails, Stop, desktop
    <2>3. CASE List(p)
        BY <2>3 DEF List, ListWindows, desktop
    <2>4. CASE Show(p)
        BY <2>4 DEF Show, SetExcluded, Stop, desktop
    <2>5. CASE Clear(p)
        BY <2>5 DEF Clear, RemoveFile, AfterRestore, Goto, desktop
    <2> QED BY <1>2, <2>1, <2>2, <2>3, <2>4, <2>5 DEF Restore
<1>3. ASSUME NEW p \in Procs, Prepare(p) PROVE TypeOK'
    <2>1. CASE Scan(p)
        BY <2>1 DEF Scan, Choose, ListWindows, desktop
    <2>2. CASE SaveBegins(p)
        BY <2>2 DEF SaveBegins, Goto, desktop
    <2>3. CASE SaveEnds(p)
        BY <2>3 DEF SaveEnds, Goto, desktop
    <2>4. CASE Hide(p)
        BY <2>4 DEF Hide, SetExcluded, Stop, desktop
    <2>5. CASE Drop(p)
        BY <2>5 DEF Drop, RemoveFile, Goto, desktop
    <2>6. CASE Raise(p)
        BY <2>6 DEF Raise, ListWindows, desktop
    <2> QED BY <1>3, <2>1, <2>2, <2>3, <2>4, <2>5, <2>6 DEF Prepare
<1>4. ASSUME NEW p \in Procs, Abort(p) PROVE TypeOK'
    BY <1>4 DEF Abort, Stop, desktop
<1>5. ASSUME NEW w \in Windows, OpenWindow(w) \/ CloseWindow(w) PROVE TypeOK'
    BY <1>5 DEF OpenWindow, CloseWindow
<1>6. CASE UNCHANGED vars
    BY <1>6 DEF vars
<1> QED BY <1>1, <1>2, <1>3, <1>4, <1>5, <1>6 DEF Next

\* The state of every reachable state of the two commands is well typed.
THEOREM TypeCorrect == Spec => []TypeOK
<1>1. Init => TypeOK
    BY DEF Init, TypeOK, Pcs
<1> QED BY <1>1, TypeStep, PTL DEF Spec

\* No step of any process puts an overlay or somebody else's window on record.
LEMMA OursOnlyStep == TypeOK /\ OursOnly /\ [Next]_vars => OursOnly'
<1> SUFFICES ASSUME TypeOK, OursOnly, [Next]_vars PROVE OursOnly'
    OBVIOUS
<1> USE OverlaysAssumption
    DEF TypeOK, OursOnly, ForeignStaysExcluded, OverlaysNotTracked
<1>1. ASSUME NEW p \in Procs, Begin(p) PROVE OursOnly'
    BY <1>1 DEF Begin, Goto, desktop
<1>2. ASSUME NEW p \in Procs, Restore(p) PROVE OursOnly'
    <2>1. CASE Load(p)
        BY <2>1 DEF Load, desktop
    <2>2. CASE LoadFails(p)
        BY <2>2 DEF LoadFails, Stop, desktop
    <2>3. CASE List(p)
        BY <2>3 DEF List, ListWindows, desktop
    <2>4. CASE Show(p)
        BY <2>4 DEF Show, SetExcluded, Stop, desktop
    <2>5. CASE Clear(p)
        BY <2>5 DEF Clear, RemoveFile, desktop
    <2> QED BY <1>2, <2>1, <2>2, <2>3, <2>4, <2>5 DEF Restore
<1>3. ASSUME NEW p \in Procs, Prepare(p) PROVE OursOnly'
    <2>1. CASE Scan(p)
        BY <2>1 DEF Scan, Choose, ListWindows, desktop
    <2>2. CASE SaveBegins(p)
        BY <2>2 DEF SaveBegins, desktop
    <2>3. CASE SaveEnds(p)
        BY <2>3 DEF SaveEnds, desktop
    <2>4. CASE Hide(p)
        BY <2>4 DEF Hide, SetExcluded, Stop, desktop
    <2>5. CASE Drop(p)
        BY <2>5 DEF Drop, RemoveFile, Goto, desktop
    <2>6. CASE Raise(p)
        BY <2>6 DEF Raise, ListWindows, desktop
    <2> QED BY <1>3, <2>1, <2>2, <2>3, <2>4, <2>5, <2>6 DEF Prepare
<1>4. ASSUME NEW p \in Procs, Abort(p) PROVE OursOnly'
    BY <1>4 DEF Abort, Stop, desktop
<1>5. ASSUME NEW w \in Windows, OpenWindow(w) \/ CloseWindow(w) PROVE OursOnly'
    BY <1>5 DEF OpenWindow, CloseWindow
<1>6. CASE UNCHANGED vars
    BY <1>6 DEF vars
<1> QED BY <1>1, <1>2, <1>3, <1>4, <1>5, <1>6 DEF Next

\* However many processes prepare and restore, next to each other: no restore
\* shows a window somebody else excluded (windows_to_change), and no record names
\* an overlay of the bridge (list_windows).
THEOREM OursOnlyHolds == Spec => []OursOnly
<1>1. Init => OursOnly
    BY DEF Init, OursOnly, ForeignStaysExcluded, OverlaysNotTracked
<1> QED BY <1>1, TypeCorrect, OursOnlyStep, PTL DEF Spec

-----------------------------------------------------------------------------

\* Commands that take turns keep track of what they hid, in every step and
\* through every failure.
LEMMA TrackingStep == TypeOK /\ Alone /\ Alone' /\ Tracking /\ [Next]_vars => Tracking'
<1> SUFFICES ASSUME TypeOK, Alone, Alone', Tracking, [Next]_vars PROVE Tracking'
    OBVIOUS
<1> USE DEF TypeOK, Tracking, HiddenIsTracked, PreviousIsUndone
<1>1. ASSUME NEW p \in Procs, Begin(p) PROVE Tracking'
    BY <1>1 DEF Begin, Goto, desktop
<1>2. ASSUME NEW p \in Procs, Restore(p) PROVE Tracking'
    <2>1. CASE Load(p)
        BY <2>1 DEF Load, AfterRestore, Alone, desktop
    <2>2. CASE LoadFails(p)
        BY <2>2 DEF LoadFails, Stop, desktop
    <2>3. CASE List(p)
        BY <2>3 DEF List, ListWindows, Alone, desktop
    <2>4. CASE Show(p)
        BY <2>4 DEF Show, SetExcluded, Stop, Alone, desktop
    <2>5. CASE Clear(p)
        BY <2>5 DEF Clear, RemoveFile, AfterRestore, Goto, Alone, desktop
    <2> QED BY <1>2, <2>1, <2>2, <2>3, <2>4, <2>5 DEF Restore
<1>3. ASSUME NEW p \in Procs, Prepare(p) PROVE Tracking'
    <2>1. CASE Scan(p)
        BY <2>1 DEF Scan, Choose, ListWindows, Alone, desktop
    <2>2. CASE SaveBegins(p)
        BY <2>2 DEF SaveBegins, Goto, Alone, desktop
    <2>3. CASE SaveEnds(p)
        BY <2>3 DEF SaveEnds, Goto, Alone, desktop
    <2>4. CASE Hide(p)
        BY <2>4 DEF Hide, SetExcluded, Stop, Alone, desktop
    <2>5. CASE Drop(p)
        BY <2>5 DEF Drop, RemoveFile, Goto, Alone, desktop
    <2>6. CASE Raise(p)
        BY <2>6 DEF Raise, ListWindows, desktop
    <2> QED BY <1>3, <2>1, <2>2, <2>3, <2>4, <2>5, <2>6 DEF Prepare
<1>4. ASSUME NEW p \in Procs, Abort(p) PROVE Tracking'
    BY <1>4 DEF Abort, Stop, desktop
<1>5. ASSUME NEW w \in Windows, OpenWindow(w) \/ CloseWindow(w) PROVE Tracking'
    BY <1>5 DEF OpenWindow, CloseWindow
<1>6. CASE UNCHANGED vars
    BY <1>6 DEF vars
<1> QED BY <1>1, <1>2, <1>3, <1>4, <1>5, <1>6 DEF Next

\* The invariant of commands that take turns.
LEMMA TrackingHolds == Spec /\ []Alone => []Tracking
<1>1. Init => Tracking
    BY DEF Init, Tracking, HiddenIsTracked, PreviousIsUndone
<1> QED BY <1>1, TrackingStep, TypeCorrect, PTL DEF Spec

\* However many processes prepare, restore and tear down, one at a time: none of
\* them hides a window that no restore would find, wherever it fails or is killed.
THEOREM HiddenIsTrackedHolds == Spec /\ []Alone => []HiddenIsTracked
<1>1. Tracking => HiddenIsTracked
    BY DEF Tracking
<1> QED BY <1>1, TrackingHolds, PTL

\* One at a time, none of them starts choosing windows while windows of an
\* earlier prepare are still hidden.
THEOREM PreviousIsUndoneHolds == Spec /\ []Alone => []PreviousIsUndone
<1>1. Tracking => PreviousIsUndone
    BY DEF Tracking
<1> QED BY <1>1, TrackingHolds, PTL

\* One at a time, they implement HideTransaction.
THEOREM PromiseIsKept == Spec /\ []Alone => PromiseKept
<1> USE DEF Promise!Next, Promise!Record, Promise!Hide, Promise!Show
<1>1. Init => Promise!Init
    BY DEF Init, Promise!Init
<1>2. TypeOK /\ Tracking /\ Tracking' /\ TypeOK' /\ [Next]_vars
          => [Promise!Next]_<<hidden, listed>>
    <2> SUFFICES ASSUME TypeOK, Tracking, TypeOK', Tracking', [Next]_vars
                 PROVE  [Promise!Next]_<<hidden, listed>>
        OBVIOUS
    <2> USE DEF TypeOK, Tracking, HiddenIsTracked, PreviousIsUndone
    <2>1. ASSUME NEW p \in Procs, Begin(p) \/ Abort(p) PROVE UNCHANGED <<hidden, listed>>
        BY <2>1 DEF Begin, Abort
    <2>2. ASSUME NEW p \in Procs, Restore(p) PROVE [Promise!Next]_<<hidden, listed>>
        <3>1. CASE Load(p) \/ LoadFails(p) \/ List(p)
            BY <3>1 DEF Load, LoadFails, List
        <3>2. CASE Show(p)
            BY <3>2 DEF Show
        <3>3. CASE Clear(p)
            BY <3>3 DEF Clear, RemoveFile, Goto
        <3> QED BY <2>2, <3>1, <3>2, <3>3 DEF Restore
    <2>3. ASSUME NEW p \in Procs, Prepare(p) PROVE [Promise!Next]_<<hidden, listed>>
        <3>1. CASE Scan(p)
            BY <3>1 DEF Scan, Choose
        <3>2. CASE SaveBegins(p)
            BY <3>2 DEF SaveBegins, Goto
        <3>3. CASE SaveEnds(p)
            BY <3>3 DEF SaveEnds, Goto
        <3>4. CASE Hide(p)
            BY <3>4 DEF Hide
        <3>5. CASE Drop(p)
            BY <3>5 DEF Drop, RemoveFile, Goto
        <3>6. CASE Raise(p)
            BY <3>6 DEF Raise
        <3> QED BY <2>3, <3>1, <3>2, <3>3, <3>4, <3>5, <3>6 DEF Prepare
    <2>4. ASSUME NEW w \in Windows, OpenWindow(w) \/ CloseWindow(w)
          PROVE  [Promise!Next]_<<hidden, listed>>
        BY <2>4 DEF OpenWindow, CloseWindow
    <2>5. CASE UNCHANGED vars
        BY <2>5 DEF vars
    <2> QED BY <2>1, <2>2, <2>3, <2>4, <2>5 DEF Next
<1> QED BY <1>1, <1>2, TrackingHolds, TypeCorrect, PTL DEF Spec, PromiseKept, Promise!Spec

-----------------------------------------------------------------------------
(* Lists, and what Only keeps of one. *)

\* A set of naturals that holds 0 and, with a number, the next one, holds them all.
LEMMA Induction ==
    ASSUME NEW T, 0 \in T, \A n \in Nat : n \in T => n + 1 \in T
    PROVE  Nat \subseteq T
<1> SUFFICES ASSUME Nat \ T # {} PROVE FALSE
    OBVIOUS
<1>1. \E x \in Nat \ T : \A y \in Nat \ T : ~ (<<y, x>> \in OpToRel(<, Nat))
    BY NatLessThanWellFounded, WFMin, Zenon
<1>2. PICK x \in Nat \ T : \A y \in Nat \ T : <<y, x>> \notin {q \in Nat \X Nat : q[1] < q[2]}
    BY <1>1 DEF OpToRel
<1>3. x # 0 /\ x - 1 \in Nat /\ x - 1 \notin T
    BY <1>2
<1>4. <<x - 1, x>> \in Nat \X Nat /\ <<x - 1, x>>[1] = x - 1 /\ <<x - 1, x>>[2] = x /\ x - 1 < x
    BY <1>3
<1> QED
    BY <1>2, <1>3, <1>4

\* What a list that has one more at its end holds, and in which order.
LEMMA AppendOrder ==
    ASSUME NEW W, NEW s \in Seq(W), NEW x \in W
    PROVE  /\ Append(s, x) \in Seq(W)
           /\ ToSet(Append(s, x)) = ToSet(s) \cup {x}
           /\ \A v, w : Before(Append(s, x), v, w) <=> Before(s, v, w) \/ (v \in ToSet(s) /\ w = x)
<1> DEFINE t == Append(s, x)
<1>1. /\ t \in Seq(W) /\ Len(s) \in Nat
      /\ DOMAIN s = 1 .. Len(s) /\ DOMAIN t = 1 .. Len(s) + 1
      /\ t[Len(s) + 1] = x
      /\ \A i \in DOMAIN s : t[i] = s[i]
    OBVIOUS
<1> HIDE DEF t
<1>2. ToSet(t) = ToSet(s) \cup {x}
    BY <1>1 DEF ToSet
<1>3. ASSUME NEW v, NEW w, Before(t, v, w)
      PROVE  Before(s, v, w) \/ (v \in ToSet(s) /\ w = x)
    <2>1. PICK i, j \in DOMAIN t : i < j /\ t[i] = v /\ t[j] = w
        BY <1>3 DEF Before
    <2>2. i \in DOMAIN s
        BY <1>1, <2>1
    <2> QED
        BY <1>1, <2>1, <2>2 DEF Before, ToSet
<1>4. ASSUME NEW v, NEW w, Before(s, v, w) \/ (v \in ToSet(s) /\ w = x)
      PROVE  Before(t, v, w)
    <2>1. CASE Before(s, v, w)
        <3>1. PICK i, j \in DOMAIN s : i < j /\ s[i] = v /\ s[j] = w
            BY <2>1 DEF Before
        <3>2. i \in DOMAIN t /\ j \in DOMAIN t
            BY <1>1
        <3> QED
            BY <1>1, <3>1, <3>2 DEF Before
    <2>2. CASE v \in ToSet(s) /\ w = x
        <3>1. PICK i \in DOMAIN s : s[i] = v
            BY <2>2 DEF ToSet
        <3>2. i \in DOMAIN t /\ Len(s) + 1 \in DOMAIN t /\ i < Len(s) + 1
            BY <1>1
        <3> QED
            BY <1>1, <2>2, <3>1, <3>2 DEF Before
    <2> QED
        BY <1>4, <2>1, <2>2
<1> QED
    BY <1>1, <1>2, <1>3, <1>4 DEF t

\* The recursion of Only has a solution, and Only is its value at the end.
LEMMA OnlyUnfolds ==
    ASSUME NEW W, NEW s \in Seq(W), NEW S
    PROVE  \E f : /\ f[0] = <<>>
                  /\ \A n \in 1 .. Len(s) :
                        f[n] = IF s[n] \in S THEN Append(f[n - 1], s[n]) ELSE f[n - 1]
                  /\ Only(s, S) = f[Len(s)]
<1> DEFINE Solves(g, m) == g = [n \in 0 .. m |->
               IF n = 0 THEN <<>>
               ELSE IF s[n] \in S THEN Append(g[n - 1], s[n]) ELSE g[n - 1]]
           T == {m \in Nat : \E g : Solves(g, m)}
<1>1. 0 \in T
    <2> DEFINE g == [n \in 0 .. 0 |-> <<>>]
    <2>1. Solves(g, 0)
        OBVIOUS
    <2> QED
        BY <2>1
<1>2. ASSUME NEW m \in Nat, m \in T PROVE m + 1 \in T
    <2>1. PICK g : Solves(g, m)
        BY <1>2
    <2> DEFINE next == IF s[m + 1] \in S THEN Append(g[m], s[m + 1]) ELSE g[m]
               h == [n \in 0 .. m + 1 |-> IF n <= m THEN g[n] ELSE next]
               rhs == [n \in 0 .. m + 1 |->
                         IF n = 0 THEN <<>>
                         ELSE IF s[n] \in S THEN Append(h[n - 1], s[n]) ELSE h[n - 1]]
    <2>2. \A n \in 0 .. m + 1 : h[n] = rhs[n]
        <3> TAKE n \in 0 .. m + 1
        <3>1. CASE n = 0
            BY <2>1, <3>1
        <3>2. CASE n \in 1 .. m
            <4>1. n - 1 \in 0 .. m + 1 /\ n - 1 <= m /\ n \in 0 .. m /\ n # 0
                BY <3>2
            <4>2. h[n - 1] = g[n - 1] /\ h[n] = g[n]
                BY <3>2, <4>1
            <4>3. g[n] = IF s[n] \in S THEN Append(g[n - 1], s[n]) ELSE g[n - 1]
                BY <2>1, <4>1
            <4> QED
                BY <4>1, <4>2, <4>3
        <3>3. CASE n = m + 1
            <4>1. n - 1 = m /\ m \in 0 .. m + 1 /\ n # 0 /\ ~(n <= m)
                BY <3>3
            <4>2. h[n - 1] = g[m] /\ h[n] = next
                BY <3>3, <4>1
            <4> QED
                BY <3>3, <4>1, <4>2
        <3> QED
            BY <3>1, <3>2, <3>3
    <2>3. h = rhs
        <3>1. h = [n \in 0 .. m + 1 |-> h[n]] /\ rhs = [n \in 0 .. m + 1 |-> rhs[n]]
            OBVIOUS
        <3> HIDE DEF h, rhs
        <3> QED
            BY <2>2, <3>1
    <2>4. Solves(h, m + 1)
        BY <2>3
    <2> HIDE DEF h, rhs, Solves
    <2> QED
        BY <2>4
<1>3. Len(s) \in Nat
    OBVIOUS
<1>4. Len(s) \in T
    <2> HIDE DEF T
    <2> QED
        BY <1>1, <1>2, <1>3, Induction
<1> DEFINE f == CHOOSE g : Solves(g, Len(s))
<1>5. Solves(f, Len(s))
    <2>1. \E g : Solves(g, Len(s))
        BY <1>4
    <2> HIDE DEF Solves
    <2> QED
        BY <2>1
<1>6. Only(s, S) = f[Len(s)]
    BY DEF Only
<1>7. f[0] = <<>> /\ \A n \in 1 .. Len(s) :
                        f[n] = IF s[n] \in S THEN Append(f[n - 1], s[n]) ELSE f[n - 1]
    <2> HIDE DEF f
    <2>1. f[0] = <<>>
        <3>1. 0 \in 0 .. Len(s)
            BY <1>3
        <3> QED
            BY <1>5, <3>1
    <2>2. ASSUME NEW n \in 1 .. Len(s)
          PROVE  f[n] = IF s[n] \in S THEN Append(f[n - 1], s[n]) ELSE f[n - 1]
        <3>1. n \in 0 .. Len(s) /\ n # 0
            BY <1>3
        <3> QED
            BY <1>5, <3>1
    <2> QED
        BY <2>1, <2>2
<1> QED
    <2> HIDE DEF f
    <2> QED
        BY <1>6, <1>7

\* What Only keeps of a list, and in which order.
LEMMA OnlyOrder ==
    ASSUME NEW W, NEW s \in Seq(W), NEW S
    PROVE  /\ Only(s, S) \in Seq(W)
           /\ ToSet(Only(s, S)) = ToSet(s) \cap S
           /\ \A v, w : Before(Only(s, S), v, w) <=> v \in S /\ w \in S /\ Before(s, v, w)
<1>1. PICK f : /\ f[0] = <<>>
               /\ \A n \in 1 .. Len(s) :
                     f[n] = IF s[n] \in S THEN Append(f[n - 1], s[n]) ELSE f[n - 1]
               /\ Only(s, S) = f[Len(s)]
    BY OnlyUnfolds
<1>2. Len(s) \in Nat /\ DOMAIN s = 1 .. Len(s) /\ \A i \in DOMAIN s : s[i] \in W
    OBVIOUS
<1> DEFINE InOrder(n, v, w) == \E i, j \in 1 .. n : i < j /\ s[i] = v /\ s[j] = w
           Kept(n) == {x \in S : \E i \in 1 .. n : s[i] = x}
           Right(n) == /\ f[n] \in Seq(W)
                       /\ ToSet(f[n]) = Kept(n)
                       /\ \A v, w : Before(f[n], v, w) <=> v \in S /\ w \in S /\ InOrder(n, v, w)
           T == {n \in Nat : n <= Len(s) => Right(n)}
<1>3. Right(0)
    <2>1. f[0] \in Seq(W) /\ DOMAIN f[0] = {}
        BY <1>1
    <2>2. ToSet(f[0]) = {} /\ \A v, w : ~Before(f[0], v, w)
        BY <2>1 DEF ToSet, Before
    <2>3. Kept(0) = {} /\ \A v, w : ~InOrder(0, v, w)
        OBVIOUS
    <2> QED
        BY <2>1, <2>2, <2>3
<1>4. ASSUME NEW n \in Nat, n + 1 <= Len(s), Right(n) PROVE Right(n + 1)
    <2> DEFINE x == s[n + 1]
    <2>1. /\ n + 1 \in 1 .. Len(s) /\ (n + 1) - 1 = n /\ x \in W
          /\ f[n + 1] = IF x \in S THEN Append(f[n], x) ELSE f[n]
        BY <1>1, <1>2, <1>4
    <2>2. Kept(n + 1) = IF x \in S THEN Kept(n) \cup {x} ELSE Kept(n)
        <3>1. \A i \in 1 .. n + 1 : i \in 1 .. n \/ i = n + 1
            OBVIOUS
        <3>2. \A i \in 1 .. n : i \in 1 .. n + 1
            OBVIOUS
        <3>3. n + 1 \in 1 .. n + 1
            OBVIOUS
        <3> QED
            BY <3>1, <3>2, <3>3
    <2>3. ASSUME NEW v \in S, NEW w \in S
          PROVE  InOrder(n + 1, v, w) <=> InOrder(n, v, w) \/ (v \in Kept(n) /\ w = x)
        <3>1. ASSUME InOrder(n + 1, v, w) PROVE InOrder(n, v, w) \/ (v \in Kept(n) /\ w = x)
            <4>1. PICK i, j \in 1 .. n + 1 : i < j /\ s[i] = v /\ s[j] = w
                BY <3>1
            <4>2. i \in 1 .. n /\ (j \in 1 .. n \/ j = n + 1)
                BY <4>1
            <4> QED
                BY <4>1, <4>2
        <3>2. ASSUME InOrder(n, v, w) PROVE InOrder(n + 1, v, w)
            <4>1. PICK i, j \in 1 .. n : i < j /\ s[i] = v /\ s[j] = w
                BY <3>2
            <4>2. i \in 1 .. n + 1 /\ j \in 1 .. n + 1
                OBVIOUS
            <4> QED
                BY <4>1, <4>2
        <3>3. ASSUME v \in Kept(n), w = x PROVE InOrder(n + 1, v, w)
            <4>1. PICK i \in 1 .. n : s[i] = v
                BY <3>3
            <4>2. i \in 1 .. n + 1 /\ n + 1 \in 1 .. n + 1 /\ i < n + 1
                OBVIOUS
            <4> QED
                BY <3>3, <4>1, <4>2
        <3> HIDE DEF InOrder, Kept
        <3> QED
            BY <3>1, <3>2, <3>3
    <2>4. CASE x \in S
        <3>1. f[n + 1] = Append(f[n], x)
            BY <2>1, <2>4
        <3>2. /\ f[n + 1] \in Seq(W)
              /\ ToSet(f[n + 1]) = ToSet(f[n]) \cup {x}
              /\ \A v, w : Before(f[n + 1], v, w) <=> Before(f[n], v, w) \/ (v \in ToSet(f[n]) /\ w = x)
            BY <1>4, <2>1, <3>1, AppendOrder
        <3>3. Kept(n) \subseteq S
            OBVIOUS
        <3> HIDE DEF InOrder, Kept, x
        <3> QED
            BY <1>4, <2>2, <2>3, <2>4, <3>2, <3>3
    <2>5. CASE x \notin S
        <3>1. f[n + 1] = f[n]
            BY <2>1, <2>5
        <3> HIDE DEF InOrder, Kept, x
        <3> QED
            BY <1>4, <2>2, <2>3, <2>5, <3>1
    <2> QED
        BY <2>4, <2>5
<1>5. Len(s) \in T
    <2>1. 0 \in T
        BY <1>3
    <2>2. ASSUME NEW n \in Nat, n \in T PROVE n + 1 \in T
        <3> HIDE DEF Right
        <3>1. CASE n + 1 <= Len(s)
            <4>1. n <= Len(s)
                BY <1>2, <3>1
            <4> QED
                BY <1>4, <2>2, <3>1, <4>1
        <3>2. CASE ~(n + 1 <= Len(s))
            BY <3>2
        <3> QED
            BY <3>1, <3>2
    <2> HIDE DEF T
    <2> QED
        BY <1>2, <2>1, <2>2, Induction
<1>6. Right(Len(s))
    <2> HIDE DEF Right
    <2> QED
        BY <1>2, <1>5
<1>7. Kept(Len(s)) = ToSet(s) \cap S
    BY <1>2 DEF ToSet
<1>8. \A v, w : InOrder(Len(s), v, w) <=> Before(s, v, w)
    BY <1>2 DEF Before
<1> HIDE DEF InOrder, Kept
<1> QED
    BY <1>1, <1>6, <1>7, <1>8

\* No window is twice in a list if none comes before itself.
LEMMA InjectiveOrder ==
    ASSUME NEW W, NEW s \in Seq(W)
    PROVE  IsInjective(s) <=> \A v : ~Before(s, v, v)
<1>1. Len(s) \in Nat /\ DOMAIN s = 1 .. Len(s)
    OBVIOUS
<1>2. ASSUME IsInjective(s), NEW v, Before(s, v, v) PROVE FALSE
    <2>1. PICK i, j \in DOMAIN s : i < j /\ s[i] = v /\ s[j] = v
        BY <1>2 DEF Before
    <2>2. i = j
        BY <1>2, <2>1 DEF IsInjective
    <2> QED
        BY <1>1, <2>1, <2>2
<1>3. ASSUME \A v : ~Before(s, v, v), NEW i \in DOMAIN s, NEW j \in DOMAIN s, s[i] = s[j], i # j
      PROVE  FALSE
    <2>1. i < j \/ j < i
        BY <1>1, <1>3
    <2>2. Before(s, s[i], s[i])
        BY <1>3, <2>1 DEF Before
    <2> QED
        BY <1>3, <2>2
<1> QED
    BY <1>2, <1>3 DEF IsInjective

\* A list of windows of a set is one of windows of a larger set.
LEMMA SeqWithin ==
    ASSUME NEW V, NEW W, V \subseteq W, NEW s \in Seq(V)
    PROVE  s \in Seq(W)
    OBVIOUS

\* What is left of a list when its first is taken.
LEMMA TailRest ==
    ASSUME NEW W, NEW s \in Seq(W), s # <<>>
    PROVE  /\ Tail(s) \in Seq(W) /\ Head(s) \in ToSet(s)
           /\ ToSet(Tail(s)) \subseteq ToSet(s)
           /\ ToSet(s) \subseteq ToSet(Tail(s)) \cup {Head(s)}
<1> DEFINE t == Tail(s)
           h == Head(s)
<1>1. /\ t \in Seq(W) /\ Len(s) \in Nat /\ Len(s) >= 1 /\ h = s[1]
      /\ DOMAIN s = 1 .. Len(s) /\ DOMAIN t = 1 .. Len(s) - 1
      /\ \A i \in DOMAIN t : t[i] = s[i + 1]
    OBVIOUS
<1> HIDE DEF t, h
<1>2. h \in ToSet(s)
    BY <1>1 DEF ToSet
<1>3. ToSet(t) \subseteq ToSet(s)
    <2> SUFFICES ASSUME NEW i \in DOMAIN t PROVE t[i] \in ToSet(s)
        BY DEF ToSet
    <2>1. i + 1 \in DOMAIN s /\ t[i] = s[i + 1]
        BY <1>1
    <2> QED
        BY <2>1 DEF ToSet
<1>4. ToSet(s) \subseteq ToSet(t) \cup {h}
    <2> SUFFICES ASSUME NEW i \in DOMAIN s, i # 1 PROVE s[i] \in ToSet(t)
        BY <1>1 DEF ToSet
    <2>1. i - 1 \in DOMAIN t /\ t[i - 1] = s[i]
        BY <1>1
    <2> QED
        BY <2>1 DEF ToSet
<1> QED
    BY <1>1, <1>2, <1>3, <1>4 DEF t, h

\* The list of all windows of a set, each of them once.
LEMMA SetToSeqsLists ==
    ASSUME NEW W, IsFiniteSet(W), NEW s \in SetToSeqs(W)
    PROVE  s \in Seq(W) /\ ToSet(s) = W /\ IsInjective(s)
<1> DEFINE n == Cardinality(W)
<1>1. n \in Nat
    BY FS_CardinalityType
<1> HIDE DEF n
<1>2. s \in [1 .. n -> W] /\ IsInjective(s)
    BY DEF SetToSeqs, IsInjective, n
<1>3. s \in Injection(1 .. n, W)
    BY <1>2 DEF Injection
<1>4. IsFiniteSet(1 .. n) /\ Cardinality(1 .. n) = n
    BY <1>1, FS_Interval
<1>5. s \in Surjection(1 .. n, W)
    BY <1>3, <1>4, FS_Injection DEF n
<1>6. ToSet(s) = W
    BY <1>2, <1>5 DEF Surjection, ToSet
<1>7. s \in Seq(W)
    BY <1>1, <1>2
<1> QED
    BY <1>2, <1>6, <1>7

-----------------------------------------------------------------------------
(* WindowOrder. *)

\* Raising a window puts it above all the others and leaves these as they are.
LEMMA Raised ==
    ASSUME TypeOKOnScreen, NEW w \in open \ Overlays, Top(w)
    PROVE  /\ stack' \in Seq(Windows) /\ ToSet(stack') = ToSet(stack) /\ IsInjective(stack')
           /\ \A u, v : Before(stack', u, v) => v = w \/ (u # w /\ Before(stack, u, v))
<1> DEFINE others == Only(stack, Windows \ {w})
<1>1. /\ stack \in Seq(Windows) /\ ToSet(stack) = open \ Overlays /\ IsInjective(stack)
      /\ open \subseteq Windows
    BY DEF TypeOKOnScreen, TypeOK
<1>2. /\ others \in Seq(Windows)
      /\ ToSet(others) = ToSet(stack) \cap (Windows \ {w})
      /\ \A u, v : Before(others, u, v) <=>
                   u \in Windows \ {w} /\ v \in Windows \ {w} /\ Before(stack, u, v)
    BY <1>1, OnlyOrder
<1>3. stack' = Append(others, w)
    BY DEF Top
<1> HIDE DEF others
<1>4. /\ stack' \in Seq(Windows) /\ ToSet(stack') = ToSet(others) \cup {w}
      /\ \A u, v : Before(stack', u, v) <=> Before(others, u, v) \/ (u \in ToSet(others) /\ v = w)
    BY <1>1, <1>2, <1>3, AppendOrder
<1>5. ToSet(stack') = ToSet(stack)
    BY <1>1, <1>2, <1>4
<1>6. \A v : ~Before(stack', v, v)
    BY <1>1, <1>2, <1>4, InjectiveOrder
<1>7. IsInjective(stack')
    BY <1>4, <1>6, InjectiveOrder
<1> QED
    BY <1>2, <1>4, <1>5, <1>7

\* Closing a window leaves the order of the others as it is.
LEMMA Removed ==
    ASSUME TypeOKOnScreen, NEW w, stack' = Only(stack, Windows \ {w})
    PROVE  /\ stack' \in Seq(Windows) /\ ToSet(stack') = ToSet(stack) \ {w} /\ IsInjective(stack')
           /\ \A u, v : Before(stack', u, v) => Before(stack, u, v)
<1>1. /\ stack \in Seq(Windows) /\ ToSet(stack) = open \ Overlays /\ IsInjective(stack)
      /\ open \subseteq Windows
    BY DEF TypeOKOnScreen, TypeOK
<1>2. /\ stack' \in Seq(Windows)
      /\ ToSet(stack') = ToSet(stack) \cap (Windows \ {w})
      /\ \A u, v : Before(stack', u, v) <=>
                   u \in Windows \ {w} /\ v \in Windows \ {w} /\ Before(stack, u, v)
    BY <1>1, OnlyOrder
<1>3. IsInjective(stack')
    BY <1>1, <1>2, InjectiveOrder
<1> QED
    BY <1>1, <1>2, <1>3

\* Every step on a desktop with an order is a step of the two commands, of the
\* user, or none.
LEMMA StepOnScreen == [NextOnScreen]_varsOnScreen => [Next]_vars
<1> SUFFICES ASSUME NextOnScreen PROVE [Next]_vars
    BY DEF varsOnScreen
<1>1. ASSUME NEW p \in Procs, ScanOnScreen(p) PROVE Prepare(p)
    <2>1. PICK s \in Scopes : Choose(p, Candidates(s))
        BY <1>1 DEF ScanOnScreen
    <2>2. Candidates(s) \subseteq open
        BY DEF Candidates, OnDisplay
    <2> QED
        BY <2>1, <2>2 DEF Prepare, Scan
<1>2. ASSUME NEW p \in Procs,
             \/ BeginOnScreen(p) \/ RestoreOnScreen(p) \/ Record(p) \/ HideOnScreen(p)
             \/ RaiseOnScreen(p) \/ Prepared(p) \/ AbortOnScreen(p)
      PROVE  Begin(p) \/ Restore(p) \/ Prepare(p) \/ Abort(p)
    BY <1>2 DEF BeginOnScreen, RestoreOnScreen, Record, HideOnScreen, RaiseOnScreen, Prepared,
                AbortOnScreen, Prepare
<1>3. ASSUME NEW w \in Windows, OpenOnScreen(w) \/ CloseOnScreen(w) PROVE OpenWindow(w) \/ CloseWindow(w)
    BY <1>3 DEF OpenOnScreen, CloseOnScreen
<1>4. ASSUME NEW w \in Windows, UserRaises(w) \/ Minimizes(w) PROVE UNCHANGED vars
    BY <1>4 DEF UserRaises, Minimizes
<1> QED
    BY <1>1, <1>2, <1>3, <1>4 DEF NextOnScreen, Next

\* WindowOrder implements PrepareTransaction, whatever is chosen and raised: what is
\* proved of the two commands holds on a desktop with an order.
THEOREM ImplementsPrepare == SpecOnScreen => Spec
<1>1. InitOnScreen => Init
    BY DEF InitOnScreen
<1> QED
    BY <1>1, StepOnScreen, PTL DEF SpecOnScreen, Spec

\* On a desktop with an order, too, prepares and restores that take turns keep the
\* promise of HideTransaction and lose track of nothing: the choice of windows and
\* the raising, which PrepareTransaction leaves open, break none of it.
THEOREM OnScreenKeepsPromise ==
    SpecOnScreen /\ []Alone => PromiseKept /\ [](OursOnly /\ HiddenIsTracked)
<1> QED
    BY ImplementsPrepare, PromiseIsKept, HiddenIsTrackedHolds, OursOnlyHolds, PTL

\* Where the windows are and what is planned keeps its type.
LEMMA TypeStepOnScreen ==
    TypeOKOnScreen /\ OnCourse /\ [NextOnScreen]_varsOnScreen => TypeOKOnScreen'
<1> SUFFICES ASSUME TypeOKOnScreen, OnCourse, [NextOnScreen]_varsOnScreen PROVE TypeOKOnScreen'
    OBVIOUS
<1> DEFINE Placed == /\ stack \in Seq(Windows) /\ ToSet(stack) = open \ Overlays
                     /\ IsInjective(stack) /\ minimized \in SUBSET ToSet(stack)
           Empty  == \A p \in Procs :
                        pc[p] \notin {"save", "saving", "hide", "drop", "raise"} => plan[p] = <<>>
           Planned == /\ scope \in [Procs -> Scopes] /\ plan \in [Procs -> Seq(Windows)]
                      /\ calm \in [Procs -> BOOLEAN] /\ Empty
<1>1. TypeOK /\ Placed /\ Planned
    BY DEF TypeOKOnScreen
<1>2. TypeOK'
    BY <1>1, StepOnScreen, TypeStep
<1>3. SUFFICES Placed' /\ Planned'
    BY <1>2 DEF TypeOKOnScreen
<1>4. pc \in [Procs -> Pcs]
    BY <1>1 DEF TypeOK
<1>5. ASSUME UNCHANGED <<open, stack, minimized>> PROVE Placed'
    BY <1>1, <1>5
<1>6. ASSUME NEW p \in Procs, BeginOnScreen(p) PROVE Placed' /\ Planned'
    <2>1. Placed'
        BY <1>5, <1>6 DEF BeginOnScreen, Begin, desktop, placed
    <2>2. Planned'
        BY <1>1, <1>4, <1>6 DEF BeginOnScreen, Begin, Goto, Disturbs, planned
    <2> QED
        BY <2>1, <2>2
<1>7. ASSUME NEW p \in Procs, RestoreOnScreen(p) PROVE Placed' /\ Planned'
    <2>1. Placed'
        BY <1>5, <1>7
        DEF RestoreOnScreen, Restore, Load, LoadFails, List, Show, Clear, desktop, placed
    <2>2. /\ \A q \in Procs \ {p} : pc'[q] = pc[q]
          /\ pc[p] \notin {"save", "saving", "hide", "drop", "raise"}
        BY <1>4, <1>7
        DEF RestoreOnScreen, Restore, Load, LoadFails, List, Show, Clear, Goto, Stop
    <2>3. UNCHANGED <<scope, plan>> /\ calm' \in [Procs -> BOOLEAN]
        BY <1>7 DEF RestoreOnScreen, Goes, planned
    <2> QED
        BY <1>1, <2>1, <2>2, <2>3
<1>8. ASSUME NEW p \in Procs, ScanOnScreen(p) PROVE Placed' /\ Planned'
    <2>1. PICK s \in Scopes : /\ Choose(p, Candidates(s))
                              /\ scope' = [scope EXCEPT ![p] = s]
                              /\ plan' = [plan EXCEPT ![p] = ToRaise(s)]
        BY <1>8 DEF ScanOnScreen
    <2>2. Placed'
        BY <1>5, <1>8, <2>1 DEF ScanOnScreen, Choose, desktop, placed
    <2>3. ToRaise(s) \in Seq(Windows)
        <3>1. <<>> \in Seq(Windows)
            OBVIOUS
        <3> QED
            BY <1>1, <3>1, OnlyOrder DEF ToRaise
    <2>4. pc'[p] \in {"save", "drop"} /\ \A q \in Procs \ {p} : pc'[q] = pc[q]
        BY <1>4, <2>1 DEF Choose
    <2>5. calm' \in [Procs -> BOOLEAN]
        BY <1>8 DEF ScanOnScreen
    <2> QED
        BY <1>1, <2>1, <2>2, <2>3, <2>4, <2>5
<1>9. ASSUME NEW p \in Procs, Record(p) PROVE Placed' /\ Planned'
    <2>1. Placed'
        BY <1>5, <1>9 DEF Record, SaveBegins, SaveEnds, Drop, desktop, placed
    <2>2. /\ \A q \in Procs \ {p} : pc'[q] = pc[q]
          /\ pc'[p] \in {"saving", "hide", "raise"}
        BY <1>4, <1>9 DEF Record, SaveBegins, SaveEnds, Drop, Goto
    <2>3. UNCHANGED <<scope, plan>> /\ calm' \in [Procs -> BOOLEAN]
        BY <1>1, <1>9 DEF Record, Goes, planned
    <2> QED
        BY <1>1, <2>1, <2>2, <2>3
<1>10. ASSUME NEW p \in Procs, HideOnScreen(p) PROVE Placed' /\ Planned'
    <2>1. Placed'
        BY <1>5, <1>10 DEF HideOnScreen, Hide, desktop, placed
    <2>2. /\ \A q \in Procs \ {p} : pc'[q] = pc[q]
          /\ pc'[p] \in {"raise", "idle"}
        BY <1>4, <1>10 DEF HideOnScreen, Hide, Stop
    <2>3. /\ scope' = scope /\ calm' \in [Procs -> BOOLEAN]
          /\ plan' = IF pc'[p] = "raise" THEN plan ELSE [plan EXCEPT ![p] = <<>>]
        BY <1>1, <1>10 DEF HideOnScreen, Goes
    <2>4. <<>> \in Seq(Windows)
        OBVIOUS
    <2> QED
        BY <1>1, <2>1, <2>2, <2>3, <2>4
<1>11. ASSUME NEW p \in Procs, RaiseOnScreen(p) PROVE Placed' /\ Planned'
    <2> DEFINE w == Head(plan[p])
    <2>1. /\ plan[p] # <<>> /\ plan[p] \in Seq(Windows)
          /\ pc[p] = "raise" /\ pc'[p] = "raise" /\ \A q \in Procs \ {p} : pc'[q] = pc[q]
          /\ open' = open /\ scope' = scope
          /\ plan' = [plan EXCEPT ![p] = Tail(@)]
          /\ calm' \in [Procs -> BOOLEAN]
        BY <1>1, <1>4, <1>11 DEF RaiseOnScreen, Raise, Goes, desktop
    <2>2. Tail(plan[p]) \in Seq(Windows)
        BY <2>1, TailRest
    <2>3. Planned'
        BY <1>1, <2>1, <2>2
    <2>4. (w \in open /\ Top(w)) \/ UNCHANGED placed
        BY <1>11 DEF RaiseOnScreen
    <2>5. Placed'
        <3>1. CASE UNCHANGED placed
            BY <1>5, <2>1, <3>1 DEF placed
        <3>2. CASE w \in open \ Overlays /\ Top(w)
            <4>1. minimized' \subseteq minimized
                BY <3>2 DEF Top
            <4> QED
                BY <1>1, <2>1, <3>2, <4>1, Raised
        <3>3. w \notin Overlays
            <4>1. w \in ToSet(plan[p])
                BY <2>1, TailRest
            <4> QED
                BY <4>1, RolesAssumption DEF OnCourse, Activatable, IsAllowed
        <3> QED
            BY <2>4, <3>1, <3>2, <3>3
    <2> QED
        BY <2>3, <2>5
<1>12. ASSUME NEW p \in Procs, Prepared(p) PROVE Placed' /\ Planned'
    <2>1. Placed'
        BY <1>5, <1>12 DEF Prepared, Raise, desktop, placed
    <2>2. plan[p] = <<>> /\ \A q \in Procs \ {p} : pc'[q] = pc[q]
        BY <1>4, <1>12 DEF Prepared, Raise
    <2>3. UNCHANGED <<scope, plan>> /\ calm' \in [Procs -> BOOLEAN]
        BY <1>1, <1>12 DEF Prepared, Goes, planned
    <2> QED
        BY <1>1, <2>1, <2>2, <2>3
<1>13. ASSUME NEW p \in Procs, AbortOnScreen(p) PROVE Placed' /\ Planned'
    <2>1. Placed'
        BY <1>5, <1>13 DEF AbortOnScreen, Abort, desktop, placed
    <2>2. \A q \in Procs \ {p} : pc'[q] = pc[q]
        BY <1>4, <1>13 DEF AbortOnScreen, Abort, Stop
    <2>3. /\ scope' = scope /\ plan' = [plan EXCEPT ![p] = <<>>]
          /\ calm' \in [Procs -> BOOLEAN] /\ <<>> \in Seq(Windows)
        BY <1>13 DEF AbortOnScreen, Goes
    <2> QED
        BY <1>1, <2>1, <2>2, <2>3
<1>14. ASSUME NEW w \in Windows, OpenOnScreen(w) PROVE Placed' /\ Planned'
    <2>1. Planned'
        BY <1>1, <1>14 DEF OpenOnScreen, OpenWindow, Disturbs, planned
    <2>2. w \notin open /\ open' = open \cup {w} /\ minimized' = minimized
        <3>1. w \notin open
            BY <1>1, <1>14 DEF OpenOnScreen, OpenWindow, TypeOK
        <3> QED
            BY <1>14, <3>1 DEF OpenOnScreen, OpenWindow
    <2>3. CASE w \in Overlays
        BY <1>1, <1>14, <2>1, <2>2, <2>3 DEF OpenOnScreen
    <2>4. CASE w \notin Overlays
        <3>1. stack' = Append(stack, w)
            BY <1>14, <2>4 DEF OpenOnScreen
        <3>2. /\ stack' \in Seq(Windows) /\ ToSet(stack') = ToSet(stack) \cup {w}
              /\ \A u, v : Before(stack', u, v) <=> Before(stack, u, v) \/ (u \in ToSet(stack) /\ v = w)
            BY <1>1, <3>1, AppendOrder
        <3>3. \A v : ~Before(stack', v, v)
            BY <1>1, <2>2, <3>2, InjectiveOrder
        <3>4. IsInjective(stack')
            BY <3>2, <3>3, InjectiveOrder
        <3> QED
            BY <1>1, <2>1, <2>2, <2>4, <3>2, <3>4
    <2> QED
        BY <2>3, <2>4
<1>15. ASSUME NEW w \in Windows, CloseOnScreen(w) PROVE Placed' /\ Planned'
    <2>1. Planned'
        BY <1>1, <1>15 DEF CloseOnScreen, CloseWindow, planned
    <2>2. /\ open' = open \ {w} /\ minimized' = minimized \ {w}
          /\ stack' = Only(stack, Windows \ {w})
        BY <1>15 DEF CloseOnScreen, CloseWindow
    <2> QED
        BY <1>1, <2>1, <2>2, Removed
<1>16. ASSUME NEW w \in Windows, UserRaises(w) PROVE Placed' /\ Planned'
    <2>1. Planned'
        BY <1>1, <1>16 DEF UserRaises, Disturbs, planned, vars
    <2>2. w \in open \ Overlays /\ Top(w) /\ open' = open /\ minimized' \subseteq minimized
        BY <1>16 DEF UserRaises, Apps, Top, vars
    <2> QED
        BY <1>1, <2>1, <2>2, Raised
<1>17. ASSUME NEW w \in Windows, Minimizes(w) PROVE Placed' /\ Planned'
    BY <1>1, <1>17 DEF Minimizes, Apps, planned, vars
<1>18. CASE UNCHANGED varsOnScreen
    BY <1>1, <1>18 DEF varsOnScreen, vars, placed, planned
<1> QED
    BY <1>6, <1>7, <1>8, <1>9, <1>10, <1>11, <1>12, <1>13, <1>14, <1>15, <1>16, <1>17, <1>18
    DEF NextOnScreen

\* While windows only close or vanish and none is put above another, each window
\* below one it should not be below was so before, and is still to be raised.
LEMMA OrderKept ==
    ASSUME NEW p, open' \subseteq open, minimized \cap open' \subseteq minimized',
           \A u, v : Before(stack', u, v) => Before(stack, u, v),
           UNCHANGED <<scope, plan>>,
           \A v \in InTheWay(scope[p]) \cap Activatable, w \in InTheWay(scope[p]) \ IsAllowed :
               Before(stack, v, w) => v \in ToSet(plan[p])
    PROVE  \A v \in InTheWay(scope[p])' \cap Activatable, w \in InTheWay(scope[p])' \ IsAllowed :
               Before(stack', v, w) => v \in ToSet(plan'[p])
<1>1. InTheWay(scope[p])' \subseteq InTheWay(scope[p])
    BY DEF InTheWay, Visible, Apps, OnDisplay
<1> QED
    BY <1>1

\* No step takes a prepare that nobody interferes with off its course.
LEMMA OnCourseStep ==
    TypeOKOnScreen /\ OnCourse /\ [NextOnScreen]_varsOnScreen => OnCourse'
<1> SUFFICES ASSUME TypeOKOnScreen, OnCourse, [NextOnScreen]_varsOnScreen PROVE OnCourse'
    OBVIOUS
<1> DEFINE Course(q) == ToSet(plan[q]) \subseteq Activatable /\ (calm[q] => Calm(q))
<1>1. /\ pc \in [Procs -> Pcs] /\ todo \in [Procs -> SUBSET Windows]
      /\ scope \in [Procs -> Scopes] /\ plan \in [Procs -> Seq(Windows)]
      /\ calm \in [Procs -> BOOLEAN]
      /\ stack \in Seq(Windows) /\ ToSet(stack) = open \ Overlays
      /\ \A p \in Procs :
            pc[p] \notin {"save", "saving", "hide", "drop", "raise"} => plan[p] = <<>>
    BY DEF TypeOKOnScreen, TypeOK
<1>2. \A q \in Procs : Course(q)
    BY DEF OnCourse
<1>3. SUFFICES ASSUME NEW q \in Procs PROVE Course(q)'
    BY DEF OnCourse
<1>4. ToSet(<<>>) = {}
    BY DEF ToSet
<1>5. ASSUME plan' = plan \/ plan'[q] = <<>>, ~calm'[q] PROVE Course(q)'
    BY <1>2, <1>4, <1>5
<1>6. ASSUME NEW p \in Procs, BeginOnScreen(p) \/ RestoreOnScreen(p) PROVE Course(q)'
    BY <1>5, <1>6 DEF BeginOnScreen, RestoreOnScreen, Disturbs, Goes, planned
<1>7. ASSUME NEW p \in Procs, AbortOnScreen(p) PROVE Course(q)'
    <2>1. plan'[q] = IF q = p THEN <<>> ELSE plan[q]
        BY <1>1, <1>7 DEF AbortOnScreen
    <2>2. ~calm'[q]
        BY <1>7 DEF AbortOnScreen, Goes
    <2> QED
        BY <1>2, <1>4, <2>1, <2>2
<1>8. ASSUME NEW w \in Windows, OpenOnScreen(w) \/ UserRaises(w) PROVE Course(q)'
    BY <1>5, <1>8 DEF OpenOnScreen, UserRaises, Disturbs, planned
<1>9. ASSUME NEW w \in Windows, CloseOnScreen(w) PROVE Course(q)'
    <2>1. /\ open' = open \ {w} /\ minimized' = minimized \ {w} /\ excluded' = excluded \ {w}
          /\ stack' = Only(stack, Windows \ {w})
          /\ UNCHANGED <<scope, plan, calm, pc, todo>>
        BY <1>9 DEF CloseOnScreen, CloseWindow, planned
    <2>2. SUFFICES ASSUME calm[q] PROVE Calm(q)'
        BY <1>2, <2>1
    <2>3. Calm(q)
        BY <1>2, <2>2
    <2>4. \A u, v : Before(stack', u, v) => Before(stack, u, v)
        BY <2>1, Removed
    <2>5. \A v \in InTheWay(scope[q])' \cap Activatable, u \in InTheWay(scope[q])' \ IsAllowed :
               Before(stack', v, u) => v \in ToSet(plan'[q])
        BY <2>1, <2>3, <2>4, OrderKept DEF Calm
    <2>6. Candidates(scope[q])' = Candidates(scope[q]) \ {w}
        BY <2>1 DEF Candidates, OnDisplay
    <2> QED
        BY <2>1, <2>3, <2>5, <2>6 DEF Calm
<1>10. ASSUME NEW w \in Windows, Minimizes(w) PROVE Course(q)'
    <2>1. /\ UNCHANGED <<open, excluded, stack, scope, plan, calm, pc, todo>>
          /\ minimized \subseteq minimized'
        BY <1>10 DEF Minimizes, vars, planned
    <2>2. SUFFICES ASSUME calm[q] PROVE Calm(q)'
        BY <1>2, <2>1
    <2>3. Calm(q)
        BY <1>2, <2>2
    <2>4. \A v \in InTheWay(scope[q])' \cap Activatable, u \in InTheWay(scope[q])' \ IsAllowed :
               Before(stack', v, u) => v \in ToSet(plan'[q])
        BY <2>1, <2>3, OrderKept DEF Calm
    <2>5. Candidates(scope[q])' = Candidates(scope[q])
        BY <2>1 DEF Candidates, OnDisplay
    <2> QED
        BY <2>1, <2>3, <2>4, <2>5 DEF Calm
<1>11. ASSUME NEW p \in Procs, ScanOnScreen(p) PROVE Course(q)'
    <2>1. PICK s \in Scopes : /\ Choose(p, Candidates(s))
                              /\ scope' = [scope EXCEPT ![p] = s]
                              /\ plan' = [plan EXCEPT ![p] = ToRaise(s)]
        BY <1>11 DEF ScanOnScreen
    <2>2. /\ calm'[q] = (q = p) /\ UNCHANGED <<stack, minimized, open>>
          /\ excluded' = excluded \cup (Overlays \cap open)
          /\ todo' = [todo EXCEPT ![p] = Candidates(s) \ excluded']
          /\ pc' = [pc EXCEPT ![p] = IF todo'[p] = {} THEN "drop" ELSE "save"]
        BY <1>11, <2>1 DEF ScanOnScreen, Choose, ListWindows, desktop, placed
    <2>3. CASE q # p
        BY <1>1, <1>2, <2>1, <2>2, <2>3
    <2>4. CASE q = p
        <3>1. /\ scope'[p] = s /\ plan'[p] = ToRaise(s) /\ todo'[p] = Candidates(s) \ excluded'
              /\ pc'[p] = IF todo'[p] = {} THEN "drop" ELSE "save"
            BY <1>1, <2>1, <2>2
        <3>2. ToSet(ToRaise(s)) = IF Covered(InTheWay(s)) THEN ToSet(stack) \cap InTheWay(s) \cap Activatable ELSE {}
            <4>1. ToSet(Only(stack, InTheWay(s) \cap Activatable))
                      = ToSet(stack) \cap (InTheWay(s) \cap Activatable)
                BY <1>1, OnlyOrder
            <4> QED
                BY <1>4, <4>1 DEF ToRaise
        <3>3. Candidates(s)' = Candidates(s) /\ InTheWay(s)' = InTheWay(s)
            BY <2>2 DEF Candidates, OnDisplay, InTheWay, Visible, Apps
        <3>4. Candidates(s) \subseteq excluded' \cup (IF pc'[p] = "save" THEN todo'[p] ELSE {})
            BY <3>1
        <3>5. \A v \in InTheWay(s) \cap Activatable, w \in InTheWay(s) \ IsAllowed :
                  Before(stack, v, w) => v \in ToSet(ToRaise(s))
            <4> SUFFICES ASSUME NEW v \in InTheWay(s) \cap Activatable,
                                NEW w \in InTheWay(s) \ IsAllowed, Before(stack, v, w)
                         PROVE  v \in ToSet(ToRaise(s))
                OBVIOUS
            <4>1. v \in IsAllowed
                BY DEF Activatable
            <4>2. Covered(InTheWay(s))
                BY <4>1 DEF Covered
            <4>3. v \in ToSet(stack)
                BY DEF Before, ToSet
            <4> QED
                BY <3>2, <4>2, <4>3
        <3>6. Calm(p)'
            BY <2>2, <3>1, <3>3, <3>4, <3>5 DEF Calm
        <3> QED
            BY <2>4, <3>1, <3>2, <3>6
    <2> QED
        BY <2>3, <2>4
<1>12. ASSUME NEW p \in Procs, Record(p) PROVE Course(q)'
    <2>1. /\ UNCHANGED <<open, excluded, stack, minimized, scope, plan, todo>>
          /\ calm'[q] => q = p /\ calm[q]
        BY <1>1, <1>12 DEF Record, SaveBegins, SaveEnds, Drop, Goes, placed, planned, desktop
    <2>2. SUFFICES ASSUME q = p, calm[p] PROVE Calm(p)'
        BY <1>2, <2>1
    <2>3. Calm(p)
        BY <1>2, <2>2
    <2>4. \/ pc[p] = "save" /\ pc'[p] = "saving"
          \/ pc[p] = "saving" /\ pc'[p] = "hide"
          \/ pc[p] = "drop" /\ pc'[p] = "raise"
        BY <1>1, <1>12 DEF Record, SaveBegins, SaveEnds, Drop, Goto
    <2>5. Candidates(scope[p])' = Candidates(scope[p]) /\ InTheWay(scope[p])' = InTheWay(scope[p])
        BY <2>1 DEF Candidates, OnDisplay, InTheWay, Visible, Apps
    <2> QED
        BY <2>1, <2>3, <2>4, <2>5 DEF Calm
<1>13. ASSUME NEW p \in Procs, HideOnScreen(p) PROVE Course(q)'
    <2>1. /\ UNCHANGED <<open, stack, minimized, scope>>
          /\ pc[p] = "hide" /\ excluded' = excluded \cup (todo[p] \cap open)
          /\ calm'[q] => q = p /\ calm[q] /\ pc'[p] = "raise"
          /\ plan' = IF pc'[p] = "raise" THEN plan ELSE [plan EXCEPT ![p] = <<>>]
        BY <1>1, <1>13 DEF HideOnScreen, Hide, SetExcluded, Goes, placed, desktop
    <2>2. ToSet(plan'[q]) \subseteq Activatable
        BY <1>1, <1>2, <1>4, <2>1
    <2>3. SUFFICES ASSUME q = p, calm[p], pc'[p] = "raise" PROVE Calm(p)'
        BY <2>1, <2>2
    <2>4. Calm(p)
        BY <1>2, <2>3
    <2>5. plan' = plan
        BY <2>1, <2>3
    <2>6. Candidates(scope[p])' = Candidates(scope[p]) /\ InTheWay(scope[p])' = InTheWay(scope[p])
        BY <2>1 DEF Candidates, OnDisplay, InTheWay, Visible, Apps
    <2>7. Candidates(scope[p]) \subseteq excluded'
        <3>1. Candidates(scope[p]) \subseteq open
            BY DEF Candidates, OnDisplay
        <3>2. Candidates(scope[p]) \subseteq excluded \cup todo[p]
            BY <2>1, <2>4 DEF Calm
        <3> QED
            BY <2>1, <3>1, <3>2
    <2> QED
        BY <2>1, <2>3, <2>4, <2>5, <2>6, <2>7 DEF Calm
<1>14. ASSUME NEW p \in Procs, RaiseOnScreen(p) PROVE Course(q)'
    <2> DEFINE x == Head(plan[p])
    <2>1. /\ plan[p] # <<>> /\ plan[p] \in Seq(Windows)
          /\ open' = open /\ scope' = scope /\ excluded \subseteq excluded'
          /\ pc[p] = "raise" /\ pc'[p] = "raise"
          /\ plan' = [plan EXCEPT ![p] = Tail(@)]
        BY <1>1, <1>14 DEF RaiseOnScreen, Raise, ListWindows, desktop
    <2>2. /\ x \in ToSet(plan[p]) /\ ToSet(Tail(plan[p])) \subseteq ToSet(plan[p])
          /\ ToSet(plan[p]) \subseteq ToSet(Tail(plan[p])) \cup {x}
        BY <2>1, TailRest
    <2> HIDE DEF x
    <2>3. plan'[q] = IF q = p THEN Tail(plan[p]) ELSE plan[q]
        BY <1>1, <2>1
    <2>4. ToSet(plan'[q]) \subseteq Activatable
        BY <1>2, <2>2, <2>3
    <2>5. calm'[q] => /\ q = p /\ calm[q]
                      /\ (x \in open /\ Top(x)) \/ (x \notin open /\ UNCHANGED placed)
        BY <1>14 DEF RaiseOnScreen, Goes, x
    <2>6. SUFFICES ASSUME q = p, calm[p],
                          (x \in open /\ Top(x)) \/ (x \notin open /\ UNCHANGED placed)
                   PROVE  Calm(p)'
        BY <2>4, <2>5
    <2>7. Calm(p)
        BY <1>2, <2>6
    <2>8. x \in Activatable /\ x \in IsAllowed
        BY <1>2, <2>2 DEF Activatable
    <2>9. Candidates(scope[p])' = Candidates(scope[p])
        BY <2>1 DEF Candidates, OnDisplay
    <2>10. \A v \in InTheWay(scope[p])' \cap Activatable, w \in InTheWay(scope[p])' \ IsAllowed :
               Before(stack', v, w) => v \in ToSet(plan'[p])
        <3> SUFFICES ASSUME NEW v \in InTheWay(scope[p])' \cap Activatable,
                            NEW w \in InTheWay(scope[p])' \ IsAllowed, Before(stack', v, w)
                     PROVE  v \in ToSet(Tail(plan[p]))
            BY <2>3, <2>6
        <3>1. w # x /\ v \in open /\ w \in open
            BY <2>1, <2>8 DEF InTheWay, Visible, Apps, OnDisplay
        <3>2. v # x /\ Before(stack, v, w)
            <4>1. CASE x \in open /\ Top(x)
                <5>1. x \notin Overlays
                    BY <2>8, RolesAssumption DEF IsAllowed
                <5> QED
                    BY <3>1, <4>1, <5>1, Raised
            <4>2. CASE x \notin open /\ UNCHANGED placed
                BY <3>1, <4>2 DEF placed
            <4> QED
                BY <2>6, <4>1, <4>2
        <3>3. v \in InTheWay(scope[p]) /\ w \in InTheWay(scope[p])
            <4>1. minimized \ {x} \subseteq minimized'
                BY <2>6 DEF Top, placed
            <4> QED
                BY <2>1, <3>1, <3>2, <4>1 DEF InTheWay, Visible, Apps, OnDisplay
        <3>4. v \in ToSet(plan[p])
            BY <2>7, <3>2, <3>3 DEF Calm
        <3> QED
            BY <2>2, <3>2, <3>4
    <2> QED
        BY <2>1, <2>7, <2>9, <2>10 DEF Calm
<1>15. ASSUME NEW p \in Procs, Prepared(p) PROVE Course(q)'
    <2>1. /\ UNCHANGED <<open, stack, minimized, scope, plan>> /\ excluded \subseteq excluded'
          /\ pc[p] = "raise" /\ pc'[p] = "idle"
          /\ calm'[q] => q = p /\ calm[q]
        BY <1>15 DEF Prepared, Raise, ListWindows, Goes, placed, planned, desktop
    <2>2. SUFFICES ASSUME q = p, calm[p] PROVE Calm(p)'
        BY <1>2, <2>1
    <2>3. Calm(p)
        BY <1>2, <2>2
    <2>4. Candidates(scope[p])' = Candidates(scope[p]) /\ InTheWay(scope[p])' = InTheWay(scope[p])
        BY <2>1 DEF Candidates, OnDisplay, InTheWay, Visible, Apps
    <2> QED
        BY <2>1, <2>3, <2>4 DEF Calm
<1>16. CASE UNCHANGED varsOnScreen
    BY <1>2, <1>16
    DEF varsOnScreen, vars, placed, planned, desktop, Calm, Candidates, OnDisplay, InTheWay, Visible, Apps
<1> QED
    BY <1>6, <1>7, <1>8, <1>9, <1>10, <1>11, <1>12, <1>13, <1>14, <1>15, <1>16 DEF NextOnScreen

\* The desktop is well typed and no calm prepare is off its course, ever.
LEMMA OnScreenHolds == SpecOnScreen => [](TypeOKOnScreen /\ OnCourse)
<1>1. InitOnScreen => TypeOKOnScreen /\ OnCourse
    <2> SUFFICES ASSUME InitOnScreen PROVE TypeOKOnScreen /\ OnCourse
        OBVIOUS
    <2>1. TypeOK
        BY DEF InitOnScreen, Init, TypeOK, Pcs
    <2>2. IsFiniteSet(open \ Overlays)
        <3>1. IsFiniteSet(open)
            BY <2>1, RolesAssumption, FS_Subset DEF TypeOK
        <3> QED
            BY <3>1, FS_Difference
    <2>3. /\ stack \in Seq(open \ Overlays) /\ ToSet(stack) = open \ Overlays /\ IsInjective(stack)
        BY <2>2, SetToSeqsLists DEF InitOnScreen
    <2>4. stack \in Seq(Windows)
        BY <2>1, <2>3, SeqWithin DEF TypeOK
    <2>5. <<>> \in Seq(Windows) /\ ToSet(<<>>) = {}
        BY DEF ToSet
    <2>6. /\ scope \in [Procs -> Scopes] /\ calm \in [Procs -> BOOLEAN]
          /\ plan \in [Procs -> Seq(Windows)] /\ \A p \in Procs : plan[p] = <<>> /\ ~calm[p]
        BY <2>5 DEF InitOnScreen, Scopes
    <2>7. minimized \in SUBSET ToSet(stack)
        BY <2>3 DEF InitOnScreen, Apps
    <2> QED
        BY <2>1, <2>3, <2>4, <2>5, <2>6, <2>7 DEF TypeOKOnScreen, OnCourse
<1> QED
    BY <1>1, TypeStepOnScreen, OnCourseStep, PTL DEF SpecOnScreen

\* After a prepare that nobody interfered with, the screenshot shows allowed apps
\* only, and a click on one of theirs that can be raised meets no hidden window
\* (activate_visible_windows_in_z_order): whatever windows there are, however they
\* lie, and whichever of them close or are minimized on the way.
THEOREM ClickMeetsShotHolds == SpecOnScreen => []ClickMeetsShot
<1>1. TypeOKOnScreen /\ OnCourse => ClickMeetsShot
    <2> SUFFICES ASSUME TypeOKOnScreen, OnCourse, NEW p \in Procs, pc[p] = "idle", calm[p]
                 PROVE  /\ Candidates(scope[p]) \subseteq excluded
                        /\ \A v \in InTheWay(scope[p]) \cap Activatable, w \in InTheWay(scope[p]) :
                              Before(stack, v, w) => w \in IsAllowed
        BY DEF ClickMeetsShot
    <2>1. Calm(p)
        BY DEF OnCourse
    <2>2. plan[p] = <<>> /\ ToSet(plan[p]) = {}
        BY DEF TypeOKOnScreen, ToSet
    <2> QED
        BY <2>1, <2>2 DEF Calm
<1> QED
    BY <1>1, OnScreenHolds, PTL

=============================================================================
