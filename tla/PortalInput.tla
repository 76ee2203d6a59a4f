---------------------------- MODULE PortalInput ----------------------------
(* Input through the portal (LivePortalSession): a gesture is a sequence of  *)
(* notify calls, each of which may fail, and the daemon may abandon it at    *)
(* any of them.  What the compositor has pressed is what the calls left.     *)
EXTENDS Naturals, Sequences

VARIABLES
    held,       \* held_buttons
    down,       \* what the compositor has pressed
    gesture,    \* the gesture under way, or "none"
    todo,       \* the calls it has left
    failed,     \* one of its calls failed, or it was refused
    broken      \* history: the kinds, of what may have been left pressed for good

input == <<held, down, gesture, todo, failed, broken>>

Left  == "left"

\* The modifiers of a click are pressed in a row; so are the keys of a chord.
Later == {"shift", "v"}
Kind(key) == IF key = Left THEN "button" ELSE "key"

\* A call of the first part, or of the last, ends the gesture when it fails; one
\* of the body skips to the last part, which releases what the first pressed.
Press(key, part)   == [do |-> "press", key |-> key, part |-> part]
Release(key, part) == [do |-> "release", key |-> key, part |-> part]
Move(part)         == [do |-> "move", key |-> "none", part |-> part]

\* Slip: a drag that cannot move does not release the button.
DragUnguarded == <<Move("first"), Press(Left, "first"), Move("first"), Release(Left, "first")>>

Drag == <<Move("first"), Press(Left, "first"), Move("body"), Release(Left, "last")>>

\* A click with two modifiers.  These are pressed before the guarded part begins,
\* and released after it, the last one first.
Click ==
    <<Move("first"), Press("ctrl", "first"), Press("shift", "first"),
      Press(Left, "body"), Release(Left, "body"),
      Release("shift", "last"), Release("ctrl", "last")>>

\* key_sequence and hold_key_codes: a chord; type_text is one of a single key.
Chord ==
    <<Press("ctrl", "first"), Press("v", "first"),
      Release("v", "first"), Release("ctrl", "first")>>

\* scroll_screen_point: a move and an axis event.
Scroll == <<Move("first"), Move("first")>>

Plan == [down |-> <<Press(Left, "first")>>, up |-> <<Release(Left, "first")>>,
         click |-> Click, drag |-> Drag,
         chord |-> Chord, scroll |-> Scroll]

Gestures == DOMAIN Plan
Pressable == {Left, "ctrl", "shift", "v"}

Parts == {"first", "body", "last"}
Calls == [do : {"press", "release"}, key : Pressable, part : Parts]
         \cup [do : {"move"}, key : {"none"}, part : Parts]

InputTypeOK ==
    /\ held \in SUBSET {Left}
    /\ down \in SUBSET Pressable
    /\ gesture \in Gestures \cup {"none"}
    /\ todo \in Seq(Calls)
    /\ failed \in BOOLEAN
    /\ broken \in SUBSET {"button", "key"}

InputInit ==
    /\ held = {} /\ down = {}
    /\ gesture = "none" /\ todo = <<>>
    /\ failed = FALSE /\ broken = {}

-----------------------------------------------------------------------------

\* Slip: only a second left_mouse_down looks at the held button.
RefusedTwice(g) == g = "down" /\ Left \in held

\* A held button cannot be pressed, clicked or dragged with.
Refused(g) == g \in {"down", "click", "drag"} /\ Left \in held

\* left_mouse_up forgets the button before it releases it, and has nothing to
\* release if it is not held.
Start(g) ==
    /\ gesture = "none"
    /\ gesture' = g
    /\ failed' = Refused(g)
    /\ todo' = IF Refused(g) \/ (g = "up" /\ Left \notin held) THEN <<>> ELSE Plan[g]
    /\ held' = IF g = "up" THEN held \ {Left} ELSE held
    /\ UNCHANGED <<down, broken>>

After(call) ==
    CASE call.do = "press"   -> down \cup {call.key}
      [] call.do = "release" -> down \ {call.key}
      [] OTHER               -> down

\* left_mouse_down remembers the button once it is pressed.
Call ==
    /\ todo # <<>>
    /\ down' = After(Head(todo))
    /\ todo' = Tail(todo)
    /\ held' = IF gesture = "down" THEN held \cup {Left} ELSE held
    /\ UNCHANGED <<gesture, failed, broken>>

\* The last part of a gesture: a drag releases its button, a click its modifiers.
LastPart(g) ==
    CASE g = "drag"  -> <<Release(Left, "last")>>
      [] g = "click" -> <<Release("shift", "last"), Release("ctrl", "last")>>
      [] OTHER       -> <<>>

\* What is still called after this one has failed.
AfterFailure(call) == IF call.part = "body" THEN LastPart(gesture) ELSE <<>>

\* A key that cannot be pressed leaves those pressed before it (press_keycodes), and
\* a release that fails leaves what it was to release, and the keys after it
\* (release_keycodes).
Leaves(call) ==
    IF call.do = "release" \/ (call.do = "press" /\ call.key \in Later)
    THEN {Kind(call.key)}
    ELSE {}

\* Slip: a gesture that could clean up counts as done.
CallFailsQuietly ==
    /\ todo # <<>>
    /\ todo' = AfterFailure(Head(todo))
    /\ broken' = broken \cup Leaves(Head(todo))
    /\ failed' = (failed \/ Head(todo).part # "body")
    /\ UNCHANGED <<held, down, gesture>>

CallFails ==
    /\ todo # <<>>
    /\ todo' = AfterFailure(Head(todo))
    /\ broken' = broken \cup Leaves(Head(todo))
    /\ failed' = TRUE
    /\ UNCHANGED <<held, down, gesture>>

\* What the calls of a gesture press and release.
Touched(calls) == {Kind(calls[i].key) : i \in {j \in DOMAIN calls : calls[j].do # "move"}}

\* The future is dropped: its call may have been made, its releases are not.
Abandon ==
    /\ gesture' = "none" /\ todo' = <<>> /\ failed' = FALSE
    /\ down' \in {down} \cup (IF todo = <<>> THEN {} ELSE {After(Head(todo))})
    /\ broken' = broken \cup Touched(todo)
    /\ UNCHANGED held

Finish ==
    /\ gesture # "none" /\ todo = <<>>
    /\ gesture' = "none" /\ failed' = FALSE
    /\ UNCHANGED <<held, down, todo, broken>>

\* shutdown: the held buttons are released, as far as that works, and the session
\* goes.
ReleaseHeld ==
    /\ held' = {}
    /\ down' \in {down \ held, down}
    /\ broken' = IF down' = down \ held THEN broken ELSE broken \cup {"button"}
    /\ UNCHANGED <<gesture, todo, failed>>

-----------------------------------------------------------------------------
(* Properties. *)

\* What the session says is held is pressed, whatever fails and whatever is
\* abandoned: no gesture releases, or presses, a button somebody holds.
HeldIsDown == held \subseteq down

\* What keeps a held button down: while it is held, nothing is left to call that
\* would release it, and left_mouse_down calls what it was asked to.
Harmless == {call \in Calls : call.key # Left /\ call.part # "body"}

HeldIsSafe ==
    /\ gesture = "none" => todo = <<>>
    /\ gesture = "down" => todo \in {<<>>, Plan["down"]}
    /\ Left \in held => todo \in Seq(Harmless)

\* Between gestures, and after the last, the left button is pressed exactly if the
\* session holds it, unless a button was left: its release failed, or a stop cut the
\* gesture short.  And no key is pressed, unless a key was left: a release failed, a
\* key could not be pressed after others were, or a stop cut the gesture short.  In
\* between, whatever fails is cleaned up: the move inside a drag, the clicks with
\* their modifiers down; and a failure of the one kind never leaves the other.
NothingStuck ==
    gesture = "none" =>
        /\ "button" \notin broken => (Left \in down <=> Left \in held)
        /\ "key" \notin broken => down \subseteq {Left}

=============================================================================
