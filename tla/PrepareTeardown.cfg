CONSTANTS
    p1 = p1
    p2 = p2
    w1 = w1
    w2 = w2
    overlay = overlay
    Procs = {p1, p2}
    Teardowns = {p2}
    Windows = {w1, w2, overlay}
    Overlays = {overlay}
SPECIFICATION Spec
INVARIANT HiddenIsTracked
