CONSTANTS
    c1 = c1
    c2 = c2
    t1 = t1
    t2 = t2
    left = left
    right = right
    None = None
    Clients = {c1, c2}
    Threads = {t1, t2}
    Stuck = {t1}
    Displays = {left, right}
SPECIFICATION FairSpec
INVARIANTS HeldUntilAnswered RunnerFits NoGhost ShownHasWindow
PROPERTY ServiceIsFreed
CHECK_DEADLOCK FALSE
