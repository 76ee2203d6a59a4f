CONSTANTS
    c1 = c1
    c2 = c2
    None = None
    Callers = {c1, c2}
SPECIFICATION FairSpec
INVARIANTS HeldIsDown NothingStuck AnswerIsTrue StopIsReported
PROPERTY LateUpIsServed
