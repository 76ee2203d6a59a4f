CONSTANTS
    RequestLimit = 15
    ShutdownGrace = 30
    TermGrace = 27
    TeardownLimit = 25
    ClosedGrace = 5
    IoLimit = 100
    Lag = 1
    Budget = 50
    Base = 6
    PerChar = 2
    MaxMs = 31
    Second = 4
    Delays = {0, 3, 16, 31}
    Counts = {1, 2, 17}
    Starts = {0, 3}
SPECIFICATION MCSpec
INVARIANTS AnsweredIsLeft CutIsDeaf PatientByDesign DeadlineAgrees
