CONSTANTS
    None = None
    d1 = d1
    d2 = d2
    app = app
    quit = quit
    tool = tool
    Daemons = {d1, d2}
    Starters = {app}
    Enders = {app}
    Requesters = {tool}
SPECIFICATION Spec
SYMMETRY Symmetry
INVARIANTS StopIsVisible ServingIsReachable NoGhostShutdown
PROPERTY KeepsOthersSocket
