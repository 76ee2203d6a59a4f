CONSTANTS
    None = None
    d1 = d1
    d2 = d2
    app = app
    quit = quit
    tool = tool
    Daemons = {d1, d2}
    Starters = {app}
    Enders = {quit}
    Requesters = {}
SPECIFICATION Spec
SYMMETRY Symmetry
INVARIANT EndLeavesNothing
PROPERTY SharingPromise
