CONSTANTS
    None = None
    d1 = d1
    d2 = d2
    app = app
    quit = quit
    tool = tool
    Daemons = {d1}
    Starters = {app}
    Enders = {quit}
    Requesters = {}
SPECIFICATION FairSpec
PROPERTIES StopEndsDaemon CommandsEnd
