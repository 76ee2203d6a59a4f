CONSTANTS
    Callers = {c1}
    MaxPolls = 2
    MaxLooks = 2
    MaxScripts = 2
    Names = {n1, n2, n3}
    None = None
    Windows <- MCWindows
    MaxFiles = 2
SPECIFICATION MCSpec
INVARIANTS AnswerIsOwn ActivatedWasActive NothingStaysLoaded AllowListIsExact KnownCanBeOpened
PROPERTY CallsReturn
