\* One form, one project, nothing fails.
SPECIFICATION Spec
CONSTANTS
    Callers = {web}
    Keys = {k1}
    NoKey = NoKey
    MaxProjects = 1
    Concurrent = FALSE
    CallsFail = FALSE
    Form = web
    Files = {f1}
    NChunks = 1
    Jobs = {j1}
    MaxPolls = 10
    MaxTries = 1
    ClientGivesUp = FALSE
INVARIANTS FetchedHasEnded
CHECK_DEADLOCK FALSE
