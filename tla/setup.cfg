\* A form with two documents, submitted twice; two API clients with keys; every failure.
SPECIFICATION Spec
CONSTANTS
    Callers = {web, api1, api2}
    Keys = {k1, k2}
    NoKey = NoKey
    MaxProjects = 2
    Concurrent = FALSE
    CallsFail = TRUE
    Form = web
    Files = {f1, f2}
    NChunks = 2
    Jobs = {j1, j2}
    MaxPolls = 2
    MaxTries = 2
    ClientGivesUp = TRUE
INVARIANTS TypeOK KeyNamesOneProject AnsweredIsScheduled AddedIsSearchable FirstTryIsCurrent
PROPERTIES SubmissionEnds
CHECK_DEADLOCK FALSE
