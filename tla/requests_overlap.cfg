\* Requests overlap each other and the worker, any of which may die at any step.
SPECIFICATION RequestsSpec
CONSTANTS
    Workers = {w1}
    NoWorker = NoWorker
    TaskIds = {t1}
    Docs = {d1}
    Faults = {"crash"}
    MaxReceives = 2
    Requests = {r1, r2}
    RequestKinds = {"continue", "refresh", "ingest"}
    Overlap = TRUE
INVARIANTS ItemConsistent
PROPERTIES LockFollowsState
CHECK_DEADLOCK FALSE
