\* Three workers, three deliveries (the maxReceiveCount of the template), in both environments.
SPECIFICATION MCSpec
CONSTANTS
    Workers = {w1, w2, w3}
    NoWorker = NoWorker
    TaskIds = {}
    Docs = {}
    Faults = {"stale_read", "read_error", "error", "crash", "duplicate", "send_failure"}
    MaxReceives = 3
INVARIANTS TypeOK ExclusiveAnalysis
PROPERTIES MessageSettles CompletesIfCalm
CHECK_DEADLOCK FALSE
