\* A single continue request on a healthy system, and a client that polls.
SPECIFICATION RequestsSpec
CONSTANTS
    Workers = {w1}
    NoWorker = NoWorker
    TaskIds = {t1}
    Docs = {}
    Faults = {}
    MaxReceives = 1
    Requests = {r1}
    RequestKinds = {"continue"}
    Overlap = FALSE
PROPERTIES PollNeverRegresses
CHECK_DEADLOCK FALSE
