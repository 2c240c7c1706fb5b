\* Two users' requests of every kind, one at a time, before, between and after
\* the deliveries to two workers; reads may fail, a message may be delivered twice
\* or never be sent.
SPECIFICATION RequestsSpec
CONSTANTS
    Workers = {w1, w2}
    NoWorker = NoWorker
    TaskIds = {t1, t2}
    Docs = {d1}
    Faults = {"read_error", "send_failure", "duplicate"}
    MaxReceives = 3
    Requests = {r1, r2}
    RequestKinds = {"continue", "refresh", "ingest"}
    Overlap = FALSE
INVARIANTS RequestsTypeOK
PROPERTIES ImplementsRecord
CHECK_DEADLOCK FALSE
