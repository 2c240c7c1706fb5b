\* Two users with up to two edits each, one refresh or restart, one request at a time.
SPECIFICATION Spec
CONSTANTS
    Clients = {c1, c2}
    MaxEdits = 2
    MaxReplacements = 1
    Overlap = FALSE
INVARIANTS AcceptedHasSeenRow
CHECK_DEADLOCK FALSE
