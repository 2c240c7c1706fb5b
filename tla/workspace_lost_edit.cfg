\* Two users with an edit each, handlers interleaved.
SPECIFICATION Spec
CONSTANTS
    Clients = {c1, c2}
    MaxEdits = 1
    MaxReplacements = 0
    Overlap = TRUE
INVARIANTS NoLostEdit
CHECK_DEADLOCK FALSE
