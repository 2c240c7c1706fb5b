\* Two users with two edits each, two refreshes or restarts, one request at a time.
SPECIFICATION Spec
CONSTANTS
    Clients = {c1, c2}
    MaxEdits = 2
    MaxReplacements = 2
    Overlap = FALSE
INVARIANTS TypeOK EditsSurvive VersionIdentifiesContents
CHECK_DEADLOCK FALSE
