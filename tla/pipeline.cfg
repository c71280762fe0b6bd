SPECIFICATION FairSpec
CONSTANTS
    Kinds = {"still", "clip", "raw"}
    Slots = {1, 2}
    Versions = 2
    Retries = 1
    MaxAttempts = 2
    MaxQueued = 1
    RowIds = {1, 2, 3}
    MaxIncidents = 1
INVARIANTS TypeOK ProcessingIsWorked QuietIsFresh
PROPERTY Settles
CHECK_DEADLOCK FALSE
