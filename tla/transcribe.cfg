SPECIFICATION FairSpec
CONSTANTS
    Retries = 1
    Attempts = 2
    Orphan = 1
    Redelivery = 2
    Window = 4
    Messages = 2
    MaxIncidents = 1
INVARIANTS TypeOK DeathsBounded
PROPERTIES RunNotRequeued NothingForgotten
