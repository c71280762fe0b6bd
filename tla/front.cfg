SPECIFICATION FrontSpec
CONSTANTS
    a = a
    b = b
    c = c
    Assets = {a, b, c}
    RoomOrder <- TheRooms
    Sees <- TheSees
    FileOrder <- TheFiles
    Hands = {h1, h2}
    ItemIncidents = 3
    Visitors = {v1, v2}
    Secrets = {k1, k2}
    Codes = {c1, c2}
    Sessions = {s1, s2}
    NoSecret = NoSecret
    Idle = 2
    Absolute = 3
    Granularity = 1
    MaxAttempts = 2
    Window = 2
    BaseLock = 1
    MaxLock = 2
    LastTick = 3
    SignIncidents = 5
    Footage <- TheFootage
    NearestFrames <- TheFrames
    Segments <- TheSegments
    Named <- TheNamed
    Tagged <- TheTagged
    Verdict <- TheVerdicts
    Weight <- TheWeights
    RankConstant = 60
    Hits = 2
    NeighbourFrames = 1
    WidestWindow = 6
    Panels = {"ppro"}
    Pages = {"web"}
    SearchIncidents = 3
    Stills <- TheStills
    Asks = {r1, r2, r3}
    MaxGrabs = 2
    GrabSlots = 2
    DiskUnits = 4
    FreeFloor = 3
    GrabIncidents = 4
    Files = {a, b}
    RoomRank <- TheRoomRanks
    Operators = {o1, o2}
    OrganizeIncidents = 3
    Shoots <- TheShoots
    Softness = 45
    Editors = {"e1", "e2"}
    CurateIncidents = 3
CHECK_DEADLOCK FALSE
INVARIANTS
    AccountsCorrect
PROPERTIES
    ItemsCorrect
    SearchCorrect
    GrabsCorrect
    OrganizerCorrect
    CurateCorrect
