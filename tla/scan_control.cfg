SPECIFICATION FairSpec
CONSTANTS
    Libraries <- OneLibrary
    Scans <- TwoScans
    Clients <- OneClient
    Scheduled <- OneLibrary
    Batches = 2
    MaxFaults = 1
    NoScan = NoScan
    NoLibrary = NoLibrary
    NoRequest = NoRequest
    l1 = l1
    l2 = l2
    s1 = s1
    s2 = s2
    c1 = c1
INVARIANTS
    TypeOK
    ExecutedScanIsHeld
    PromptControl
PROPERTIES
    ScansEnd
