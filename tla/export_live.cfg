SPECIFICATION FairSpec
CONSTANTS
    Clients <- TwoClients
    Exporters <- TwoClients
    Runs <- ThreeRuns
    MaxRenames = 0
    MaxEdits = 0
    MaxUndos = 0
    Empty = {}
    MaxExports = 2
    MaxOutages = 1
    MaxDeaths = 1
    MaxErrors = 0
    NoPrint = NoPrint
    c1 = c1
    c2 = c2
    r1 = r1
    r2 = r2
    r3 = r3
CHECK_DEADLOCK FALSE
PROPERTY ExportEnds
