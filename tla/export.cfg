SPECIFICATION Spec
CONSTANTS
    Clients <- OneClient
    Exporters <- OneClient
    Runs <- ThreeRuns
    MaxRenames = 1
    MaxEdits = 1
    MaxUndos = 1
    Empty = {}
    MaxExports = 2
    MaxOutages = 0
    MaxDeaths = 1
    MaxErrors = 1
    NoPrint = NoPrint
    c1 = c1
    c2 = c2
    r1 = r1
    r2 = r2
    r3 = r3
SYMMETRY Executions
CHECK_DEADLOCK FALSE
INVARIANTS TypeOK ReadyIsWhole FreshItems
