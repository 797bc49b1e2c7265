SPECIFICATION Spec
CONSTANTS
    Jobs = {j1, j2}
    Printers = {p1}
    Files = {j1, j2}
    PrinterOf <- MCPrinterOf
    FileOf <- MCOwnName
    NoJob = NoJob
    NoRow = NoRow
    MaxUploadAttempts = 1
    KeptFinished = 2
    MaxRetries = 0
    MaxCancels = 1
    MaxShutdowns = 0
    MaxCrashes = 1
SYMMETRY MCSymmetry
INVARIANTS
    UnsharedLiveFileKept
PROPERTIES
    ReconcileSparesStarted
    ImplementsBoundary
CHECK_DEADLOCK FALSE
