SPECIFICATION Spec
CONSTANTS
    Jobs = {j1, j2}
    Printers = {p1}
    Files = {f1}
    PrinterOf <- MCPrinterOf
    FileOf <- MCSharedName
    NoJob = NoJob
    NoRow = NoRow
    MaxUploadAttempts = 1
    KeptFinished = 2
    MaxRetries = 0
    MaxCancels = 1
    MaxShutdowns = 0
    MaxCrashes = 1
SYMMETRY MCSymmetry
PROPERTIES
    SweepSparesLivePrint
CHECK_DEADLOCK FALSE
