SPECIFICATION FairDispatcherSpec
CONSTANTS
    Jobs = {j1, j2}
    Printers = {p1}
    Files = {f1}
    PrinterOf <- MCPrinterOf
    FileOf <- MCSharedName
    NoJob = NoJob
    NoRow = NoRow
    MaxUploadAttempts = 2
    KeptFinished = 1
    MaxRetries = 0
    MaxCancels = 1
    MaxShutdowns = 1
PROPERTIES
    DispatchesFinish
CHECK_DEADLOCK FALSE
