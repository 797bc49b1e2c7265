SPECIFICATION DispatcherSpec
CONSTANTS
    Jobs = {j1, j2}
    Printers = {p1}
    Files = {f1}
    PrinterOf <- MCPrinterOf
    FileOf <- MCSharedName
    NoJob = NoJob
    NoRow = NoRow
    MaxUploadAttempts = 1
    KeptFinished = 2
    MaxRetries = 1
    MaxCancels = 1
    MaxShutdowns = 0
SYMMETRY MCSymmetry
CONSTRAINT MCFewPending
INVARIANTS
    NothingStranded
    StartIsMarked
    OneActiveUnlessRetried
    RunsSerialized
    JournalAgrees
PROPERTIES
    StartedOnce
    OutcomeIsFinal
    StartUsesOwnUpload
CHECK_DEADLOCK FALSE
