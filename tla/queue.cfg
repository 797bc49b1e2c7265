SPECIFICATION QueueSpec
CONSTANTS
    Items = {i1}
    Printers = {p1}
    NoPrinter = NoPrinter
    Prints = {1, 2}
    NoPrint = 0
    NoItem = NoItem
    PlateRequests = {c1}
    Requests = {r1, r2}
    Edits = {e1}
    MaxDisturbances = 1
    Quantity <- MCQuantity
    Pinned <- MCPinned
    NameOf <- MCNameOf
SYMMETRY RequestSymmetry
INVARIANTS
    
    CopiesCounted
    NotStranded
    CacheFollowsRow
PROPERTIES
    PlateGuarded
CHECK_DEADLOCK FALSE
