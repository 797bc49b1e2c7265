SPECIFICATION ManagerSpec
CONSTANTS
    Bridges = {b1, b2}
    NoBridge = NoBridge
    Absent = Absent
    Deleted = Deleted
    Ops = {o1, o2, o3}
    MaxPrints = 0
    MaxWire = 1
    MaxLeft = 0
    Kinds = {"sighting"}
SYMMETRY BothSymmetry
INVARIANT
    RowFollowed
PROPERTY
    RecoveryTakesOrphans
