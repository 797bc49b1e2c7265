SPECIFICATION ManagerFairSpec
CONSTANTS
    Bridges = {b1}
    NoBridge = NoBridge
    Absent = Absent
    Deleted = Deleted
    Ops = {o1, o2}
    MaxPrints = 1
    MaxWire = 1
    MaxLeft = 1
    Kinds = {"report", "frame", "offline", "sighting"}
INVARIANTS
    OutageNoticed
    FinishesReal
PROPERTY
    OutageSurfaces
