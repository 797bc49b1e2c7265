SPECIFICATION BridgeSpec
CONSTANTS
    Pumps = {k1, k2}
    NoPump = NoPump
    MaxSockets = 2
    MaxDown = 1
    MaxUp = 1
    Viewers = {v1, v2}
    Rpcs = {r1}
SYMMETRY BridgeSymmetry
INVARIANTS
    SessionAccounted
    WatchFollowsListeners
    FtpFlagFollows
    WithdrawnWorkAborted
    CameraArbitrated
PROPERTIES
    LiveSessionUndisturbed
CHECK_DEADLOCK FALSE
