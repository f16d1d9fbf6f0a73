SPECIFICATION ReadyFairSpec
CONSTANTS
    p1 = p1
    parent = parent
    derived = derived
    other = other
    Never = Never
    Proc <- OneProc
    Pathless <- NoProc
    Self = p1
    Client <- Clients
    RootOf <- Roots
    Interval = 3
    Guard = 1
    MaxDoublings = 2
    Skew = 1
INVARIANTS
    ReadyMeansFlushed
    OptOutBoundsTraffic
PROPERTIES
    NoHang
    HeartbeatLands
    CadenceKept
    BackoffSpacing
    RecordedCadence
