SPECIFICATION FairSpec
CONSTANTS
    Ports <- TwoPorts
    CPU = cpu
    MaxSnap = 2
    Setups <- MCSetups
INVARIANTS
    CompleteSnapshotsExact
    CutConsistent
    IdsFollow
    NotificationsCover
PROPERTIES
    SnapshotsReached
CHECK_DEADLOCK FALSE
