SPECIFICATION FairSpec
CONSTANTS
    MAXSIZE = 2
    DATASIZE = 2
    ACKSIZE = 1
    RATIO_HIGH = 1
    RATIO_LOW = 1
    Flows = {1, 2}
    Window = 2
    HIST_LEN = 3
    FlightMod = 8
    Workloads <- PairOrAlone
    MaxFaults <- MCFaults
    MaxLoss = 1
INVARIANTS
    NothingLost
    
    
    PortSound
PROPERTY FlowsFinish
CHECK_DEADLOCK FALSE
