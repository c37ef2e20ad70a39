SPECIFICATION FairSpec
CONSTANTS
    MSS = 2
    IW = 5
    MAXWND = 60
    QSIZE = 8
    K = 4
    Workloads <- MCWorkloads
INVARIANTS
    SinkExact
    FlowKept
PROPERTIES
    RecoveryJustified
    FlowsFinish
CHECK_DEADLOCK FALSE
