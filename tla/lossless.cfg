SPECIFICATION FairSpec
CONSTANTS
    Links <- MCLinks
    Flows <- MCFlows
    From <- MCFrom
    To <- MCTo
    HostLinks = {"hs", "ks"}
    Route <- MCRoute
    Prio <- MCPrio
    Workloads <- MCWorkloads
    HIGH = 2
    LOW = 1
    MAXSIZE = 4
    QMAXSIZE = 6
    PIPESIZE = 1
INVARIANTS
    NoOverflow
    PauseHeeded
    QueuesWork
PROPERTY AllDelivered
CHECK_DEADLOCK FALSE
