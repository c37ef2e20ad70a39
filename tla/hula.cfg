SPECIFICATION Spec
CONSTANTS
    ToRs = {"t1", "t2"}
    Spines = {"s1", "s2"}
    Flows = {1}
    FlowSrc <- OneFlowSrc
    FlowDst <- OneFlowDst
    FlowHash <- OwnHash
    Probed <- OneWay
    InitDepth = 2
    MaxDepth = 1
    MaxInFlight = 2
    MaxData = 2
    MaxLoss = 1
INVARIANTS
    RoutesReach
    BestFresh
    
CHECK_DEADLOCK FALSE
