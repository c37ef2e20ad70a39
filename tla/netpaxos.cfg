SPECIFICATION FairSpec
CONSTANTS
    a1 = a1
    a2 = a2
    a3 = a3
    Acceptors = {a1, a2, a3}
    Quorums <- MCQuorums
    Values = {1, 2}
    MaxInst = 1
    MaxProposal = 1
    MaxResets = 1
INVARIANTS
    Agreement
PROPERTIES
    InstancesDecided
CHECK_DEADLOCK FALSE
