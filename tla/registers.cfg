SPECIFICATION EitherSpec
CONSTANTS
    Sources = {1, 2, 3, 4}
    Slots = {0, 1}
    my_hash_1 <- Hash1
    my_hash_2 <- Hash2
    MaxPackets = 12
    Flows = {1, 2, 3}
    Index <- SharedIndex
    Offset <- Alternate
    Delay <- SlowAndFast
    TIMEOUT = 2
    TimeMod = 5
    IdMod = 4
    MaxTime = 12
INVARIANTS
    NoOvercount
PROPERTIES
    FlowletInOrder
CHECK_DEADLOCK FALSE
