SPECIFICATION FairSpec
CONSTANTS
    Keys = {"a", "b"}
    PUNC = "punc"
    TERM = "term"
    RB_SIZE = 4
    RB_BATCH = 2
    MaxTuples = 5
PROPERTIES Implements IntervalComplete SingleIntervalEnds
CHECK_DEADLOCK FALSE
