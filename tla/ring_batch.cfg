SPECIFICATION Spec
CONSTANTS
    Keys = {"a"}
    PUNC = "punc"
    TERM = "term"
    RB_SIZE = 4
    RB_BATCH = 2
    MaxTuples = 5
INVARIANT AtMostRBatch
CHECK_DEADLOCK FALSE
