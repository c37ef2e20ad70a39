SPECIFICATION FairSpec
CONSTANTS
    Keys = {1, 2, 3}
    Cached = {1}
    HotList = {1}
    Values = {a}
    Hash <- SharedHash
    HH_LOAD_NUM = 2
    HH_BF_NUM = 4
    HH_THRESHOLD = 0
    MaxReads = 3
    MaxLoss = 1
INVARIANTS
    AnswersRight
    
PROPERTIES
    ReadsAnswered
CHECK_DEADLOCK FALSE
