SPECIFICATION Spec
CONSTANTS
    Vids = {1, 2, 3}
    Xways = {0}
    Segs = {0, 4}
    Dirs = {0}
    Lanes = {1}
    Speeds = {39, 41}
    LR_NUM_XWAY = 1
    LR_NUM_SEG = 9
    LR_NUM_DIR = 2
    LR_NUM_LANE = 3
    CntMod = 4
    TollSpd = 40
    TollCars = 1
    Settings <- StrictSettings
    Turns = FALSE
    MaxBal = 2000
INVARIANTS
    CountsAgree
    AlertsExact
    
CHECK_DEADLOCK FALSE
