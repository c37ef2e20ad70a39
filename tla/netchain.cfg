SPECIFICATION FairSpec
CONSTANTS
    s1 = s1
    s2 = s2
    s3 = s3
    s4 = s4
    Chain <- MCChain
    Backup = s4
    Access = s4
    Client = client
    END = END
    Setups <- MCSetups
    Route <- MCRoute
    PopAgainAt <- MCPopAgainAt
INVARIANTS
    NumbersAgree
    ReadsAreFresh
    AnsweredIsStored
    BackupNotAhead
PROPERTIES
    NeverGoesBack
    WritesLand
CHECK_DEADLOCK FALSE
