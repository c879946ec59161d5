SPECIFICATION Spec
CONSTANTS
    i1 = i1
    i2 = i2
    NoInstance = NoInstance
    Instance <- MCInstance
    Window <- MCWindow
    Rank <- MCRank
    Length <- MCLength
    Uncertain = 3
    Retry = 1
    Interval = 0
    Day = 2
    MaxPerDay = 1
    FailureLimit = 2
    Horizon = 3
    MaxAttempt = 2
SYMMETRY MCSymmetry
INVARIANTS
    TypeOK
    
    

    
CHECK_DEADLOCK FALSE
