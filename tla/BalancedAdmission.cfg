SPECIFICATION Spec
CONSTANTS
    r1 = r1
    r2 = r2
    s1 = s1
    s2 = s2
    c1 = c1
    c2 = c2
    Nobody = Nobody
    Request <- MCRequest
    Session <- MCSession
    Credential <- MCCredential
    LayersOf <- MCLayersOf
    Levels = {0, 3}
    Cost = 2
    Outcomes = {"used", "overload"}
    LeaseTTL = 1
    SettleTTL = 2
    Tolerance = 2
    PendingTTL = 2
    Sticky = 1
    Base = 1
    Longest = 2
    AuthRetry = 1
    MaxPending = 2
    SessionLimit = 1
    Starts <- MCStarts
    MaxClock = 2
    MaxEvents = 1
SYMMETRY MCSymmetry
INVARIANTS
    TypeOK
    DebitOnce
    

    
CHECK_DEADLOCK FALSE
