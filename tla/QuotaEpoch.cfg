SPECIFICATION Spec
CONSTANTS
    c1 = c1
    c2 = c2
    Nobody = Nobody
    Credential <- MCCredential
    MaxRounds = 2
    ProbeLimit = 1
    Batch = 1
    MaxReset = 1
    MaxUse = 1
    MaxMove = 1
    MaxEpoch = 3
    MaxWarm = 1
    MaxTrouble = 1
    MaxEvents = 2
SYMMETRY MCSymmetry
INVARIANTS
    TypeOK
    
    DemandSurvives
PROPERTIES
    ConfirmedByQuorum
CHECK_DEADLOCK FALSE
