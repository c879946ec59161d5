SPECIFICATION Spec
CONSTANTS
    i1 = i1
    i2 = i2
    a1 = a1
    a2 = a2
    k1 = k1
    k2 = k2
    NoAuth = NoAuth
    Instance <- MCInstance
    Auth <- MCAuth
    Account <- MCAccount
    KeyOf <- MCKeyOf
    Bannable <- MCBannable
    Outcomes <- MCOutcomes
    MaxCard = 2
    MaxAttempt = 2
    MaxBan = 1
SYMMETRY MCSymmetry
INVARIANTS
    TypeOK
    
PROPERTIES
    WriteSpec
    NewerBansStay
CHECK_DEADLOCK FALSE
