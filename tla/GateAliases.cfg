\* One credential whose names are learnt on the way; waits have no deadline.
SPECIFICATION FairSpec
CONSTANTS
    Request = {r1, r2}
    Warmup = {}
    Nobody = Nobody
    Credential <- OneCredential
    Configs <- Switched
    Unstable = {}
    Aged = {}
    RegistrationLimit = 4
    WaitsExpire = FALSE
INVARIANTS
    SlotsUnderCurrentKey
PROPERTIES
    WaitersAreServed
\* Every execution may have ended.
CHECK_DEADLOCK FALSE
