\* Two executions and one activation compete for two credentials.
SPECIFICATION Spec
CONSTANTS
    Request = {r1, r2}
    Warmup = {w1}
    Nobody = Nobody
    Credential <- TwoCredentials
    Configs <- OneThenTwo
    Unstable = {{2}}
    Aged = {}
    RegistrationLimit = 2
    WaitsExpire = TRUE
SYMMETRY Requests
INVARIANTS
    QueueIsLive
    SlotsBelongToRegistered
PROPERTIES
    AdmissionsFit
    NobodyOvertakes
    RejectionsHold
\* Every execution may have ended.
CHECK_DEADLOCK FALSE
