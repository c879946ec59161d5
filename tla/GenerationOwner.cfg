\* Hot reload between two instances that may be configured in place, one of them with
\* ownership checks in flight; journal reads and appends fail, with and without effect.
SPECIFICATION Spec
CONSTANTS
    Instance = {i1, i2}
    NoInstance = NoInstance
    Credential = {c1}
    Outcomes = {"ok", "failed", "unsure"}
    Observed = {i2}
    Reconfigurable = {i1, i2}
    MaxTicket = 2
INVARIANTS
    ClaimsAreGranted
    
PROPERTIES
    FenceSpec
    TakeoversAreCurrent
\* With every ticket spent and every instance crashed nothing is left to do.
CHECK_DEADLOCK FALSE
