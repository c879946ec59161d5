\* No append fails: what has begun ends, and the newest reservation is claimed.
SPECIFICATION FairSpec
CONSTANTS
    Instance = {i1, i2}
    NoInstance = NoInstance
    Credential = {}
    Outcomes = {"ok"}
    Observed = {}
    Reconfigurable = {i1, i2}
    MaxTicket = 2
PROPERTIES
    LifecycleEnds
    
CHECK_DEADLOCK FALSE
