CONSTANTS
    r1 = r1
    r2 = r2
    c1 = c1
    c2 = c2
    Request = {r1, r2}
    Credential = {c1, c2}
    Pools <- Overlapping
    CyclesOf <- Rolling
    Jitter = 1
    Intervals = {1, 2}
    MaxWait = 2
    MaxReservations = 2
    MaxSkew = 1
SPECIFICATION Spec
SYMMETRY Requests
INVARIANTS
    TypeOK
    PermitsApart
    UsedPermitsAreOwned
PROPERTIES
    NobodyIsPostponed
    
