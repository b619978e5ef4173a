SPECIFICATION FairSpec
CONSTANTS
    Leases = {l1, l2}
    Tokens = {}
    DeleteOptions = {}
    Facades = {}
    Scopes = {rg}
    ScopeOf <- OneScope
    NoOne = NoOne
    ClaimDuration = 1
    RetryDelay = 1
    Window = 1
    LeaseTTL = 1
    Candidates = 1
    DuePage = 2
    MaxTime = 1
    MaxRevision = 20
    MaxFaults = 1
CHECK_DEADLOCK FALSE
PROPERTIES
    CancelSettles
    AdmissionResolves
INVARIANTS
    ScopeExclusive
    LockNotLeaked
