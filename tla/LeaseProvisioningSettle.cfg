SPECIFICATION FairSpec
CONSTANTS
    Leases = {l1}
    Tokens = {}
    DeleteOptions = {TRUE, FALSE}
    Facades = {}
    Scopes = {rg}
    ScopeOf <- OneScope
    NoOne = NoOne
    ClaimDuration = 1
    RetryDelay = 1
    Window = 1
    LeaseTTL = 1
    Candidates = 1
    DuePage = 2
    MaxTime = 2
    MaxRevision = 40
    MaxFaults = 4
CHECK_DEADLOCK FALSE
PROPERTIES
    CancelSettles
