SPECIFICATION Spec
CONSTANTS
    Leases = {l1}
    Tokens = {l1}
    DeleteOptions = {TRUE, FALSE}
    Facades = {"facade"}
    Scopes = {rg}
    ScopeOf <- OneScope
    NoOne = NoOne
    ClaimDuration = 1
    RetryDelay = 1
    Window = 2
    LeaseTTL = 2
    Candidates = 2
    DuePage = 2
    MaxTime = 3
    MaxRevision = 7
    MaxFaults = 1
CHECK_DEADLOCK FALSE
INVARIANTS
    TypeOK
    DueExact
    LateResultFenced
    DeleteWins
    DebtVisible
    MaterialRetired
PROPERTIES
    EvidenceKept
    LifecycleSpec
