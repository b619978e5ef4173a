SPECIFICATION FairSpec
CONSTANTS
    o1 = o1
    o2 = o2
    o3 = o3
    p1 = p1
    p2 = p2
    Op = {o1, o2, o3}
    Process = {p1, p2}
    ProcessOf <- MCProcessOf
    OpKinds = {"command", "cancel", "fence", "claim", "replace"}
    NoClaim = NoClaim
    NoOp = NoOp
    MaxRevision = 2
    MaxCrashes = 1
INVARIANTS Fenced
PROPERTY OperationsEnd
CHECK_DEADLOCK FALSE
