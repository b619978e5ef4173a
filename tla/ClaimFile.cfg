SPECIFICATION Spec
CONSTANTS
    o1 = o1
    o2 = o2
    o3 = o3
    p1 = p1
    p2 = p2
    Op = {o1, o2, o3}
    Process = {p1, p2}
    ProcessOf <- MCProcessOf
    OpKinds = {"claimIfUnchanged", "update", "persist", "resolve", "finalize", "remove"}
    NoClaim = NoClaim
    NoOp = NoOp
    MaxRevision = 2
    MaxCrashes = 1
INVARIANTS TypeOK Fenced SupersededIsGone ConflictDisowned
PROPERTY RegisterSpec
CHECK_DEADLOCK FALSE
SYMMETRY Symmetry
