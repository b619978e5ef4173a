SPECIFICATION Spec
CONSTANTS
    Leases = {1, 2}
    Existing = {}
    Coalescing = FALSE
    Codes = {"new"}
    PageSize = 1
    PagesPerPass = 2
    MaxGeneration = 1
    MaxFailures = 0
INVARIANT
    NeverMissing
