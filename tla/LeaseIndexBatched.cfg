SPECIFICATION Spec
CONSTANTS
    Leases = {1, 2, 3}
    Existing = {1, 2}
    Coalescing = TRUE
    Codes = {"new", "old"}
    PageSize = 1
    PagesPerPass = 1
    MaxGeneration = 3
    MaxFailures = 1

INVARIANTS
    TypeOK
    RepairAhead
