SPECIFICATION FairSpec
CONSTANTS
    Leases = {1, 2}
    Existing = {1}
    Coalescing = FALSE
    Codes = {"new", "old"}
    PageSize = 1
    PagesPerPass = 2
    MaxGeneration = 2
    MaxFailures = 0
PROPERTIES
    MissingHealed
    StaleRemoved
