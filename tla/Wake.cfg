SPECIFICATION Spec
CONSTANTS
    Jobs = {l1}
    NoJob = NoJob
    Ops = {l1, o1}
    Runtimes = {"cloudflare", "node"}
    MaxTime = 1
    Spans = {0, 1}
    OpSpans = {1}
    ClaimStale = 1
    Retry = 1
    MaxBackoff = 1
    BatchSize = 1
INVARIANTS
    TypeOK
    ProvisioningCovered
    JobsCovered
