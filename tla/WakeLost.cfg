SPECIFICATION Spec
CONSTANTS
    Jobs = {j1}
    NoJob = NoJob
    Ops = {o1}
    Runtimes = {"cloudflare"}
    MaxTime = 1
    Spans = {1}
    OpSpans = {1, 2}
    ClaimStale = 1
    Retry = 1
    MaxBackoff = 1
    BatchSize = 1
INVARIANT WakeNeverLost
