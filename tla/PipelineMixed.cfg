SPECIFICATION PipelineSpec
CONSTANTS
    JobIds = {j1, j2}
    PacketIds = {j1, j2}
    Malformed = {bad}
    NoMarker = NoMarker
    MaxForeign = 1
    w1 = w1
    w2 = w2
    Handlers = {h1, h2}
    Workers = {w1, w2}
    VersionOf <- MCVersionOf
    Corrupt = {j2}
    MaxAttempts = 1
    None = None
    Gone = Gone
    MaxResubmits = 1
    MaxGroundStops = 0
    MaxWorkerStops = 0
    MaxFaults = 0
    MaxSlow = 1
    MaxRedisLosses = 0
SYMMETRY MCHandlers
CHECK_DEADLOCK FALSE
INVARIANTS
    QueuedWorkIsReferenced
    OutcomeJustified
