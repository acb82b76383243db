SPECIFICATION PipelineSpec
CONSTANTS
    JobIds = {j1}
    PacketIds = {j1}
    Malformed = {}
    NoMarker = NoMarker
    MaxForeign = 0
    w1 = w1
    w2 = w2
    Handlers = {h1, h2}
    Workers = {w1, w2}
    VersionOf <- MCVersionOf
    Corrupt = {}
    MaxAttempts = 2
    None = None
    Gone = Gone
    MaxResubmits = 1
    MaxGroundStops = 1
    MaxWorkerStops = 1
    MaxFaults = 2
    MaxSlow = 0
    MaxRedisLosses = 1
SYMMETRY MCHandlers
CHECK_DEADLOCK FALSE
INVARIANTS
    QueuedWorkIsReferenced
    OutcomeJustified
PROPERTIES
    ResultWrittenOnce
    ForgottenOnlyWhenDone
