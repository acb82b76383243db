SPECIFICATION FairPipelineSpec
CONSTANTS
    JobIds = {j1, j2}
    PacketIds = {j1, j2}
    Malformed = {}
    NoMarker = NoMarker
    MaxForeign = 0
    w1 = w1
    w2 = w2
    Handlers = {h1, h2}
    Workers = {w1}
    VersionOf <- MCVersionOf
    Corrupt = {j2}
    MaxAttempts = 2
    None = None
    Gone = Gone
    MaxResubmits = 1
    MaxGroundStops = 1
    MaxWorkerStops = 2
    MaxFaults = 0
    MaxSlow = 1
    MaxRedisLosses = 0
CHECK_DEADLOCK FALSE
PROPERTIES
    EveryJobResolved
