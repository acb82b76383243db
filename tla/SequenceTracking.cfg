SPECIFICATION TrackingSpec
CONSTANTS
    Modulus = 16
    None = None
    Frames <- MCFrames
INVARIANTS
    HighWaterIsNewest
    GapsAccounted
    RulesAgree
CHECK_DEADLOCK FALSE
