SPECIFICATION FairHealth
CONSTANTS
    Modulus = 2
    AnomalyEvery = 2
    WheelSpeeds <- MCWheelSpeeds
    MaxSamples = 3
    MaxCommands = 1
    MaxFaults = 1
    None = None
CHECK_DEADLOCK FALSE
INVARIANTS
    GapsAreExact
    PublishedIsHandled
    AlertsAreBacked
    HazardsAreAlerted
PROPERTIES
    ProcessedWithoutAdvisor
