SPECIFICATION JourneySpec
CONSTANTS
    CounterBytes = 1
    TimeBytes = 2
    ProjectEpoch = 100
    MaxFutureSkew = 5
    StaleAfter = 24
    Measurements <- MCMeasurements
    ForeignFrames <- MCForeignFrames
    SampleTimes <- MCSampleTimes
    GroundTimes <- MCGroundTimes
    None = None
INVARIANTS
    AcceptedIsWhatWasSent
    VerdictNamesFirstRule
    SoundSamplesAreAccepted
    SpoiltFramesBreakOneRule
    ResultFollowsTables
    WorkerRefusesOnlyResumed
CHECK_DEADLOCK FALSE
