SPECIFICATION SourceSpec
CONSTANTS
    a = a
    b = b
    Submitters <- MCSubmitters
    NoFrame = NoFrame
    MaxBoot = 3
    MaxSequence = 1
    MaxSubmissions = 4
    MaxStops = 2
    MaxWriteFaults = 1
INVARIANTS
    SourceTypeOK
    KeysNameOneFrame
    RetriesAreExact
PROPERTIES
    IssuesIncreasingKeys
CHECK_DEADLOCK FALSE
