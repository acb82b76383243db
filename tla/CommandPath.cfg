SPECIFICATION FairCommands
CONSTANTS
    Requests <- MCRequests
    MaxCommands = 2
    MaxFaults = 1
    MaxSpace = 1
    None = None
INVARIANTS
    SentIsAuthorised
    AppliedOncePerRun
    StatusIsTruthful
PROPERTIES
    AcceptedIsApplied
    AppliedIsRecorded
CHECK_DEADLOCK FALSE
