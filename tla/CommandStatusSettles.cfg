SPECIFICATION FairCommands
CONSTANTS
    Requests <- MCRequests
    MaxCommands = 1
    MaxFaults = 0
    MaxSpace = 0
    None = None
PROPERTIES
    AckSettlesStatus
CHECK_DEADLOCK FALSE
