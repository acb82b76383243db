SPECIFICATION QueueSpec
CONSTANTS
    JobIds = {j1, j2}
    PacketIds = {p1, p2}
    Malformed = {bad}
    NoMarker = NoMarker
    MaxForeign = 2
INVARIANTS
    QueueTypeOK
    OneReference
PROPERTIES
    FirstInFirstOut
    RecoveredInClaimOrder
    ImplementsTray
