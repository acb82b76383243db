SPECIFICATION LedgerSpec
CONSTANTS
    Modulus = 8
    None = None
    a1 = a1
    b1 = b1
    a2 = a2
    bad = bad
    Deliveries = {d1, d2, d3}
    RequestIds = {q1, q2, q3}
    Bodies = {a1, b1, a2, bad}
    ContentTypes = {TRUE, FALSE}
    SeqOf <- MCSeqOf
SYMMETRY Symmetry
CHECK_DEADLOCK FALSE
INVARIANTS
    SuccessIsDurable
    OneReceiptPerRequest
    VerdictsMatchEvidence
    SequenceStateIsSummary
PROPERTIES
    PacketRowsArePermanent
