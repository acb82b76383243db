SPECIFICATION LedgerSpec
CONSTANTS
    Modulus = 8
    None = None
    a1 = a1
    b1 = b1
    a2 = a2
    bad = bad
    Deliveries = {d1, d2}
    RequestIds = {q1, q2}
    Bodies = {a1, a2}
    ContentTypes = {TRUE}
    SeqOf <- MCSeqOf
SYMMETRY Symmetry
CHECK_DEADLOCK FALSE
INVARIANT DuplicateNotRefused
