SPECIFICATION Spec
CONSTANTS
    Clients = {c1, c2}
    Jobs <- DebugJobs
    Genesis <- TwoCoins
    Gas = {0, 1}
    Int64Half = 8
    ServiceFee = 1
INVARIANTS DebugNotPosted
CHECK_DEADLOCK FALSE
