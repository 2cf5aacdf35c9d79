SPECIFICATION FairSpec
CONSTANTS
    Clients = {c1, c2}
    Jobs <- AllJobs
    Genesis <- TwoCoins
    Gas = {0, 1}
    Int64Half = 8
    ServiceFee = 1
INVARIANTS TypeOK ChargedExactly SignedOnlyIfPaid
PROPERTIES CommandsEnd RejectedOnlyByConflict LockProtects
CHECK_DEADLOCK FALSE
