\* Every method alone, with every answer of the chains; the ones that
\* post a transaction also two at a time.
SPECIFICATION FairSpec
CONSTANTS
    c1 = c1
    c2 = c2
    t1 = t1
    Requests = {r1, r2}
    Chains = {c1, c2}
    NoName = NoName
    Xuper = c1
    Txs = {t1}
    Gas = {0, 1}
    Alone <- OneAtATime
    Inputs <- AllCalls
INVARIANTS TypeOK NoFalseSuccess LockedAsSigned BroadcastOnce LoopsComplete FailureShown ViewTruthful
PROPERTIES RequestsAnswered AcceptedIsBroadcast
