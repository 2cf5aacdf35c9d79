\* What cannot be converted is an error.
SPECIFICATION Spec
CONSTANTS
    c1 = c1
    c2 = c2
    t1 = t1
    Requests = {r1}
    Chains = {c1, c2}
    NoName = NoName
    Xuper = c1
    Txs = {t1}
    Gas = {0, 1}
    Alone <- OneAtATime
    Inputs <- AllCalls
INVARIANTS ConversionErrorSeen
