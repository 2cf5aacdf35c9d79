SPECIFICATION SplitSpec
CONSTANTS
    Totals <- SmallTotals
    Nums <- SmallNums
    Int64Half = 64
    ServiceFee = 1
INVARIANTS SplitExact
CHECK_DEADLOCK FALSE
