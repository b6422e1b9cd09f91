SPECIFICATION MCSpec
CONSTANTS
    Installments = {i1}
    Receipts = {r1, r2}
    FYs = {fy26}
    Txs = {t1, t2}
    Ops = {"create", "bounce"}
    SameTime = {"create", "bounce"}
    Amount = 2
    NULL = NULL
SYMMETRY Symmetry
CHECK_DEADLOCK FALSE
INVARIANTS CacheMatchesEntries
