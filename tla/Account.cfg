SPECIFICATION MCSpec
CONSTANTS
    Bookings = {b1, b2}
    Installments = {i1, i2}
    Receipts = {r1, r2}
    Refunds = {f1}
    Ops = {"create", "plan", "extra", "receipt", "cheque", "reverse", "certificate", "cancel", "refund", "voucherBounce", "transfer"}
    Price = 2
    TdsThreshold = 2
    BounceCharge = 1
    TransferFee = 1
    Deductions = {1}
    ExtraCharge = 1
    MaxExtra = 1
    NULL = NULL
    Rows = {x1, x2, x3}
    FYs = {fy26}
    Txs = {t1, t2, t3}
    Amount = 2
    TxOps = {"create", "reverse", "bounce"}
    SameTime = {"create"}
SYMMETRY Symmetry
CHECK_DEADLOCK FALSE
INVARIANTS AllocatedMatchesReceipts LedgerMatchesReceipts ScheduleSumsToPrice CacheMatchesEntries ReversedOnceWithinAmount
PROPERTIES CancelSettlesBalance
