SPECIFICATION MCSpec
CONSTANTS
    Bookings = {b1, b2}
    Payments = {p1, p2}
    Nocs = {n1}
    Txs = {t1, t2}
    Ops = {"accrue", "collect", "pay", "cancel", "updateRule"}
    Total = 3
    MilestoneLists <- TwoLists
    Amounts = {2, 4}
    TdsRate = 5000
    NULL = NULL
SYMMETRY Symmetry
CHECK_DEADLOCK FALSE
INVARIANTS LedgerMatchesPayments NothingOverdrawn AccruedWithinSnapshot
PROPERTIES CancelSettlesCommission
