SPECIFICATION StepsSpec
CONSTANTS
    Bookings = {b1, b2}
    Payments = {p1}
    Nocs = {n1}
    Txs = {t1, t2}
    Ops = {"accrue", "pay"}
    Total = 3
    MilestoneLists <- OneList
    Amounts = {2, 4}
    TdsRate = 5000
    NULL = NULL
SYMMETRY Symmetry
CHECK_DEADLOCK FALSE
INVARIANTS LedgerMatchesPayments
