SPECIFICATION MCSpec
CONSTANTS
    Installments = {i1, i2}
    Txs = {t1, t2}
    Due <- MCDue
    Amount = 2
    Rate = 1
    Year = 5
    MaxDay = 3
    Ops = {"receipt", "waive"}
    Bookings = {b1, b2, b3, b4}
    Days = {d1, d2}
    MaxRaises = 2
    NULL = NULL
    MaxAmount = 14
    Rates = {500, 1200, 1800, 4999, 5000, 2500}
    MaxWeight = 4
    Bounds = {0, 3, 5}
    SlabRates = {5000}
    MaxLen = 3
INVARIANTS InterestIsExact RaisedOnOneDate ArithmeticIsExact
CHECK_DEADLOCK FALSE
