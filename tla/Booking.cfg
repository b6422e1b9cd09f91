SPECIFICATION MCSpec
CONSTANTS
    Units = {u1, u2}
    Bookings = {b1, b2, b3}
    FYs = {fy26}
    Txs = {t1, t2, t3}
    Ops = {"create", "advance", "cancel", "transferUnit", "transferApplicant", "manual"}
    SameTime = {"create", "advance"}
    NULL = NULL
SYMMETRY Symmetry
CHECK_DEADLOCK FALSE
INVARIANTS UnitOccupiedByBooking
PROPERTIES ImplementsRegister
