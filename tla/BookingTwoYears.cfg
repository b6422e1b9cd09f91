SPECIFICATION MCSpec
CONSTANTS
    Units = {u1}
    Bookings = {b1, b2}
    FYs = {fy26, fy27}
    Txs = {t1, t2}
    Ops = {"create"}
    SameTime = {"create"}
    NULL = NULL
SYMMETRY Symmetry
CHECK_DEADLOCK FALSE
PROPERTIES OnlyBookableUnitsAreBooked
