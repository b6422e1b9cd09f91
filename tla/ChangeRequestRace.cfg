SPECIFICATION ChangeSpec
CONSTANTS
    NULL = NULL
    ChangeIds = {c1}
    ReviewTxs = {t1, t2}
    Mailboxes = {m1}
    PhoneLists = {p1}
    ReviewsTogether = {"approve", "edit"}
PROPERTY ApprovalsOverwriteNothing
CHECK_DEADLOCK FALSE
