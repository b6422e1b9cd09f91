SPECIFICATION MCSpec
CONSTANTS
    NULL = NULL
    Leads = {i1}
    Stages = {s1, s2}
    Users = {u1, u2}
    Bookings = {b1, b2}
    LeadTxs = {t1, t2}
    LeadOps = {"intake", "update", "followUp", "attach", "assign", "stage"}
    Together = {"attach", "intake"}
    Members = {1, 2}
    PoolTxs = {t1, t2}
    MaxRows = 2
    MaxClock = 5
    People = {p1, p2, p3}
    Inquiries = {q1}
    AppTxs = {t1}
    Numbers = {n1, f1}
    Foreign = {f1}
    AppTogether = {}
    ChangeIds = {c1, c2}
    ReviewTxs = {t1}
    Mailboxes = {m1}
    PhoneLists = {p4, p5}
    ReviewsTogether = {}
SYMMETRY Symmetry
INVARIANTS
    RecordsTellTheLead
    StrictRoundRobin
    LeadsFollowMerges
PROPERTIES
    MachineIntakeLinks
    ReviewedOnceOnWhatWasSeen
CHECK_DEADLOCK FALSE
