SPECIFICATION MCSpec
CONSTANTS
    NULL = NULL
    Drift = {"admin.user.read", "portal.ticket.read", "postsales.receipt.create", "presales.inquiry.assign"}
    Staff = {u1, u2, u3}
    AccountReqs = {r1, r2}
    Custom = {x1}
    Keys = {"k1", "k2"}
    AdminHolds = {"k1"}
    AccountsTogether = {"assign", "deactivate", "createRole", "updateRole", "removeRole"}
    Links = {l1, l2}
    Invites = {v1}
    LinkReqs = {r1, r2}
    InviteCap = 2
    MaxChanges = 2
    LinkOps = {"issue", "self", "change", "confirm", "invite", "deactivate", "reactivate"}
    LinkTogether = {"issue", "change", "confirm", "invite"}
    FactorReqs = {r1, r2}
    RecoveryCodes = {c1}
    MaxFailedLogins = 2
    MaxFailedTotp = 2
    FactorTogether = {"verify"}
    TenantReqs = {q1, q2}
    Conns = {k1}
    Companies = {"c1", "c2"}
    TenantSessions <- MCTenantSessions
    Rows <- MCRows
    MaxFrames = 3
INVARIANTS BoundaryHoldsUnderDrift ShownControlsAnswer SuperAdminRemains NobodyOutgrowsTheAdmin LinksAreCurrent RedeemedOnce CodesAreRationed SessionsSeeTheirOwn AuditNamesTheActor
SYMMETRY Symmetry
CHECK_DEADLOCK FALSE
