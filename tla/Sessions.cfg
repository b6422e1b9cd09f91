SPECIFICATION MCSpec
CONSTANTS
    Browsers = {w1, w2}
    Tokens = {k1, k2, k3}
    Reqs = {r1, r2}
    Prompt = {w1}
    MaxVersion = 1
    NULL = NULL
    Procs = {p1, p2, p3}
    MaxAuthz = 2
    NoKey = NoKey
    Tabs = {w1, w2}
    Calls = {r1, r2}
    MaxAv = 1
    MaxCsrf = 2
SYMMETRY Symmetry
CHECK_DEADLOCK FALSE
INVARIANTS OneTokenPerFamily EndedSessionsAreRefused PromptBrowserStaysSignedIn GuardIsUpToDate SentAwayOnlyWhenEnded HeaderMatchesCookie
PROPERTIES DeadFamilyStaysDead
