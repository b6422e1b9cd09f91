SPECIFICATION MCSpec
CONSTANTS
    NULL = NULL
    Endpoints = {e1}
    Deliveries = {d1, d2}
    Jobs = {j1, j2}
    MaxAttempts = 2
    Threshold = 2
    MaxWorkerStops = 1
    Chased = {i1}
    MaxTime = 4
    MaxRunFailures = 2
    Rows = {m1, m2, m3}
    MaxSendStops = 1
INVARIANT OneNoticePerLapse
PROPERTIES
    DisabledStaysDisabled
    DecidedInTheEnd
    LapsesAreReported
CHECK_DEADLOCK FALSE
