SPECIFICATION Spec
CONSTANTS
    None = None
    RawMax = 100
    allow_overfills = FALSE
    OrderQty = 2
    Bounds <- MCBounds
    inflight_threshold = 1
    inflight_max_retries = 2
    open_check_threshold = 1
    open_check_missing_retries = 2
    open_check_open_only = FALSE
INVARIANTS
    WatchedUntilResolved
    OvercountNeedsInference
PROPERTIES
    PatienceKept
    ReportIsAdopted
    SubmitsResolved
CHECK_DEADLOCK FALSE
