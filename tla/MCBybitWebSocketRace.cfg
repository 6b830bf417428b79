SPECIFICATION Spec
CONSTANTS
    None = None
    t1 = t1
    Topics = {t1}
    reconnect_max_attempts = 1
    MaxConnections = 1
    Bounds <- AtOnce
INVARIANT
    WantedIsRestored
CHECK_DEADLOCK FALSE
