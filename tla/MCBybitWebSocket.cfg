SPECIFICATION Spec
CONSTANTS
    None = None
    t1 = t1
    Topics = {t1}
    reconnect_max_attempts = 1
    MaxConnections = 2
    Bounds <- Environments
INVARIANTS
    TypeOK
    OneConnection
    WantedIsTracked
    UnwantedIsForgotten
    ReplayWaitsForLogin
PROPERTIES
    ImplementsSession
    WantedIsServed
CHECK_DEADLOCK FALSE
