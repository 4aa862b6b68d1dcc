SPECIFICATION FairSpec
CONSTANTS
    Callers = {c1}
    Waiters = {v1, v2}
    Sockets = {s1}
    Sessions = {i1}
    MaxWaiters = 1
    QueueLimit = 1
    Periodic = TRUE
    Apart = TRUE
    None = None
INVARIANTS LiveTypeOK SlotsAreHeld NoLostWakeUp NoChangeIsMissed
PROPERTIES EveryChangeIsShown WaitsEnd SocketsEnd
