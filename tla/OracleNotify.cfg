\* A listenNotify call with two operations, to its end or to destroy().
CONSTANTS
    a = a
    b = b
    c = c
    d = d
    None = None
    Operations = 2
    Conns <- MCConns
    MaxQueue = 2
    MaxMessages = 3
    MaxFaults = 2
SPECIFICATION FairSpec
INVARIANTS
    NoConnectionForgotten
    ClosedIsFinal
PROPERTIES
    ImplementsContract
    CloseEnds
    SubscriptionRestored
CHECK_DEADLOCK FALSE
