\* Callbacks may hang or outlast the wait of a close: safety and liveness.
CONSTANTS
    k1 = k1
    k2 = k2
    k3 = k3
    q1 = q1
    q2 = q2
    q3 = q3
    Clients <- MCClients
    Queues <- MCQueues
    None = None
    MaxQueue = 3
SPECIFICATION FairSpec
INVARIANTS
    TypeOK
    SerialUntilTimeout
PROPERTIES
    DrainedBeforeClose
    ClosedListenerIsSilent
    CloseEnds
