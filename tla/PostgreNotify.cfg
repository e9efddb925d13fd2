\* Two listenNotify calls, unlistenNotify and destroy() at any time: safety
\* and liveness.
CONSTANTS
    u1 = u1
    u2 = u2
    Users <- MCUsers
    Restorer = Restorer
    None = None
    MaxClients = 3
    MaxFaults = 3
    MaxUnlistens = 2
SPECIFICATION FairSpec
INVARIANTS
    NoClientForgotten
    OneListener
    UnlistenIsFinal
    CallbackKept
PROPERTIES
    ImplementsContract
    CancelledRestoreEnds
    ListenerRestored
    DestroyClosesClients
CHECK_DEADLOCK FALSE
