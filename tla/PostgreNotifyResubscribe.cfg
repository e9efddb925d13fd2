\* The second unlistenNotify joins the close of the first client.
CONSTANTS
    u1 = u1
    u2 = u2
    Users <- MCUsers
    Restorer = Restorer
    None = None
    MaxClients = 3
    MaxFaults = 1
    MaxUnlistens = 2
SPECIFICATION Spec
INVARIANTS
    UnlistenIsFinalAgain
CHECK_DEADLOCK FALSE
