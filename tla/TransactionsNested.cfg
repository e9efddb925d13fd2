\* The same calls against the comment of EntityManager.transaction.
CONSTANTS
    k1 = k1
    k2 = k2
    c1 = c1
    None = None
    Calls <- MCCalls
    Conns <- MCConns
    Mixes <- MCMixes
    Work <- MCWork
    MaxWork = 2
    MaxStarts = 2
    MaxFaults = 2
SPECIFICATION Spec
INVARIANT RejectedIsUndone
CHECK_DEADLOCK FALSE
