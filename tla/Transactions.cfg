\* A call of any kind and one of the simplest compete for one connection.
CONSTANTS
    k1 = k1
    k2 = k2
    c1 = c1
    None = None
    Calls <- MCCalls
    Conns <- MCConns
    Mixes <- MCMixes
    Work <- MCWork
    MaxWork = 2
    MaxStarts = 2
    MaxFaults = 2
SPECIFICATION FairSpec
INVARIANTS
    IdleIsClean
    OutcomesAreTrue
    LeasesAreExclusive
PROPERTIES
    CallsEnd
CHECK_DEADLOCK FALSE
