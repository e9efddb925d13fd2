\* A connect that fails after it opened a pool.
CONSTANTS
    c1 = c1
    c2 = c2
    Callers <- MCCallers
    Pools = 2
    PartialConnect = TRUE
    MaxFailures = 1
SPECIFICATION Spec
INVARIANTS
    NothingDroppedOpen
CHECK_DEADLOCK FALSE
