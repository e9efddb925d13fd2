\* Two callers, destroy() and signals; a connect that fails leaves no pool.
CONSTANTS
    c1 = c1
    c2 = c2
    Callers <- MCCallers
    Pools = 2
    PartialConnect = FALSE
    MaxFailures = 3
SPECIFICATION FairSpec
INVARIANTS
    ReadyIsComplete
PROPERTIES
    ImplementsContract
    AnswersAreTrue
    NoWorkDuringShutdown
    CallersAnswered
    ShutdownEnds
CHECK_DEADLOCK FALSE
