SPECIFICATION Spec
CONSTANTS
    p1 = p1
    p2 = p2
    r1 = r1
    r2 = r2
    r3 = r3
    None = None
    Packages <- MCPackages
    Runs <- MCRuns
    MaxVersion = 2
    MaxFailures = 0
INVARIANTS
    QuiescentMeansFresh
CHECK_DEADLOCK FALSE
