\* Two packages, up to three fetches at a time: safety and liveness.
SPECIFICATION FairSpec
CONSTANTS
    p1 = p1
    p2 = p2
    r1 = r1
    r2 = r2
    r3 = r3
    None = None
    Packages <- MCPackages
    Runs <- MCRuns
    MaxVersion = 3
    MaxFailures = 2
INVARIANTS
    RefreshNotLost
    OneFetchPerPackage
    ChannelClosedAfterRefreshes
    DestroyedIsQuiet
PROPERTIES
    SnapshotOnlyAdvances
    NoPublishAfterDestroy
    RequestServed
    ShutdownCompletes
CHECK_DEADLOCK FALSE
