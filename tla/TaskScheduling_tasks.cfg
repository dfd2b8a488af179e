\* The smallest pool that suffices, a health request at a time, two bundles a cycle.
SPECIFICATION FairSpec
CONSTANTS
    r1 = r1
    Request = {r1}
    PoolSize = 3
    MaxBundles = 2
CHECK_DEADLOCK FALSE
INVARIANT TypeOK
INVARIANT NoCircularWait
INVARIANT QuietAtTheEnd
PROPERTY EveryTurnEnds
PROPERTY ShutdownEnds
