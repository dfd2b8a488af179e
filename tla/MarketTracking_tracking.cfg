\* Two matches, kick-offs moved either way, a restart and an exception at any await.
SPECIFICATION FairSpec
CONSTANTS
    m1 = m1
    m2 = m2
    r1 = r1
    r2 = r2
    NoMarket = NoMarket
    Market = {m1, m2}
    Runner = {r1, r2}
    FirstKickOff <- MCFirstKickOff
    LastKickOff = 3
    MaxMoves = 1
    WindowStart = 2
    WindowEnd = 1
    Ahead = 3
    Horizon = 2
    MaxRestarts = 1
    MaxMishaps = 1
CHECK_DEADLOCK FALSE
INVARIANT TypeOK
INVARIANT TrackedIsStored
INVARIANT CachesAreComplete
INVARIANT ExternalOncePerProcess
PROPERTY InWindowIsDecided
