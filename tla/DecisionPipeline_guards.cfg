\* Three markets of two events, an operator at the kill switch, a restart.
SPECIFICATION Spec
CONSTANTS
    m1 = m1
    m2 = m2
    m3 = m3
    e1 = e1
    e2 = e2
    NoMarket = NoMarket
    Market = {m1, m2, m3}
    Event = {e1, e2}
    EventOf <- MCEventOf
    StartOf <- MCStartOf
    WindowStart = 2
    WindowEnd = 1
    Horizon = 4
    MaxPositions = 1
    ConfiguredKill = FALSE
    MaxToggles = 1
    MaxRestarts = 1
    MaxMishaps = 1
CHECK_DEADLOCK FALSE
INVARIANT TypeOK
INVARIANT PositionCap
INVARIANT OneOrderPerDecision
INVARIANT KillLeaksAtMostOne
INVARIANT NotBeforeWindow
