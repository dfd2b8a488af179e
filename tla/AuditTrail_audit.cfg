\* Two markets of two runners, two bundles, two processes, two training runs.
SPECIFICATION Spec
CONSTANTS
    m1 = m1
    m2 = m2
    Market = {m1, m2}
    RunnerCount = 2
    MaxBoots = 2
    MaxCycles = 2
    MaxTrainings = 2
    MaxFaults = 2
CHECK_DEADLOCK FALSE
INVARIANT TypeOK
INVARIANT ReferencesResolve
INVARIANT OneBundlePerDecision
INVARIANT NamedModelDecided
INVARIANT OrdersAreTraceable
