\* Two orders, up to two failures of any kind, both modes, a status nobody parses.
SPECIFICATION Spec
CONSTANTS
    d1 = d1
    d2 = d2
    Decision = {d1, d2}
    MaxStake = 2
    Modes = {"dry_run", "paper"}
    ExchangeClosing = {"EXECUTION_COMPLETE", "LAPSED", "VOIDED"}
    ImmediateMatch = TRUE
    ForgetsSettled = TRUE
    Faults = {"restart", "unreachable", "lost_reply", "placement_db_error", "listing_error", "reconcile_db_error"}
    MaxFaults = 2
    MaxRetries = 0
SYMMETRY Symmetry
CHECK_DEADLOCK FALSE
INVARIANT TypeOK
INVARIANT RowsTruthful
PROPERTY BookFollowsMarket
