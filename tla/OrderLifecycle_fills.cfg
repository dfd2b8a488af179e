\* One order, cut and repeated rounds, and a placement repeated by hand.
SPECIFICATION Spec
CONSTANTS
    d1 = d1
    d2 = d2
    Decision = {d1}
    MaxStake = 4
    Modes = {"dry_run", "paper"}
    ExchangeClosing = {"EXECUTION_COMPLETE", "LAPSED"}
    ImmediateMatch = TRUE
    ForgetsSettled = TRUE
    Faults = {"restart", "unreachable", "lost_reply", "placement_db_error", "listing_error", "reconcile_db_error"}
    MaxFaults = 3
    MaxRetries = 1
CHECK_DEADLOCK FALSE
INVARIANT FillsTruthful
INVARIANT RisesHaveFills
INVARIANT FillsRepeatFromTheSameStart
INVARIANT PlacementIsIdempotent
INVARIANT FillsAddUp
