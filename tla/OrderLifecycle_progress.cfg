\* What the two tasks achieve in the end: restarts in either mode, failing rounds, and
\* an exchange that forgets orders and ends one with a status the code cannot parse.
SPECIFICATION FairSpec
CONSTANTS
    d1 = d1
    d2 = d2
    Decision = {d1, d2}
    MaxStake = 2
    Modes = {"dry_run", "paper"}
    ExchangeClosing = {"EXECUTION_COMPLETE", "LAPSED", "VOIDED"}
    ImmediateMatch = FALSE
    ForgetsSettled = TRUE
    Faults = {"restart", "listing_error", "reconcile_db_error"}
    MaxFaults = 2
    MaxRetries = 0
CHECK_DEADLOCK FALSE
PROPERTY EveryOrderCloses
PROPERTY OpenOrdersCatchUp
