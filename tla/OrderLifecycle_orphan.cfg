\* Live orders nobody follows: the shortest way is a restart between place_orders and
\* its row; a lost reply and a repeated placement are others.
SPECIFICATION Spec
CONSTANTS
    d1 = d1
    d2 = d2
    Decision = {d1}
    MaxStake = 2
    Modes = {"paper"}
    ExchangeClosing = {"EXECUTION_COMPLETE", "LAPSED"}
    ImmediateMatch = FALSE
    ForgetsSettled = FALSE
    Faults = {"restart", "lost_reply"}
    MaxFaults = 1
    MaxRetries = 1
CHECK_DEADLOCK FALSE
INVARIANT LiveOrderIsOpen
