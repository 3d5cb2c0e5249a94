SPECIFICATION Spec
CONSTANTS
    None = None
    NumCandles = 3
    Tiers <- TwoTiers
    Cooloff = 1
    Confirm = 2
    MaxConcurrency = 1
    Requests <- EveryRequest
    Overlap = 2
    MaxFaults = 0
INVARIANTS BoundedConcurrency
CHECK_DEADLOCK FALSE
