SPECIFICATION Spec
CONSTANTS
    None = None
    NumCandles = 4
    Tiers <- TwoTiers
    Cooloff = 1
    Confirm = 2
    MaxConcurrency = 1
    Requests <- EveryRequest
    Overlap = 2
    MaxFaults = 1
INVARIANTS TypeOK OneOpenEpisode CountersAddUp TightenReachesTier NothingLeftBehind
PROPERTIES ReopensAfterFailure
CHECK_DEADLOCK FALSE
