SPECIFICATION Spec
CONSTANTS
    NumSignals = 3
    VaultOf <- TwoVaults
    Wired = {"a", "b"}
    Gauge = {"a"}
    MaxParallel = 2
    MaxRetries = 2
    SweepLimit = 2
    MaxFaults = 0
INVARIANTS PlansSucceed
CHECK_DEADLOCK FALSE
