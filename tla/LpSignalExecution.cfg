SPECIFICATION FairSpec
CONSTANTS
    NumSignals = 3
    VaultOf <- OneVault
    Wired = {"a", "b"}
    Gauge = {"a"}
    MaxParallel = 2
    MaxRetries = 2
    SweepLimit = 2
    MaxFaults = 2
INVARIANTS TypeOK VaultMutex StatusTellsOutcome OneCallPerFault
PROPERTIES VaultMovesForward PendingIsResolved
CHECK_DEADLOCK FALSE
