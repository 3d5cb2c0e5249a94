SPECIFICATION Spec
CONSTANTS
    None = None
    NumCandles = 2
    ReadCount = 2
    StreamMaxlen = 1
    Kinds = {"quiet", "arm", "entry", "exit"}
    MaxTriggers = 0
    MaxFaults = 1
INVARIANTS ReplayStoresSignal
CHECK_DEADLOCK FALSE
