SPECIFICATION FairSpec
CONSTANTS
    None = None
    NumCandles = 2
    ReadCount = 2
    StreamMaxlen = 1
    Kinds = {"arm", "entry", "exit"}
    MaxTriggers = 1
    MaxFaults = 1
INVARIANTS TypeOK SignalWritesInOrder SignalsAreExact
PROPERTIES SnapshotMovesForward EntriesAreAcked
CHECK_DEADLOCK FALSE
