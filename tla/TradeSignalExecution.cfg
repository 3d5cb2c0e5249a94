SPECIFICATION FairSpec
CONSTANTS
    NumSignals = 3
    KeyOf <- TwoKeys
    NoAccount = {2}
    MaxParallel = 2
    MaxRetries = 2
    SweepLimit = 2
    ReadCount = 2
    StreamMaxlen = 2
    MaxFaults = 2
INVARIANTS TypeOK LockMutex SentWasAccepted OneOrderPerFault
PROPERTIES OrdersInSignalOrder LedgerSpec PublishedIsResolved
CHECK_DEADLOCK FALSE
