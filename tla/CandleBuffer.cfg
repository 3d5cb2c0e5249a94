SPECIFICATION Spec
CONSTANTS
    NumCandles = 4
    NumClosed = 2
    Maxlen = 3
    Required = 2
    Limits = {1, 4}
    MaxCalls = 1
    MaxFaults = 2
INVARIANTS TypeOK WindowSound ReplaysLeaveNoGap
PROPERTIES BufferIsRollingWindow
CHECK_DEADLOCK FALSE
