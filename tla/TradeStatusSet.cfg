SPECIFICATION AdminSpec
CONSTANTS
    None = None
    k1 = k1
    k2 = k2
    p1 = p1
    p2 = p2
    Strategies = {s1}
    Streams = {k1, k2}
    Params = {p1, p2}
    Changes <- Payload
    Callers = {r1}
    Processors = {worker}
    MaxRequests = 3
    MaxFaults = 0
    Default = Default
    LpParams = {q1}
    Links = {v1, v2}
    Registries = {g1}
INVARIANTS StatusSetTakesEffect
CHECK_DEADLOCK FALSE
