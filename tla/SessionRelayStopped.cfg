SPECIFICATION RelaySpec
CONSTANTS
    s1 = s1
    MaxTurns = 2
    MaxOut = 2
    MaxLag = 1
    Stops = {s1}
    MaxFaults = 0
INVARIANT StoppedTextIsKept
CHECK_DEADLOCK FALSE
