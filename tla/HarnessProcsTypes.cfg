SPECIFICATION ProcsSpec
CONSTANTS
    g1 = g1
    g2 = g2
    i1 = i1
    a1 = a1
    r1 = r1
    k1 = k1
    k2 = k2
    idle = idle
    TurnCalls = {g1, g2}
    InitCalls = {i1}
    SideCalls = {a1}
    Releasers = {r1}
    Kinds = {k1, k2}
    Keeps <- MCKeeps
    Reaper = idle
    MaxSpawns = 3
    MaxFaults = 1
INVARIANTS ProcsTypeOK RightHarness TurnIsSpared NoStray SideCallsAreHarmless
CHECK_DEADLOCK FALSE
