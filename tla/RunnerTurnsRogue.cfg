SPECIFICATION TurnsSpec
CONSTANTS
    m1 = m1  m2 = m2  s1 = s1  r1 = r1
    Msgs = {m1, m2}
    Stops = {s1}
    Recoveries = {r1}
    MaxTurns = 3
    MaxFaults = 1
INVARIANT NoRogueTurn
CHECK_DEADLOCK FALSE
