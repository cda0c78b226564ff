SPECIFICATION FairTSpec
CONSTANTS
    q1 = q1  q2 = q2  w1 = w1  w2 = w2
    Reqs = {q1}
    Waiters = {w1, w2}
    MaxConns = 2
    MaxChunks = 1
    MaxWaiters = 1
    MaxFaults = 2
INVARIANTS NobodyHangs NothingLeaks
PROPERTIES ImplementsCalls StaleHandlerIsHarmless EveryCallSettles
CHECK_DEADLOCK FALSE
