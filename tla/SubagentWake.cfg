SPECIFICATION FairWakeSpec
CONSTANTS
    c1 = c1
    c2 = c2
    r1 = r1
    r2 = r2
    d1 = d1
    Children = {c1, c2}
    Reports = {r1, r2}
    Readers = {d1}
    MaxAttempts = 2
    MaxWorks = 2
    MaxMsgs = 1
    MaxFaults = 1
INVARIANTS Announced DeliveredOnce
PROPERTIES OpenWorkStays EveryResultAnnounced
CHECK_DEADLOCK FALSE
