SPECIFICATION SSpec
CONSTANTS
    s1 = s1  s2 = s2
    Runners = {s1, s2}
    Mode = "every_plan"
    Cadence = 1
    CatchUpWindow = 4
    MaxPlansPerTick = 2
    MaxLateness = 2
    RunTimeout = 2
    StaleTimeout = 3
    HeartbeatInterval = 2
    MaxAttempts = 2
    AllowStaleReentry = TRUE
    BackoffLen = 1
    Prompt = TRUE
    MaxTime = 6
    MaxFaults = 0
    RetryBackoff <- UnitSteps
INVARIANT NoDoubleRun
CHECK_DEADLOCK FALSE
SYMMETRY AnyReplica
