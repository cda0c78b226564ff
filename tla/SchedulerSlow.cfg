SPECIFICATION SSpec
CONSTANTS
    s1 = s1  s2 = s2
    Runners = {s1, s2}
    Mode = "latest_only"
    Cadence = 2
    CatchUpWindow = 4
    MaxPlansPerTick = 1
    MaxLateness = 2
    RunTimeout = 1
    StaleTimeout = 2
    HeartbeatInterval = 1
    MaxAttempts = 2
    AllowStaleReentry = TRUE
    BackoffLen = 1
    Prompt = FALSE
    MaxTime = 6
    MaxFaults = 1
    RetryBackoff <- UnitSteps
INVARIANTS STypeOK SuccessIsEarned
PROPERTIES SuccessIsFinal LeaseIsHonoured
CHECK_DEADLOCK FALSE
SYMMETRY AnyReplica
