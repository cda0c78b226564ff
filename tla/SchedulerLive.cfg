SPECIFICATION FairSSpec
CONSTANTS
    s1 = s1  s2 = s2
    Runners = {s1, s2}
    Mode = "hook"
    Cadence = 2
    CatchUpWindow = 4
    MaxPlansPerTick = 1
    MaxLateness = 2
    RunTimeout = 1
    StaleTimeout = 2
    HeartbeatInterval = 1
    MaxAttempts = 2
    AllowStaleReentry = TRUE
    BackoffLen = 1
    Prompt = FALSE
    MaxTime = 5
    MaxFaults = 1
    RetryBackoff <- UnitSteps
INVARIANT SuccessIsEarned
PROPERTIES SuccessIsFinal LeaseIsHonoured LeasesAreClosed
CHECK_DEADLOCK FALSE
