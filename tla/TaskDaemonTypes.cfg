SPECIFICATION DSpec
CONSTANTS
    a1 = a1  r1 = r1  r2 = r2  i1 = i1  c1 = c1  d1 = d1  d2 = d2  q1 = q1
    None = None
    Agents = {a1}
    Runtimes = {r1}
    Issues = {}
    Chats = {}
    Quick = {q1}
    Runs = {}
    Fallbacks = {}
    Priorities = {1}
    TrackedIssues = {}
    DaemonReasons = {"agent_error"}
    MaxRoots = 1
    MaxTasks = 1
    MaxClaims = 3
    MaxCrashes = 0
    Daemons = {d1}
    Slots = 2
    FaultKinds = {"claimResponse", "build", "finalize", "lease", "startResponse", "report", "crash", "stop", "drain", "reregister", "recover", "heartbeat"}
    MaxFaults = 3
    Bound <- OneRuntime
    ChatAgent <- ChatsOfA1
    MaxConcurrentTasks <- OneSlot
    DaemonOf <- AllOnD1
INVARIANT DTypeOK
CHECK_DEADLOCK FALSE
