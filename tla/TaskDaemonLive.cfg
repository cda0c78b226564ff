SPECIFICATION FairDSpec
CONSTANTS
    a1 = a1  r1 = r1  r2 = r2  i1 = i1  c1 = c1  d1 = d1  d2 = d2  q1 = q1
    None = None
    Agents = {a1}
    Runtimes = {r1, r2}
    Issues = {}
    Chats = {c1}
    Quick = {}
    Runs = {}
    Fallbacks = {}
    Priorities = {1}
    TrackedIssues = {}
    DaemonReasons = {"agent_error"}
    MaxRoots = 1
    MaxTasks = 2
    MaxClaims = 3
    MaxCrashes = 0
    Daemons = {d1, d2}
    Slots = 1
    FaultKinds = {"reregister", "claimResponse", "build", "finalize", "lease", "startResponse", "crash", "stop", "drain", "heartbeat"}
    MaxFaults = 1
    Bound <- AllRuntimes
    ChatAgent <- ChatsOfA1
    MaxConcurrentTasks <- OneSlot
    DaemonOf <- OneEach
PROPERTY EveryTaskSettles
CHECK_DEADLOCK FALSE
