SPECIFICATION DSpec
CONSTANTS
    a1 = a1  r1 = r1  r2 = r2  i1 = i1  c1 = c1  d1 = d1  d2 = d2  q1 = q1
    None = None
    Agents = {a1}
    Runtimes = {r1}
    Issues = {i1}
    Chats = {}
    Quick = {}
    Runs = {}
    Fallbacks = {}
    Priorities = {1}
    TrackedIssues = {}
    DaemonReasons = {"agent_error", "provider_network"}
    MaxRoots = 2
    MaxTasks = 3
    MaxClaims = 3
    MaxCrashes = 0
    Daemons = {d1}
    Slots = 2
    FaultKinds = {}
    MaxFaults = 0
    Bound <- OneRuntime
    ChatAgent <- ChatsOfA1
    MaxConcurrentTasks <- TwoSlots
    DaemonOf <- AllOnD1
INVARIANT RunningHasOwner
CHECK_DEADLOCK FALSE
