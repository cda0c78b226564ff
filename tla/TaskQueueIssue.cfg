SPECIFICATION Spec
CONSTANTS
    a1 = a1  a2 = a2  r1 = r1  r2 = r2  i1 = i1  c1 = c1  q1 = q1  x1 = x1
    None = None
    Agents = {a1}
    Runtimes = {r1}
    Issues = {i1}
    Chats = {}
    Quick = {}
    Runs = {}
    Fallbacks = {}
    Priorities = {1}
    TrackedIssues = {i1}
    DaemonReasons = {"provider_network", "agent_error"}
    MaxRoots = 2
    MaxTasks = 3
    MaxClaims = 2
    MaxCrashes = 1
    Bound <- OneRuntime
    ChatAgent <- ChatsOfA1
    MaxConcurrentTasks <- TwoSlots
INVARIANTS TypeOK SerialExecution RetryChains AgentStatusAccurate
PROPERTY TerminalIsFinal
CHECK_DEADLOCK FALSE
