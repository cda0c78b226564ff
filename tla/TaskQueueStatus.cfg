SPECIFICATION Spec
CONSTANTS
    a1 = a1  a2 = a2  r1 = r1  r2 = r2  i1 = i1  c1 = c1  q1 = q1  x1 = x1
    None = None
    Agents = {a1, a2}
    Runtimes = {r1}
    Issues = {i1}
    Chats = {}
    Quick = {}
    Runs = {}
    Fallbacks = {a2}
    Priorities = {1}
    TrackedIssues = {}
    DaemonReasons = {"agent_error"}
    MaxRoots = 1
    MaxTasks = 2
    MaxClaims = 3
    MaxCrashes = 0
    Bound <- OneRuntime
    ChatAgent <- ChatsOfA1
    MaxConcurrentTasks <- TwoSlots
INVARIANT AgentStatusAccurate
CHECK_DEADLOCK FALSE
