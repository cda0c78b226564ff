SPECIFICATION Spec
CONSTANTS
    a1 = a1  a2 = a2  r1 = r1  r2 = r2  i1 = i1  c1 = c1  q1 = q1  x1 = x1
    None = None
    Agents = {a1}
    Runtimes = {r1}
    Issues = {i1}
    Chats = {}
    Quick = {}
    Runs = {x1}
    Fallbacks = {}
    Priorities = {1}
    TrackedIssues = {i1}
    DaemonReasons = {"agent_error"}
    MaxRoots = 2
    MaxTasks = 2
    MaxClaims = 2
    MaxCrashes = 1
    Bound <- OneRuntime
    ChatAgent <- ChatsOfA1
    MaxConcurrentTasks <- OneSlot
INVARIANTS WithinCapacity AgentStatusAccurate
CHECK_DEADLOCK FALSE
