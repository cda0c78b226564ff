SPECIFICATION Spec
CONSTANTS
    a1 = a1  a2 = a2  r1 = r1  r2 = r2  i1 = i1  c1 = c1  q1 = q1  x1 = x1
    None = None
    Agents = {a1}
    Runtimes = {r1}
    Issues = {}
    Chats = {c1}
    Quick = {}
    Runs = {}
    Fallbacks = {}
    Priorities = {1}
    TrackedIssues = {}
    DaemonReasons = {"provider_network"}
    MaxRoots = 2
    MaxTasks = 3
    MaxClaims = 2
    MaxCrashes = 0
    Bound <- OneRuntime
    ChatAgent <- ChatsOfA1
    MaxConcurrentTasks <- TwoSlots
PROPERTY QueuedRetryGoesFirst
CHECK_DEADLOCK FALSE
