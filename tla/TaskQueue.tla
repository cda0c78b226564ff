------------------------------ MODULE TaskQueue ------------------------------
(***************************************************************************)
(* The agent task queue of the Multica server: the agent_task_queue table, *)
(* the queries of pkg/db/queries/agent.sql that move a row through its     *)
(* states, and the operations of internal/service/task.go and              *)
(* cmd/server/runtime_sweeper.go that issue them.                          *)
(*                                                                         *)
(* One action is one committed transaction.  What a handler still does     *)
(* after its commit (reconcile the agent's status, retry the rows a sweep  *)
(* failed, cancel escalations, ...) is a member of `todo', so that other   *)
(* handlers interleave with it and a crash of a server replica loses it.   *)
(* Daemons are the environment here: any of their calls may come at any    *)
(* time.  TaskDaemon restricts them to what the daemon really does.        *)
(***************************************************************************)
EXTENDS Integers, FiniteSets

CONSTANTS
    Agents, Runtimes,
    Issues,             \* tasks of an issue: serialized, one pending per agent
    Chats,              \* tasks of a chat session: serialized
    Quick,              \* the one subject all quick-create tasks share, or {}
    Runs,               \* run-only autopilot tasks: neither serialized nor retried
    None,               \* SQL NULL
    Bound,              \* [Agents -> SUBSET Runtimes]: agent.runtime_id over time
    ChatAgent,          \* [Chats -> Agents]: chat_session.agent_id
    Fallbacks,          \* agents a routed comment may escalate to
    MaxConcurrentTasks, \* [Agents -> Nat]: agent.max_concurrent_tasks
    Priorities,         \* priorities an issue task can be given
    TrackedIssues,      \* issues whose status members and agents edit
    DaemonReasons,      \* the failure reasons daemons report
    MaxRoots,           \* bound: rows that are not retries
    MaxTasks,           \* bound: rows of the table
    MaxClaims,          \* bound: distinct values of dispatched_at
    MaxCrashes          \* bound: losses of a handler's remaining work

Subjects   == Issues \cup Chats \cup Quick \cup Runs
Serialized == Issues \cup Chats \cup Quick
TaskIds    == 1..MaxTasks          \* in created_at order

SweepReasons == {"timeout", "runtime_offline", "runtime_recovery", "queued_expired"}
Reasons      == SweepReasons \cup {"codex_semantic_inactivity", "provider_network", "agent_error"}

ASSUME SubjectsDisjoint ==
    /\ Issues \cap Chats = {} /\ Issues \cap Quick = {} /\ Chats \cap Quick = {}
    /\ Runs \cap Serialized = {}
ASSUME NoneIsNull == None \notin Agents \cup Runtimes \cup Subjects
ASSUME BoundType == Bound \in [Agents -> SUBSET Runtimes]
ASSUME ChatAgentType == ChatAgent \in [Chats -> Agents]
ASSUME CapType == MaxConcurrentTasks \in [Agents -> Nat]
ASSUME BoundsType ==
    MaxRoots \in Nat /\ MaxTasks \in Nat /\ MaxClaims \in Nat /\ MaxCrashes \in Nat
ASSUME InputsType ==
    /\ Fallbacks \subseteq Agents
    /\ TrackedIssues \subseteq Issues
    /\ Priorities \subseteq Nat
    /\ DaemonReasons \subseteq Reasons

VARIABLES
    task,         \* agent_task_queue, by row
    clock,        \* the last dispatched_at handed out
    agentStatus,  \* agent.status
    inProgress,   \* the issues whose status is in_progress
    online,       \* agent_runtime.status = 'online'
    fresh,        \* agent_runtime.last_seen_at is within the stale window
    todo,         \* what handlers still have to do after their commit
    crashes

vars == <<task, clock, agentStatus, inProgress, online, fresh, todo, crashes>>
runtimeVars == <<online, fresh>>

Active      == {"dispatched", "waiting_local_directory", "running"}
Terminal    == {"completed", "failed", "cancelled"}
Pending     == {"queued", "dispatched"}       \* idx_one_pending_task_per_issue_agent
Cancellable == Active \cup {"queued", "deferred"}
Statuses    == {"none"} \cup Cancellable \cup Terminal

(***************************************************************************)
(* A row.  gen is dispatched_at (0 is NULL), lease the state of            *)
(* prepare_lease_expires_at, due whether fire_at has passed, parent and    *)
(* esc are parent_task_id and escalation_for_task_id (0 is NULL).          *)
(***************************************************************************)
Row == [status   : Statuses,
        agent    : Agents \cup {None},
        subject  : Subjects \cup {None},
        runtime  : Runtimes \cup {None},
        prio     : Nat,
        attempt  : Nat,
        max      : Nat,
        gen      : 0..MaxClaims,
        lease    : {"none", "live", "expired"},
        due      : BOOLEAN,
        parent   : {0} \cup TaskIds,
        esc      : {0} \cup TaskIds,
        reason   : Reasons \cup {"none"}]

defaultMaxAttempts         == 2
providerNetworkMaxAttempts == 3
chatPriority               == 2
chatRetryPriority          == 3

\* An id no row has been inserted under.
Blank == [status |-> "none", agent |-> None, subject |-> None, runtime |-> None,
          prio |-> 0, attempt |-> 0, max |-> 0, gen |-> 0, lease |-> "none",
          due |-> FALSE, parent |-> 0, esc |-> 0, reason |-> "none"]

\* Mutant: the insert leaves runtime_id out.
NewRowUnbound(st, a, s, r, p) ==
    [Blank EXCEPT !.status = st, !.agent = a, !.subject = s, !.prio = p, !.attempt = 1, !.max = defaultMaxAttempts]

NewRow(st, a, s, r, p) ==
    [status |-> st, agent |-> a, subject |-> s, runtime |-> r, prio |-> p,
     attempt |-> 1, max |-> defaultMaxAttempts, gen |-> 0, lease |-> "none",
     due |-> FALSE, parent |-> 0, esc |-> 0, reason |-> "none"]

Is(t, S)     == task[t].status \in S
Roots        == {t \in TaskIds : ~Is(t, {"none"}) /\ task[t].parent = 0}
IsNextId(t)  == Is(t, {"none"}) /\ \A u \in 1..(t - 1) : ~Is(u, {"none"})
ActiveOf(a)  == {t \in TaskIds : Is(t, Active) /\ task[t].agent = a}

\* The unique partial index has room for a pending row of (s, a), rows `but' apart.
PendingFree(a, s, but) ==
    s \in Issues =>
        \A t \in TaskIds \ but : ~(Is(t, Pending) /\ task[t].agent = a /\ task[t].subject = s)

(***************************************************************************)
(* What a handler still has to do.                                         *)
(***************************************************************************)
Ops == {"reconcile", "handleFailed", "resetIssue", "failOffline", "cancelEscalations", "fallback", "rerun"}
Work == [op : Ops, task : {0} \cup TaskIds, agent : Agents \cup {None}, subject : Subjects \cup {None}]

Reconcile(a)         == [op |-> "reconcile", task |-> 0, agent |-> a, subject |-> None]
HandleFailed(t)      == [op |-> "handleFailed", task |-> t, agent |-> None, subject |-> None]
ResetIssue(i)        == [op |-> "resetIssue", task |-> 0, agent |-> None, subject |-> i]
FailOffline          == [op |-> "failOffline", task |-> 0, agent |-> None, subject |-> None]
CancelEscalations(t) == [op |-> "cancelEscalations", task |-> t, agent |-> None, subject |-> None]
Fallback(t, b)       == [op |-> "fallback", task |-> t, agent |-> b, subject |-> None]
Rerun(a, i)          == [op |-> "rerun", task |-> 0, agent |-> a, subject |-> i]

-----------------------------------------------------------------------------
(***************************************************************************)
(* Enqueue.                                                                *)
(***************************************************************************)
Insert(t, row) ==
    /\ IsNextId(t)
    /\ PendingFree(row.agent, row.subject, IF row.status = "queued" THEN {} ELSE TaskIds)
    /\ task' = [task EXCEPT ![t] = row]

InsertRoot(t, row) == Cardinality(Roots) < MaxRoots /\ Insert(t, row)

\* An assignment, a mention or a comment enqueues a task for agent a on issue i.  A
\* comment routed to a thread's agent goes on to arm an escalation to agent b.
EnqueueTaskForIssue(t, a, i, r, p, b) ==
    /\ InsertRoot(t, NewRow("queued", a, i, r, p))
    /\ todo' = todo \cup (IF b = None THEN {} ELSE {Fallback(t, b)})
    /\ UNCHANGED <<clock, agentStatus, inProgress, runtimeVars, crashes>>

\* The second half of a routed comment's handler: an inert task for the fallback agent.
EnqueueDeferredAssigneeFallback(t, p, b, r) ==
    /\ Fallback(p, b) \in todo
    /\ Insert(t, [NewRow("deferred", b, task[p].subject, r, task[p].prio) EXCEPT !.esc = p])
    /\ todo' = todo \ {Fallback(p, b)}
    /\ UNCHANGED <<clock, agentStatus, inProgress, runtimeVars, crashes>>

\* A chat message; the task is deferred while a channel still fetches its media.
EnqueueChatTask(t, c, r, st) ==
    /\ InsertRoot(t, NewRow(st, ChatAgent[c], c, r, chatPriority))
    /\ UNCHANGED <<clock, agentStatus, inProgress, runtimeVars, todo, crashes>>

EnqueueQuickCreateTask(t, a, q, r) ==
    /\ InsertRoot(t, NewRow("queued", a, q, r, 1))
    /\ UNCHANGED <<clock, agentStatus, inProgress, runtimeVars, todo, crashes>>

EnqueueAutopilotRunTask(t, a, x, r) ==
    /\ InsertRoot(t, NewRow("queued", a, x, r, 1))
    /\ UNCHANGED <<clock, agentStatus, inProgress, runtimeVars, todo, crashes>>

-----------------------------------------------------------------------------
(***************************************************************************)
(* Deferred rows.                                                          *)
(***************************************************************************)
FireAtPasses(t) ==
    /\ Is(t, {"deferred"}) /\ ~task[t].due
    /\ task' = [task EXCEPT ![t] = [@ EXCEPT !.due = TRUE]]
    /\ UNCHANGED <<clock, agentStatus, inProgress, runtimeVars, todo, crashes>>

\* Mutant: fire_at is not looked at.
DeferredOn(R) == {t \in TaskIds : Is(t, {"deferred"}) /\ task[t].runtime \in R}

DueOn(R) == {t \in TaskIds : Is(t, {"deferred"}) /\ task[t].due /\ task[t].runtime \in R}

\* No row of D would collide in the unique index once all of D is queued.
PromotionFits(D) ==
    \A t \in D : /\ PendingFree(task[t].agent, task[t].subject, D)
                 /\ task[t].subject \in Issues =>
                        \A u \in D : u # t => task[u].agent # task[t].agent
                                              \/ task[u].subject # task[t].subject

QueueRows(S) ==
    task' = [t \in TaskIds |-> IF t \in S THEN [task[t] EXCEPT !.status = "queued"] ELSE task[t]]

\* One UPDATE for all of the polling daemon's runtimes: all due rows or, when the index
\* refuses one of them, none.
PromoteDueDeferredTasks(R) ==
    /\ PromotionFits(DueOn(R))
    /\ QueueRows(DueOn(R))
    /\ UNCHANGED <<clock, agentStatus, inProgress, runtimeVars, todo, crashes>>

\* A channel's media arrived: its waiting chat tasks, retries and escalations apart.
PromoteChannelChatTasksIfMediaReady(c) ==
    LET D == {t \in TaskIds : /\ Is(t, {"deferred"}) /\ task[t].subject = c
                              /\ task[t].parent = 0 /\ task[t].esc = 0}
    IN /\ c \in Chats /\ D # {}
       /\ QueueRows(D)
       /\ UNCHANGED <<clock, agentStatus, inProgress, runtimeVars, todo, crashes>>

-----------------------------------------------------------------------------
(***************************************************************************)
(* Claim.                                                                  *)
(***************************************************************************)
Conflict(t, u) ==
    /\ task[t].agent = task[u].agent
    /\ task[t].subject = task[u].subject
    /\ task[t].subject \in Serialized

\* Mutant: a task parked on a local directory does not hold its issue or chat back.
ClaimableBesideParked(a) ==
    {t \in TaskIds : /\ Is(t, {"queued"}) /\ task[t].agent = a
                     /\ \A u \in TaskIds : Is(u, {"dispatched", "running"}) => ~Conflict(t, u)}

Claimable(a) ==
    {t \in TaskIds : /\ Is(t, {"queued"}) /\ task[t].agent = a
                     /\ \A u \in TaskIds : Is(u, Active) => ~Conflict(t, u)}

\* ORDER BY priority DESC, created_at ASC
Before(t, u) == task[t].prio > task[u].prio \/ (task[t].prio = task[u].prio /\ t <= u)

HasCapacity(a) == Cardinality(ActiveOf(a)) < MaxConcurrentTasks[a]

Dispatched(row) == [row EXCEPT !.status = "dispatched", !.gen = clock + 1, !.lease = "live"]

\* The transaction of ClaimTask, serialized by its lock on the agent's row.  It looks
\* at the agent alone: t may belong to another runtime than the one that polls.
ClaimTask(a, t) ==
    /\ clock < MaxClaims
    /\ HasCapacity(a)
    /\ t \in Claimable(a) /\ \A u \in Claimable(a) : Before(t, u)
    /\ task' = [task EXCEPT ![t] = Dispatched(task[t])]
    /\ clock' = clock + 1
    /\ todo' = todo \cup {Reconcile(a)}
    /\ UNCHANGED <<agentStatus, inProgress, runtimeVars, crashes>>

\* A row whose claim was never acknowledged is delivered again, as a new generation.
ReclaimStaleDispatchedTask(t) ==
    /\ clock < MaxClaims
    /\ Is(t, {"dispatched"}) /\ task[t].lease # "live"
    /\ task' = [task EXCEPT ![t] = Dispatched(task[t])]
    /\ clock' = clock + 1
    /\ UNCHANGED <<agentStatus, inProgress, runtimeVars, todo, crashes>>

\* Building the claim response of generation g failed: hand that claim back.
RequeueTaskAfterClaimFailure(t, g) ==
    /\ Is(t, {"dispatched"}) /\ task[t].gen = g
    /\ task' = [task EXCEPT ![t] = [@ EXCEPT !.status = "queued", !.gen = 0, !.lease = "none"]]
    /\ todo' = todo \cup {Reconcile(task[t].agent)}
    /\ UNCHANGED <<clock, agentStatus, inProgress, runtimeVars, crashes>>

\* The prepare lease runs out, and the 90 s recovery window with it.
LeaseLapses(t) ==
    /\ Is(t, {"dispatched", "waiting_local_directory"}) /\ task[t].lease = "live"
    /\ task' = [task EXCEPT ![t] = [@ EXCEPT !.lease = "expired"]]
    /\ UNCHANGED <<clock, agentStatus, inProgress, runtimeVars, todo, crashes>>

-----------------------------------------------------------------------------
(***************************************************************************)
(* What a daemon reports about a task it holds.                            *)
(***************************************************************************)
ExtendTaskPrepareLease(t) ==
    /\ Is(t, {"dispatched", "waiting_local_directory"})
    /\ task' = [task EXCEPT ![t] = [@ EXCEPT !.lease = "live"]]
    /\ UNCHANGED <<clock, agentStatus, inProgress, runtimeVars, todo, crashes>>

MarkTaskWaitingLocalDirectory(t) ==
    /\ Is(t, {"dispatched"})
    /\ task' = [task EXCEPT ![t] = [@ EXCEPT !.status = "waiting_local_directory", !.lease = "live"]]
    /\ UNCHANGED <<clock, agentStatus, inProgress, runtimeVars, todo, crashes>>

\* Mutant: a row that was handed back meanwhile is started all the same.
StartTaskRequeued(t) ==
    /\ Is(t, {"queued", "dispatched", "waiting_local_directory"})
    /\ task' = [task EXCEPT ![t] = [@ EXCEPT !.status = "running", !.lease = "none"]]
    /\ todo' = todo \cup (IF Fallbacks = {} THEN {} ELSE {CancelEscalations(t)})
    /\ UNCHANGED <<clock, agentStatus, inProgress, runtimeVars, crashes>>

StartTask(t) ==
    /\ Is(t, {"dispatched", "waiting_local_directory"})
    /\ task' = [task EXCEPT ![t] = [@ EXCEPT !.status = "running", !.lease = "none"]]
    /\ todo' = todo \cup (IF Fallbacks = {} THEN {} ELSE {CancelEscalations(t)})
    /\ UNCHANGED <<clock, agentStatus, inProgress, runtimeVars, crashes>>

\* Mutant: a late report completes a row that a sweep or a cancellation has settled.
CompleteTaskLate(t) ==
    /\ Is(t, {"running"} \cup Terminal)
    /\ task' = [task EXCEPT ![t] = [@ EXCEPT !.status = "completed", !.lease = "none"]]
    /\ todo' = todo \cup {Reconcile(task[t].agent)}
    /\ UNCHANGED <<clock, agentStatus, inProgress, runtimeVars, crashes>>

CompleteTask(t) ==
    /\ Is(t, {"running"})
    /\ task' = [task EXCEPT ![t] = [@ EXCEPT !.status = "completed", !.lease = "none"]]
    /\ todo' = todo \cup {Reconcile(task[t].agent)}
    /\ UNCHANGED <<clock, agentStatus, inProgress, runtimeVars, crashes>>

retryableReasons ==
    {"runtime_offline", "runtime_recovery", "timeout", "codex_semantic_inactivity", "provider_network"}

\* max_attempts = 1 disables retries and is never raised.
retryAttemptCeiling(why, max) ==
    IF why = "provider_network" /\ 1 < max /\ max < providerNetworkMaxAttempts
    THEN providerNetworkMaxAttempts ELSE max

retryDeferred(why, attempt) ==
    why = "provider_network" /\ attempt >= providerNetworkMaxAttempts - 1

\* Mutant: off by one.
retryEligibleOnceMore(why, row) ==
    /\ why \in retryableReasons
    /\ row.attempt <= retryAttemptCeiling(why, row.max)
    /\ row.subject \in Issues \cup Chats

retryEligible(why, row) ==
    /\ why \in retryableReasons
    /\ row.attempt < retryAttemptCeiling(why, row.max)
    /\ row.subject \in Issues \cup Chats

\* CreateRetryTask: the row inserted for the failed row t.
RetryRow(t, why) ==
    LET p == task[t]
    IN [status  |-> IF retryDeferred(why, p.attempt) THEN "deferred" ELSE "queued",
        agent   |-> p.agent, subject |-> p.subject, runtime |-> p.runtime,
        prio    |-> IF p.subject \in Chats /\ p.prio < chatRetryPriority THEN chatRetryPriority ELSE p.prio,
        attempt |-> p.attempt + 1, max |-> retryAttemptCeiling(why, p.max),
        gen |-> 0, lease |-> "none", due |-> FALSE, parent |-> t, esc |-> 0, reason |-> "none"]

Failed(row, why) == [row EXCEPT !.status = "failed", !.reason = why, !.lease = "none"]

\* The failure and its retry commit together, or neither does: a retry the unique index
\* refuses rolls the failure back too, and the daemon is answered with a 5xx.
FailTask(t, why) ==
    /\ Is(t, Active)
    /\ IF retryEligible(why, task[t])
       THEN \E c \in TaskIds :
                /\ IsNextId(c)
                /\ retryDeferred(why, task[t].attempt)
                   \/ PendingFree(task[t].agent, task[t].subject, {t})
                /\ task' = [task EXCEPT ![t] = Failed(task[t], why), ![c] = RetryRow(t, why)]
       ELSE task' = [task EXCEPT ![t] = Failed(task[t], why)]
    /\ todo' = todo \cup {Reconcile(task[t].agent)}
    /\ UNCHANGED <<clock, agentStatus, inProgress, runtimeVars, crashes>>

-----------------------------------------------------------------------------
(***************************************************************************)
(* Sweeps.  Each fails a set of rows in one UPDATE; HandleFailedTasks then *)
(* walks over the rows it returned.                                        *)
(***************************************************************************)
FailRows(S, why) ==
    task' = [t \in TaskIds |-> IF t \in S THEN Failed(task[t], why) ELSE task[t]]

\* The rows whose wall clock has run out are any of the ones no live signal protects.
StaleTasks ==
    {t \in TaskIds : \/ Is(t, {"dispatched"}) /\ task[t].lease # "live"
                     \/ Is(t, {"running"}) /\ ~(online[task[t].runtime] /\ fresh[task[t].runtime])}

SweepStaleTasks(S) ==
    /\ S # {} /\ S \subseteq StaleTasks
    /\ FailRows(S, "timeout")
    /\ todo' = todo \cup {HandleFailed(t) : t \in S}
    /\ UNCHANGED <<clock, agentStatus, inProgress, runtimeVars, crashes>>

SweepExpiredQueuedTasks(S) ==
    /\ S # {} /\ \A t \in S : Is(t, {"queued"})
    /\ FailRows(S, "queued_expired")
    /\ todo' = todo \cup {HandleFailed(t) : t \in S}
    /\ UNCHANGED <<clock, agentStatus, inProgress, runtimeVars, crashes>>

ActiveOn(R) == {t \in TaskIds : Is(t, Active) /\ task[t].runtime \in R}

\* Called by a daemon that (re)registers runtime r.
RecoverOrphanedTasks(r) ==
    /\ FailRows(ActiveOn({r}), "runtime_recovery")
    /\ todo' = todo \cup {HandleFailed(t) : t \in ActiveOn({r})}
    /\ UNCHANGED <<clock, agentStatus, inProgress, runtimeVars, crashes>>

\* Some runtimes have stopped heartbeating (the liveness store may vouch for others).
SweepStaleRuntimes(R) ==
    /\ R # {} /\ \A r \in R : online[r] /\ ~fresh[r]
    /\ online' = [r \in Runtimes |-> online[r] /\ r \notin R]
    /\ todo' = todo \cup {FailOffline}
    /\ UNCHANGED <<task, clock, agentStatus, inProgress, fresh, crashes>>

\* This statement leaves the lease of the rows it fails.
FailOfflineRows(S) ==
    task' = [t \in TaskIds |->
                IF t \in S THEN [task[t] EXCEPT !.status = "failed", !.reason = "runtime_offline"] ELSE task[t]]

\* Its second statement: every active row of every offline runtime.
FailTasksForOfflineRuntimes ==
    LET S == ActiveOn({r \in Runtimes : ~online[r]})
    IN /\ FailOffline \in todo
       /\ FailOfflineRows(S)
       /\ todo' = (todo \ {FailOffline}) \cup {HandleFailed(t) : t \in S}
       /\ UNCHANGED <<clock, agentStatus, inProgress, runtimeVars, crashes>>

\* MaybeRetryFailedTask would insert row c as the retry of row t.
RetryFits(t) ==
    /\ retryEligible(task[t].reason, task[t])
    /\ retryDeferred(task[t].reason, task[t].attempt)
       \/ PendingFree(task[t].agent, task[t].subject, {})

HasActiveTaskForIssue(i) ==
    \E t \in TaskIds : task[t].subject = i /\ Is(t, Active \cup {"queued"})

\* One row of HandleFailedTasks: retry it if it qualifies (an insert the index refuses is
\* only logged); otherwise an in_progress issue seen without any active task is reset.
HandleFailedTask(t) ==
    LET i == task[t].subject
        stuck == ~RetryFits(t) /\ i \in inProgress /\ ~HasActiveTaskForIssue(i)
    IN /\ HandleFailed(t) \in todo
       /\ todo' = (todo \ {HandleFailed(t)}) \cup {Reconcile(task[t].agent)}
                                             \cup (IF stuck THEN {ResetIssue(i)} ELSE {})
       /\ IF RetryFits(t)
          THEN \E c \in TaskIds : IsNextId(c) /\ task' = [task EXCEPT ![c] = RetryRow(t, task[t].reason)]
          ELSE UNCHANGED task
       /\ UNCHANGED <<clock, agentStatus, inProgress, runtimeVars, crashes>>

\* The statement after that check: back to todo, whatever has been enqueued since.
ResetStuckIssue(i) ==
    /\ ResetIssue(i) \in todo
    /\ inProgress' = inProgress \ {i}
    /\ todo' = todo \ {ResetIssue(i)}
    /\ UNCHANGED <<task, clock, agentStatus, runtimeVars, crashes>>

-----------------------------------------------------------------------------
(***************************************************************************)
(* Cancellation.                                                           *)
(***************************************************************************)
CancelRows(S) ==
    task' = [t \in TaskIds |-> IF t \in S THEN [task[t] EXCEPT !.status = "cancelled", !.lease = "none"]
                                          ELSE task[t]]

\* One task; all of an issue, of an agent or of a chat session.
CancelScopes == {{t} : t \in TaskIds}
                \cup {{t \in TaskIds : task[t].subject = s} : s \in Issues \cup Chats}
                \cup {{t \in TaskIds : task[t].agent = a} : a \in Agents}

\* Mutant: cancel the rows and return.
CancelTasksAndReturn(Scope) ==
    LET S == {t \in Scope : Is(t, Cancellable)}
    IN /\ S # {}
       /\ CancelRows(S)
       /\ UNCHANGED <<clock, agentStatus, inProgress, runtimeVars, todo, crashes>>

CancelTasks(Scope) ==
    LET S == {t \in Scope : Is(t, Cancellable)}
    IN /\ S # {}
       /\ CancelRows(S)
       /\ todo' = todo \cup {Reconcile(task[t].agent) : t \in S}
       /\ UNCHANGED <<clock, agentStatus, inProgress, runtimeVars, crashes>>

\* A manual rerun cancels what the agent has on the issue, then enqueues a fresh task.
RerunIssue(a, i) ==
    LET S == {t \in TaskIds : Is(t, Cancellable) /\ task[t].agent = a /\ task[t].subject = i}
    IN /\ Cardinality(Roots) < MaxRoots
       /\ CancelRows(S)
       /\ todo' = todo \cup {Reconcile(task[t].agent) : t \in S} \cup {Rerun(a, i)}
       /\ UNCHANGED <<clock, agentStatus, inProgress, runtimeVars, crashes>>

\* A concurrent enqueue may have taken the pending slot: the rerun then fails.
EnqueueRerunTask(t, a, i, r, p) ==
    /\ Rerun(a, i) \in todo
    /\ todo' = todo \ {Rerun(a, i)}
    /\ IF PendingFree(a, i, {}) THEN InsertRoot(t, NewRow("queued", a, i, r, p)) ELSE UNCHANGED task
    /\ UNCHANGED <<clock, agentStatus, inProgress, runtimeVars, crashes>>

Preempted == {"deferred", "queued", "dispatched", "waiting_local_directory"}

\* The primary task p was started: its escalation is not needed any more.
CancelDeferredEscalationsForTask(p) ==
    /\ CancelEscalations(p) \in todo
    /\ CancelRows({t \in TaskIds : task[t].esc = p /\ Is(t, Preempted)})
    /\ todo' = todo \ {CancelEscalations(p)}
    /\ UNCHANGED <<clock, agentStatus, inProgress, runtimeVars, crashes>>

\* Agent a commented on issue i: escalations of its tasks there are not needed any more.
CancelDeferredEscalationsForIssueAgent(a, i) ==
    LET S == {t \in TaskIds : /\ Is(t, Preempted) /\ task[t].esc # 0
                              /\ task[task[t].esc].agent = a /\ task[task[t].esc].subject = i}
    IN /\ S # {}
       /\ CancelRows(S)
       /\ UNCHANGED <<clock, agentStatus, inProgress, runtimeVars, todo, crashes>>

-----------------------------------------------------------------------------
(***************************************************************************)
(* Agents, issues, runtimes and server replicas.                           *)
(***************************************************************************)
ReconcileAgentStatus(a) ==
    /\ Reconcile(a) \in todo
    /\ agentStatus' = [agentStatus EXCEPT ![a] = IF ActiveOf(a) # {} THEN "working" ELSE "idle"]
    /\ todo' = todo \ {Reconcile(a)}
    /\ UNCHANGED <<task, clock, inProgress, runtimeVars, crashes>>

\* An agent or a member sets an issue to in_progress.
SetIssueInProgress(i) ==
    /\ i \notin inProgress
    /\ inProgress' = inProgress \cup {i}
    /\ UNCHANGED <<task, clock, agentStatus, runtimeVars, todo, crashes>>

\* A daemon registers its runtimes, or a heartbeat of one reaches the database.
RuntimesSeen(R) ==
    /\ online' = [r \in Runtimes |-> online[r] \/ r \in R]
    /\ fresh' = [r \in Runtimes |-> fresh[r] \/ r \in R]
    /\ UNCHANGED <<task, clock, agentStatus, inProgress, todo, crashes>>

HeartbeatsStop(r) ==
    /\ fresh[r]
    /\ fresh' = [fresh EXCEPT ![r] = FALSE]
    /\ UNCHANGED <<task, clock, agentStatus, inProgress, online, todo, crashes>>

\* Only the runtimes go offline: their tasks are left as they are.
DaemonDeregister(R) ==
    /\ online' = [r \in Runtimes |-> online[r] /\ r \notin R]
    /\ UNCHANGED <<task, clock, agentStatus, inProgress, fresh, todo, crashes>>

\* A replica dies, or a statement after the commit fails and is only logged.
WorkLost(W) ==
    /\ crashes < MaxCrashes
    /\ W # {} /\ W \subseteq todo
    /\ todo' = todo \ W
    /\ crashes' = crashes + 1
    /\ UNCHANGED <<task, clock, agentStatus, inProgress, runtimeVars>>

-----------------------------------------------------------------------------
Init ==
    /\ task = [t \in TaskIds |-> Blank]
    /\ clock = 0
    /\ agentStatus = [a \in Agents |-> "idle"]
    /\ inProgress = {}
    /\ online = [r \in Runtimes |-> TRUE]
    /\ fresh = [r \in Runtimes |-> TRUE]
    /\ todo = {}
    /\ crashes = 0

Enqueue ==
    \E t \in TaskIds, a \in Agents : \E r \in Bound[a] :
        \/ \E i \in Issues, p \in Priorities, b \in {None} \cup (Fallbacks \ {a}) :
               EnqueueTaskForIssue(t, a, i, r, p, b)
        \/ \E c \in Chats, st \in {"queued", "deferred"} : ChatAgent[c] = a /\ EnqueueChatTask(t, c, r, st)
        \/ \E q \in Quick : EnqueueQuickCreateTask(t, a, q, r)
        \/ \E x \in Runs : EnqueueAutopilotRunTask(t, a, x, r)

Cancel ==
    \/ \E S \in CancelScopes : CancelTasks(S)
    \/ \E a \in Agents, i \in Issues : RerunIssue(a, i)
    \/ \E a \in Agents, i \in Issues : CancelDeferredEscalationsForIssueAgent(a, i)

\* What remains of handlers whose first transaction has committed.
Continue ==
    \/ \E a \in Agents : ReconcileAgentStatus(a)
    \/ \E t \in TaskIds : HandleFailedTask(t) \/ CancelDeferredEscalationsForTask(t)
    \/ \E i \in TrackedIssues : ResetStuckIssue(i)
    \/ FailTasksForOfflineRuntimes
    \/ \E t, p \in TaskIds, b \in Fallbacks : \E r \in Bound[b] :
           EnqueueDeferredAssigneeFallback(t, p, b, r)
    \/ \E t \in TaskIds, a \in Agents, i \in Issues, p \in Priorities : \E r \in Bound[a] :
           EnqueueRerunTask(t, a, i, r, p)

Sweep ==
    \/ \E S \in SUBSET TaskIds : SweepStaleTasks(S) \/ SweepExpiredQueuedTasks(S)
    \/ \E R \in SUBSET Runtimes : SweepStaleRuntimes(R)

Time ==
    \/ \E t \in TaskIds : FireAtPasses(t) \/ LeaseLapses(t)
    \/ \E r \in Runtimes : HeartbeatsStop(r)

DaemonCall ==
    \/ \E R \in SUBSET Runtimes : PromoteDueDeferredTasks(R) \/ RuntimesSeen(R) \/ DaemonDeregister(R)
    \/ \E r \in Runtimes : RecoverOrphanedTasks(r)
    \/ \E a \in Agents, t \in TaskIds : ClaimTask(a, t)
    \/ \E t \in TaskIds : \/ ReclaimStaleDispatchedTask(t)
                          \/ \E g \in 1..MaxClaims : RequeueTaskAfterClaimFailure(t, g)
                          \/ ExtendTaskPrepareLease(t)
                          \/ MarkTaskWaitingLocalDirectory(t)
                          \/ StartTask(t)
                          \/ CompleteTask(t)
                          \/ \E why \in DaemonReasons : FailTask(t, why)

Next ==
    \/ Enqueue
    \/ Cancel
    \/ Continue
    \/ Sweep
    \/ Time
    \/ DaemonCall
    \/ \E c \in Chats : PromoteChannelChatTasksIfMediaReady(c)
    \/ \E i \in TrackedIssues : SetIssueInProgress(i)
    \/ \E W \in SUBSET todo : WorkLost(W)

Spec == Init /\ [][Next]_vars

-----------------------------------------------------------------------------
(***************************************************************************)
(* Properties.                                                             *)
(***************************************************************************)

\* A row that exists names its agent, its subject and its runtime.
RowsOK ==
    /\ task \in [TaskIds -> Row]
    /\ \A t \in TaskIds : ~Is(t, {"none"}) =>
            task[t].agent \in Agents /\ task[t].subject \in Subjects /\ task[t].runtime \in Runtimes

\* Every variable keeps its type, the rows of the table included.
TypeOK ==
    /\ RowsOK
    /\ clock \in 0..MaxClaims
    /\ agentStatus \in [Agents -> {"idle", "working"}]
    /\ inProgress \subseteq Issues
    /\ online \in [Runtimes -> BOOLEAN]
    /\ fresh \in [Runtimes -> BOOLEAN]
    /\ todo \subseteq Work
    /\ crashes \in 0..MaxCrashes

\* ClaimAgentTask's promise: an agent never has two dispatched, waiting or running tasks
\* of one issue, of one chat session, or two quick-creates, whatever was requeued,
\* reclaimed, promoted or retried in between.
SerialExecution ==
    \A t, u \in TaskIds : t # u /\ Is(t, Active) /\ Is(u, Active) => ~Conflict(t, u)

\* An agent never has more active tasks than max_concurrent_tasks.
WithinCapacity == \A a \in Agents : Cardinality(ActiveOf(a)) <= MaxConcurrentTasks[a]

\* A failure is retried at most once, by FailTask or by the sweep that found it and never
\* by both, and the retry continues its parent within the attempt budget.
RetryChains ==
    /\ \A t, u \in TaskIds : task[t].parent = task[u].parent /\ task[t].parent # 0 => t = u
    /\ \A t \in TaskIds : task[t].parent # 0 =>
           LET p == task[task[t].parent]
           IN /\ p.status = "failed" /\ p.reason \in retryableReasons
              /\ task[t].agent = p.agent /\ task[t].subject = p.subject
              /\ task[t].attempt = p.attempt + 1
              /\ task[t].attempt <= task[t].max /\ task[t].max <= providerNetworkMaxAttempts

\* A row that is completed, failed or cancelled stays what it is: a late report, a sweep
\* or a cancellation that lost its race changes nothing.
TerminalIsFinal ==
    [][\A t \in TaskIds : Is(t, Terminal) => task'[t] = task[t]]_vars

\* Someone still has to write agent a's status.
StatusPending(a) ==
    \/ Reconcile(a) \in todo
    \/ \E t \in TaskIds : HandleFailed(t) \in todo /\ task[t].agent = a

\* Unless a replica lost its work, an agent shows as working exactly while it has an
\* active task, as soon as no handler is still about to reconcile it.
AgentStatusAccurate ==
    crashes = 0 => \A a \in Agents :
        ~StatusPending(a) => (agentStatus[a] = "working" <=> ActiveOf(a) # {})

\* Row t was dispatched by this step.
ClaimedByStep(t) == Is(t, {"queued"}) /\ task'[t].status = "dispatched"

\* Row t is a retry, its chain starting with an input older than row u, in u's session.
OlderTurn(t, u) ==
    LET p == task[t].parent
        root == IF task[p].parent = 0 THEN p ELSE task[p].parent
    IN p # 0 /\ task[t].subject = task[u].subject /\ task[u].parent = 0 /\ root < u

\* A chat turn whose retry is queued goes before any newer message of its session.
QueuedRetryGoesFirst ==
    [][\A t, u \in TaskIds :
          ClaimedByStep(u) /\ task[u].subject \in Chats /\ OlderTurn(t, u) => ~Is(t, {"queued"})]_vars

\* EnqueueDeferredAssigneeFallback's promise: an escalation goes to another agent on its
\* primary's issue, once, and is inert until its fire_at has passed.
EscalationWaits ==
    \A t \in TaskIds : task[t].esc # 0 =>
        /\ task[t].subject = task[task[t].esc].subject /\ task[t].agent # task[task[t].esc].agent
        /\ \A u \in TaskIds : task[u].esc = task[t].esc => u = t
        /\ Is(t, {"deferred", "cancelled"}) \/ task[t].due
==============================================================================
