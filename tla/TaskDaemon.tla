------------------------------ MODULE TaskDaemon ------------------------------
(***************************************************************************)
(* The daemons of internal/daemon driving the task queue: the batch poller *)
(* that claims into free slots, the claim handler that finalizes or hands  *)
(* back each claim, handleTask from delivery to its terminal report, and   *)
(* the daemon's own crashes, restarts and re-registrations.                *)
(*                                                                         *)
(* claim[g] is what became of the delivery whose dispatched_at is g.       *)
(* A fault (a lost response, an exhausted retry schedule, a crash, ...) is *)
(* counted in `faults'; with MaxFaults = 0 everything works.  FaultKinds   *)
(* selects the faults an instance is exposed to.                           *)
(***************************************************************************)
EXTENDS TaskQueue

CONSTANTS
    Daemons,
    DaemonOf,   \* [Runtimes -> Daemons]
    Slots,      \* concurrent tasks of a daemon
    FaultKinds, \* the kinds of fault that may happen
    MaxFaults   \* bound: faults

ASSUME DaemonOfType == DaemonOf \in [Runtimes -> Daemons]
ASSUME UnclassifiedReason == "agent_error" \in DaemonReasons
ASSUME DaemonBounds == Slots \in Nat /\ MaxFaults \in Nat

VARIABLES
    claim,     \* the deliveries
    daemon,    \* the state of each daemon process
    polling,   \* daemons in the middle of a batch claim
    recover,   \* runtimes a registration has yet to recover orphans for
    faults

dvars   == <<claim, daemon, polling, recover, faults>>
allVars == <<vars, dvars>>

Gens   == 1..MaxClaims
Held   == {"handler", "lock", "wait", "prepare", "run", "completing", "failing"}
Local  == Held \ {"handler"}                 \* a handleTask goroutine exists
Phases == Held \cup {"none", "abandoned", "gone"}

Delivery == [task : {0} \cup TaskIds, phase : Phases, why : Reasons \cup {"none"}]

Hosted(d) == {r \in Runtimes : DaemonOf[r] = d}
HostOf(g) == DaemonOf[task[claim[g].task].runtime]
ClaimsOf(d, P) == {g \in Gens : claim[g].phase \in P /\ HostOf(g) = d}
TaskOf(g) == claim[g].task
At(g, P) == claim[g].phase \in P
FreeSlot(d) == Cardinality(ClaimsOf(d, Held)) < Slots

Deliver(g, t, ph) == claim' = [claim EXCEPT ![g] = [task |-> t, phase |-> ph, why |-> "none"]]
MoveTo(g, ph)     == claim' = [claim EXCEPT ![g].phase = ph]
FailWith(g, why)  == claim' = [claim EXCEPT ![g].phase = "failing", ![g].why = why]
Fault(kind)       == kind \in FaultKinds /\ faults < MaxFaults /\ faults' = faults + 1

-----------------------------------------------------------------------------
(***************************************************************************)
(* The batch poller: promote, reclaim, then claim agent by agent.  A       *)
(* promotion the database refuses ends the poll with an error.             *)
(***************************************************************************)
PollBegin(d) ==
    /\ daemon[d] = "up" /\ d \notin polling /\ FreeSlot(d)
    /\ PromoteDueDeferredTasks(Hosted(d))
    /\ polling' = polling \cup {d}
    /\ UNCHANGED <<claim, daemon, recover, faults>>

PollReclaim(d, t) ==
    /\ d \in polling /\ FreeSlot(d)
    /\ task[t].runtime \in Hosted(d)
    /\ ReclaimStaleDispatchedTask(t)
    /\ Deliver(clock + 1, t, "handler")
    /\ UNCHANGED <<daemon, polling, recover, faults>>

\* The agent was found through a queued row of one of d's runtimes, but ClaimTask may
\* dispatch a row of another daemon's runtime: that delivery is dropped.
PollClaim(d, a, t) ==
    /\ d \in polling /\ FreeSlot(d)
    /\ \E u \in TaskIds : Is(u, {"queued"}) /\ task[u].agent = a /\ task[u].runtime \in Hosted(d)
    /\ ClaimTask(a, t)
    /\ Deliver(clock + 1, t, IF task[t].runtime \in Hosted(d) THEN "handler" ELSE "gone")
    /\ UNCHANGED <<daemon, polling, recover, faults>>

PollEnd(d) ==
    /\ d \in polling
    /\ polling' = polling \ {d}
    /\ UNCHANGED <<vars, claim, daemon, recover, faults>>

-----------------------------------------------------------------------------
(***************************************************************************)
(* The claim handler, for one claimed task.                                *)
(***************************************************************************)
FinalizeTaskClaim(g) ==
    /\ At(g, {"handler"})
    /\ MoveTo(g, "lock")
    /\ UNCHANGED <<vars, daemon, polling, recover, faults>>

\* The daemon gave up on the request; the handler is still running.
ClaimResponseLost(g) ==
    /\ At(g, {"handler"}) /\ Fault("claimResponse")
    /\ MoveTo(g, "abandoned")
    /\ UNCHANGED <<vars, daemon, polling, recover>>

ClaimIsCurrent(g) == Is(TaskOf(g), {"dispatched"}) /\ task[TaskOf(g)].gen = g

\* Mutant: the claim handed back is whatever claim is current.
FinalizeFailsBlindly(g) ==
    /\ At(g, {"handler", "abandoned"})
    /\ Fault("finalize") \/ (~ClaimIsCurrent(g) /\ UNCHANGED faults)
    /\ MoveTo(g, "gone")
    /\ IF Is(TaskOf(g), {"dispatched"}) THEN RequeueTaskAfterClaimFailure(TaskOf(g), task[TaskOf(g)].gen)
                                        ELSE UNCHANGED vars
    /\ UNCHANGED <<daemon, polling, recover>>

\* Minting the token failed, or the receipt of a claim that is no longer the current one
\* was refused: the handler hands its own claim back, never a newer one.
FinalizeFails(g) ==
    /\ At(g, {"handler", "abandoned"})
    /\ Fault("finalize") \/ (~ClaimIsCurrent(g) /\ UNCHANGED faults)
    /\ MoveTo(g, "gone")
    /\ IF ClaimIsCurrent(g) THEN RequeueTaskAfterClaimFailure(TaskOf(g), g) ELSE UNCHANGED vars
    /\ UNCHANGED <<daemon, polling, recover>>

\* The payload cannot be built.  A task that must not run (no input, no owner, a foreign
\* workspace, a deleted trigger) is cancelled by its id, whichever claim is current; a
\* read that failed leaves the row dispatched, to be reclaimed.
ClaimBuildFails(g) ==
    /\ At(g, {"handler", "abandoned"})
    /\ MoveTo(g, "gone")
    /\ \/ UNCHANGED faults /\ IF Is(TaskOf(g), Cancellable) THEN CancelTasks({TaskOf(g)}) ELSE UNCHANGED vars
       \/ Fault("build") /\ UNCHANGED vars
    /\ UNCHANGED <<daemon, polling, recover>>

AbandonedHandlerEnds(g) ==
    /\ At(g, {"abandoned"})
    /\ MoveTo(g, "gone")
    /\ UNCHANGED <<vars, daemon, polling, recover, faults>>

-----------------------------------------------------------------------------
(***************************************************************************)
(* handleTask, from the delivery to the terminal report.                   *)
(***************************************************************************)
ExtendLease(g) ==
    /\ At(g, {"prepare", "wait"})
    /\ ExtendTaskPrepareLease(TaskOf(g))
    /\ UNCHANGED dvars

\* Without an extender the lease simply runs out.
PrepareLeaseLapses(t) ==
    /\ LeaseLapses(t)
    /\ \/ UNCHANGED faults /\ \A g \in Gens : TaskOf(g) = t => ~At(g, {"handler", "lock", "wait", "prepare"})
       \/ Fault("lease")
    /\ UNCHANGED <<claim, daemon, polling, recover>>

\* The local directory is in use: park, whether or not the server takes note.
WaitForLocalDirectory(g) ==
    /\ At(g, {"lock"})
    /\ MoveTo(g, "wait")
    /\ IF Is(TaskOf(g), {"dispatched"}) THEN MarkTaskWaitingLocalDirectory(TaskOf(g)) ELSE UNCHANGED vars
    /\ UNCHANGED <<daemon, polling, recover, faults>>

\* There is no such directory, or it is locked now: prepare the environment.
LocalDirectoryAcquired(g) ==
    /\ At(g, {"lock", "wait"})
    /\ MoveTo(g, "prepare")
    /\ UNCHANGED <<vars, daemon, polling, recover, faults>>

Startable(t) == Is(t, {"dispatched", "waiting_local_directory"})

\* Mutant: the daemon runs the agent although the server refused to start the row.
RunTaskRegardless(g) ==
    /\ At(g, {"prepare"})
    /\ IF Startable(TaskOf(g)) THEN StartTask(TaskOf(g)) ELSE UNCHANGED vars
    /\ MoveTo(g, "run")
    /\ UNCHANGED <<daemon, polling, recover, faults>>

\* The server refuses to start a row that another delivery has started: the loser
\* then reports a failure of the task.
RunTaskStarts(g) ==
    /\ At(g, {"prepare"})
    /\ IF Startable(TaskOf(g)) THEN StartTask(TaskOf(g)) /\ MoveTo(g, "run")
                               ELSE UNCHANGED vars /\ FailWith(g, "agent_error")
    /\ UNCHANGED <<daemon, polling, recover, faults>>

\* StartTask has committed but its answer never arrives.
StartResponseLost(g) ==
    /\ At(g, {"prepare"}) /\ Fault("startResponse")
    /\ StartTask(TaskOf(g))
    /\ FailWith(g, "agent_error")
    /\ UNCHANGED <<daemon, polling, recover>>

\* The environment cannot be prepared in time, or the agent's run fails.
RunTaskFails(g, why) ==
    /\ At(g, {"lock", "wait", "prepare", "run"})
    /\ FailWith(g, why)
    /\ UNCHANGED <<vars, daemon, polling, recover, faults>>

RunTaskReturns(g) ==
    /\ At(g, {"run"})
    /\ MoveTo(g, "completing")
    /\ UNCHANGED <<vars, daemon, polling, recover, faults>>

\* Mutant: any status the watcher does not expect stops the agent.
InterruptOnAnyStatus(g) ==
    /\ At(g, {"wait", "prepare", "run", "completing"})
    /\ ~Is(TaskOf(g), {"dispatched", "waiting_local_directory"})
    /\ MoveTo(g, "gone")
    /\ UNCHANGED <<vars, daemon, polling, recover, faults>>

\* The cancellation watcher, or the last look before the report, finds a terminal row.
ShouldInterruptAgent(g) ==
    /\ At(g, {"wait", "prepare", "run", "completing"})
    /\ Is(TaskOf(g), Terminal)
    /\ MoveTo(g, "gone")
    /\ UNCHANGED <<vars, daemon, polling, recover, faults>>

\* Mutant: the handler writes the row without looking at its status.
ReportCompleteBlindly(g) ==
    /\ At(g, {"completing"})
    /\ MoveTo(g, "gone")
    /\ task' = [task EXCEPT ![TaskOf(g)] = [@ EXCEPT !.status = "completed", !.lease = "none"]]
    /\ todo' = todo \cup {Reconcile(task[TaskOf(g)].agent)}
    /\ UNCHANGED <<clock, agentStatus, inProgress, runtimeVars, crashes, daemon, polling, recover, faults>>

ReportComplete(g) ==
    /\ At(g, {"completing"})
    /\ MoveTo(g, "gone")
    /\ IF Is(TaskOf(g), {"running"}) THEN CompleteTask(TaskOf(g)) ELSE UNCHANGED vars
    /\ UNCHANGED <<daemon, polling, recover, faults>>

\* FailTask would insert a retry the unique index refuses.
RetryRefused(t, why) ==
    /\ retryEligible(why, task[t]) /\ ~retryDeferred(why, task[t].attempt)
    /\ ~PendingFree(task[t].agent, task[t].subject, {t})

\* A refused retry rolls the failure back on every attempt, until the daemon gives up.
ReportFail(g) ==
    LET t == TaskOf(g)
        why == claim[g].why
    IN /\ At(g, {"failing"})
       /\ MoveTo(g, "gone")
       /\ IF Is(t, Active) /\ ~RetryRefused(t, why) THEN FailTask(t, why) ELSE UNCHANGED vars
       /\ UNCHANGED <<daemon, polling, recover, faults>>

\* The server stays out of reach for the whole retry schedule.
ReportDropped(g) ==
    /\ At(g, {"completing", "failing"}) /\ Fault("report")
    /\ MoveTo(g, "gone")
    /\ UNCHANGED <<vars, daemon, polling, recover>>

-----------------------------------------------------------------------------
(***************************************************************************)
(* The daemon process and its runtimes.                                    *)
(***************************************************************************)
\* Requests in flight are cut off, goroutines end.
Cut(d) == claim' = [g \in Gens |->
    IF g \in ClaimsOf(d, {"handler"}) THEN [claim[g] EXCEPT !.phase = "abandoned"]
    ELSE IF g \in ClaimsOf(d, Local) THEN [claim[g] EXCEPT !.phase = "gone"]
    ELSE claim[g]]

DaemonCrash(d) ==
    /\ daemon[d] # "down" /\ Fault("crash")
    /\ daemon' = [daemon EXCEPT ![d] = "down"]
    /\ polling' = polling \ {d}
    /\ recover' = recover \ Hosted(d)
    /\ Cut(d)
    /\ UNCHANGED vars

\* Shutdown cancels the root context: what runs fails, and still reports that.
DaemonStops(d) ==
    /\ daemon[d] = "up" /\ Fault("stop")
    /\ daemon' = [daemon EXCEPT ![d] = "stopping"]
    /\ polling' = polling \ {d}
    /\ recover' = recover \ Hosted(d)
    /\ claim' = [g \in Gens |->
          IF g \in ClaimsOf(d, {"handler"}) THEN [claim[g] EXCEPT !.phase = "abandoned"]
          ELSE IF g \in ClaimsOf(d, {"lock", "wait", "prepare", "run"})
               THEN [claim[g] EXCEPT !.phase = "failing", !.why = "agent_error"]
          ELSE claim[g]]
    /\ UNCHANGED vars

\* The drain is over, or its 30 s are: deregister and exit.
DaemonExits(d) ==
    /\ daemon[d] = "stopping"
    /\ \/ ClaimsOf(d, Local) = {} /\ UNCHANGED faults
       \/ Fault("drain")
    /\ daemon' = [daemon EXCEPT ![d] = "down"]
    /\ Cut(d)
    /\ DaemonDeregister(Hosted(d))
    /\ UNCHANGED <<polling, recover>>

\* Mutant: the tasks of the process that died are not recovered.
DaemonStartsAfresh(d) ==
    /\ daemon[d] = "down"
    /\ daemon' = [daemon EXCEPT ![d] = "starting"]
    /\ RuntimesSeen(Hosted(d))
    /\ UNCHANGED <<claim, polling, recover, faults>>

\* The first workspace sync registers the runtimes, then recovers each one's orphans.
DaemonStarts(d) ==
    /\ daemon[d] = "down"
    /\ daemon' = [daemon EXCEPT ![d] = "starting"]
    /\ recover' = recover \cup Hosted(d)
    /\ RuntimesSeen(Hosted(d))
    /\ UNCHANGED <<claim, polling, faults>>

\* The server reports one runtime gone.  Registering again returns every runtime of the
\* daemon, and each of them is recovered while the poller and the tasks keep running.
ReregisterAfterRuntimeGone(d) ==
    /\ daemon[d] = "up" /\ Fault("reregister")
    /\ recover' = recover \cup Hosted(d)
    /\ RuntimesSeen(Hosted(d))
    /\ UNCHANGED <<claim, daemon, polling>>

RecoverOrphans(r) ==
    /\ r \in recover
    /\ RecoverOrphanedTasks(r)
    /\ recover' = recover \ {r}
    /\ UNCHANGED <<claim, daemon, polling, faults>>

\* The call fails; the daemon only logs it.
RecoverOrphansFails(r) ==
    /\ r \in recover /\ Fault("recover")
    /\ recover' = recover \ {r}
    /\ UNCHANGED <<vars, claim, daemon, polling>>

StartupDone(d) ==
    /\ daemon[d] = "starting" /\ recover \cap Hosted(d) = {}
    /\ daemon' = [daemon EXCEPT ![d] = "up"]
    /\ UNCHANGED <<vars, claim, polling, recover, faults>>

Heartbeat(r) ==
    /\ daemon[DaemonOf[r]] = "up" /\ ~(online[r] /\ fresh[r])
    /\ RuntimesSeen({r})
    /\ UNCHANGED dvars

HeartbeatsMissed(r) ==
    /\ HeartbeatsStop(r)
    /\ \/ daemon[DaemonOf[r]] = "down" /\ UNCHANGED faults
       \/ Fault("heartbeat")
    /\ UNCHANGED <<claim, daemon, polling, recover>>

-----------------------------------------------------------------------------
DInit ==
    /\ Init
    /\ claim = [g \in Gens |-> [task |-> 0, phase |-> "none", why |-> "none"]]
    /\ daemon = [d \in Daemons |-> "up"]
    /\ polling = {}
    /\ recover = {}
    /\ faults = 0

Poll(d) ==
    \/ PollBegin(d) \/ PollEnd(d)
    \/ \E t \in TaskIds : PollReclaim(d, t) \/ \E a \in Agents : PollClaim(d, a, t)

ClaimHandler(g) ==
    FinalizeTaskClaim(g) \/ ClaimResponseLost(g) \/ FinalizeFails(g)
    \/ ClaimBuildFails(g) \/ AbandonedHandlerEnds(g)

HandleTask(g) ==
    \/ ExtendLease(g) \/ WaitForLocalDirectory(g) \/ LocalDirectoryAcquired(g)
    \/ RunTaskStarts(g) \/ StartResponseLost(g)
    \/ RunTaskReturns(g) \/ \E why \in DaemonReasons : RunTaskFails(g, why)
    \/ ShouldInterruptAgent(g)
    \/ ReportComplete(g) \/ ReportFail(g) \/ ReportDropped(g)

Process(d) ==
    DaemonCrash(d) \/ DaemonStops(d) \/ DaemonExits(d) \/ DaemonStarts(d)
    \/ ReregisterAfterRuntimeGone(d) \/ StartupDone(d)

RuntimeStep(r) == RecoverOrphans(r) \/ RecoverOrphansFails(r) \/ Heartbeat(r) \/ HeartbeatsMissed(r)

\* What goes on at the server without a daemon.
Server ==
    /\ \/ Enqueue \/ Cancel \/ Continue \/ Sweep
       \/ \E t \in TaskIds : FireAtPasses(t)
       \/ \E c \in Chats : PromoteChannelChatTasksIfMediaReady(c)
       \/ \E i \in TrackedIssues : SetIssueInProgress(i)
       \/ \E W \in SUBSET todo : WorkLost(W)
    /\ UNCHANGED dvars

DNext ==
    \/ Server
    \/ \E d \in Daemons : Poll(d) \/ Process(d)
    \/ \E g \in Gens : ClaimHandler(g) \/ HandleTask(g)
    \/ \E t \in TaskIds : PrepareLeaseLapses(t)
    \/ \E r \in Runtimes : RuntimeStep(r)

\* Sweeps and polls come round again, handlers and goroutines run on, waits for a
\* directory, agents' runs and calls to the server have time limits, and a daemon that
\* is down is started again.
Fairness ==
    /\ WF_allVars(Continue /\ UNCHANGED dvars)
    /\ \A t \in TaskIds : /\ WF_allVars(PrepareLeaseLapses(t) /\ UNCHANGED faults)
                         /\ WF_allVars(FireAtPasses(t) /\ UNCHANGED dvars)
                         /\ WF_allVars(SweepStaleTasks({t}) /\ UNCHANGED dvars)
                         /\ WF_allVars(SweepExpiredQueuedTasks({t}) /\ UNCHANGED dvars)
    /\ \A d \in Daemons : /\ WF_allVars(PollBegin(d)) /\ WF_allVars(PollEnd(d))
                         /\ WF_allVars(DaemonExits(d)) /\ WF_allVars(DaemonStarts(d)) /\ WF_allVars(StartupDone(d))
    /\ \A g \in Gens : WF_allVars(ClaimHandler(g)) /\ WF_allVars(HandleTask(g) /\ claim' # claim)
    /\ \A r \in Runtimes : WF_allVars(RecoverOrphans(r))

DSpec == DInit /\ [][DNext]_allVars

FairDSpec == DSpec /\ Fairness

-----------------------------------------------------------------------------
(***************************************************************************)
(* Properties.                                                             *)
(***************************************************************************)

\* The daemons' state keeps its type; a delivery is there as soon as its dispatched_at is.
DTypeOK ==
    /\ claim \in [Gens -> Delivery]
    /\ \A g \in Gens : (TaskOf(g) # 0) <=> (g <= clock)
    /\ \A g \in Gens : ~At(g, {"none"}) <=> (g <= clock)
    /\ daemon \in [Daemons -> {"down", "starting", "up", "stopping"}]
    /\ polling \subseteq Daemons
    /\ recover \subseteq Runtimes
    /\ faults \in 0..MaxFaults

\* However often a row was dispatched, requeued and reclaimed, at most one delivery of it
\* ever runs the agent: StartTask lets one through.
OneRunPerTask ==
    \A g, h \in Gens : At(g, {"run", "completing"}) /\ At(h, {"run", "completing"})
                       /\ TaskOf(g) = TaskOf(h) => g = h

\* Handing back a claim never takes a row away from a newer delivery that reached its
\* daemon: RequeueTaskAfterClaimFailure compares dispatched_at.
RequeueSparesNewerClaim ==
    [][\A g \in Gens : At(g, {"lock", "prepare"}) /\ ClaimIsCurrent(g) => task'[TaskOf(g)].status # "queued"]_allVars

\* While nothing fails, a row that is running has a delivery that runs it or is about to
\* report it.
RunningHasOwner ==
    faults = 0 => \A t \in TaskIds :
        Is(t, {"running"}) => \E g \in Gens : TaskOf(g) = t /\ At(g, {"run", "completing", "failing"})

\* A due deferred task is promoted by the next poll of its daemon, whatever else is due.
PollNeverRefused ==
    \A d \in Daemons : PromotionFits(DueOn(Hosted(d)))

\* Every task is settled: whatever is lost, crashes or restarts on the way, a row does not
\* stay queued, deferred, dispatched, waiting or running for ever.
EveryTaskSettles ==
    \A t \in TaskIds : ~Is(t, {"none"}) ~> Is(t, Terminal)

\* The daemons' calls are calls the task queue allows for: TaskDaemon implements it.
ImplementsTaskQueue == Spec
==============================================================================
