# Multica and omnigent: TLA+ models of task and session execution

The repository holds two systems that run coding agents. **Multica** (Go, `src/server/`):
a server keeps workspaces, issues, chats and agents in PostgreSQL; daemons on the members'
machines poll it for tasks, run an agent process for each and report back; several server
replicas share one database. **Omnigent** (Python, `src/otheros/omnigent/omnigent/`): a
server keeps sessions and shows them to clients; runners on other machines connect to it by
a WebSocket tunnel, run the turns of the sessions in harness processes and stream events
back.

This project models the parts of both that have to be right under concurrency and failure:
of Multica the agent task queue, the daemon's task loop on top of it and the scheduler of
periodic jobs; of omnigent the tunnel, the turns of a session on a runner, the server's
relay of a session, the delivery of sub-agents' results, and the manager of harness
processes.

Paths of Multica are relative to `src/server/`, paths of omnigent to
`src/otheros/omnigent/omnigent/`.

## 1. Inventory

### Multica: what is modelled

**Agent task queue** (`internal/service/task.go`, `pkg/db/queries/agent.sql`).
State: a row of `agent_task_queue` per task with a status (`deferred`, `queued`,
`dispatched`, `waiting_local_directory`, `running`, then `completed`, `failed` or
`cancelled`), the prepare lease, `dispatched_at`, `attempt`/`max_attempts`,
`parent_task_id` and `escalation_for_task_id`; `agent.status`; `issue.status`.
Operations: enqueue for an issue, a chat, a quick-create or an autopilot run; promotion
of deferred rows; claim, reclaim, requeue; lease extension, local directory wait, start;
complete; fail with an automatic retry; cancel; rerun; escalation and its cancellation.
Hard: claims of several daemons, sweeps, reports and cancellations meet on one row; most
handlers commit first and do part of their work afterwards; a unique index refuses a
second pending task of an issue and agent and takes whole statements down with it.
Correct means: one active task per agent and issue or chat, capacity respected, a failure
retried once and within its budget, terminal rows final, the agent's status accurate.

**Runtime sweeper** (`cmd/server/runtime_sweeper.go`). State: `agent_runtime.status` and
`last_seen_at`. Every 30 s it marks stale runtimes offline, fails the active tasks of
offline runtimes, stale dispatched or running tasks, and expired queued ones, and hands
the rows to `HandleFailedTasks`. Hard: each step is a statement of its own.

**Daemon task loop** (`internal/daemon/daemon.go`, `internal/handler/daemon.go`,
`internal/handler/task_lifecycle.go`). State: task slots and, per delivered claim, how
far `handleTask` has come. Operations: batch poll (promote, reclaim, claim), the claim
handler that finalizes or hands back a claim, lease extension, the wait for a local
directory, start, run, the cancellation watcher, terminal reports with retries,
heartbeats, startup with registration and orphan recovery, re-registration when a runtime
is gone, shutdown with a bounded drain. Hard: lost responses make the server deliver a
task twice; a daemon can die or restart at any point. Correct means: however often a row
is delivered its agent runs once, a stale handler never takes back a newer claim, and
every task settles.

**Cron scheduler** (`internal/scheduler`). State: a row of `sys_cron_executions` per plan
(status, attempt, lease token, `stale_after`, `next_retry_at`), and where each replica is
in its tick. Operations: read the database's clock, close stale leases, plan
(`latest_only`, `every_plan` or the hook of autopilot triggers), claim by insert or by
stealing, heartbeat, run the handler, write the outcome. Hard: replicas interleave between
any two statements and die with a lease; handlers outlive their lease. Correct means: one
replica in a plan's handler at a time, nobody writes another attempt's outcome, a success
is final, lost leases are closed.

### Multica: what is not

| Component | Where | Why |
|---|---|---|
| Empty-claim cache | `internal/service/empty_claim_cache.go` | a claim is modelled as if the cache never answered; its TTL bounds the delay of a wrong answer |
| Work queue (sequential drain of prompts) | `internal/service/work_queue.go` | to the task queue its items are enqueues |
| Comment routing and coalescing | `internal/handler/comment.go` | only its enqueue and its escalation are modelled |
| Autopilot triggers and run bookkeeping | `internal/service/autopilot.go` | its schedule planner is in Scheduler, its task in TaskQueue |
| Channel engine and chat | `pkg/db/queries/chat.sql` | only deferred chat tasks and their promotion |
| Realtime hub, relay, daemon websocket | `internal/realtime`, `internal/daemonws` | they carry hints; the models let a poll come at any time |
| Event bus, version control webhooks, CRUD handlers, auth, CLI, agent backends, garbage collection, clients | | no protocol state of their own, or file system and process I/O |

### Omnigent: what is modelled

**Runner tunnel** (`runner/transports/ws_tunnel/`, `server/routes/runner_tunnel.py`). State:
the registered session of a runner (a generation: newest wins), the requests in flight on
it, the waiters for a runner that is not there, the frames under way, the runner's dispatch
tasks. Operations: register, deregister, a call with its head and its body, abort, cancel,
the receive and ping loops of the route handler, reconnecting, dispatching to the runner's
application. Hard: callers, route handlers and the runner live on different event loops and
threads; a new connection replaces the old one while calls are under way. Correct means: a
call is answered completely or fails, nobody hangs, nothing leaks, and what is left of an
old connection does not touch the new one.

**Turns of a session** (`runner/app.py`; harness end in `runtime/harnesses/_scaffold.py` and
`_executor_adapter.py`). State: the FIFO gate, the active turn, the message buffer, the
history, the interrupt flag, the published status; in the harness, the active turn and its
injections. Operations: post of a message (buffer, inject, or start), end of a turn, its
continuation, Stop, recovery after a crash or a reconnect. Hard: every await is a place for
another handler; a message that comes during a turn is both buffered and injected; a stop
awaits the harness before it cancels; recovery does not pass the gate. Correct means: one
turn at a time, no accepted message lost, a stop ends only its own turn, the gate moves on.

**Session relay** (`server/routes/sessions.py`, `runtime/inflight_text.py`, the tunnel hooks
in `server/app.py`). State: the relay task of a session and the text it has accumulated, the
replay for clients that reconnect, the transcript, the status cache and its error label, the
fence of a stop. Operations: make sure a relay listens, forward a message, read the runner's
events, flush text before tool calls and at the end, lose the stream, mark sessions offline,
recover them. Hard: the stream has no replay; appends are awaited and may fail; the relay, the
stop and two hooks write the same status. Correct means: the transcript is in order and
holds what was shown, what was shown survives a reconnect, the fence hits only stopped
turns, a runner that is away is seen.

**Sub-agent work and wake** (`runner/app.py`, `runner/tool_dispatch.py`). State: a work entry
per child, the parent's inbox, the debounce flag, posts under way. Operations: dispatch
work, report a child's end, deliver and wake, read the inbox. Hard: reports are duplicated,
wakes are debounced, posts are retried, reading awaits a policy. Correct means: each result
enters the inbox once and the parent is told of it.

**Harness process manager** (`runtime/harnesses/process_manager.py`). State: the registered
process of a conversation, its spawn lock, in-flight marks, the reaper's pass. Operations:
`get_client`, spawn, close, `release`, `_idle_reaper_loop`. Hard: spawning and closing await
for seconds; release and the reaper do not take the spawn lock; every process of a
conversation has the same socket path. Correct means: no turn loses its process to the
reaper, no process is left behind, every call returns, idle processes go.

### Omnigent: what is not

| Component | Where | Why |
|---|---|---|
| Native bridges and forwarders | `*_native*.py` | some 60 000 lines that read the files and protocols of third-party terminal programs; their logic is parsing, which a model could only transliterate |
| Command line, REPL, chat | `cli.py`, `repl/`, `chat.py` | user interface |
| Model clients, workflow, compaction | `llms/`, `inner/`, `runtime/workflow.py`, `runtime/compaction.py` | sequential, over text; a harness that streams and ends in RunnerTurns |
| Policies, approvals, elicitations | `policies/`, `runtime/pending_elicitations.py`, `runner/pending_approvals.py` | RunnerTurns lets a turn be parked on an approval at any time; the registries are the first candidates for a further module |
| Hosts and managed sandboxes | `host/`, `server/managed_hosts.py`, `server/host_registry.py` | provisioning; the host tunnel has the shape of the runner tunnel |
| Tool dispatch, MCP | `runner/tool_dispatch.py`, `runner/mcp_manager.py` | a catalogue of tools; the inbox tools are in SubagentWake |
| Stores, agents, specs, accounts, permissions, onboarding, terminals, resources, sandbox | | single rows, request filters, file-system and terminal I/O |

The modules stand for some 5 000 lines of omnigent's 330 000. The rest is mostly sequential
code over text and third-party formats; the parts above are where its tasks, threads and
processes meet.

### How they interact

*Multica.* A handler inserts a row and wakes the daemon of its runtime (a hint). The
daemon's poll promotes, reclaims and claims rows, and everything else it does is a call that
changes one row. Sweeps act on rows whose daemon is silent. `HandleFailedTasks` inserts
retries, which the next poll finds. The scheduler's autopilot job enqueues run-only tasks.

*Omnigent.* The server persists a message, makes sure that its relay listens, and posts the
message through the tunnel. On the runner it passes the gate and becomes a turn; the turn
asks the process manager for its harness and streams from it. The runner's events go back
through the tunnel to the relay, which stores and shows them. A turn that dispatches
sub-agents gets their results as a wake notice, a message like any other. When the tunnel
drops, the runner cancels the dispatch tasks of its connection (the posts at the gate
among them), the relay ends, and the hooks mark and later recover the session. Each module
has the others as its environment: SessionRelay's runner starts, emits and ends turns;
SubagentWake's parent has turns without their insides; HarnessProcs's turns ask, stream and
end one at a time, which RunnerTurns checks.

`PROJECT.json` lists the hazards of this code line by line, with the property that would
catch each of them.

## 2. Modules

| Module | Models | Composition |
|---|---|---|
| `TaskQueue` | the table, its transitions, the sweeper, agent and issue status | daemons are the environment: any call at any time |
| `TaskDaemon` | pollers, claim handlers, `handleTask`, daemon lifecycle | EXTENDS `TaskQueue`; every row it changes it changes through a TaskQueue action |
| `Scheduler` | one job in one scope on several replicas | on its own |
| `RunnerCalls` | what a call through the tunnel promises its caller | the abstract specification of `RunnerTunnel` |
| `RunnerTunnel` | registry, transport, route handler, the runner's side | INSTANCEs `RunnerCalls` with its refinement mapping |
| `RunnerTurns` | the turns of one session on a runner, with the harness | server and clients are the environment |
| `SessionRelay` | the server's relay of one session, stops, tunnel hooks | runner and tunnel as the relay sees them |
| `SubagentWake` | results of sub-agents on their way to the parent | the parent's turns without their insides |
| `HarnessProcs` | the process manager for one conversation | processes and turns are the environment |
| `*Proofs` | theorems | extend the module they are about |
| `MC*` | model values and parameters for TLC | extend the module they check |

### TaskQueue

One action is one committed transaction. `task` is the table, indexed in `created_at`
order. What a handler does after its commit is a member of `todo`: reconcile the agent's
status, the rest of `HandleFailedTasks` for each row a sweep failed, the second statement
of the offline sweep, the reset of an issue, cancelling escalations, inserting an
escalation, the second half of a rerun. Other actions interleave with it, and `WorkLost`
drops any part of it, as a dying replica or a statement whose error is only logged would.

Time is nondeterminism: `LeaseLapses`, `FireAtPasses` and `HeartbeatsStop` may come at
any moment, and a sweep may take any set of the rows whose guard allows it. A lease is
`expired` when it and the 90 s recovery window have passed, which is when a reclaim
may deliver the row again. `dispatched_at` is a counter, so that two claims of one row
differ. `max_concurrent_tasks` is a constant.

Every SQL statement is atomic. `SKIP LOCKED` only changes which of two racing claims
waits, so it does not appear. Reconciling reads and writes in one statement. The batch
claim is modelled claim by claim. `HandleFailedTasks` is modelled row by row; the maps
that keep it from visiting an issue twice in one batch are not kept. Issue status is
`in_progress` or not. Failure reasons that behave alike are one (`agent_error`). Merging a
comment into a pending task, and the follow-up for comments that came during a run, are
enqueues or nothing at all. Finalizing the transcript of a cancelled chat is left out.

### TaskDaemon

`claim[g]` is the delivery of generation `g` (one per value of `dispatched_at`): in the
claim handler, waiting for a directory, preparing, running, about to report, or gone.
`daemon[d]` is `up`, `stopping`, `down`, or `starting`. Faults are drawn from `FaultKinds`,
`MaxFaults` in all: the claim response is lost, its payload cannot be read, finalizing
fails, the prepare lease lapses
under a live daemon, the start response is lost, a terminal report is dropped after its
retries, the daemon crashes, stops, exhausts its drain, re-registers, fails to recover
orphans, or misses heartbeats.

The cancellation watcher (`ShouldInterruptAgent`) stops an agent whose row was cancelled
or is gone. A stop is the root context's cancellation, up to 30 s of drain and the
deregistration. The claim handler's rejections are one action, `ClaimBuildFails`: a task
that must not run is cancelled by its id, a failed read leaves the row dispatched until it
is reclaimed. The single-claim endpoint for older daemons is not modelled.

`ImplementsTaskQueue` states that TaskDaemon implements TaskQueue's `Spec`; the mapping
is the identity on the shared variables.

### Scheduler

Plans are the multiples of `Cadence`, named by their number. A replica's tick is one
action per statement: `RunOnce` reads the clock into `tick`, `markStaleAsFailed` closes
leases, `runJob` plans, then for each plan `tryClaimInsert`, `tryClaimSteal`, the handler
with its heartbeats, and `finish`. All of a tick uses its `tick`, except heartbeats and the
outcome, which read the clock again. `StatementFails` takes the error path of any
statement, `Crash` ends the process.

`Prompt` says that statements take no time, heartbeats come when they are due and handlers
return at `RunTimeout`: it is how `NoDoubleRun` can be asked at all, since a handler that
ignores its context runs on after its lease. `scheduler_live` and all theorems but one do
without it: whatever statements, heartbeats and handlers take, `LeaseIsHonoured` says how long a
handler keeps its lease and `SuccessIsEarned` what a late one may write. `ScheduleDelay` shifts the clock and is left
out, and so are several jobs and scopes in one tick.

### RunnerTunnel and RunnerCalls

`Conns` are the connections of one runner, used in order, each a generation of its session.
`handler[c]` is the route handler of a connection, `link[c]` its socket, `down` and `up` the
frames queued or under way. A socket that goes down keeps a prefix of either direction. What
one loop schedules on another's (`call_soon_threadsafe`) is a step of its own: `asked` are
requests whose frame is scheduled on the session's loop, and `mail[q]` is the callbacks
scheduled for a caller together with its body queue, in their order. `__aiter__` raises
an abort that has landed before it yields an item that is left, so an abort anywhere in
`mail[q]` may be taken at once.

A handler of a connection whose hello does not come, is refused (`HelloRefused`) or fails
(`HelloFails`) never registers. The last of these deregisters the runner without naming a
session, so it takes down a newer one. `aclose` is three moments: it looks whether the request is
open and schedules the cancel frame (`aclose`), the frame goes out on the session's loop
(`CancelGoesOut`), and only then is the request closed (`AcloseReturns`). A caller cancelled in
between (`AcloseCancelled`) leaves a `torn` call, whose request stays in flight while its
generation stands. CPython may later close the body's iterator when it collects it; that is not
modelled.

A request's answer is a number of chunks; request bodies, headers and the codec are left
out, and so are the WebSocket channels that the tunnel also carries. One runner suffices:
nothing in the registry relates two but the global cap on waiters, which `MaxWaiters`
is; the cap per runner behaves alike.

`RunnerCalls` has no tunnel: the application produces chunks and ends its answer, the caller
reads them in order and sees the end only when it has read all, and a call settles once.
`ImplementsCalls` is `Calls!CSpec` with `produced` and `ended` read off the runner's
dispatch task and `got` and `result` off the caller.

### RunnerTurns

One asyncio loop runs the runner, so an action is what happens between two awaits; the
harness is another process whose frames are in `wire`. A slot of the gate is taken on
arrival (`Arrive`, `ContinuationQueues`) and served in order. `post[m]` is where a message's
handler is: at the gate, loading a cold history, forwarding into the live turn, done, or
lost to a failure. `native` sessions take one message for a turn and are never injected
into. An approval that parks a turn is the freedom of `BufferMessage` not to forward.
`Forward` reaches a harness that has a turn, or one that has none any more and starts one
that nobody reads (`Rogue`). A tool call of a turn ends with it: only that `proxy_stream`
waits for it is kept.

A load of the history is a request (`LoadHistory`, `create_session`, `_catch_up_scan`) and an
answer used later (`StartCold`, `CreateRecovers`, `CatchesUp`): it has what was stored when it
was asked for, may have what was stored since, and is shorter if a page fails. The cursor moves
once per load. `_catch_up_scan` and `create_session` do not pass the gate, so a `create_session`
may start a turn while a message's handler loads (`overtaken`), or write an older answer over the
history (`overwritten`). A turn ends with `idle`, with `waiting` if sub-agents work (`running`
to a server that does not know `waiting`), or with `failed`; `muted` are the statuses that are
left to the observer of a native terminal. A stop posts an interrupt after an await and then
cancels the turn it was for. The interrupt cuts whatever turn the harness is in (`cut`).

The history is its user messages; what the model answers, the items appended for a
cancelled turn and compaction are left out. Messages of native sessions are not stored by the
server but by the mirror of their terminal, which is not modelled. A post that asks for the
stream itself (`stream`, `runner/app.py:15177-15207`) is not modelled: the server's forward
(`server/routes/sessions.py:8824`) does not ask for it.

### SessionRelay

An action is what happens between two awaits of the server's loop; an append is a step of
its own. The runner is an environment that starts turns for queued messages, emits text and
tool calls, and ends turns with a terminal event and a status, a status alone (a stop, or
`failed` after a context overflow or a failed drain, a `cut` turn), or a failure;
what it sends while nobody is subscribed is gone. A forward that fails because its tunnel drops
(`broken`, `ForwardFails`) or is not there publishes `idle`. Forwards and the relay do not time
out while the tunnel stands: the server reaches runners through `WSTunnelTransport` only
(`runner/routing.py:252-256`), which does not read httpx's timeouts, so that the ones at
`server/routes/sessions.py:8827` and `:9584` have no effect. `acc` is the relay's `text_acc`, `inflight`
the replay of `inflight_text`, `header` the turn its entry is for. `fenced`, `missed`,
`unsaved` and `drops` are history variables: turns a stop was for, turns whose first event
nobody heard, failed appends, losses of the tunnel. Outputs are numbered over all turns, so
that the order of the transcript can be stated. `MaxLag` bounds the events unread when the
runner sends more.

Left out: reasoning, usage and error items, compaction, elicitations, the statuses a policy's
denial publishes (`server/routes/sessions.py:18808-18820`), the previews of
native sessions (they have no in-flight entry of this kind), the forwarder of a
sub-agent's events. Several sessions of a runner do not share state here.

### SubagentWake

`entry[c]` is the child's work entry, by the number of its registration, which stands for
`work_id`. A report may be a duplicate, may come from the child's turn or from a terminal,
and may have to rebuild the entry from the server's snapshot, over one that came meanwhile. The
runner may have just restarted: children are at work, it has no entries, and reports are refused
until the parent is back (`home`, `ParentReturns`). Several messages to one child can be under
way once its work is terminal, and one that fails drops the entry of them all. A wake post is
retried `MaxAttempts` times with its answer lost or the post refused; a post that the server
denied or could not forward is answered like one it took (`PostSwallowed`).

History variables: `untold` and `excused` are results delivered since the parent last took a
notice, and those of them whose wake the code gives up (a post that failed for good or was
swallowed, a stop before the turn began, a turn for another message that clears the flag, a
failed send that removes the entry); `lost` says that the flag is that of a swallowed post;
`owed[c]` is how often the child was started less how often its end was delivered; `again` are the
children whose end may be delivered twice (a lookup that raced a delivery, a failed send that
took a delivered entry).

### HarnessProcs

One conversation, since the manager's state is per conversation but for the reaper's pass,
whose other conversations are the time between `_idle_reaper_loop` and `ReapListed`.
`call[g]` is a `get_client` and the turn or post behind it, `shut[t]` the `_close_entry` a
task is in, `sock` whose listener is at the socket path. A turn asks for one of `Kinds`
(harness and model) and `create_session` does too, also beside a turn; interrupts and forwards
ask for `"any"`. `Keeps` says which process suits which request: a request that names no model
keeps one of its harness with any model. A turn may first release the process it finds, for a
newer agent version (`TurnReleases`). The probe of the socket and `chmod` are two steps. `used` says that `last_used_at` is
after the reaper's next cutoff. A turn is assumed to open its stream within the half hour
of the idle timeout. `left` holds the processes the manager loses: a stop cancelled the spawn or
the close, or `chmod` found no socket file.

## 3. Runs

| Run | Instance | Properties |
|---|---|---|
| `queue_issue` | one agent, one tracked issue, two inputs, three rows, two claims, one loss of work | `TypeOK`, `SerialExecution`, `RetryChains`, `AgentStatusAccurate`, `TerminalIsFinal` |
| `queue_escalation` | two agents, a routed comment with a fallback, a run-only subject | `EscalationWaits` |
| `daemon_faults` | one task, three claims, up to three of twelve kinds of fault | `OneRunPerTask`, `RequeueSparesNewerClaim`, `ImplementsTaskQueue` |
| `daemon_live` | two daemons with one runtime each, one chat task and its retry, one fault | `EveryTaskSettles` |
| `scheduler_live` | two replicas, two plans of autopilot's planner, two attempts, one fault, any timing | `SuccessIsEarned`, `SuccessIsFinal`, `LeaseIsHonoured`, `LeasesAreClosed` |
| `tunnel` | one call, two waiters and a cap of one, two connections, two faults | `NobodyHangs`, `NothingLeaks`, `ImplementsCalls`, `StaleHandlerIsHarmless`, `EveryCallSettles` |
| `turns` | two messages, a stop, a recovery, three turns, one fault, native or not, warm or cold | `OneTurnAtATime`, `GateMovesOn`, `NoneLost`, `StatusHonest`, `FlagIsClean`, `EveryMessageRuns` |
| `relay` | two turns, two outputs, a stop, one fault | `TranscriptInOrder`, `NothingVanishes`, `NoGhost`, `FenceIsAimed`, `OfflineShown`, `ShownIsStored` |
| `wake` | two children, two reports, two dispatches, one user message, one fault, restarted or not | `Announced`, `DeliveredOnce`, `OpenWorkStays`, `EveryResultAnnounced` |
| `procs` | a turn, a `create_session`, an `"any"` call, a release, the reaper, two processes, one fault | `TurnIsSpared`, `NoStray`, `SideCallsAreHarmless`, `EveryCallReturns`, `IdleIsReaped` |
| `daemon_retry_refused` | violation | `RunningHasOwner` |
| `turns_gate` | violation | `GateNeverStalls` |

Further instances, to be checked by hand with `tlc -config <file> <MC module>`. They hold:
`TaskQueueChat` (`QueuedRetryGoesFirst`), `TaskQueueMixed` (`WithinCapacity`,
`AgentStatusAccurate` over two kinds of subject), `TaskDaemonTypes` (`DTypeOK`),
`SchedulerSlow` (`STypeOK` and the safety of `scheduler_live`, with three plans of `latest_only`),
`RunnerTunnelTypes` (`TunnelTypeOK`, `WaitersCounted`), `RunnerTurnsTypes` (`TurnsTypeOK`),
`SessionRelayTypes` (`RelayTypeOK`, `ShownOnce`, `HeardFromTheStart`),
`SubagentWakeTypes` (`WakeTypeOK`, `FlagIsLive`, two user messages), `HarnessProcsTypes`
(`ProcsTypeOK`, `RightHarness` and the invariants of `procs`, with two turns and three processes).
They are violated, as section 5 explains: `TaskQueueStatus`,
`TaskDaemonPromotion`, `SchedulerDoubleRun`, `RunnerTunnelCancel`, `RunnerTurnsRogue`,
`RunnerTurnsDoubled`, `RunnerTurnsStop`, `SessionRelayStopped`, `SubagentWakeStranded`, `HarnessProcsSocket`.

Why the bounds are enough: two rows of one issue and a third for a retry are what an
exclusion, a retry that competes with a newer input, or a collision in the unique index
needs; two claims of one row are what a duplicate delivery needs, a third lets the
second go wrong too. `retryAttemptCeiling` is 3, so a chain of three rows exhausts it.
Every fault of the daemon is a step of one actor, and two of them in a row, with a
recovery in between, fit in three. In the scheduler the second plan is what supersedes
the first, and `MaxTime` leaves room for a lease taken at the first plan to go stale, be
closed and be retried.

One call over two connections meets every replacement, and the second waiter meets the cap;
callers share nothing but the session. Two messages and a recovery are three turns, enough for
a message that waits behind a turn, a continuation that meets a newer turn, and a stop whose
turn is over. Two outputs are text and the call behind it, or text of two turns. Two dispatches
are two children at once, or one child that is given new work. A turn, a `create_session` and
two processes are a replacement under a turn. One fault at a time is what each recovery path is written for.

`MaxRoots`, `MaxTasks`, `MaxClaims`, `MaxCrashes`, `MaxFaults` and
`MaxTime`, `MaxConns`, `MaxChunks`, `MaxTurns`, `MaxOut`, `MaxLag`, `MaxWorks`, `MaxMsgs` and
`MaxSpawns` are bounds; everything else is a parameter. Deadlock is not checked: with the
bounds exhausted and nothing to do, the system rests.

### Fairness

`FairDSpec` assumes that polls, sweeps and heartbeats recur, that a handler and a delivery
run on, that a lease and a `fire_at` pass in time, and that a daemon that went down is
started again: tickers and supervised processes. Nothing is assumed of faults, members or
agents beyond that an agent's run ends. The code does not see to that by default:
`DefaultAgentTimeout` is 0, and only an operator's limit or the agent's own end bounds a run. `daemon_live` leaves two
fault kinds out: a dropped complete report leaves the row running on purpose
(`internal/daemon/daemon.go`, comment in `reportTaskResult`), and a recovery that fails is
retried only by the next start, so that such a row waits for it.

`FairSSpec` assumes that tickers fire, handlers return, heartbeats are sent and time goes on;
ticks recur when the clock has reached `MaxTime`.

`FairTSpec`: event loops run what is scheduled on them, a lost socket is noticed on either
side (pings), and the application ends an answer it has begun; nothing is assumed of
reconnects. `FairTurnsSpec`: ready tasks run, loads and forwards end (they have timeouts), a
turn ends (its watchdogs see to that); one condition on all of these steps is enough. `FairWakeSpec`: a post is answered, a turn begins,
ends and has its continuation, a read of the inbox goes on. `FairProcsSpec`: tasks that can go
on do, a started process listens unless it crashes, turns end, time passes. Failures,
stops, messages and reports are never fair. SessionRelay has no liveness property: what its
clients wait for is the runner's.

## 4. Proofs

TLAPS proves the following for every value of the constants that satisfies the `ASSUME`s
(disjoint subjects, typed parameters, natural bounds, the inequalities that
`JobSpec.validate` enforces).

| Theorem | States |
|---|---|
| **TaskQueueProofs** | |
| `TypeCorrect` | `Spec => []TypeOK` |
| `SerialExecutionHolds` | `Spec => []SerialExecution` |
| `WithinCapacityHolds` | `Spec => []WithinCapacity` |
| `TerminalIsFinalHolds` | `Spec => TerminalIsFinal` |
| `RetryChainsHold` | `Spec => []RetryChains` |
| `EscalationWaitsHolds` | `Spec => []EscalationWaits` |
| `QueuedRetryGoesFirstHolds` | `Spec => QueuedRetryGoesFirst` |
| `StatusInvariant` | `Spec => []StatusInv`: the status is accurate of agents that are nobody's fallback |
| `AgentStatusAccurateHolds` | `Spec => []AgentStatusAccurate`, if `Fallbacks = {}` |
| **TaskDaemonProofs** | |
| `DaemonImplementsQueue` | `DSpec => ImplementsTaskQueue` |
| `OneRunPerTaskHolds` | `DSpec => []OneRunPerTask` |
| `RequeueSparesNewerClaimHolds` | `DSpec => RequeueSparesNewerClaim` |
| `DaemonTypeCorrect` | `DSpec => []DTypeOK` |
| **SchedulerProofs** | |
| `SchedulerTypeCorrect` | `SSpec => []STypeOK` |
| `SuccessIsEarnedHolds` | `SSpec => []SuccessIsEarned` |
| `SuccessIsFinalHolds` | `SSpec => SuccessIsFinal` |
| `LeaseIsHonouredHolds` | `SSpec => LeaseIsHonoured` |
| `NoDoubleRunHolds` | `SSpec => []NoDoubleRun`, if `Prompt` and a tick runs one plan |
| **RunnerTunnelProofs** | |
| `TunnelTypesHold` | `TSpec => []TunnelTypeOK` |
| `NobodyIsLeftToHang` | `TSpec => []NobodyHangs` |
| `InFlightNeverLeaks` | `TSpec => []NothingLeaks` |
| `StaleHandlersAreHarmless` | `TSpec => StaleHandlerIsHarmless` |
| `WaitersAreCounted` | `TSpec => []WaitersCounted` |
| `TunnelImplementsCalls` | `TSpec => ImplementsCalls` |
| **RunnerTurnsProofs** | |
| `GateKeepsMoving` | `TurnsSpec => []GateMovesOn` |
| `NoMessageIsLost` | `TurnsSpec => []NoneLost` |
| `OneTurn`, `NoSpinner`, `StopTaintsNoOther` | `TurnsSpec => []OneTurnAtATime`, `[]StatusHonest`, `[]FlagIsClean` |
| **SessionRelayProofs** | |
| `RelayTypes` | `RelaySpec => []RelayTypeOK` |
| `TranscriptStaysInOrder` | `RelaySpec => []TranscriptInOrder` |
| `TextIsShownOnce` | `RelaySpec => []ShownOnce` |
| `NothingShownVanishes` | `RelaySpec => []NothingVanishes` |
| `NoTurnHaunts` | `RelaySpec => []NoGhost` |
| `FenceTakesTheStopped` | `RelaySpec => []FenceIsAimed` |
| `OfflineIsShown` | `RelaySpec => []OfflineShown` |
| `TurnsAreHeard` | `RelaySpec => []HeardFromTheStart` |
| `WhatIsShownIsStored` | `RelaySpec => []ShownIsStored` |
| **SubagentWakeProofs** | |
| `WakeTypes` | `WakeSpec => []WakeTypeOK` |
| `ResultsComeOnce` | `WakeSpec => []DeliveredOnce` |
| `OpenWorkIsKept` | `WakeSpec => OpenWorkStays` |
| `NoResultGoesUnannounced` | `WakeSpec => []Announced` |
| `FlagNeverOutlives` | `WakeSpec => []FlagIsLive` |
| **HarnessProcsProofs** | |
| `ProcsTypeCorrect` | `ProcsSpec => []ProcsTypeOK` |
| `TurnIsSparedHolds` | `ProcsSpec => []TurnIsSpared` |
| `NoStrayHolds` | `ProcsSpec => []NoStray` |
| `SideCallsAreHarmlessHolds` | `ProcsSpec => []SideCallsAreHarmless` |
| `RightHarnessHolds` | `ProcsSpec => []RightHarness` |

Two theorems have hypotheses beside the `ASSUME`s of the modules, each because the statement
is false without it and an instance shows that: `Fallbacks = {}` (`TaskQueueStatus`) and one plan
a tick (`SchedulerDoubleRun`). `Prompt` is the assumption of the lease itself: a holder that is
slow by more than its lease is taken for dead. The code guarantees neither of the last two, so
`NoDoubleRunHolds` says when leases suffice, and `LeaseIsHonouredHolds`, which has no hypothesis,
what holds in any case.

Where the code does not keep what its comments promise, the property names the exception by
a history variable or a state of its own, and is proved with it: `overtaken` and `overwritten`
(RunnerTurns), `torn` (RunnerTunnel), `cut` and `drops` (SessionRelay), `lost`, `excused` and
`again` (SubagentWake), `left` (HarnessProcs). Each is set in the one action that is the exception,
so that the theorem says that there is no other.

*TaskQueue.* The typing of rows is inductive with the typing of `todo`: a rest of work may
name any row, and a row that is named must exist for the step that uses it to stay typed.
Exclusion and capacity are each inductive given the types. Only `ClaimTask` and reclaim
make a row active; a claim checks exclusion and capacity in the transaction that
dispatches, and every other step leaves the set of active rows or shrinks it. The capacity
proof needs that the active set is finite and that a claim adds one element
(FiniteSetTheorems). `TerminalIsFinal` has one case per action: each one's guard or row
filter excludes terminal rows.

Retries and escalations are about what is inserted, so every action is first shown to satisfy
`Grows`: it inserts at most one row, which is an input's, an escalation some handler had left to
insert, or a retry of a failure that is new or was left to handle. `RetryChains` then needs
`FailuresOpen` (a failure in `todo` is failed and has no retry yet), which is why `FailTask` and
the sweep cannot both retry; `EscalationWaits` needs `FallbacksOpen` (an escalation in `todo` is
its primary's only one, not inserted yet, and for another agent). `QueuedRetryGoesFirst` needs
the ranks of a session's rows, `ChatInv`: messages have one priority, retries a higher one, and
all are the session's agent's, so the order by priority of the claim puts the retry first. For
the status, `Told` says that no step changes whether a row is active without leaving a
reconciliation of its agent in `todo`, or making it; cancelling an escalation is the one
exception, so that `StatusInv` speaks of the agents that are nobody's fallback.

*TaskDaemon.* `DaemonImplementsQueue` maps each daemon action to the TaskQueue action it
contains, or to a stutter. `OneRunPerTask` is not inductive: its strengthening `RInv`
adds that a delivery that runs its agent belongs to a row that has left
`dispatched` and `waiting_local_directory` for good. Of two deliveries of one row, the first
`StartTask` moves the row on, and the second one's `StartTask` is refused.
`RequeueSparesNewerClaim` follows from `HandBackStep`: of all steps only one that compares
`dispatched_at` with the claim it returns turns a dispatched row back to queued, so the claim
that is current is the returned one. `DTypeOK` needs `Delivered`: a delivery is there exactly
if its `dispatched_at` has been given out, and a claim makes one.

*Scheduler.* `SInv` adds to the types that a replica in a handler names its plan and its
attempt (`HolderOK`) and that one about to write a success has a handler that succeeded
under its token (`OutcomeOK`). The terminal write compares the token, so the row it
turns into a success is the attempt that earned it.
`NoDoubleRun` is inductive with `AloneInv`: whoever may still claim began its tick at the
present time (`TicksAreFresh`) and has one plan at most (`PlansAreSingle`), whoever runs
holds the lease of its plan under its own token with a heartbeat that is not overdue
(`LeasesAreGood`, `TokensApart`). As `HeartbeatInterval < StaleTimeout`, that lease cannot be
stale at a time at which anyone else claims. A second plan of the same tick would be claimed
with the lease dated from the beginning of the tick, and `TicksAreFresh` is what breaks.

`LeaseIsHonoured` needs `LeaseInv`: tokens are apart, so that no other replica's heartbeat or
terminal write touches a lease; ticks lie in the past; and a lease that is held is good for
`StaleTimeout` from its tick and its last heartbeat (`LeasesAreDated`). Sweep and steal compare
with their own tick, which is not after the present.

*RunnerTunnel.* `RegistryInv` (types, who has a session, what is registered) gives the three
properties of the registry. The refinement needs to know what has been lost. `AnswersInv`
counts: the chunks a caller has read, those in its mail and those on its connection are
together what the application produced as long as the socket is up, or if the end of the answer
got through, and nothing of an answer is behind its end. So an end that is read comes after all
chunks, which is what `RunnerCalls` allows; every other step of the tunnel maps to a read, a
settled call, or a stutter. `WaitersInv` ties `total` to the places taken.

*RunnerTurns.* Actions are reduced to their effect on the gate, on the turns and on the stops,
and the invariants are about the effects. `TurnsInv` gives the gate: no two keep the same slot
and every slot that was given out and not passed is kept (`SlotsCovered`), by a waiter or by a
post that was cancelled. `NoneLost` is inductive with the types of the sequences and with a cold
session having accepted nothing (`KeepInv`): each step that takes a message off the buffer puts
it into the history, and the two that replace the history name what they drop. One turn, the status
and the flag are inductive together (`AloneInv`): a turn is started where there is none, but for
a message whose load was overtaken, and what ends a turn clears its flag and shows its end.

*SessionRelay.* Again by effects: six ways to read an event, six steps between two reads, what
the runner says, and steps that touch no output. `Link` ties the hooks of the tunnel and the
relay's slot to the status (`OfflineShown`, `HeardFromTheStart`). `Ghost` adds to `NoGhost` that
the last unread event of a runner at rest is a status. `Fences` says that output a fence is not
for has its turn's `running`, which lifts the fence, ahead of it. `Behind` (everything told
or stored was made before all that is unread) and `Filed` (the text on hand is in order and not
stored, but between a commit and the step that clears it) give the transcript. `Turned` (turns
follow each other on the wire) and `StaleIsOver` (text that no flush will store belongs to a
turn that has said all) give the half of `NothingVanishes` that goes by the replay's entry, and `Held` (while no tunnel is
lost, shown text of the turn the runner is in is on hand or stored) the half that goes by the
runner; `Stored` gives `ShownIsStored`.
`NothingVanishes` speaks of text since which no other turn spoke. Without that clause it is
false: after a lost tunnel the fence of a stop may take the `response.created` of the next turn,
so that the entry still names the turn before while the flush of the next one clears it.

*SubagentWake.* Four invariants, each resting on those before: the types; `ResultsInv`, that
a result is in one place and that of open work nowhere; `Owing`, that outside `again` an
entry still to be delivered belongs to a start that is still owed its end; and `WakeInv`, where `Announced` is
inductive only with `Covered`: a result the parent must still learn of is in the inbox with an
entry that the check at the end of a turn finds.

*HarnessProcs.* One inductive invariant, `ProcsInv`, gives all five. The three properties of
the run are not inductive: what a step may take depends on who else may hold the process.
`LockHeld` makes the callers between "close" and "bind" one at a time. `BindingIsNew` and
`TakenIsGone` say that the process that is waited for is its caller's alone and that what a
release or the reaper closes is no longer registered, since they go without the lock.
`ReplacedIsDead` is what `NoStray` needs when a new entry takes the place of an old one, and
`ClosedIsHeld` what it needs when a stop cancels a close half-way. `TurnMarks` (a turn that
has its client was seen as used, one that streams is in flight) with `OneTurn` is what the
reaper's second look relies on.

The inductive invariants also hold on the instances of the runs, where TLC has checked them
(`SlotsCovered` with its slots bounded). Every safety property and the two refinements that the passing runs check are proved.
Only model-checked is liveness, which the prover does not reach: `EveryTaskSettles`,
`LeasesAreClosed`, `EveryCallSettles`, `EveryMessageRuns`, `EveryResultAnnounced`,
`EveryCallReturns` and `IdleIsReaped`.

## 5. What the violation runs show

* **`daemon_retry_refused`.** A second comment may queue a task while the first task runs.
  When the first then fails for a retryable reason, `FailTask` inserts the retry in the
  same transaction, the unique index refuses it, the failure rolls back, and every attempt
  of the daemon to report ends the same way. The row stays `running` with nobody left to
  report it.
* **`turns_gate`.** A post that waits for its slot is cancelled when the tunnel drops
  (`_cancel_dispatch_tasks`). Its wait is before the `try` whose `finally` serves the next
  slot, so the slot is never served and no later message of the session gets past the gate,
  until the runner restarts. `runner/app.py:15230-15232` means to rule that out. `GateMovesOn`
  says that this is the only way the gate stalls.

Further disagreements between the code and what is said of it, each with an instance that
shows it (section 3):

* `TaskDaemonPromotion`: a deferred retry that comes due beside a pending task of its issue
  and agent makes the promotion of all rows, and so every poll, fail.
* `TaskQueueStatus`: cancelling an escalation that was dispatched does not reconcile the
  fallback agent, which stays at `working`.
* `SchedulerDoubleRun`: a tick's claims are all dated from its beginning; after a plan whose
  handler took its time the next lease is stale before its first heartbeat.
* `RunnerTunnelCancel`: a caller cancelled while it awaits a chunk closes the request in
  `__aiter__`'s `finally`, so that `aclose` finds nothing open and sends no `request.cancel`
  (`transport.py:76-80` says the runner aborts).
* `RunnerTurnsRogue`: a message forwarded for injection can reach the harness after its turn
  has ended and starts a turn there that nobody reads; while its answer is read to the end the
  gate is held, and the message, still buffered, runs again.
* `RunnerTurnsDoubled`: `_catch_up_scan` appends the server's items behind its cursor, which
  posts with a warm history do not move, so that messages the runner has are appended again.
* `RunnerTurnsStop`: the interrupt of a stop is posted after an await and names no turn, so it
  may cut a continuation that began meanwhile (`runner/app.py:12915-12919` means the stop to
  leave a later turn alone; the cancellation that follows does).
* `SessionRelayStopped`: a stop that ends a turn with a status alone leaves the text before
  it in `text_acc`, and the next turn's `running` clears it without storing it
  (`server/routes/sessions.py:9779-9781` says the flush after a stop carries it).
* `SubagentWakeStranded`: a turn for another message clears the wake flag and does not look at
  the inbox; results whose notice was debounced by the flag then wait for the next result.
* `HarnessProcsSocket`: `release` and the reaper close a process without the spawn lock, and
  the clean-up removes the file at the socket path, by then a newer process's.

Observations that the models contain and no run is spent on:

* while a post loads a cold history a `create_session` may recover the session and start a turn;
  the post does not look again and starts its own (`overtaken`), and a `create_session` may
  write an older history over one that has grown (`overwritten`);
* a handler that fails before it registers takes down the runner's newer session
  (`server/routes/runner_tunnel.py:595`; `registry.py:313-316` speaks of stale handlers), and a
  caller cancelled inside `aclose` leaves its request in flight (`torn`);
* a turn that ends with `failed` alone loses the text it has shown (`cut`;
  `server/routes/sessions.py:9774-9778` flushes at terminal events only);
* a wake that the server denied or could not forward is answered 2xx, and the flag then debounces
  every result until the parent has a turn for another reason (`lost`);
* two reports that look up one child at a time deliver its end twice, and a message that fails takes
  the entry of a newer one with it (`again`, `OpenWorkStays`);
* a stop that cancels a turn in `_wait_for_bind` or in its own `release`, or a socket file that is
  gone when `chmod` comes, leaves a process that nothing in the manager knows of (`left`);
* the second retry after a `provider_network` failure is deferred, and a newer message of
  the session can be claimed before it, although `pkg/db/queries/agent.sql:375-376` says
  that no window is left;
* `FailTask` does not go through `HandleFailedTasks` (`internal/service/task.go:3757-3759`
  says it does), so an `in_progress` issue whose last task a daemon reports failed is not
  reset;
* `HandleFailedTasks` checks for active tasks and resets the issue in two statements;
* re-registration after one runtime was gone recovers orphans on all runtimes of the
  workspace, the ones that are executing tasks included
  (`internal/daemon/daemon.go:897-900` assumes all were gone);
* a stale lease of a job with `AllowStaleReentry = false` is retried by the FAILED branch of
  `tryClaim`, although `internal/scheduler/spec.go:145-147` demands a manual repair;
* an occurrence that waits for its backoff is passed by when a newer one comes due
  (`internal/scheduler/jobs_autopilot.go:254-256` means to prevent that);
* an empty `RetryBackoff` retries at once (`internal/scheduler/spec.go:155-156` says it
  disables retry).

## 6. Plan

1. Modules: the empty-claim cache with an abstract specification of what a hit promises, the
   work queue, the registries of elicitations and approvals.
2. Theorems about those, in the modules of proofs of the components they belong to: that a cached
   "empty" never hides a row that was enqueued before it was read.
