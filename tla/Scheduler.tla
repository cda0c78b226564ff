------------------------------ MODULE Scheduler ------------------------------
(***************************************************************************)
(* The execution-record scheduler of internal/scheduler: every replica     *)
(* ticks the same job, a row of sys_cron_executions per plan is both the   *)
(* lease and the audit entry.  One job and one scope; the plan times are   *)
(* the multiples of Cadence, named by their number.                        *)
(*                                                                         *)
(* A tick is a sequence of statements: read the database's clock, close    *)
(* stale leases, plan, then claim (insert, else steal), run the handler    *)
(* and write its outcome, plan by plan.  Other replicas run in between.    *)
(***************************************************************************)
EXTENDS Integers

CONSTANTS
    Runners,
    Mode,              \* the planner: "latest_only", "every_plan", or autopilot's "hook"
    Cadence, CatchUpWindow, MaxPlansPerTick, MaxLateness,
    RunTimeout, StaleTimeout, HeartbeatInterval, MaxAttempts,
    AllowStaleReentry,
    RetryBackoff,      \* [1..BackoffLen -> Nat], empty when BackoffLen = 0
    BackoffLen,
    Prompt,            \* statements take no time, heartbeats are on time, handlers heed RunTimeout
    MaxTime,           \* bound: the database's clock
    MaxFaults          \* bound: replicas that die and statements that fail

Plans == 1..(MaxTime \div Cadence)

ASSUME SchedulerModes == Mode \in {"latest_only", "every_plan", "hook"}
ASSUME SchedulerTimes ==
    /\ Cadence \in Nat \ {0} /\ CatchUpWindow \in Nat /\ MaxPlansPerTick \in Nat \ {0} /\ MaxLateness \in Nat
    /\ RunTimeout \in Nat \ {0} /\ StaleTimeout \in Nat /\ RunTimeout < StaleTimeout
    /\ HeartbeatInterval \in Nat \ {0} /\ HeartbeatInterval < StaleTimeout
    /\ MaxAttempts \in Nat \ {0}
    /\ BackoffLen \in Nat /\ RetryBackoff \in [1..BackoffLen -> Nat]
ASSUME SchedulerFlags == AllowStaleReentry \in BOOLEAN /\ Prompt \in BOOLEAN
ASSUME SchedulerBounds == MaxTime \in Nat /\ MaxFaults \in Nat

VARIABLES
    row,      \* sys_cron_executions, by plan
    runner,   \* where each replica is in its tick
    now,      \* the database's clock
    tokens,   \* lease tokens handed out
    earned,   \* tokens whose handler has returned without an error
    faults

svars == <<row, runner, now, tokens, earned, faults>>

Execution == [status : {"none", "RUNNING", "SUCCESS", "FAILED"}, attempt : Nat, token : Nat,
              staleAfter : Nat, nextRetryAt : Nat]        \* nextRetryAt 0 is NULL

Replica == [pc : {"idle", "sweep", "plan", "claim", "steal", "run", "finish"}, tick : Nat,
            plans : SUBSET Plans, plan : {0} \cup Plans, token : Nat, attempt : Nat,
            started : Nat, beat : Nat, ok : BOOLEAN]

Idle == [pc |-> "idle", tick |-> 0, plans |-> {}, plan |-> 0, token |-> 0, attempt |-> 0,
         started |-> 0, beat |-> 0, ok |-> FALSE]

At(r, pcs)   == runner[r].pc \in pcs
IsFirst(p, S) == p \in S /\ \A q \in S : p <= q

Found  == {p \in Plans : row[p].status # "none"}
latestPlan == IF Found = {} THEN 0 ELSE CHOOSE p \in Found : \A q \in Found : q <= p

-----------------------------------------------------------------------------
(***************************************************************************)
(* Planning.                                                               *)
(***************************************************************************)
RetryEligible(p, t) ==
    /\ row[p].status = "FAILED" /\ row[p].attempt < MaxAttempts
    /\ row[p].nextRetryAt <= t

\* The newest plan that is due at t.
FloorPlan(t) == t \div Cadence

\* The oldest plan that every_plan still looks at.
OldestAllowed(t) ==
    IF CatchUpWindow = 0 THEN FloorPlan(t) ELSE (t - CatchUpWindow + Cadence - 1) \div Cadence

\* Only the newest stored plan is looked at: start with it again, or behind it.
EveryPlan(t) ==
    LET start == IF latestPlan = 0 THEN FloorPlan(t)
                 ELSE IF RetryEligible(latestPlan, t) THEN latestPlan ELSE latestPlan + 1
        first == IF start < OldestAllowed(t) THEN OldestAllowed(t) ELSE start
    IN {p \in Plans : first <= p /\ p <= FloorPlan(t) /\ p < first + MaxPlansPerTick}

\* autopilotPlansForScope: the newest stored plan again, or the newest one due if not late.
HookPlans(t) ==
    IF latestPlan # 0 /\ RetryEligible(latestPlan, t) THEN {p \in Plans : p = latestPlan}
    ELSE {p \in Plans : p = FloorPlan(t) /\ p > latestPlan /\ t - p * Cadence <= MaxLateness}

plansForTick(t) ==
    CASE Mode = "latest_only" -> {p \in Plans : p = FloorPlan(t)}
      [] Mode = "every_plan"  -> EveryPlan(t)
      [] Mode = "hook"        -> HookPlans(t)

-----------------------------------------------------------------------------
(***************************************************************************)
(* A tick.                                                                 *)
(***************************************************************************)
\* Ticks of one replica are an interval apart; they go on when the modelled time has ended.
RunOnce(r) ==
    /\ At(r, {"idle"}) /\ (runner[r].tick < now \/ now = MaxTime)
    /\ runner' = [runner EXCEPT ![r] = [Idle EXCEPT !.pc = "sweep", !.tick = now]]
    /\ UNCHANGED <<row, now, tokens, earned, faults>>

Stale(p, t) == row[p].status = "RUNNING" /\ row[p].staleAfter < t

\* Mutant: only jobs that must not be re-entered have their stale leases closed.
markStaleUnlessReentrant(r) ==
    /\ At(r, {"sweep"})
    /\ row' = [p \in Plans |-> IF Stale(p, runner[r].tick) /\ ~AllowStaleReentry
                               THEN [row[p] EXCEPT !.status = "FAILED"] ELSE row[p]]
    /\ runner' = [runner EXCEPT ![r].pc = "plan"]
    /\ UNCHANGED <<now, tokens, earned, faults>>

\* For every job, re-entrant or not.
markStaleAsFailed(r) ==
    /\ At(r, {"sweep"})
    /\ row' = [p \in Plans |-> IF Stale(p, runner[r].tick) THEN [row[p] EXCEPT !.status = "FAILED"] ELSE row[p]]
    /\ runner' = [runner EXCEPT ![r].pc = "plan"]
    /\ UNCHANGED <<now, tokens, earned, faults>>

runJob(r) ==
    /\ At(r, {"plan"})
    /\ runner' = [runner EXCEPT ![r].pc = "claim", ![r].plans = plansForTick(runner[r].tick)]
    /\ UNCHANGED <<row, now, tokens, earned, faults>>

\* Both claims date the lease from the beginning of the tick.
Leased(p, r) ==
    [status |-> "RUNNING", attempt |-> row[p].attempt + 1, token |-> tokens + 1,
     staleAfter |-> runner[r].tick + StaleTimeout, nextRetryAt |-> 0]

Claim(r, p) ==
    /\ row' = [row EXCEPT ![p] = Leased(p, r)]
    /\ tokens' = tokens + 1
    /\ runner' = [runner EXCEPT ![r].pc = "run", ![r].plans = @ \ {p}, ![r].plan = p, ![r].token = tokens + 1,
                                ![r].attempt = row[p].attempt + 1, ![r].started = now, ![r].beat = now]

tryClaimInsert(r, p) ==
    /\ At(r, {"claim"}) /\ IsFirst(p, runner[r].plans)
    /\ IF row[p].status = "none"
       THEN Claim(r, p)
       ELSE UNCHANGED <<row, tokens>> /\ runner' = [runner EXCEPT ![r].pc = "steal"]
    /\ UNCHANGED <<now, earned, faults>>

\* Mutant: whatever is not running may be claimed.
StealableDone(p, t) ==
    /\ row[p].attempt < MaxAttempts
    /\ \/ row[p].status # "RUNNING" /\ row[p].nextRetryAt <= t
       \/ Stale(p, t) /\ AllowStaleReentry

Stealable(p, t) ==
    /\ row[p].attempt < MaxAttempts
    /\ \/ row[p].status = "FAILED" /\ row[p].nextRetryAt <= t
       \/ Stale(p, t) /\ AllowStaleReentry

tryClaimSteal(r, p) ==
    /\ At(r, {"steal"}) /\ IsFirst(p, runner[r].plans)
    /\ IF Stealable(p, runner[r].tick)
       THEN Claim(r, p)
       ELSE UNCHANGED <<row, tokens>> /\ runner' = [runner EXCEPT ![r].pc = "claim", ![r].plans = @ \ {p}]
    /\ UNCHANGED <<now, earned, faults>>

TickDone(r) ==
    /\ At(r, {"claim"}) /\ runner[r].plans = {}
    /\ runner' = [runner EXCEPT ![r] = [Idle EXCEPT !.tick = runner[r].tick]]
    /\ UNCHANGED <<row, now, tokens, earned, faults>>

-----------------------------------------------------------------------------
(***************************************************************************)
(* A claimed plan.                                                         *)
(***************************************************************************)
HoldsLease(r) ==
    LET p == runner[r].plan IN row[p].status = "RUNNING" /\ row[p].token = runner[r].token

HeartbeatDue(r) == HoldsLease(r) /\ now >= runner[r].beat + HeartbeatInterval

\* Mutant: a heartbeat dates the lease from the beginning of the tick.
heartbeatOfTick(r) ==
    /\ At(r, {"run"}) /\ HeartbeatDue(r)
    /\ row' = [row EXCEPT ![runner[r].plan].staleAfter = runner[r].tick + StaleTimeout]
    /\ runner' = [runner EXCEPT ![r].beat = now]
    /\ UNCHANGED <<now, tokens, earned, faults>>

\* A heartbeat that finds the lease lost only ends the heartbeats.
heartbeat(r) ==
    /\ At(r, {"run"}) /\ HeartbeatDue(r)
    /\ row' = [row EXCEPT ![runner[r].plan].staleAfter = now + StaleTimeout]
    /\ runner' = [runner EXCEPT ![r].beat = now]
    /\ UNCHANGED <<now, tokens, earned, faults>>

HandlerReturns(r, ok) ==
    /\ At(r, {"run"})
    /\ runner' = [runner EXCEPT ![r].pc = "finish", ![r].ok = ok]
    /\ earned' = IF ok THEN earned \cup {runner[r].token} ELSE earned
    /\ UNCHANGED <<row, now, tokens, faults>>

retryDelay(attempt) ==
    IF BackoffLen = 0 THEN 0
    ELSE RetryBackoff[IF attempt > BackoffLen THEN BackoffLen ELSE attempt]

\* Mutant: the write of a success compares the status only, not the lease token.
finishUnfenced(r) ==
    LET p == runner[r].plan
    IN /\ At(r, {"finish"})
       /\ row' = IF runner[r].ok /\ row[p].status = "RUNNING" THEN [row EXCEPT ![p].status = "SUCCESS"]
                 ELSE IF ~HoldsLease(r) THEN row
                 ELSE [row EXCEPT ![p] = [@ EXCEPT !.status = "FAILED",
                         !.nextRetryAt = IF runner[r].attempt < MaxAttempts
                                         THEN now + retryDelay(runner[r].attempt) ELSE 0]]
       /\ runner' = [runner EXCEPT ![r].pc = "claim"]
       /\ UNCHANGED <<now, tokens, earned, faults>>

\* The terminal write, then the next plan of the tick.
finish(r) ==
    LET p == runner[r].plan
    IN /\ At(r, {"finish"})
       /\ row' = IF ~HoldsLease(r) THEN row
                 ELSE [row EXCEPT ![p] =
                         IF runner[r].ok THEN [@ EXCEPT !.status = "SUCCESS"]
                         ELSE [@ EXCEPT !.status = "FAILED",
                                        !.nextRetryAt = IF runner[r].attempt < MaxAttempts
                                                        THEN now + retryDelay(runner[r].attempt) ELSE 0]]
       /\ runner' = [runner EXCEPT ![r].pc = "claim"]
       /\ UNCHANGED <<now, tokens, earned, faults>>

Crash(r) ==
    /\ faults < MaxFaults /\ ~At(r, {"idle"})
    /\ runner' = [runner EXCEPT ![r] = [Idle EXCEPT !.tick = now]]
    /\ faults' = faults + 1
    /\ UNCHANGED <<row, now, tokens, earned>>

\* An error is logged and the tick goes on: without the sweep, without this scope, without
\* this plan, or with the row left RUNNING.
StatementFails(r) ==
    /\ faults < MaxFaults
    /\ \/ At(r, {"sweep"}) /\ runner' = [runner EXCEPT ![r].pc = "plan"]
       \/ At(r, {"plan", "finish"}) /\ runner' = [runner EXCEPT ![r].pc = "claim"]
       \/ /\ At(r, {"claim", "steal"}) /\ runner[r].plans # {}
          /\ runner' = [runner EXCEPT ![r].pc = "claim", ![r].plans = {p \in @ : ~IsFirst(p, @)}]
    /\ faults' = faults + 1
    /\ UNCHANGED <<row, now, tokens, earned>>

TimePasses ==
    /\ now < MaxTime
    /\ Prompt => \A r \in Runners : \/ At(r, {"idle"})
                                    \/ At(r, {"run"}) /\ now < runner[r].started + RunTimeout /\ ~HeartbeatDue(r)
    /\ now' = now + 1
    /\ UNCHANGED <<row, runner, tokens, earned, faults>>

-----------------------------------------------------------------------------
SInit ==
    /\ row = [p \in Plans |-> [status |-> "none", attempt |-> 0, token |-> 0, staleAfter |-> 0, nextRetryAt |-> 0]]
    /\ runner = [r \in Runners |-> Idle]
    /\ now = Cadence
    /\ tokens = 0
    /\ earned = {}
    /\ faults = 0

Step(r) ==
    \/ RunOnce(r) \/ markStaleAsFailed(r) \/ runJob(r)
    \/ \E p \in Plans : tryClaimInsert(r, p) \/ tryClaimSteal(r, p)
    \/ TickDone(r) \/ finish(r)
    \/ \E ok \in BOOLEAN : HandlerReturns(r, ok)

SNext ==
    \/ \E r \in Runners : Step(r) \/ heartbeat(r) \/ Crash(r) \/ StatementFails(r)
    \/ TimePasses

SSpec == SInit /\ [][SNext]_svars

\* Tickers fire, handlers return at their timeout at the latest, and time goes on.
FairSSpec == SSpec /\ (\A r \in Runners : WF_svars(Step(r)) /\ WF_svars(heartbeat(r))) /\ WF_svars(TimePasses)

-----------------------------------------------------------------------------
(***************************************************************************)
(* Properties.                                                             *)
(***************************************************************************)

\* Every variable keeps its type, and attempt never exceeds max_attempts.
STypeOK ==
    /\ row \in [Plans -> Execution]
    /\ \A p \in Plans : row[p].attempt <= MaxAttempts /\ (row[p].status = "none" <=> row[p].attempt = 0)
    /\ runner \in [Runners -> Replica]
    /\ now \in Nat /\ tokens \in Nat /\ earned \subseteq Nat /\ faults \in 0..MaxFaults

\* A SUCCESS row was written for the attempt it shows: whoever lost its lease, however
\* late it finishes, does not turn a newer attempt into a success.
SuccessIsEarned == \A p \in Plans : row[p].status = "SUCCESS" => row[p].token \in earned

\* A plan that has succeeded is never run again, stolen or failed.
SuccessIsFinal == [][\A p \in Plans : row[p].status = "SUCCESS" => row'[p] = row[p]]_svars

\* The lease protects its holder, with any planner, any delay of statements, heartbeats and
\* handlers, and any number of plans in a tick: no replica's sweep, claim or finish takes the
\* lease of a handler that runs until StaleTimeout has passed since the holder's tick began
\* and, once it has sent heartbeats, since the last one.
LeaseIsHonoured ==
    [][\A r \in Runners : At(r, {"run"}) /\ HoldsLease(r) /\ At(r, {"run"})' /\ ~HoldsLease(r)' =>
         /\ runner[r].tick + StaleTimeout < now
         /\ runner[r].beat > runner[r].started => runner[r].beat + StaleTimeout < now]_svars

\* JobSpec's StaleTimeout: a lease goes stale that long after its last heartbeat and a
\* handler returns before, so two replicas are never in the handler of one plan.
NoDoubleRun ==
    \A r, s \in Runners : r # s /\ At(r, {"run"}) /\ At(s, {"run"}) => runner[r].plan # runner[s].plan

\* runJob's sweep: whoever held it and however it was lost, a lease does not stay RUNNING
\* (one that is still good at the end of the modelled time apart).
LeasesAreClosed ==
    \A p \in Plans : row[p].status = "RUNNING" ~> row[p].status # "RUNNING" \/ row[p].staleAfter >= MaxTime
==============================================================================
