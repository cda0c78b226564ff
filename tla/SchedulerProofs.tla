--------------------------- MODULE SchedulerProofs ---------------------------
(***************************************************************************)
(* Proofs about Scheduler, for any number of replicas and plans and any    *)
(* timing.  SInv is inductive: the types, what a replica knows about the   *)
(* attempt it holds, and SuccessIsEarned.  LeaseInv, inductive beside it,  *)
(* says how long a lease is good.  AloneInv is inductive where statements  *)
(* take no time and a tick runs one plan.                                  *)
(***************************************************************************)
EXTENDS Scheduler, WellFoundedInduction, TLAPS

\* A replica that runs or finishes an attempt names a plan and an attempt of it.
HolderOK ==
    \A r \in Runners : At(r, {"run", "finish"}) => runner[r].plan \in Plans /\ runner[r].attempt >= 1

\* A replica about to write SUCCESS has a handler that returned without an error.
OutcomeOK ==
    \A r \in Runners : At(r, {"finish"}) /\ runner[r].ok => runner[r].token \in earned

SInv == STypeOK /\ HolderOK /\ OutcomeOK /\ SuccessIsEarned

-----------------------------------------------------------------------------
\* Plan numbers are natural numbers above zero.
LEMMA PlansAreNat == Plans \subseteq Nat \ {0}
  BY SchedulerTimes, SchedulerBounds DEF Plans

\* The planner only returns plans of the modelled time.
LEMMA PlansForTickType == ASSUME NEW t \in Nat PROVE plansForTick(t) \subseteq Plans
  BY SchedulerModes DEF plansForTick, EveryPlan, HookPlans

\* The delay of a retry is a length of time, whatever the attempt.
LEMMA RetryDelayType == ASSUME NEW a \in Nat, a >= 1 PROVE retryDelay(a) \in Nat
  BY SchedulerTimes DEF retryDelay

\* A fresh replica state is well typed.
LEMMA IdleType == ASSUME NEW t \in Nat PROVE Idle \in Replica /\ [Idle EXCEPT !.tick = t] \in Replica
                                            /\ [Idle EXCEPT !.pc = "sweep", !.tick = t] \in Replica
  BY DEF Idle, Replica

-----------------------------------------------------------------------------
\* The first state satisfies the invariant.
LEMMA SInitOK == SInit => SInv
<1> SUFFICES ASSUME SInit PROVE SInv
  OBVIOUS
<1>1. STypeOK
  <2>1. Idle \in Replica
    BY DEF Idle, Replica
  <2>2. row \in [Plans -> Execution] /\ \A p \in Plans : row[p].status = "none" /\ row[p].attempt = 0
    BY DEF SInit, Execution
  <2>3. runner \in [Runners -> Replica]
    BY <2>1 DEF SInit
  <2> QED
    BY <2>2, <2>3, SchedulerTimes, SchedulerBounds DEF SInit, STypeOK
<1>2. HolderOK /\ OutcomeOK
  BY DEF SInit, HolderOK, OutcomeOK, At, Idle
<1>3. SuccessIsEarned
  BY DEF SInit, SuccessIsEarned
<1> QED
  BY <1>1, <1>2, <1>3 DEF SInv

\* Claiming a plan, by either statement.
LEMMA ClaimOK ==
    ASSUME SInv, NEW r \in Runners, NEW p \in Plans, Claim(r, p), row[p].attempt < MaxAttempts,
           UNCHANGED <<now, earned, faults>>
    PROVE  SInv'
<1> USE SInv DEF SInv
<1>t. /\ Leased(p, r) \in Execution /\ Leased(p, r).status = "RUNNING"
      /\ Leased(p, r).attempt = row[p].attempt + 1 /\ row[p].attempt \in Nat
  BY SchedulerTimes DEF STypeOK, Execution, Replica, Leased
<1>r. row' = [row EXCEPT ![p] = Leased(p, r)]
  BY DEF Claim
<1>1. STypeOK'
  <2>1. row' \in [Plans -> Execution]
    BY <1>t, <1>r DEF STypeOK
  <2>2. \A q \in Plans : row'[q].attempt <= MaxAttempts /\ (row'[q].status = "none" <=> row'[q].attempt = 0)
    BY <1>t, <1>r, SchedulerTimes DEF STypeOK
  <2>3. runner' \in [Runners -> Replica]
    <3> DEFINE r2 == [runner[r] EXCEPT !.pc = "run", !.plans = runner[r].plans \ {p}, !.plan = p,
                                       !.token = tokens + 1, !.attempt = row[p].attempt + 1,
                                       !.started = now, !.beat = now]
    <3>0. runner[r] \in Replica /\ tokens \in Nat /\ now \in Nat /\ row[p].attempt \in Nat
      BY <1>t DEF STypeOK
    <3>a. runner[r].plans \ {p} \in SUBSET Plans
      BY <3>0 DEF Replica
    <3>b. p \in {0} \cup Plans /\ tokens + 1 \in Nat /\ row[p].attempt + 1 \in Nat
      BY <3>0
    <3>1. r2 \in Replica
      BY <3>0, <3>a, <3>b DEF Replica
    <3>2. runner' = [runner EXCEPT ![r] = r2]
      BY DEF Claim, STypeOK, Replica
    <3> QED
      BY <3>1, <3>2 DEF STypeOK
  <2>4. tokens' \in Nat
    BY DEF Claim, STypeOK
  <2> QED
    BY <2>1, <2>2, <2>3, <2>4 DEF STypeOK
<1>2. HolderOK'
  BY <1>t DEF Claim, HolderOK, At, STypeOK, Replica
<1>3. OutcomeOK'
  BY DEF Claim, OutcomeOK, At, STypeOK, Replica
<1>4. SuccessIsEarned'
  BY <1>t, <1>r DEF SuccessIsEarned, STypeOK
<1> QED
  BY <1>1, <1>2, <1>3, <1>4

\* Steps that write neither a row nor an outcome: one replica moves to r2, outside a run.
LEMMA MoveOK ==
    ASSUME SInv, NEW r \in Runners, NEW r2 \in Replica, r2.pc \notin {"run", "finish"},
           runner' = [runner EXCEPT ![r] = r2],
           row' \in [Plans -> Execution],
           \A p \in Plans : \/ row'[p] = row[p]
                            \/ row'[p].status = "FAILED" /\ row'[p].attempt = row[p].attempt /\ row[p].status # "none"
                            \/ row'[p].status = "SUCCESS" /\ row'[p].attempt = row[p].attempt /\ row[p].status # "none"
                               /\ row'[p].token \in earned,
           faults' \in 0..MaxFaults, UNCHANGED <<now, tokens, earned>>
    PROVE  SInv'
<1> USE SInv DEF SInv
<1>1. STypeOK'
  <2>1. runner' \in [Runners -> Replica]
    BY DEF STypeOK
  <2>2. \A q \in Plans : row'[q].attempt <= MaxAttempts /\ (row'[q].status = "none" <=> row'[q].attempt = 0)
    BY DEF STypeOK
  <2> QED
    BY <2>1, <2>2 DEF STypeOK
<1>2. HolderOK'
  BY DEF HolderOK, At, STypeOK
<1>3. OutcomeOK'
  BY DEF OutcomeOK, At, STypeOK
<1>4. SuccessIsEarned'
  BY DEF SuccessIsEarned
<1> QED
  BY <1>1, <1>2, <1>3, <1>4

-----------------------------------------------------------------------------
\* Every step preserves the invariant.
LEMMA SNextOK == SInv /\ [SNext]_svars => SInv'
<1> SUFFICES ASSUME SInv, [SNext]_svars PROVE SInv'
  OBVIOUS
<1> USE DEF SInv
<1>types. /\ row \in [Plans -> Execution] /\ runner \in [Runners -> Replica]
          /\ now \in Nat /\ tokens \in Nat /\ faults \in 0..MaxFaults
  BY DEF STypeOK
<1>1. ASSUME NEW r \in Runners, RunOnce(r) PROVE SInv'
  BY <1>1, <1>types, IdleType, MoveOK DEF RunOnce, Idle, Replica
<1>2. ASSUME NEW r \in Runners, markStaleAsFailed(r) PROVE SInv'
  <2>1. /\ runner' = [runner EXCEPT ![r] = [runner[r] EXCEPT !.pc = "plan"]]
        /\ [runner[r] EXCEPT !.pc = "plan"] \in Replica
        /\ [runner[r] EXCEPT !.pc = "plan"].pc \notin {"run", "finish"}
    BY <1>2, <1>types DEF markStaleAsFailed, Replica
  <2>2. row' \in [Plans -> Execution]
    BY <1>2, <1>types DEF markStaleAsFailed, Execution
  <2>3. \A p \in Plans : \/ row'[p] = row[p]
                         \/ row'[p].status = "FAILED" /\ row'[p].attempt = row[p].attempt /\ row[p].status # "none"
    BY <1>2, <1>types DEF markStaleAsFailed, Execution, Stale
  <2> QED
    BY <1>2, <1>types, <2>1, <2>2, <2>3, MoveOK DEF markStaleAsFailed
<1>3. ASSUME NEW r \in Runners, runJob(r) PROVE SInv'
  <2> DEFINE r2 == [runner[r] EXCEPT !.pc = "claim", !.plans = plansForTick(runner[r].tick)]
  <2>1. plansForTick(runner[r].tick) \subseteq Plans
    BY <1>types, PlansForTickType DEF Replica
  <2>2. r2 \in Replica /\ r2.pc \notin {"run", "finish"}
    BY <2>1, <1>types DEF Replica
  <2>3. runner' = [runner EXCEPT ![r] = r2]
    BY <1>3, <1>types DEF runJob, Replica
  <2> QED
    BY <1>3, <1>types, <2>2, <2>3, MoveOK DEF runJob
<1>4. ASSUME NEW r \in Runners, NEW p \in Plans, tryClaimInsert(r, p) PROVE SInv'
  <2>1. CASE row[p].status = "none"
    <3>1. row[p].attempt < MaxAttempts
      BY <2>1, SchedulerTimes DEF STypeOK
    <3> QED
      BY <1>4, <2>1, <3>1, ClaimOK DEF tryClaimInsert
  <2>2. CASE row[p].status # "none"
    <3>1. /\ runner' = [runner EXCEPT ![r] = [runner[r] EXCEPT !.pc = "steal"]]
          /\ [runner[r] EXCEPT !.pc = "steal"] \in Replica
          /\ [runner[r] EXCEPT !.pc = "steal"].pc \notin {"run", "finish"}
      BY <1>4, <2>2, <1>types DEF tryClaimInsert, Replica
    <3> QED
      BY <1>4, <2>2, <3>1, <1>types, MoveOK DEF tryClaimInsert
  <2> QED
    BY <2>1, <2>2
<1>5. ASSUME NEW r \in Runners, NEW p \in Plans, tryClaimSteal(r, p) PROVE SInv'
  <2>1. CASE Stealable(p, runner[r].tick)
    BY <1>5, <2>1, ClaimOK DEF tryClaimSteal, Stealable
  <2>2. CASE ~Stealable(p, runner[r].tick)
    <3> DEFINE r2 == [runner[r] EXCEPT !.pc = "claim", !.plans = runner[r].plans \ {p}]
    <3>1. r2 \in Replica /\ r2.pc \notin {"run", "finish"}
      BY <1>types DEF Replica
    <3>2. runner' = [runner EXCEPT ![r] = r2]
      BY <1>5, <2>2, <1>types DEF tryClaimSteal, Replica
    <3> QED
      BY <1>5, <2>2, <3>1, <3>2, <1>types, MoveOK DEF tryClaimSteal
  <2> QED
    BY <2>1, <2>2
<1>6. ASSUME NEW r \in Runners, TickDone(r) PROVE SInv'
  <2>1. runner[r].tick \in Nat
    BY <1>types DEF Replica
  <2> QED
    BY <1>6, <1>types, <2>1, IdleType, MoveOK DEF TickDone, Idle, Replica
<1>7. ASSUME NEW r \in Runners, finish(r) PROVE SInv'
  <2> DEFINE p == runner[r].plan
  <2>0. p \in Plans /\ runner[r].attempt \in Nat /\ runner[r].attempt >= 1
    BY <1>7, <1>types DEF finish, HolderOK, At, Replica
  <2>1. /\ runner' = [runner EXCEPT ![r] = [runner[r] EXCEPT !.pc = "claim"]]
        /\ [runner[r] EXCEPT !.pc = "claim"] \in Replica
        /\ [runner[r] EXCEPT !.pc = "claim"].pc \notin {"run", "finish"}
    BY <1>7, <1>types DEF finish, Replica
  <2>2. CASE ~HoldsLease(r)
    BY <1>7, <2>2, <2>1, <1>types, MoveOK DEF finish
  <2>3. CASE HoldsLease(r) /\ runner[r].ok
    <3>1. row' = [row EXCEPT ![p] = [row[p] EXCEPT !.status = "SUCCESS"]]
      BY <1>7, <2>3, <1>types, <2>0 DEF finish
    <3>2. row[p].token \in earned /\ row[p].status = "RUNNING"
      BY <1>7, <2>3 DEF finish, HoldsLease, OutcomeOK
    <3>3. row' \in [Plans -> Execution]
      BY <3>1, <1>types, <2>0 DEF Execution
    <3>4. \A q \in Plans : \/ row'[q] = row[q]
                           \/ row'[q].status = "SUCCESS" /\ row'[q].attempt = row[q].attempt /\ row[q].status # "none"
                              /\ row'[q].token \in earned
      BY <3>1, <3>2, <1>types, <2>0 DEF Execution
    <3> QED
      BY <1>7, <2>1, <3>3, <3>4, <1>types, MoveOK DEF finish
  <2>4. CASE HoldsLease(r) /\ ~runner[r].ok
    <3> DEFINE n == IF runner[r].attempt < MaxAttempts THEN now + retryDelay(runner[r].attempt) ELSE 0
    <3>1. row' = [row EXCEPT ![p] = [row[p] EXCEPT !.status = "FAILED", !.nextRetryAt = n]]
      BY <1>7, <2>4, <1>types, <2>0 DEF finish
    <3>2. n \in Nat /\ row[p].status = "RUNNING"
      BY <2>4, <2>0, <1>types, RetryDelayType DEF HoldsLease
    <3>3. row' \in [Plans -> Execution]
      BY <3>1, <3>2, <1>types, <2>0 DEF Execution
    <3>4. \A q \in Plans : \/ row'[q] = row[q]
                           \/ row'[q].status = "FAILED" /\ row'[q].attempt = row[q].attempt /\ row[q].status # "none"
      BY <3>1, <3>2, <1>types, <2>0 DEF Execution
    <3> QED
      BY <1>7, <2>1, <3>3, <3>4, <1>types, MoveOK DEF finish
  <2> QED
    BY <2>2, <2>3, <2>4
<1>8. ASSUME NEW r \in Runners, NEW ok \in BOOLEAN, HandlerReturns(r, ok) PROVE SInv'
  <2>1. STypeOK'
    <3> DEFINE r2 == [runner[r] EXCEPT !.pc = "finish", !.ok = ok]
    <3>1. r2 \in Replica /\ runner' = [runner EXCEPT ![r] = r2]
      BY <1>8, <1>types DEF HandlerReturns, Replica
    <3>2. runner' \in [Runners -> Replica]
      BY <3>1, <1>types
    <3>3. earned' \subseteq Nat
      BY <1>8, <1>types DEF HandlerReturns, STypeOK, Replica
    <3> QED
      BY <1>8, <3>2, <3>3 DEF HandlerReturns, STypeOK
  <2>2. HolderOK'
    BY <1>8, <1>types DEF HandlerReturns, HolderOK, At, Replica
  <2>3. OutcomeOK'
    BY <1>8, <1>types DEF HandlerReturns, OutcomeOK, At, Replica
  <2>4. SuccessIsEarned'
    BY <1>8 DEF HandlerReturns, SuccessIsEarned
  <2> QED
    BY <2>1, <2>2, <2>3, <2>4
<1>9. ASSUME NEW r \in Runners, heartbeat(r) PROVE SInv'
  <2> DEFINE p == runner[r].plan
  <2>0. p \in Plans /\ row' = [row EXCEPT ![p] = [row[p] EXCEPT !.staleAfter = now + StaleTimeout]]
    BY <1>9, <1>types DEF heartbeat, HolderOK, At
  <2>1. runner' = [runner EXCEPT ![r].beat = now] /\ UNCHANGED <<now, tokens, earned, faults>>
    BY <1>9 DEF heartbeat
  <2>2. row' \in [Plans -> Execution]
    <3>1. now + StaleTimeout \in Nat
      BY <1>types, SchedulerTimes
    <3>2. [row[p] EXCEPT !.staleAfter = now + StaleTimeout] \in Execution
      BY <2>0, <3>1, <1>types DEF Execution
    <3> QED
      BY <2>0, <3>2, <1>types
  <2>3. \A q \in Plans : /\ row'[q].status = row[q].status /\ row'[q].attempt = row[q].attempt
                         /\ row'[q].token = row[q].token
    <3>1. ASSUME NEW q \in Plans, q # p PROVE row'[q] = row[q]
      BY <2>0, <3>1, <1>types
    <3>2. row'[p] = [row[p] EXCEPT !.staleAfter = now + StaleTimeout]
      BY <2>0, <1>types
    <3>3. row[p] \in Execution
      BY <2>0, <1>types
    <3> QED
      BY <3>1, <3>2, <3>3 DEF Execution
  <2>4. runner' \in [Runners -> Replica]
    <3>1. /\ [runner[r] EXCEPT !.beat = now] \in Replica
          /\ runner' = [runner EXCEPT ![r] = [runner[r] EXCEPT !.beat = now]]
      BY <2>1, <1>types DEF Replica
    <3> QED
      BY <3>1, <1>types
  <2>5. STypeOK'
    BY <2>1, <2>2, <2>3, <2>4 DEF STypeOK
  <2>6. HolderOK' /\ OutcomeOK'
    BY <2>1, <1>types DEF HolderOK, OutcomeOK, At, Replica
  <2>7. SuccessIsEarned'
    BY <2>1, <2>3 DEF SuccessIsEarned
  <2> QED
    BY <2>5, <2>6, <2>7
<1>10. ASSUME NEW r \in Runners, Crash(r) PROVE SInv'
  <2>1. faults' \in 0..MaxFaults
    BY <1>10, <1>types, SchedulerBounds DEF Crash
  <2> QED
    BY <1>10, <2>1, <1>types, IdleType, MoveOK DEF Crash, Idle, Replica
<1>11. ASSUME NEW r \in Runners, StatementFails(r) PROVE SInv'
  <2>1. faults' \in 0..MaxFaults
    BY <1>11, <1>types, SchedulerBounds DEF StatementFails
  <2> DEFINE r1 == [runner[r] EXCEPT !.pc = "plan"]
             r2 == [runner[r] EXCEPT !.pc = "claim"]
             rest == {p \in runner[r].plans : ~IsFirst(p, runner[r].plans)}
             r3 == [runner[r] EXCEPT !.pc = "claim", !.plans = rest]
  <2>2. rest \subseteq Plans
    BY <1>types DEF Replica
  <2>3. /\ r1 \in Replica /\ r1.pc \notin {"run", "finish"} /\ r2 \in Replica /\ r2.pc \notin {"run", "finish"}
        /\ r3 \in Replica /\ r3.pc \notin {"run", "finish"}
    BY <2>2, <1>types DEF Replica
  <2>4. \/ runner' = [runner EXCEPT ![r] = r1]
        \/ runner' = [runner EXCEPT ![r] = r2]
        \/ runner' = [runner EXCEPT ![r] = r3]
    BY <1>11, <1>types DEF StatementFails, Replica
  <2>5. UNCHANGED <<row, now, tokens, earned>>
    BY <1>11 DEF StatementFails
  <2> HIDE DEF r1, r2, r3
  <2> QED
    BY <2>1, <2>3, <2>4, <2>5, <1>types, MoveOK
<1>12. ASSUME TimePasses PROVE SInv'
  <2>1. now' \in Nat
    BY <1>12, <1>types DEF TimePasses
  <2> QED
    BY <1>12, <2>1 DEF TimePasses, STypeOK, HolderOK, OutcomeOK, SuccessIsEarned, At
<1>13. CASE UNCHANGED svars
  BY <1>13 DEF svars, STypeOK, HolderOK, OutcomeOK, SuccessIsEarned, At
<1> QED
  BY <1>1, <1>2, <1>3, <1>4, <1>5, <1>6, <1>7, <1>8, <1>9, <1>10, <1>11, <1>12, <1>13 DEF SNext, Step

\* No step that the invariant allows touches the row of a plan that succeeded.
LEMMA SuccessStep ==
    SInv /\ [SNext]_svars => [\A p \in Plans : row[p].status = "SUCCESS" => row'[p] = row[p]]_svars
<1> SUFFICES ASSUME SInv, SNext, NEW q \in Plans, row[q].status = "SUCCESS" PROVE row'[q] = row[q]
  BY DEF svars
<1>types. row \in [Plans -> Execution]
  BY DEF SInv, STypeOK
<1>1. ASSUME NEW r \in Runners, markStaleAsFailed(r) PROVE row'[q] = row[q]
  BY <1>1 DEF markStaleAsFailed, Stale
<1>2. ASSUME NEW r \in Runners, NEW p \in Plans, tryClaimInsert(r, p) \/ tryClaimSteal(r, p) PROVE row'[q] = row[q]
  BY <1>2, <1>types DEF tryClaimInsert, tryClaimSteal, Claim, Stealable, Stale
<1>3. ASSUME NEW r \in Runners, finish(r) \/ heartbeat(r) PROVE row'[q] = row[q]
  BY <1>3, <1>types DEF finish, heartbeat, HeartbeatDue, HoldsLease
<1> QED
  BY <1>1, <1>2, <1>3 DEF SNext, Step, RunOnce, runJob, TickDone, HandlerReturns, Crash, StatementFails, TimePasses

-----------------------------------------------------------------------------
\* SInv holds in every reachable state.
THEOREM SchedulerInvariant == SSpec => []SInv
  BY SInitOK, SNextOK, PTL DEF SSpec

\* Every row and replica of any instance is well typed and no plan exceeds max_attempts.
THEOREM SchedulerTypeCorrect == SSpec => []STypeOK
<1>1. SInv => STypeOK
  BY DEF SInv
<1> QED
  BY <1>1, SchedulerInvariant, PTL

\* finishSuccess compares lease_token: however late a replica that lost its lease finishes,
\* a SUCCESS row shows an attempt whose own handler returned without an error.
THEOREM SuccessIsEarnedHolds == SSpec => []SuccessIsEarned
<1>1. SInv => SuccessIsEarned
  BY DEF SInv
<1> QED
  BY <1>1, SchedulerInvariant, PTL

\* tryClaim and markStaleAsFailed leave a plan that succeeded as it is, for ever.
THEOREM SuccessIsFinalHolds == SSpec => SuccessIsFinal
  BY SchedulerInvariant, SuccessStep, PTL DEF SSpec, SuccessIsFinal

-----------------------------------------------------------------------------
(***************************************************************************)
(* A lease protects its holder, whatever the timing.                       *)
(***************************************************************************)

\* No two attempts under way share a lease token.
TokensApart ==
    /\ \A p \in Plans : row[p].token <= tokens
    /\ \A r \in Runners : At(r, {"run", "finish"}) => runner[r].token <= tokens
    /\ \A r, s \in Runners : r # s /\ At(r, {"run", "finish"}) /\ At(s, {"run", "finish"})
                             => runner[r].token # runner[s].token

\* No tick is dated from the future.
TicksArePast == \A r \in Runners : runner[r].tick <= now

\* The lease of a running handler is good for StaleTimeout from the tick that took it and
\* from the last heartbeat, if there was one.
Dated(r) ==
    LET p == runner[r].plan
    IN /\ runner[r].tick + StaleTimeout <= row[p].staleAfter
       /\ runner[r].beat > runner[r].started => runner[r].beat + StaleTimeout <= row[p].staleAfter
LeasesAreDated == \A r \in Runners : At(r, {"run"}) /\ HoldsLease(r) => Dated(r)

LeaseInv == TokensApart /\ TicksArePast /\ LeasesAreDated

\* One replica moves to k without starting a run; rows may be closed, their leases stay dated.
LEMMA LeaseMove ==
    ASSUME SInv, LeaseInv, NEW r \in Runners, NEW k \in Replica,
           k.pc # "run", k.pc = "finish" => At(r, {"run"}) /\ k.token = runner[r].token,
           k.tick <= now, runner' = [runner EXCEPT ![r] = k], UNCHANGED <<now, tokens>>,
           \A p \in Plans : /\ row'[p].token = row[p].token /\ row'[p].staleAfter = row[p].staleAfter
                            /\ row'[p].status = "RUNNING" => row[p].status = "RUNNING"
    PROVE  LeaseInv'
<1>0. /\ runner \in [Runners -> Replica] /\ runner'[r] = k
      /\ \A s \in Runners \ {r} : runner'[s] = runner[s]
  BY DEF SInv, STypeOK
<1>1. TokensApart'
  BY <1>0 DEF LeaseInv, TokensApart, At
<1>2. TicksArePast'
  BY <1>0 DEF LeaseInv, TicksArePast
<1>3. LeasesAreDated'
  <2>1. SUFFICES ASSUME NEW s \in Runners \ {r}, At(s, {"run"}), HoldsLease(s)' PROVE Dated(s)'
    BY <1>0 DEF LeasesAreDated, At
  <2>2. runner[s].plan \in Plans
    BY <2>1 DEF SInv, HolderOK, At
  <2>3. HoldsLease(s)
    BY <1>0, <2>1, <2>2 DEF HoldsLease
  <2>4. Dated(s)
    BY <2>1, <2>3 DEF LeaseInv, LeasesAreDated
  <2> QED
    BY <1>0, <2>2, <2>4 DEF Dated
<1> QED
  BY <1>1, <1>2, <1>3 DEF LeaseInv

\* A claim, by either statement, takes a new token.
LEMMA LeaseClaim ==
    ASSUME SInv, LeaseInv, NEW r \in Runners, NEW p \in Plans, Claim(r, p), UNCHANGED now
    PROVE  LeaseInv'
<1>t. /\ runner \in [Runners -> Replica] /\ row \in [Plans -> Execution] /\ tokens \in Nat /\ now \in Nat
      /\ runner[r] \in Replica /\ runner[r].tick \in Nat
  BY DEF SInv, STypeOK, Replica
<1>1. /\ runner'[r].pc = "run" /\ runner'[r].plan = p /\ runner'[r].token = tokens + 1
      /\ runner'[r].beat = now /\ runner'[r].started = now /\ runner'[r].tick = runner[r].tick
      /\ \A s \in Runners \ {r} : runner'[s] = runner[s]
  BY <1>t DEF Claim, Replica
<1>2. /\ row'[p].token = tokens + 1 /\ row'[p].staleAfter = runner[r].tick + StaleTimeout
      /\ \A q \in Plans \ {p} : row'[q] = row[q]
      /\ tokens' = tokens + 1
  BY <1>t DEF Claim, Leased
<1>3. \A s \in Runners : runner[s].token \in Nat
  BY <1>t DEF Replica
<1>4. \A s \in Runners \ {r} : At(s, {"run", "finish"})' => At(s, {"run", "finish"}) /\ runner[s].token <= tokens
  BY <1>1 DEF LeaseInv, TokensApart, At
<1>5. TokensApart'
  <2>1. \A q \in Plans : row'[q].token <= tokens'
    <3>1. \A q \in Plans : row[q].token \in Nat /\ row[q].token <= tokens
      BY <1>t DEF LeaseInv, TokensApart, Execution
    <3> QED
      BY <1>t, <1>2, <3>1
  <2>2. \A s \in Runners : At(s, {"run", "finish"})' => runner'[s].token <= tokens'
    BY <1>t, <1>1, <1>2, <1>3, <1>4
  <2>3. \A s \in Runners \ {r} : At(s, {"run", "finish"})' => runner'[s].token # runner'[r].token
    BY <1>t, <1>1, <1>3, <1>4
  <2>4. \A s, u \in Runners \ {r} : s # u /\ At(s, {"run", "finish"})' /\ At(u, {"run", "finish"})'
                                    => runner'[s].token # runner'[u].token
    BY <1>1, <1>4 DEF LeaseInv, TokensApart
  <2> QED
    BY <2>1, <2>2, <2>3, <2>4 DEF TokensApart
<1>6. TicksArePast'
  BY <1>1 DEF LeaseInv, TicksArePast
<1>7. LeasesAreDated'
  <2>1. Dated(r)'
    BY <1>t, <1>1, <1>2, SchedulerTimes DEF Dated
  <2>2. ASSUME NEW s \in Runners \ {r}, At(s, {"run"})', HoldsLease(s)' PROVE Dated(s)'
    <3>1. At(s, {"run"}) /\ runner'[s] = runner[s] /\ runner[s].plan \in Plans /\ runner[s].token <= tokens
      BY <1>1, <1>4, <2>2 DEF At, SInv, HolderOK
    <3>2. runner[s].plan # p
      BY <1>t, <1>2, <1>3, <2>2, <3>1 DEF HoldsLease
    <3>3. HoldsLease(s) /\ row'[runner[s].plan] = row[runner[s].plan]
      BY <1>2, <2>2, <3>1, <3>2 DEF HoldsLease
    <3>4. Dated(s)
      BY <3>1, <3>3 DEF LeaseInv, LeasesAreDated
    <3> QED
      BY <3>1, <3>3, <3>4 DEF Dated
  <2> QED
    BY <2>1, <2>2 DEF LeasesAreDated
<1> QED
  BY <1>5, <1>6, <1>7 DEF LeaseInv

\* A heartbeat dates the lease of its own replica anew, and of no other.
LEMMA LeaseBeat ==
    ASSUME SInv, LeaseInv, NEW r \in Runners, heartbeat(r)
    PROVE  LeaseInv'
<1>t. /\ runner \in [Runners -> Replica] /\ row \in [Plans -> Execution] /\ now \in Nat
      /\ runner[r].plan \in Plans /\ runner[r].tick \in Nat /\ runner[r].tick <= now
      /\ At(r, {"run"}) /\ HoldsLease(r) /\ UNCHANGED <<now, tokens>>
  BY DEF SInv, STypeOK, Replica, HolderOK, At, heartbeat, HeartbeatDue, LeaseInv, TicksArePast
<1>1. /\ \A s \in Runners \ {r} : runner'[s] = runner[s]
      /\ \A s \in Runners : /\ runner'[s].pc = runner[s].pc /\ runner'[s].tick = runner[s].tick
                            /\ runner'[s].plan = runner[s].plan /\ runner'[s].token = runner[s].token
      /\ runner'[r].beat = now
  BY <1>t DEF heartbeat, Replica
<1>2. /\ \A p \in Plans \ {runner[r].plan} : row'[p] = row[p]
      /\ \A p \in Plans : row'[p].status = row[p].status /\ row'[p].token = row[p].token
      /\ row'[runner[r].plan].staleAfter = now + StaleTimeout
  BY <1>t DEF heartbeat, Execution
<1>3. TokensApart' /\ TicksArePast'
  BY <1>t, <1>1, <1>2 DEF LeaseInv, TokensApart, TicksArePast, At
<1>4. Dated(r)'
  BY <1>t, <1>1, <1>2, SchedulerTimes DEF Dated
<1>5. ASSUME NEW s \in Runners \ {r}, At(s, {"run"})', HoldsLease(s)' PROVE Dated(s)'
  <2>1. At(s, {"run"}) /\ runner'[s] = runner[s] /\ runner[s].plan \in Plans
    BY <1>1, <1>5 DEF At, SInv, HolderOK
  <2>2. HoldsLease(s)
    BY <1>2, <1>5, <2>1 DEF HoldsLease
  <2>3. runner[s].token # runner[r].token
    BY <1>t, <2>1 DEF LeaseInv, TokensApart, At
  <2>4. row'[runner[s].plan] = row[runner[s].plan]
    BY <1>t, <1>2, <2>1, <2>2, <2>3 DEF HoldsLease
  <2>5. Dated(s)
    BY <2>1, <2>2 DEF LeaseInv, LeasesAreDated
  <2> QED
    BY <2>1, <2>4, <2>5 DEF Dated
<1> QED
  BY <1>3, <1>4, <1>5 DEF LeaseInv, LeasesAreDated

\* Every step preserves LeaseInv.
LEMMA LeaseNext == SInv /\ LeaseInv /\ [SNext]_svars => LeaseInv'
<1> SUFFICES ASSUME SInv, LeaseInv, [SNext]_svars PROVE LeaseInv'
  OBVIOUS
<1>t. /\ row \in [Plans -> Execution] /\ runner \in [Runners -> Replica] /\ now \in Nat /\ tokens \in Nat
  BY DEF SInv, STypeOK
<1>k. ASSUME NEW r \in Runners PROVE runner[r] \in Replica /\ runner[r].tick \in Nat /\ runner[r].tick <= now
  BY <1>t DEF LeaseInv, TicksArePast, Replica
<1>1. ASSUME NEW r \in Runners, RunOnce(r) PROVE LeaseInv'
  <2> DEFINE k == [Idle EXCEPT !.pc = "sweep", !.tick = now]
  <2>1. k \in Replica /\ k.pc = "sweep" /\ k.tick = now
    BY <1>t, IdleType DEF Idle
  <2>2. runner' = [runner EXCEPT ![r] = k] /\ UNCHANGED <<row, now, tokens>>
    BY <1>1 DEF RunOnce
  <2> HIDE DEF k
  <2>3. k.tick <= now
    BY <1>t, <2>1
  <2> QED
    BY <2>1, <2>2, <2>3, LeaseMove
<1>2. ASSUME NEW r \in Runners, markStaleAsFailed(r) PROVE LeaseInv'
  <2> DEFINE k == [runner[r] EXCEPT !.pc = "plan"]
  <2>1. k \in Replica /\ k.pc = "plan" /\ k.tick <= now
    BY <1>k DEF Replica
  <2>2. runner' = [runner EXCEPT ![r] = k] /\ UNCHANGED <<now, tokens>>
    BY <1>2 DEF markStaleAsFailed
  <2>3. \A p \in Plans : /\ row'[p].token = row[p].token /\ row'[p].staleAfter = row[p].staleAfter
                         /\ row'[p].status = "RUNNING" => row[p].status = "RUNNING"
    BY <1>2, <1>t DEF markStaleAsFailed, Execution
  <2> HIDE DEF k
  <2> QED
    BY <2>1, <2>2, <2>3, LeaseMove
<1>3. ASSUME NEW r \in Runners, runJob(r) PROVE LeaseInv'
  <2> DEFINE k == [runner[r] EXCEPT !.pc = "claim", !.plans = plansForTick(runner[r].tick)]
  <2>1. plansForTick(runner[r].tick) \subseteq Plans
    BY <1>k, PlansForTickType
  <2>2. k \in Replica /\ k.pc = "claim" /\ k.tick <= now
    BY <1>k, <2>1 DEF Replica
  <2>3. runner' = [runner EXCEPT ![r] = k] /\ UNCHANGED <<row, now, tokens>>
    BY <1>3, <1>t, <1>k DEF runJob, Replica
  <2> HIDE DEF k
  <2> QED
    BY <2>2, <2>3, LeaseMove
<1>4. ASSUME NEW r \in Runners, NEW p \in Plans, tryClaimInsert(r, p) PROVE LeaseInv'
  <2>1. CASE row[p].status = "none"
    BY <1>4, <2>1, LeaseClaim DEF tryClaimInsert
  <2>2. CASE row[p].status # "none"
    <3> DEFINE k == [runner[r] EXCEPT !.pc = "steal"]
    <3>1. k \in Replica /\ k.pc = "steal" /\ k.tick <= now
      BY <1>k DEF Replica
    <3>2. runner' = [runner EXCEPT ![r] = k] /\ UNCHANGED <<row, now, tokens>>
      BY <1>4, <2>2 DEF tryClaimInsert
    <3> HIDE DEF k
    <3> QED
      BY <3>1, <3>2, LeaseMove
  <2> QED
    BY <2>1, <2>2
<1>5. ASSUME NEW r \in Runners, NEW p \in Plans, tryClaimSteal(r, p) PROVE LeaseInv'
  <2>1. CASE Stealable(p, runner[r].tick)
    BY <1>5, <2>1, LeaseClaim DEF tryClaimSteal
  <2>2. CASE ~Stealable(p, runner[r].tick)
    <3> DEFINE k == [runner[r] EXCEPT !.pc = "claim", !.plans = runner[r].plans \ {p}]
    <3>1. k \in Replica /\ k.pc = "claim" /\ k.tick <= now
      BY <1>k DEF Replica
    <3>2. runner' = [runner EXCEPT ![r] = k] /\ UNCHANGED <<row, now, tokens>>
      BY <1>5, <2>2, <1>t, <1>k DEF tryClaimSteal, Replica
    <3> HIDE DEF k
    <3> QED
      BY <3>1, <3>2, LeaseMove
  <2> QED
    BY <2>1, <2>2
<1>6. ASSUME NEW r \in Runners, TickDone(r) \/ Crash(r) PROVE LeaseInv'
  <2>1. PICK t \in {now, runner[r].tick} : runner' = [runner EXCEPT ![r] = [Idle EXCEPT !.tick = t]]
    BY <1>6 DEF TickDone, Crash
  <2>2. t \in Nat /\ t <= now /\ UNCHANGED <<row, now, tokens>>
    BY <1>6, <1>t, <1>k DEF TickDone, Crash
  <2> DEFINE k == [Idle EXCEPT !.tick = t]
  <2>3. k \in Replica /\ k.pc = "idle" /\ k.tick <= now
    BY <2>2, IdleType DEF Idle
  <2>4. runner' = [runner EXCEPT ![r] = k]
    BY <2>1
  <2> HIDE DEF k
  <2> QED
    BY <2>2, <2>3, <2>4, LeaseMove
<1>7. ASSUME NEW r \in Runners, finish(r) PROVE LeaseInv'
  <2> DEFINE k == [runner[r] EXCEPT !.pc = "claim"]
  <2>1. k \in Replica /\ k.pc = "claim" /\ k.tick <= now
    BY <1>k DEF Replica
  <2>2. runner' = [runner EXCEPT ![r] = k] /\ UNCHANGED <<now, tokens>>
    BY <1>7 DEF finish
  <2>3. runner[r].plan \in Plans
    BY <1>7 DEF finish, SInv, HolderOK, At
  <2>4. \A p \in Plans : /\ row'[p].token = row[p].token /\ row'[p].staleAfter = row[p].staleAfter
                         /\ row'[p].status = "RUNNING" => row[p].status = "RUNNING"
    BY <1>7, <1>t, <2>3 DEF finish, Execution
  <2> HIDE DEF k
  <2> QED
    BY <2>1, <2>2, <2>4, LeaseMove
<1>8. ASSUME NEW r \in Runners, NEW ok \in BOOLEAN, HandlerReturns(r, ok) PROVE LeaseInv'
  <2> DEFINE k == [runner[r] EXCEPT !.pc = "finish", !.ok = ok]
  <2>1. k \in Replica /\ k.pc = "finish" /\ k.tick <= now /\ k.token = runner[r].token
    BY <1>k DEF Replica
  <2>2. runner' = [runner EXCEPT ![r] = k] /\ UNCHANGED <<row, now, tokens>> /\ At(r, {"run"})
    BY <1>8, <1>t, <1>k DEF HandlerReturns, Replica
  <2> HIDE DEF k
  <2> QED
    BY <2>1, <2>2, LeaseMove
<1>9. ASSUME NEW r \in Runners, heartbeat(r) PROVE LeaseInv'
  BY <1>9, LeaseBeat
<1>10. ASSUME NEW r \in Runners, StatementFails(r) PROVE LeaseInv'
  <2> DEFINE k(pc, plans) == [runner[r] EXCEPT !.pc = pc, !.plans = plans]
  <2>1. PICK pc \in {"plan", "claim"}, plans \in SUBSET Plans : runner' = [runner EXCEPT ![r] = k(pc, plans)]
    <3>1. CASE At(r, {"sweep"}) /\ runner' = [runner EXCEPT ![r].pc = "plan"]
      BY <1>k, <1>t, <3>1 DEF Replica
    <3>2. CASE At(r, {"plan", "finish"}) /\ runner' = [runner EXCEPT ![r].pc = "claim"]
      BY <1>k, <1>t, <3>2 DEF Replica
    <3>3. CASE /\ At(r, {"claim", "steal"}) /\ runner[r].plans # {}
               /\ runner' = [runner EXCEPT ![r].pc = "claim", ![r].plans = {p \in @ : ~IsFirst(p, @)}]
      <4>1. {p \in runner[r].plans : ~IsFirst(p, runner[r].plans)} \in SUBSET Plans
        BY <1>k DEF Replica
      <4>2. runner' = [runner EXCEPT ![r] = k("claim", {p \in runner[r].plans : ~IsFirst(p, runner[r].plans)})]
        BY <1>k, <1>t, <3>3 DEF Replica
      <4> QED
        BY <4>1, <4>2
    <3> QED
      BY <1>10, <3>1, <3>2, <3>3 DEF StatementFails
  <2>2. k(pc, plans) \in Replica /\ k(pc, plans).pc \in {"plan", "claim"} /\ k(pc, plans).tick <= now
    BY <1>k DEF Replica
  <2>3. UNCHANGED <<row, now, tokens>>
    BY <1>10 DEF StatementFails
  <2> HIDE DEF k
  <2> QED
    BY <2>1, <2>2, <2>3, LeaseMove
<1>11. ASSUME TimePasses PROVE LeaseInv'
  <2>1. now' = now + 1 /\ UNCHANGED <<row, runner, tokens>>
    BY <1>11 DEF TimePasses
  <2>2. TicksArePast'
    BY <1>t, <1>k, <2>1 DEF TicksArePast
  <2>3. TokensApart' /\ LeasesAreDated'
    BY <2>1 DEF LeaseInv, TokensApart, LeasesAreDated, Dated, HoldsLease, At
  <2> QED
    BY <2>2, <2>3 DEF LeaseInv
<1>12. CASE UNCHANGED svars
  BY <1>12 DEF svars, LeaseInv, TokensApart, TicksArePast, LeasesAreDated, Dated, HoldsLease, At
<1> QED
  BY <1>1, <1>2, <1>3, <1>4, <1>5, <1>6, <1>7, <1>8, <1>9, <1>10, <1>11, <1>12 DEF SNext, Step

\* The first state satisfies LeaseInv.
LEMMA LeaseInit == SInit => LeaseInv
  BY SchedulerTimes DEF SInit, LeaseInv, TokensApart, TicksArePast, LeasesAreDated, At, Idle

\* Who ends the lease of a running handler finds it stale.
LEMMA LeaseStep ==
    ASSUME SInv, LeaseInv, SNext, NEW s \in Runners, At(s, {"run"}), HoldsLease(s), At(s, {"run"})', ~HoldsLease(s)'
    PROVE  row[runner[s].plan].staleAfter < now
<1> DEFINE p == runner[s].plan
<1>t. /\ row \in [Plans -> Execution] /\ runner \in [Runners -> Replica] /\ now \in Nat
      /\ p \in Plans /\ row[p].status = "RUNNING" /\ row[p].token = runner[s].token
      /\ row[p].staleAfter \in Nat
  BY DEF SInv, STypeOK, HolderOK, HoldsLease, At, Execution
<1>k. \A r \in Runners : runner[r].tick \in Nat /\ runner[r].tick <= now
  BY <1>t DEF LeaseInv, TicksArePast, Replica
<1>s. ASSUME NEW r \in Runners, Stale(p, runner[r].tick) PROVE row[p].staleAfter < now
  BY <1>t, <1>k, <1>s DEF Stale
<1>e. ASSUME row'[p].status = "RUNNING", row'[p].token = row[p].token,
             runner'[s].plan = p, runner'[s].token = runner[s].token
      PROVE  FALSE
  BY <1>t, <1>e DEF HoldsLease
<1>1. ASSUME NEW r \in Runners, RunOnce(r) \/ runJob(r) \/ TickDone(r) \/ Crash(r) \/ StatementFails(r)
      PROVE FALSE
  <2>1. r # s /\ row' = row /\ runner'[s] = runner[s]
    BY <1>1, <1>t DEF RunOnce, runJob, TickDone, Crash, StatementFails, At, Idle, Replica
  <2> QED
    BY <1>e, <1>t, <2>1
<1>2. ASSUME NEW r \in Runners, markStaleAsFailed(r) PROVE row[p].staleAfter < now
  <2>1. r # s /\ runner'[s] = runner[s]
    BY <1>2, <1>t DEF markStaleAsFailed, At
  <2>2. CASE Stale(p, runner[r].tick)
    BY <1>s, <2>2
  <2>3. CASE ~Stale(p, runner[r].tick)
    BY <1>2, <1>e, <1>t, <2>1, <2>3 DEF markStaleAsFailed
  <2> QED
    BY <2>2, <2>3
<1>3. ASSUME NEW r \in Runners, NEW q \in Plans, tryClaimInsert(r, q) \/ tryClaimSteal(r, q)
      PROVE row[p].staleAfter < now
  <2>1. r # s /\ runner'[s] = runner[s]
    BY <1>3, <1>t DEF tryClaimInsert, tryClaimSteal, Claim, At
  <2>2. CASE row'[p] = row[p]
    BY <1>e, <1>t, <2>1, <2>2
  <2>3. CASE row'[p] # row[p]
    <3>1. q = p /\ Stealable(p, runner[r].tick)
      BY <1>3, <1>t, <2>3 DEF tryClaimInsert, tryClaimSteal, Claim
    <3> QED
      BY <1>s, <1>t, <3>1 DEF Stealable
  <2> QED
    BY <2>2, <2>3
<1>4. ASSUME NEW r \in Runners, finish(r) PROVE FALSE
  <2>1. r # s /\ runner'[s] = runner[s] /\ At(r, {"finish"})
    BY <1>4, <1>t DEF finish, At
  <2>2. runner[r].token # runner[s].token
    BY <2>1 DEF LeaseInv, TokensApart, At
  <2>3. row'[p] = row[p]
    BY <1>4, <1>t, <2>2 DEF finish, HoldsLease
  <2> QED
    BY <1>e, <1>t, <2>1, <2>3
<1>5. ASSUME NEW r \in Runners, NEW ok \in BOOLEAN, HandlerReturns(r, ok) PROVE FALSE
  <2>1. r # s /\ row' = row /\ runner'[s] = runner[s]
    BY <1>5, <1>t DEF HandlerReturns, At, Replica
  <2> QED
    BY <1>e, <1>t, <2>1
<1>6. ASSUME NEW r \in Runners, heartbeat(r) PROVE FALSE
  <2>1. runner'[s].plan = p /\ runner'[s].token = runner[s].token
    BY <1>6, <1>t DEF heartbeat, Replica
  <2>2. row'[p].status = row[p].status /\ row'[p].token = row[p].token
    BY <1>6, <1>t DEF heartbeat, Execution
  <2> QED
    BY <1>e, <1>t, <2>1, <2>2
<1>7. ASSUME TimePasses PROVE FALSE
  BY <1>7, <1>e, <1>t DEF TimePasses
<1> QED
  BY <1>1, <1>2, <1>3, <1>4, <1>5, <1>6, <1>7 DEF SNext, Step

\* markStaleAsFailed, tryClaimSteal and the fenced terminal writes: for any planner, any number
\* of replicas and of plans in a tick, and any delay of statements, heartbeats and handlers, a
\* handler that runs keeps its lease until StaleTimeout after its tick and its last heartbeat.
THEOREM LeaseIsHonouredHolds == SSpec => LeaseIsHonoured
<1>1. SInit => SInv /\ LeaseInv
  BY SInitOK, LeaseInit
<1>2. (SInv /\ LeaseInv) /\ [SNext]_svars => (SInv /\ LeaseInv)'
  BY SNextOK, LeaseNext
<1>3. SInv /\ LeaseInv /\ [SNext]_svars =>
        [\A r \in Runners : At(r, {"run"}) /\ HoldsLease(r) /\ At(r, {"run"})' /\ ~HoldsLease(r)' =>
           /\ runner[r].tick + StaleTimeout < now
           /\ runner[r].beat > runner[r].started => runner[r].beat + StaleTimeout < now]_svars
  <2> SUFFICES ASSUME SInv, LeaseInv, SNext, NEW r \in Runners,
                      At(r, {"run"}), HoldsLease(r), At(r, {"run"})', ~HoldsLease(r)'
               PROVE  /\ runner[r].tick + StaleTimeout < now
                      /\ runner[r].beat > runner[r].started => runner[r].beat + StaleTimeout < now
    BY DEF svars
  <2>1. row[runner[r].plan].staleAfter < now
    BY LeaseStep
  <2>2. Dated(r)
    BY DEF LeaseInv, LeasesAreDated
  <2>3. /\ runner[r].tick \in Nat /\ runner[r].beat \in Nat /\ now \in Nat
        /\ runner[r].plan \in Plans /\ row[runner[r].plan].staleAfter \in Nat
    BY DEF SInv, STypeOK, HolderOK, At, Replica, Execution
  <2> QED
    BY <2>1, <2>2, <2>3, SchedulerTimes DEF Dated
<1> QED
  BY <1>1, <1>2, <1>3, PTL DEF SSpec, LeaseIsHonoured

-----------------------------------------------------------------------------
(***************************************************************************)
(* No double run, when statements take no time, heartbeats are on time,    *)
(* handlers heed RunTimeout and a tick never claims a second plan.         *)
(***************************************************************************)

\* A tick may run one plan only: the condition under which the lease it takes is dated
\* from the present.
OnePlanATick == Mode = "every_plan" => MaxPlansPerTick = 1

\* A replica that may still sweep, plan or claim in this tick.
Claiming(k) == k.pc \in {"sweep", "plan", "steal"} \/ (k.pc = "claim" /\ k.plans # {})

\* Such a replica began its tick just now ...
TicksAreFresh == \A r \in Runners : Claiming(runner[r]) => runner[r].tick = now

\* ... and has one plan at most, and none once it runs.
Single(k) == (\A p, q \in k.plans : p = q) /\ (k.pc \notin {"claim", "steal"} => k.plans = {})
PlansAreSingle == \A r \in Runners : Single(runner[r])

\* Whoever runs a plan holds its lease, good for StaleTimeout from the last heartbeat, and
\* that heartbeat is not overdue.
Guarded(r) ==
    LET p == runner[r].plan
    IN /\ row[p].status = "RUNNING" /\ row[p].token = runner[r].token
       /\ row[p].staleAfter = runner[r].beat + StaleTimeout
       /\ now <= runner[r].beat + HeartbeatInterval
LeasesAreGood == \A r \in Runners : At(r, {"run"}) => Guarded(r)

AloneInv == TicksAreFresh /\ PlansAreSingle /\ LeasesAreGood /\ TokensApart /\ NoDoubleRun

\* A set of plans that is not empty has a greatest one.
LEMMA LatestExists == ASSUME NEW S \in SUBSET Plans, S # {} PROVE \E m \in S : \A n \in S : n <= m
<1> DEFINE top == MaxTime \div Cadence
           T   == {top - n : n \in S}
<1>1. top \in Nat /\ \A n \in S : n \in 1..top
  BY SchedulerTimes, SchedulerBounds DEF Plans
<1>2. T \subseteq Nat /\ T # {}
  BY <1>1
<1> DEFINE R == OpToRel(<, Nat)
<1>w. IsWellFoundedOn(R, Nat)
  BY NatLessThanWellFounded, Zenon
<1>a. \A a, b \in Nat : a < b => <<a, b>> \in R
  BY Zenon DEF OpToRel
<1> HIDE DEF top, R
<1> HIDE DEF T
<1>3. PICK x \in T : \A y \in T : ~(<<y, x>> \in R)
  BY <1>w, <1>2, WFMin, Zenon
<1>b. \A y \in T : ~(y < x)
  BY <1>2, <1>3, <1>a, Zenon
<1>4. \A y \in T : x <= y
  BY <1>2, <1>b
<1>5. PICK m \in S : x = top - m
  BY DEF T
<1>6. \A n \in S : top - m <= top - n
  BY <1>4, <1>5 DEF T
<1> QED
  BY <1>1, <1>6

\* The planner returns one plan at most.
LEMMA OnePlan ==
    ASSUME OnePlanATick, STypeOK, NEW t \in Nat, NEW p \in plansForTick(t), NEW q \in plansForTick(t)
    PROVE  p = q
<1>0. p \in Nat /\ q \in Nat
  BY PlansForTickType, PlansAreNat
<1>1. CASE Mode = "latest_only"
  BY <1>1 DEF plansForTick
<1>2. CASE Mode = "hook"
  BY <1>2 DEF plansForTick, HookPlans
<1>3. CASE Mode = "every_plan"
  <2>0. /\ Cadence \in Nat \ {0} /\ CatchUpWindow \in Nat
    BY SchedulerTimes
  <2>1. FloorPlan(t) \in Int /\ OldestAllowed(t) \in Int
    BY <2>0 DEF FloorPlan, OldestAllowed
  <2>2. latestPlan = 0 \/ latestPlan \in Int
    <3>1. CASE Found = {}
      BY <3>1 DEF latestPlan
    <3>2. CASE Found # {}
      <4>1. \E m \in Found : \A n \in Found : n <= m
        BY <3>2, LatestExists DEF Found
      <4>2. latestPlan \in Found
        BY <3>2, <4>1 DEF latestPlan
      <4> QED
        BY <4>2, PlansAreNat DEF Found
    <3> QED
      BY <3>1, <3>2
  <2> DEFINE start == IF latestPlan = 0 THEN FloorPlan(t)
                      ELSE IF RetryEligible(latestPlan, t) THEN latestPlan ELSE latestPlan + 1
             first == IF start < OldestAllowed(t) THEN OldestAllowed(t) ELSE start
  <2>3. start \in Int /\ first \in Int
    BY <2>1, <2>2
  <2>4. first <= p /\ p < first + 1 /\ first <= q /\ q < first + 1
    BY <1>3 DEF OnePlanATick, plansForTick, EveryPlan
  <2> HIDE DEF first
  <2> QED
    BY <1>0, <2>3, <2>4
<1> QED
  BY <1>1, <1>2, <1>3, SchedulerModes

\* Nobody sweeps or steals the lease of a plan that is being run.
LEMMA LeaseIsSafe ==
    ASSUME SInv, AloneInv, NEW s \in Runners, At(s, {"run"})
    PROVE  /\ runner[s].plan \in Plans /\ row[runner[s].plan].status = "RUNNING"
           /\ ~Stale(runner[s].plan, now)
<1>1. runner[s].plan \in Plans /\ runner[s] \in Replica /\ now \in Nat
  BY DEF SInv, STypeOK, HolderOK, At
<1>2. Guarded(s)
  BY DEF AloneInv, LeasesAreGood
<1>3. runner[s].beat \in Nat
  BY <1>1 DEF Replica
<1> QED
  BY <1>1, <1>2, <1>3, SchedulerTimes DEF Guarded, Stale

\* One replica moves to k without starting a run, and the leases of the others stay.
LEMMA MoveAlone ==
    ASSUME SInv, AloneInv, NEW r \in Runners, NEW k \in Replica,
           k.pc # "run", k.pc = "finish" => At(r, {"run"}) /\ k.token = runner[r].token,
           Claiming(k) => k.tick = now, Single(k),
           runner' = [runner EXCEPT ![r] = k], UNCHANGED <<now, tokens>>,
           \A p \in Plans : row'[p].token = row[p].token,
           \A s \in Runners \ {r} : At(s, {"run"}) => row'[runner[s].plan] = row[runner[s].plan]
    PROVE  AloneInv'
<1>0. /\ runner \in [Runners -> Replica] /\ runner'[r] = k
      /\ \A s \in Runners \ {r} : runner'[s] = runner[s]
  BY DEF SInv, STypeOK
<1>1. TicksAreFresh'
  BY <1>0 DEF AloneInv, TicksAreFresh
<1>2. PlansAreSingle'
  BY <1>0 DEF AloneInv, PlansAreSingle
<1>3. LeasesAreGood'
  BY <1>0 DEF AloneInv, LeasesAreGood, Guarded, At
<1>4. TokensApart'
  BY <1>0 DEF AloneInv, TokensApart, At
<1>5. NoDoubleRun'
  BY <1>0 DEF AloneInv, NoDoubleRun, At
<1> QED
  BY <1>1, <1>2, <1>3, <1>4, <1>5 DEF AloneInv

\* A claim, by either statement: nobody runs the plan it takes.
LEMMA ClaimAlone ==
    ASSUME SInv, AloneInv, NEW r \in Runners, NEW p \in Plans, Claim(r, p), At(r, {"claim", "steal"}),
           p \in runner[r].plans, UNCHANGED now,
           \A s \in Runners : At(s, {"run"}) => runner[s].plan # p
    PROVE  AloneInv'
<1>t. /\ runner \in [Runners -> Replica] /\ row \in [Plans -> Execution] /\ tokens \in Nat /\ now \in Nat
      /\ runner[r] \in Replica
  BY DEF SInv, STypeOK
<1>0. /\ runner[r].tick = now /\ runner[r].plans \ {p} = {}
  BY DEF AloneInv, TicksAreFresh, PlansAreSingle, Single, Claiming, At
<1>1. /\ runner'[r].pc = "run" /\ runner'[r].plans = {} /\ runner'[r].plan = p
      /\ runner'[r].token = tokens + 1 /\ runner'[r].beat = now
      /\ \A s \in Runners \ {r} : runner'[s] = runner[s]
  BY <1>t, <1>0 DEF Claim, Replica
<1>2. /\ row'[p].status = "RUNNING" /\ row'[p].token = tokens + 1 /\ row'[p].staleAfter = now + StaleTimeout
      /\ \A q \in Plans \ {p} : row'[q] = row[q]
      /\ tokens' = tokens + 1
  BY <1>t, <1>0 DEF Claim, Leased
<1>p. \A s \in Runners : At(s, {"run"}) => runner[s].plan \in Plans
  BY DEF SInv, HolderOK, At
<1>3. TicksAreFresh'
  BY <1>1 DEF AloneInv, TicksAreFresh, Claiming
<1>4. PlansAreSingle'
  BY <1>1 DEF AloneInv, PlansAreSingle, Single
<1>5. LeasesAreGood'
  <2>1. ASSUME NEW s \in Runners \ {r}, At(s, {"run"})' PROVE Guarded(s)'
    <3>1. At(s, {"run"}) /\ Guarded(s) /\ runner[s].plan \in Plans \ {p}
      BY <1>1, <1>p, <2>1 DEF At, AloneInv, LeasesAreGood
    <3> QED
      BY <1>1, <1>2, <3>1 DEF Guarded
  <2>2. Guarded(r)'
    BY <1>t, <1>1, <1>2, SchedulerTimes DEF Guarded
  <2> QED
    BY <2>1, <2>2 DEF LeasesAreGood
<1>6. TokensApart'
  <2>1. \A q \in Plans : row'[q].token <= tokens'
    <3>1. \A q \in Plans : row[q].token \in Nat /\ row[q].token <= tokens
      BY <1>t DEF AloneInv, TokensApart, Execution
    <3> QED
      BY <1>t, <1>2, <3>1
  <2>2. \A s \in Runners : runner[s].token \in Nat
    BY <1>t DEF Replica
  <2>3. \A s \in Runners \ {r} : At(s, {"run", "finish"})' => At(s, {"run", "finish"}) /\ runner[s].token <= tokens
    BY <1>1 DEF AloneInv, TokensApart, At
  <2>4. \A s \in Runners : At(s, {"run", "finish"})' => runner'[s].token <= tokens'
    BY <1>t, <1>1, <1>2, <2>2, <2>3
  <2>5. \A s \in Runners \ {r} : At(s, {"run", "finish"})' => runner'[s].token # runner'[r].token
    BY <1>t, <1>1, <2>2, <2>3
  <2>6. \A s, u \in Runners \ {r} : s # u /\ At(s, {"run", "finish"})' /\ At(u, {"run", "finish"})'
                                    => runner'[s].token # runner'[u].token
    BY <1>1, <2>3 DEF AloneInv, TokensApart
  <2> QED
    BY <2>1, <2>4, <2>5, <2>6 DEF TokensApart
<1>7. NoDoubleRun'
  BY <1>1 DEF AloneInv, NoDoubleRun, At
<1> QED
  BY <1>3, <1>4, <1>5, <1>6, <1>7 DEF AloneInv

\* A replica that moves on in its tick leaves the rows alone.
LEMMA PassAlone ==
    ASSUME SInv, AloneInv, NEW r \in Runners, NEW k \in Replica, runner' = [runner EXCEPT ![r] = k],
           k.pc # "run", k.pc = "finish" => At(r, {"run"}) /\ k.token = runner[r].token,
           Claiming(k) => k.tick = now, Single(k), UNCHANGED <<row, now, tokens>>
    PROVE  AloneInv'
  BY MoveAlone

\* Every step preserves AloneInv.
LEMMA AloneNext ==
    ASSUME Prompt, OnePlanATick PROVE SInv /\ AloneInv /\ [SNext]_svars => AloneInv'
<1> SUFFICES ASSUME SInv, AloneInv, [SNext]_svars PROVE AloneInv'
  OBVIOUS
<1>t. /\ row \in [Plans -> Execution] /\ runner \in [Runners -> Replica]
      /\ now \in Nat /\ tokens \in Nat /\ STypeOK
  BY DEF SInv, STypeOK
<1>k. ASSUME NEW r \in Runners PROVE /\ runner[r] \in Replica /\ Single(runner[r])
                                     /\ Claiming(runner[r]) => runner[r].tick = now
  BY <1>t DEF AloneInv, TicksAreFresh, PlansAreSingle
<1>1. ASSUME NEW r \in Runners, RunOnce(r) PROVE AloneInv'
  <2> DEFINE k == [Idle EXCEPT !.pc = "sweep", !.tick = now]
  <2>1. k \in Replica /\ k.pc = "sweep" /\ k.tick = now /\ k.plans = {}
    BY <1>t, IdleType DEF Idle
  <2>2. runner' = [runner EXCEPT ![r] = k] /\ UNCHANGED <<row, now, tokens>>
    BY <1>1 DEF RunOnce
  <2> HIDE DEF k
  <2> QED
    BY <2>1, <2>2, PassAlone DEF Single
<1>2. ASSUME NEW r \in Runners, markStaleAsFailed(r) PROVE AloneInv'
  <2> DEFINE k == [runner[r] EXCEPT !.pc = "plan"]
  <2>1. /\ k \in Replica /\ k.pc = "plan" /\ k.tick = runner[r].tick /\ k.plans = runner[r].plans
    BY <1>k DEF Replica
  <2>p. runner[r].pc = "sweep"
    BY <1>2 DEF markStaleAsFailed, At
  <2>2. runner[r].tick = now /\ Single(k)
    BY <1>k, <2>1, <2>p DEF Claiming, Single
  <2>3. runner' = [runner EXCEPT ![r] = k] /\ UNCHANGED <<now, tokens>>
    BY <1>2 DEF markStaleAsFailed
  <2>4. \A p \in Plans : row'[p].token = row[p].token /\ (~Stale(p, now) => row'[p] = row[p])
    BY <1>2, <1>t, <2>2 DEF markStaleAsFailed, Execution
  <2>5. \A s \in Runners \ {r} : At(s, {"run"}) => row'[runner[s].plan] = row[runner[s].plan]
    BY <2>4, LeaseIsSafe
  <2> HIDE DEF k
  <2> QED
    BY <2>1, <2>2, <2>3, <2>4, <2>5, MoveAlone
<1>3. ASSUME NEW r \in Runners, runJob(r) PROVE AloneInv'
  <2> DEFINE k == [runner[r] EXCEPT !.pc = "claim", !.plans = plansForTick(runner[r].tick)]
  <2>p. runner[r].pc = "plan"
    BY <1>3 DEF runJob, At
  <2>0. runner[r].tick = now /\ runner[r].tick \in Nat
    BY <1>k, <1>t, <2>p DEF Claiming
  <2>1. plansForTick(runner[r].tick) \subseteq Plans
    BY <2>0, PlansForTickType
  <2>2. /\ k \in Replica /\ k.pc = "claim" /\ k.tick = runner[r].tick /\ k.plans = plansForTick(runner[r].tick)
    BY <1>k, <2>1 DEF Replica
  <2>3. \A p, q \in plansForTick(runner[r].tick) : p = q
    BY <1>t, <2>0, OnePlan
  <2>4. runner' = [runner EXCEPT ![r] = k] /\ UNCHANGED <<row, now, tokens>>
    BY <1>3, <1>t, <1>k DEF runJob, Replica
  <2>5. Single(k)
    BY <2>2, <2>3 DEF Single
  <2> HIDE DEF k
  <2> QED
    BY <2>0, <2>2, <2>4, <2>5, PassAlone
<1>4. ASSUME NEW r \in Runners, NEW p \in Plans, tryClaimInsert(r, p) PROVE AloneInv'
  <2>0. At(r, {"claim"}) /\ p \in runner[r].plans /\ UNCHANGED now
    BY <1>4 DEF tryClaimInsert, IsFirst
  <2>1. CASE row[p].status = "none"
    <3>1. \A s \in Runners : At(s, {"run"}) => runner[s].plan # p
      BY <2>1, LeaseIsSafe
    <3>2. Claim(r, p) /\ At(r, {"claim", "steal"})
      BY <1>4, <2>1 DEF tryClaimInsert, At
    <3> QED
      BY <2>0, <3>1, <3>2, ClaimAlone
  <2>2. CASE row[p].status # "none"
    <3> DEFINE k == [runner[r] EXCEPT !.pc = "steal"]
    <3>1. /\ k \in Replica /\ k.pc = "steal" /\ k.tick = runner[r].tick /\ k.plans = runner[r].plans
      BY <1>k DEF Replica
    <3>2. runner' = [runner EXCEPT ![r] = k] /\ UNCHANGED <<row, now, tokens>>
      BY <1>4, <2>2 DEF tryClaimInsert
    <3>3. Single(k) /\ k.tick = now
      BY <1>k, <2>0, <3>1 DEF Single, Claiming, At
    <3> HIDE DEF k
    <3> QED
      BY <3>1, <3>2, <3>3, PassAlone
  <2> QED
    BY <2>1, <2>2
<1>5. ASSUME NEW r \in Runners, NEW p \in Plans, tryClaimSteal(r, p) PROVE AloneInv'
  <2>0. At(r, {"steal"}) /\ p \in runner[r].plans /\ UNCHANGED now /\ runner[r].tick = now
    BY <1>5, <1>k DEF tryClaimSteal, IsFirst, At, Claiming
  <2>1. CASE Stealable(p, runner[r].tick)
    <3>1. \A s \in Runners : At(s, {"run"}) => runner[s].plan # p
      BY <2>0, <2>1, LeaseIsSafe DEF Stealable
    <3>2. Claim(r, p) /\ At(r, {"claim", "steal"})
      BY <1>5, <2>1 DEF tryClaimSteal, At
    <3> QED
      BY <2>0, <3>1, <3>2, ClaimAlone
  <2>2. CASE ~Stealable(p, runner[r].tick)
    <3> DEFINE k == [runner[r] EXCEPT !.pc = "claim", !.plans = runner[r].plans \ {p}]
    <3>1. /\ k \in Replica /\ k.pc = "claim" /\ k.tick = runner[r].tick /\ k.plans = runner[r].plans \ {p}
      BY <1>k DEF Replica
    <3>2. runner' = [runner EXCEPT ![r] = k] /\ UNCHANGED <<row, now, tokens>>
      BY <1>5, <2>2, <1>t, <1>k DEF tryClaimSteal, Replica
    <3>3. Single(k)
      BY <1>k, <3>1 DEF Single
    <3> HIDE DEF k
    <3> QED
      BY <2>0, <3>1, <3>2, <3>3, PassAlone
  <2> QED
    BY <2>1, <2>2
<1>6. ASSUME NEW r \in Runners, TickDone(r) \/ Crash(r) PROVE AloneInv'
  <2>1. PICK t \in {now, runner[r].tick} : runner' = [runner EXCEPT ![r] = [Idle EXCEPT !.tick = t]]
    BY <1>6 DEF TickDone, Crash
  <2>2. t \in Nat /\ UNCHANGED <<row, now, tokens>>
    BY <1>6, <1>t, <1>k DEF TickDone, Crash, Replica
  <2> DEFINE k == [Idle EXCEPT !.tick = t]
  <2>3. k \in Replica /\ k.pc = "idle" /\ k.plans = {}
    BY <2>2, IdleType DEF Idle
  <2>4. runner' = [runner EXCEPT ![r] = k]
    BY <2>1
  <2> HIDE DEF k
  <2> QED
    BY <2>2, <2>3, <2>4, PassAlone DEF Single, Claiming
<1>7. ASSUME NEW r \in Runners, finish(r) PROVE AloneInv'
  <2> DEFINE k == [runner[r] EXCEPT !.pc = "claim"]
  <2>1. /\ k \in Replica /\ k.pc = "claim" /\ k.plans = runner[r].plans
    BY <1>k DEF Replica
  <2>2. k.plans = {} /\ At(r, {"finish"})
    BY <1>7, <1>k, <2>1 DEF finish, At, Single
  <2>3. runner' = [runner EXCEPT ![r] = k] /\ UNCHANGED <<now, tokens>>
    BY <1>7 DEF finish
  <2>4. runner[r].plan \in Plans
    BY <2>2 DEF SInv, HolderOK, At
  <2>5. /\ \A p \in Plans : row'[p].token = row[p].token
        /\ \A p \in Plans : p # runner[r].plan => row'[p] = row[p]
        /\ ~HoldsLease(r) => row' = row
    BY <1>7, <1>t, <2>4 DEF finish, Execution
  <2>6. ASSUME NEW s \in Runners \ {r}, At(s, {"run"}) PROVE row'[runner[s].plan] = row[runner[s].plan]
    <3>1. runner[s].token # runner[r].token
      BY <2>2, <2>6 DEF AloneInv, TokensApart, At
    <3>2. row[runner[s].plan].token = runner[s].token /\ runner[s].plan \in Plans
      BY <2>6, LeaseIsSafe DEF AloneInv, LeasesAreGood, Guarded
    <3>3. runner[s].plan = runner[r].plan => ~HoldsLease(r)
      BY <3>1, <3>2 DEF HoldsLease
    <3> QED
      BY <2>5, <3>2, <3>3
  <2> HIDE DEF k
  <2> QED
    BY <2>1, <2>2, <2>3, <2>5, <2>6, MoveAlone DEF Single, Claiming
<1>8. ASSUME NEW r \in Runners, NEW ok \in BOOLEAN, HandlerReturns(r, ok) PROVE AloneInv'
  <2> DEFINE k == [runner[r] EXCEPT !.pc = "finish", !.ok = ok]
  <2>1. /\ k \in Replica /\ k.pc = "finish" /\ k.plans = runner[r].plans /\ k.token = runner[r].token
    BY <1>k DEF Replica
  <2>2. k.plans = {} /\ At(r, {"run"})
    BY <1>8, <1>k, <2>1 DEF HandlerReturns, At, Single
  <2>3. runner' = [runner EXCEPT ![r] = k] /\ UNCHANGED <<row, now, tokens>>
    BY <1>8, <1>t, <1>k DEF HandlerReturns, Replica
  <2> HIDE DEF k
  <2> QED
    BY <2>1, <2>2, <2>3, PassAlone DEF Single, Claiming
<1>9. ASSUME NEW r \in Runners, heartbeat(r) PROVE AloneInv'
  <2>0. /\ At(r, {"run"}) /\ UNCHANGED <<now, tokens>> /\ runner[r].plan \in Plans
        /\ Guarded(r)
    BY <1>9, LeaseIsSafe DEF heartbeat, AloneInv, LeasesAreGood
  <2>1. /\ \A s \in Runners \ {r} : runner'[s] = runner[s]
        /\ \A s \in Runners : /\ runner'[s].pc = runner[s].pc /\ runner'[s].plans = runner[s].plans
                              /\ runner'[s].tick = runner[s].tick /\ runner'[s].plan = runner[s].plan
                              /\ runner'[s].token = runner[s].token
        /\ runner'[r].beat = now
    BY <1>9, <1>t DEF heartbeat, Replica
  <2>2. /\ \A p \in Plans \ {runner[r].plan} : row'[p] = row[p]
        /\ \A p \in Plans : row'[p].status = row[p].status /\ row'[p].token = row[p].token
        /\ row'[runner[r].plan].staleAfter = now + StaleTimeout
    BY <1>9, <1>t, <2>0 DEF heartbeat, Execution
  <2>3. \A s \in Runners \ {r} : At(s, {"run"}) => runner[s].plan \in Plans \ {runner[r].plan} /\ Guarded(s)
    BY <2>0, LeaseIsSafe DEF AloneInv, NoDoubleRun, LeasesAreGood
  <2>4. LeasesAreGood'
    <3>1. Guarded(r)'
      BY <1>t, <2>0, <2>1, <2>2, SchedulerTimes DEF Guarded
    <3>2. ASSUME NEW s \in Runners \ {r}, At(s, {"run"}) PROVE Guarded(s)'
      BY <2>0, <2>1, <2>2, <2>3, <3>2 DEF Guarded
    <3> QED
      BY <2>1, <3>1, <3>2 DEF LeasesAreGood, At
  <2>5. TicksAreFresh' /\ PlansAreSingle' /\ NoDoubleRun'
    BY <2>0, <2>1 DEF AloneInv, TicksAreFresh, PlansAreSingle, NoDoubleRun, Claiming, Single, At
  <2>6. TokensApart'
    BY <2>0, <2>1, <2>2 DEF AloneInv, TokensApart, At
  <2> QED
    BY <2>4, <2>5, <2>6 DEF AloneInv
<1>10. ASSUME NEW r \in Runners, StatementFails(r) PROVE AloneInv'
  <2>0. UNCHANGED <<row, now, tokens>>
    BY <1>10 DEF StatementFails
  <2>1. CASE At(r, {"sweep"}) /\ runner' = [runner EXCEPT ![r].pc = "plan"]
    <3> DEFINE k == [runner[r] EXCEPT !.pc = "plan"]
    <3>1. /\ k \in Replica /\ k.pc = "plan" /\ k.tick = runner[r].tick /\ k.plans = runner[r].plans
          /\ runner' = [runner EXCEPT ![r] = k]
      BY <1>k, <2>1 DEF Replica
    <3>p. runner[r].pc = "sweep"
      BY <2>1 DEF At
    <3>2. k.tick = now /\ Single(k)
      BY <1>k, <3>1, <3>p DEF Claiming, Single
    <3> HIDE DEF k
    <3> QED
      BY <2>0, <3>1, <3>2, PassAlone
  <2>2. CASE At(r, {"plan", "finish"}) /\ runner' = [runner EXCEPT ![r].pc = "claim"]
    <3> DEFINE k == [runner[r] EXCEPT !.pc = "claim"]
    <3>1. /\ k \in Replica /\ k.pc = "claim" /\ k.plans = runner[r].plans
          /\ runner' = [runner EXCEPT ![r] = k]
      BY <1>k, <2>2 DEF Replica
    <3>2. k.plans = {}
      BY <1>k, <2>2, <3>1 DEF At, Single
    <3> HIDE DEF k
    <3> QED
      BY <2>0, <3>1, <3>2, PassAlone DEF Claiming, Single
  <2>3. CASE /\ At(r, {"claim", "steal"}) /\ runner[r].plans # {}
             /\ runner' = [runner EXCEPT ![r].pc = "claim", ![r].plans = {p \in @ : ~IsFirst(p, @)}]
    <3> DEFINE rest == {p \in runner[r].plans : ~IsFirst(p, runner[r].plans)}
               k == [runner[r] EXCEPT !.pc = "claim", !.plans = rest]
    <3>1. /\ rest \subseteq runner[r].plans /\ runner[r].plans \subseteq Plans
      BY <1>k DEF Replica
    <3>2. /\ k \in Replica /\ k.pc = "claim" /\ k.plans = rest /\ k.tick = runner[r].tick
          /\ runner' = [runner EXCEPT ![r] = k]
      BY <1>k, <1>t, <2>3, <3>1 DEF Replica
    <3>3. runner[r].tick = now /\ Single(k)
      BY <1>k, <2>3, <3>1, <3>2 DEF At, Claiming, Single
    <3> HIDE DEF k
    <3> QED
      BY <2>0, <3>2, <3>3, PassAlone
  <2> QED
    BY <1>10, <2>1, <2>2, <2>3 DEF StatementFails
<1>11. ASSUME TimePasses PROVE AloneInv'
  <2>0. /\ now' = now + 1 /\ UNCHANGED <<row, runner, tokens>>
        /\ Prompt => \A r \in Runners : At(r, {"idle"}) \/ (At(r, {"run"}) /\ ~HeartbeatDue(r))
    BY <1>11 DEF TimePasses
  <2>p. \A r \in Runners : At(r, {"idle"}) \/ (At(r, {"run"}) /\ ~HeartbeatDue(r))
    BY <2>0, Zenon
  <2>1. \A r \in Runners : ~Claiming(runner[r])
    BY <2>p, <1>k DEF Claiming, At
  <2>2. TicksAreFresh'
    BY <2>0, <2>1 DEF TicksAreFresh
  <2>3. LeasesAreGood'
    <3>1. ASSUME NEW r \in Runners, At(r, {"run"}) PROVE Guarded(r)'
      <4>1. Guarded(r) /\ ~HeartbeatDue(r) /\ runner[r].beat \in Nat
        BY <1>k, <2>p, <3>1 DEF AloneInv, LeasesAreGood, At, Replica
      <4>2. now < runner[r].beat + HeartbeatInterval
        BY <1>t, <4>1, SchedulerTimes DEF HeartbeatDue, HoldsLease, Guarded
      <4> QED
        BY <1>t, <2>0, <4>1, <4>2, SchedulerTimes DEF Guarded
    <3> QED
      BY <2>0, <3>1 DEF LeasesAreGood, At
  <2>4. PlansAreSingle' /\ TokensApart' /\ NoDoubleRun'
    BY <2>0 DEF AloneInv, PlansAreSingle, TokensApart, NoDoubleRun, At
  <2> QED
    BY <2>2, <2>3, <2>4 DEF AloneInv
<1>12. CASE UNCHANGED svars
  BY <1>12 DEF svars, AloneInv, TicksAreFresh, PlansAreSingle, LeasesAreGood, Guarded, TokensApart, NoDoubleRun, At
<1> QED
  BY <1>1, <1>2, <1>3, <1>4, <1>5, <1>6, <1>7, <1>8, <1>9, <1>10, <1>11, <1>12 DEF SNext, Step

\* The first state satisfies AloneInv.
LEMMA AloneInit == SInit => AloneInv
  BY DEF SInit, AloneInv, TicksAreFresh, PlansAreSingle, LeasesAreGood, TokensApart, NoDoubleRun,
         Claiming, Single, At, Idle

\* Where statements take no time, heartbeats are on time, handlers return by RunTimeout and
\* a tick claims one plan, no two replicas are in the handler of one plan, however many
\* replicas there are, whoever crashes and whichever statement fails.  With two plans in a
\* tick this is false: the second lease is dated from the tick's beginning.
THEOREM NoDoubleRunHolds == ASSUME Prompt, OnePlanATick PROVE SSpec => []NoDoubleRun
<1>1. SInit => SInv /\ AloneInv
  BY SInitOK, AloneInit
<1>2. (SInv /\ AloneInv) /\ [SNext]_svars => (SInv /\ AloneInv)'
  BY SNextOK, AloneNext
<1>3. SInv /\ AloneInv => NoDoubleRun
  BY DEF AloneInv
<1> QED
  BY <1>1, <1>2, <1>3, PTL DEF SSpec
==============================================================================
