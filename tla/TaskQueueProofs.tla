--------------------------- MODULE TaskQueueProofs ---------------------------
(***************************************************************************)
(* Proofs about TaskQueue, for any number of agents, runtimes, issues,     *)
(* chats, rows and claims.                                                 *)
(***************************************************************************)
EXTENDS TaskQueue, FiniteSetTheorems, TLAPS

\* Work that names a row names one that was inserted.
TodoOK ==
    \A t \in TaskIds :
        /\ HandleFailed(t) \in todo => ~Is(t, {"none"})
        /\ \A b \in Agents : Fallback(t, b) \in todo => ~Is(t, {"none"})

TInv == TypeOK /\ TodoOK

\* The columns no statement writes after the insert.
SameRow(new, old) ==
    /\ new.agent = old.agent /\ new.subject = old.subject /\ new.runtime = old.runtime
    /\ new.parent = old.parent /\ new.attempt = old.attempt /\ new.max = old.max
    /\ new.esc = old.esc /\ new.prio = old.prio /\ (old.due => new.due)

-----------------------------------------------------------------------------
(***************************************************************************)
(* The rows the operations write are rows.                                 *)
(***************************************************************************)
LEMMA BlankIsRow == Blank \in Row
  BY BoundsType DEF Blank, Row, Statuses, TaskIds

\* What NewRow builds for the enqueue operations is a row with its names filled in.
LEMMA NewRowIsRow ==
  ASSUME NEW st \in {"queued", "deferred"}, NEW a \in Agents, NEW s \in Subjects,
         NEW r \in Runtimes, NEW p \in Nat
  PROVE  /\ NewRow(st, a, s, r, p) \in Row
         /\ NewRow(st, a, s, r, p).status = st
         /\ NewRow(st, a, s, r, p).agent = a
         /\ NewRow(st, a, s, r, p).subject = s
         /\ NewRow(st, a, s, r, p).runtime = r
         /\ NewRow(st, a, s, r, p).parent = 0
  BY BoundsType DEF NewRow, Blank, Row, Statuses, Cancellable, TaskIds, defaultMaxAttempts

\* The rows CreateRetryTask inserts.
LEMMA RetryRowIsRow ==
  ASSUME RowsOK, NEW t \in TaskIds, ~Is(t, {"none"}), NEW why
  PROVE  /\ RetryRow(t, why) \in Row
         /\ RetryRow(t, why).status \in {"queued", "deferred"}
         /\ RetryRow(t, why).agent = task[t].agent
         /\ RetryRow(t, why).subject = task[t].subject
         /\ RetryRow(t, why).runtime = task[t].runtime
         /\ RetryRow(t, why).parent = t
         /\ RetryRow(t, why).attempt = task[t].attempt + 1
         /\ RetryRow(t, why).max = retryAttemptCeiling(why, task[t].max)
  <1> task[t] \in Row
    BY DEF RowsOK
  <1>1. retryAttemptCeiling(why, task[t].max) \in Nat
    BY DEF Row, retryAttemptCeiling, providerNetworkMaxAttempts
  <1> QED
    BY <1>1, BoundsType DEF RetryRow, Blank, Row, Statuses, Cancellable, Is, chatRetryPriority, RowsOK

\* The rows the sweeps and the cancellations write.
LEMMA FailedIsRow ==
  ASSUME NEW row \in Row, NEW why \in Reasons
  PROVE  /\ Failed(row, why) \in Row
         /\ Failed(row, why).status = "failed" /\ Failed(row, why).reason = why
         /\ SameRow(Failed(row, why), row)
  BY DEF SameRow, Failed, Row, Statuses, Terminal

\* A claim or a reclaim leaves a row well typed.
LEMMA DispatchedIsRow ==
  ASSUME NEW row \in Row, clock + 1 \in 0..MaxClaims
  PROVE  /\ Dispatched(row) \in Row /\ Dispatched(row).status = "dispatched"
         /\ SameRow(Dispatched(row), row)
  BY DEF SameRow, Dispatched, Row, Statuses, Cancellable, Active

\* Handing a claim back leaves a row well typed.
LEMMA RequeuedIsRow ==
  ASSUME NEW row \in Row, NEW new,
         new = [row EXCEPT !.status = "queued", !.gen = 0, !.lease = "none"]
  PROVE  /\ new \in Row /\ new.status = "queued"
         /\ SameRow(new, row)
  <1>1. 0 \in 0..MaxClaims
    BY BoundsType
  <1> QED
    BY <1>1 DEF SameRow, Row, Statuses, Cancellable

\* Failing a row of an offline runtime leaves it well typed.
LEMMA OfflineIsRow ==
  ASSUME NEW row \in Row, NEW new,
         new = [row EXCEPT !.status = "failed", !.reason = "runtime_offline"]
  PROVE  /\ new \in Row /\ new.status = "failed" /\ new.reason = "runtime_offline"
         /\ SameRow(new, row)
  BY DEF SameRow, Row, Statuses, Terminal, Reasons, SweepReasons

\* Promoting a deferred row leaves it well typed.
LEMMA QueuedIsRow ==
  ASSUME NEW row \in Row, NEW new, new = [row EXCEPT !.status = "queued"]
  PROVE  /\ new \in Row /\ new.status = "queued"
         /\ SameRow(new, row)
  BY DEF SameRow, Row, Statuses, Cancellable

\* Cancelling a row leaves it well typed.
LEMMA CancelledIsRow ==
  ASSUME NEW row \in Row, NEW new, new = [row EXCEPT !.status = "cancelled", !.lease = "none"]
  PROVE  /\ new \in Row /\ new.status = "cancelled"
         /\ SameRow(new, row)
  BY DEF SameRow, Row, Statuses, Terminal

-----------------------------------------------------------------------------
(***************************************************************************)
(* What a step may do to a row.                                            *)
(***************************************************************************)

\* A step leaves row t alone, or moves it on without changing what it is about and
\* without making it active.
MovedOn(t) ==
    \/ task'[t] = task[t]
    \/ /\ Is(t, Cancellable) /\ task'[t].status # "none"
       /\ SameRow(task'[t], task[t])
       /\ task'[t].status \in Active => Is(t, Active)
       /\ Is(t, {"running"}) => task'[t].status \in {"running"} \cup Terminal
       /\ Is(t, {"deferred"}) => task'[t].status \in {"deferred", "cancelled"} \/ task[t].due \/ task[t].esc = 0

\* ... or inserts it.
RowStep(t) ==
    \/ MovedOn(t)
    \/ Is(t, {"none"}) /\ task'[t].status \in {"queued", "deferred"}

\* A step that is not a claim.
QuietStep == RowsOK' /\ \A t \in TaskIds : RowStep(t)

\* A step that does not touch the table.
LEMMA NoRowStep == RowsOK /\ UNCHANGED task => QuietStep
  BY DEF RowsOK, QuietStep, RowStep, MovedOn, Is

\* An insert: the enqueue operations and the rerun.
LEMMA InsertStep ==
  ASSUME RowsOK, NEW t \in TaskIds, NEW row \in Row, Insert(t, row),
         row.status \in {"queued", "deferred"},
         row.agent \in Agents, row.subject \in Subjects, row.runtime \in Runtimes
  PROVE  QuietStep
  BY DEF RowsOK, QuietStep, RowStep, MovedOn, Is, Insert, IsNextId

\* Rows that are moved on, any number of them in one statement.
LEMMA MoveStep ==
  ASSUME RowsOK, task' \in [TaskIds -> Row],
         \A t \in TaskIds : MovedOn(t)
  PROVE  QuietStep
  BY DEF RowsOK, QuietStep, RowStep, MovedOn, SameRow, Is, Cancellable, Active

\* A set of rows that are all failed: the sweeps.
LEMMA FailRowsStep ==
  ASSUME RowsOK, NEW S \in SUBSET TaskIds, NEW why \in Reasons, FailRows(S, why),
         \A t \in S : Is(t, Active \cup {"queued"})
  PROVE  QuietStep
  <1>1. \A t \in S : Failed(task[t], why) \in Row
    BY FailedIsRow DEF RowsOK
  <1>2. task' \in [TaskIds -> Row]
    BY <1>1 DEF RowsOK, FailRows
  <1>3. \A t \in TaskIds : MovedOn(t)
    BY FailedIsRow DEF RowsOK, FailRows, Active, Cancellable, Terminal, MovedOn, Is
  <1> QED
    BY <1>2, <1>3, MoveStep

\* ... and the sweep of the offline runtimes' rows.
LEMMA FailOfflineRowsStep ==
  ASSUME RowsOK, NEW S \in SUBSET TaskIds, FailOfflineRows(S), \A t \in S : Is(t, Active)
  PROVE  QuietStep
  <1>1. \A t \in S : [task[t] EXCEPT !.status = "failed", !.reason = "runtime_offline"] \in Row
    BY OfflineIsRow DEF RowsOK
  <1>2. task' \in [TaskIds -> Row]
    BY <1>1 DEF RowsOK, FailOfflineRows
  <1>3. \A t \in TaskIds : MovedOn(t)
    <2> TAKE t \in TaskIds
    <2>1. CASE t \notin S
      BY <2>1 DEF RowsOK, FailOfflineRows, MovedOn
    <2>2. CASE t \in S
      <3>1. task[t] \in Row /\ task'[t] = [task[t] EXCEPT !.status = "failed", !.reason = "runtime_offline"]
        BY <2>2 DEF RowsOK, FailOfflineRows
      <3> QED
        BY <2>2, <3>1, OfflineIsRow DEF Active, Cancellable, Terminal, MovedOn, Is
    <2> QED
      BY <2>1, <2>2
  <1> QED
    BY <1>2, <1>3, MoveStep

\* A set of rows that are all queued: the promotions.
LEMMA QueueRowsStep ==
  ASSUME RowsOK, NEW S \in SUBSET TaskIds, QueueRows(S),
         \A t \in S : Is(t, {"deferred"}) /\ (task[t].due \/ task[t].esc = 0)
  PROVE  QuietStep
  <1>1. \A t \in S : [task[t] EXCEPT !.status = "queued"] \in Row
    BY QueuedIsRow DEF RowsOK
  <1>2. task' \in [TaskIds -> Row]
    BY <1>1 DEF RowsOK, QueueRows
  <1>3. \A t \in TaskIds : MovedOn(t)
    BY QueuedIsRow DEF RowsOK, QueueRows, Active, MovedOn, Is, Cancellable
  <1> QED
    BY <1>2, <1>3, MoveStep

\* A set of rows that are all cancelled.
LEMMA CancelRowsStep ==
  ASSUME RowsOK, NEW S \in SUBSET TaskIds, CancelRows(S), \A t \in S : Is(t, Cancellable)
  PROVE  QuietStep
  <1>1. \A t \in S : [task[t] EXCEPT !.status = "cancelled", !.lease = "none"] \in Row
    BY CancelledIsRow DEF RowsOK
  <1>2. task' \in [TaskIds -> Row]
    BY <1>1 DEF RowsOK, CancelRows
  <1>3. \A t \in TaskIds : MovedOn(t)
    BY CancelledIsRow DEF RowsOK, CancelRows, Active, Terminal, MovedOn
  <1> QED
    BY <1>2, <1>3, MoveStep

\* One row that is moved on.
LEMMA MoveOneStep ==
  ASSUME RowsOK, NEW t \in TaskIds, NEW row \in Row, task' = [task EXCEPT ![t] = row],
         Is(t, Cancellable), row.status # "none",
         SameRow(row, task[t]),
         row.status \in Active => Is(t, Active),
         Is(t, {"running"}) => row.status \in {"running"} \cup Terminal,
         Is(t, {"deferred"}) => row.status = "deferred"
  PROVE  QuietStep
  <1>1. task' \in [TaskIds -> Row]
    BY DEF RowsOK
  <1>2. \A u \in TaskIds : MovedOn(u)
    BY DEF RowsOK, MovedOn
  <1> QED
    BY <1>1, <1>2, MoveStep

-----------------------------------------------------------------------------
(***************************************************************************)
(* Every step that is not a claim is quiet.                                *)
(***************************************************************************)
LEMMA EnqueueQuiet == TInv /\ Enqueue => QuietStep
  <1> SUFFICES ASSUME TInv, NEW t \in TaskIds, NEW a \in Agents, NEW r \in Bound[a],
                      \/ \E i \in Issues, p \in Priorities, b \in {None} \cup (Fallbacks \ {a}) :
                             EnqueueTaskForIssue(t, a, i, r, p, b)
                      \/ \E c \in Chats, st \in {"queued", "deferred"} :
                             ChatAgent[c] = a /\ EnqueueChatTask(t, c, r, st)
                      \/ \E q \in Quick : EnqueueQuickCreateTask(t, a, q, r)
                      \/ \E x \in Runs : EnqueueAutopilotRunTask(t, a, x, r)
               PROVE  QuietStep
    BY DEF Enqueue
  <1>1. RowsOK /\ r \in Runtimes /\ Priorities \subseteq Nat
    BY BoundType, InputsType DEF TInv, TypeOK
  <1>2. ASSUME NEW i \in Issues, NEW p \in Priorities, NEW b, EnqueueTaskForIssue(t, a, i, r, p, b)
        PROVE  QuietStep
    BY <1>1, <1>2, NewRowIsRow, InsertStep DEF EnqueueTaskForIssue, InsertRoot, Subjects
  <1>3. ASSUME NEW c \in Chats, NEW st \in {"queued", "deferred"}, ChatAgent[c] = a, EnqueueChatTask(t, c, r, st)
        PROVE  QuietStep
    BY <1>1, <1>3, NewRowIsRow, InsertStep DEF EnqueueChatTask, InsertRoot, Subjects, chatPriority
  <1>4. ASSUME NEW q \in Quick, EnqueueQuickCreateTask(t, a, q, r)
        PROVE  QuietStep
    BY <1>1, <1>4, NewRowIsRow, InsertStep DEF EnqueueQuickCreateTask, InsertRoot, Subjects
  <1>5. ASSUME NEW x \in Runs, EnqueueAutopilotRunTask(t, a, x, r)
        PROVE  QuietStep
    BY <1>1, <1>5, NewRowIsRow, InsertStep DEF EnqueueAutopilotRunTask, InsertRoot, Subjects
  <1> QED
    BY <1>2, <1>3, <1>4, <1>5

\* Cancellations and reruns activate no row.
LEMMA CancelQuiet == TInv /\ Cancel => QuietStep
  <1> SUFFICES ASSUME TInv, Cancel PROVE QuietStep
    OBVIOUS
  <1>0. RowsOK
    BY DEF TInv, TypeOK
  <1>1. ASSUME NEW Scope \in CancelScopes, CancelTasks(Scope) PROVE QuietStep
    <2>1. Scope \in SUBSET TaskIds
      BY DEF CancelScopes
    <2> DEFINE S == {t \in Scope : Is(t, Cancellable)}
    <2>2. S \in SUBSET TaskIds /\ CancelRows(S) /\ \A t \in S : Is(t, Cancellable)
      BY <1>1, <2>1 DEF CancelTasks
    <2> QED
      BY <1>0, <2>2, CancelRowsStep
  <1>2. ASSUME NEW a \in Agents, NEW i \in Issues, RerunIssue(a, i) PROVE QuietStep
    <2> DEFINE S == {t \in TaskIds : Is(t, Cancellable) /\ task[t].agent = a /\ task[t].subject = i}
    <2>1. S \in SUBSET TaskIds /\ CancelRows(S) /\ \A t \in S : Is(t, Cancellable)
      BY <1>2 DEF RerunIssue
    <2> QED
      BY <1>0, <2>1, CancelRowsStep
  <1>3. ASSUME NEW a \in Agents, NEW i \in Issues, CancelDeferredEscalationsForIssueAgent(a, i)
        PROVE  QuietStep
    <2> DEFINE S == {t \in TaskIds : /\ Is(t, Preempted) /\ task[t].esc # 0
                                     /\ task[task[t].esc].agent = a /\ task[task[t].esc].subject = i}
    <2>1. S \in SUBSET TaskIds /\ CancelRows(S) /\ \A t \in S : Is(t, Cancellable)
      BY <1>3 DEF CancelDeferredEscalationsForIssueAgent, Preempted, Cancellable, Active, Is
    <2> QED
      BY <1>0, <2>1, CancelRowsStep
  <1> QED
    BY <1>1, <1>2, <1>3 DEF Cancel

\* What handlers do after their commit activates no row.
LEMMA ContinueQuiet == TInv /\ Continue => QuietStep
  <1> SUFFICES ASSUME TInv, Continue PROVE QuietStep
    OBVIOUS
  <1>0. RowsOK
    BY DEF TInv, TypeOK
  <1>1. ASSUME NEW a \in Agents, ReconcileAgentStatus(a) PROVE QuietStep
    BY <1>0, <1>1, NoRowStep DEF ReconcileAgentStatus
  <1>2. ASSUME NEW t \in TaskIds, HandleFailedTask(t) PROVE QuietStep
    <2>1. CASE ~RetryFits(t)
      BY <1>0, <1>2, <2>1, NoRowStep DEF HandleFailedTask
    <2>2. CASE RetryFits(t)
      <3>1. ~Is(t, {"none"})
        BY <1>2 DEF HandleFailedTask, TInv, TodoOK
      <3>2. PICK c \in TaskIds : IsNextId(c) /\ task' = [task EXCEPT ![c] = RetryRow(t, task[t].reason)]
        BY <1>2, <2>2 DEF HandleFailedTask
      <3> DEFINE row == RetryRow(t, task[t].reason)
      <3>3. row \in Row /\ row.status \in {"queued", "deferred"} /\ row.agent \in Agents
            /\ row.subject \in Subjects /\ row.runtime \in Runtimes
        BY <1>0, <3>1, RetryRowIsRow DEF RowsOK
      <3> HIDE DEF row
      <3> QED
        BY <1>0, <3>2, <3>3 DEF RowsOK, QuietStep, RowStep, MovedOn, Is, IsNextId, row
    <2> QED
      BY <2>1, <2>2
  <1>3. ASSUME NEW p \in TaskIds, CancelDeferredEscalationsForTask(p) PROVE QuietStep
    <2> DEFINE S == {t \in TaskIds : task[t].esc = p /\ Is(t, Preempted)}
    <2>1. S \in SUBSET TaskIds /\ CancelRows(S) /\ \A t \in S : Is(t, Cancellable)
      BY <1>3 DEF CancelDeferredEscalationsForTask, Preempted, Cancellable, Active, Is
    <2> QED
      BY <1>0, <2>1, CancelRowsStep
  <1>4. ASSUME NEW i \in TrackedIssues, ResetStuckIssue(i) PROVE QuietStep
    BY <1>0, <1>4, NoRowStep DEF ResetStuckIssue
  <1>5. ASSUME FailTasksForOfflineRuntimes PROVE QuietStep
    <2> DEFINE S == ActiveOn({r \in Runtimes : ~online[r]})
    <2>1. S \in SUBSET TaskIds /\ FailOfflineRows(S) /\ \A t \in S : Is(t, Active)
      BY <1>5 DEF FailTasksForOfflineRuntimes, ActiveOn
    <2> QED
      BY <1>0, <2>1, FailOfflineRowsStep
  <1>6. ASSUME NEW t \in TaskIds, NEW p \in TaskIds, NEW b \in Fallbacks, NEW r \in Bound[b],
               EnqueueDeferredAssigneeFallback(t, p, b, r)
        PROVE  QuietStep
    <2>1. b \in Agents /\ r \in Runtimes /\ ~Is(p, {"none"})
      BY <1>6, BoundType, InputsType DEF EnqueueDeferredAssigneeFallback, TInv, TodoOK
    <2>2. task[p] \in Row /\ task[p].subject \in Subjects /\ task[p].prio \in Nat
      BY <1>0, <2>1 DEF RowsOK, Row
    <2> DEFINE new == NewRow("deferred", b, task[p].subject, r, task[p].prio)
               row == [new EXCEPT !.esc = p]
    <2>3. new \in Row /\ new.status = "deferred" /\ new.agent = b /\ new.runtime = r
          /\ new.subject = task[p].subject
      BY <2>1, <2>2, NewRowIsRow
    <2> HIDE DEF new
    <2>4. row \in Row /\ row.status = "deferred" /\ row.agent = b /\ row.runtime = r
          /\ row.subject = task[p].subject
      BY <2>3 DEF Row
    <2>5. Insert(t, row)
      BY <1>6 DEF EnqueueDeferredAssigneeFallback, new
    <2> HIDE DEF row
    <2> QED
      BY <1>0, <2>1, <2>2, <2>4, <2>5, InsertStep
  <1>7. ASSUME NEW t \in TaskIds, NEW a \in Agents, NEW i \in Issues, NEW p \in Priorities,
               NEW r \in Bound[a], EnqueueRerunTask(t, a, i, r, p)
        PROVE  QuietStep
    <2>1. r \in Runtimes /\ p \in Nat /\ i \in Subjects
      BY BoundType, InputsType DEF Subjects
    <2>2. CASE PendingFree(a, i, {})
      BY <1>0, <1>7, <2>1, <2>2, NewRowIsRow, InsertStep DEF EnqueueRerunTask, InsertRoot
    <2>3. CASE ~PendingFree(a, i, {})
      BY <1>0, <1>7, <2>3, NoRowStep DEF EnqueueRerunTask
    <2> QED
      BY <2>2, <2>3
  <1> QED
    BY <1>1, <1>2, <1>3, <1>4, <1>5, <1>6, <1>7 DEF Continue

\* Sweeps activate no row.
LEMMA SweepQuiet == TInv /\ Sweep => QuietStep
  <1> SUFFICES ASSUME TInv, Sweep PROVE QuietStep
    OBVIOUS
  <1>0. RowsOK
    BY DEF TInv, TypeOK
  <1>1. ASSUME NEW S \in SUBSET TaskIds, SweepStaleTasks(S) PROVE QuietStep
    <2>1. FailRows(S, "timeout") /\ \A t \in S : Is(t, Active \cup {"queued"})
      BY <1>1 DEF SweepStaleTasks, StaleTasks, Active, Is
    <2> QED
      BY <1>0, <2>1, FailRowsStep DEF Reasons, SweepReasons
  <1>2. ASSUME NEW S \in SUBSET TaskIds, SweepExpiredQueuedTasks(S) PROVE QuietStep
    <2>1. FailRows(S, "queued_expired") /\ \A t \in S : Is(t, Active \cup {"queued"})
      BY <1>2 DEF SweepExpiredQueuedTasks, Is
    <2> QED
      BY <1>0, <2>1, FailRowsStep DEF Reasons, SweepReasons
  <1>3. ASSUME NEW R \in SUBSET Runtimes, SweepStaleRuntimes(R) PROVE QuietStep
    BY <1>0, <1>3, NoRowStep DEF SweepStaleRuntimes
  <1> QED
    BY <1>1, <1>2, <1>3 DEF Sweep

\* The passing of time activates no row.
LEMMA TimeQuiet == TInv /\ Time => QuietStep
  <1> SUFFICES ASSUME TInv, Time PROVE QuietStep
    OBVIOUS
  <1>0. RowsOK
    BY DEF TInv, TypeOK
  <1>1. ASSUME NEW t \in TaskIds, FireAtPasses(t) PROVE QuietStep
    <2> DEFINE row == [task[t] EXCEPT !.due = TRUE]
    <2>1. task[t] \in Row /\ Is(t, {"deferred"}) /\ task' = [task EXCEPT ![t] = row]
      BY <1>0, <1>1 DEF FireAtPasses, RowsOK
    <2>2. row \in Row /\ row.status = task[t].status /\ SameRow(row, task[t])
      BY <2>1 DEF Row, SameRow
    <2> HIDE DEF row
    <2> QED
      BY <1>0, <2>1, <2>2, MoveOneStep DEF Is, Cancellable, Active, Terminal
  <1>2. ASSUME NEW t \in TaskIds, LeaseLapses(t) PROVE QuietStep
    <2> DEFINE row == [task[t] EXCEPT !.lease = "expired"]
    <2>1. task[t] \in Row /\ Is(t, Active) /\ task' = [task EXCEPT ![t] = row]
      BY <1>0, <1>2 DEF LeaseLapses, RowsOK, Is, Active
    <2>2. row \in Row /\ row.status = task[t].status /\ SameRow(row, task[t])
      BY <2>1 DEF Row, SameRow
    <2> HIDE DEF row
    <2> QED
      BY <1>0, <2>1, <2>2, MoveOneStep DEF Is, Cancellable, Active, Terminal
  <1>3. ASSUME NEW r \in Runtimes, HeartbeatsStop(r) PROVE QuietStep
    BY <1>0, <1>3, NoRowStep DEF HeartbeatsStop
  <1> QED
    BY <1>1, <1>2, <1>3 DEF Time

\* What daemons call, ClaimTask apart.
LEMMA DaemonCallQuiet ==
  TInv /\ DaemonCall => QuietStep \/ \E a \in Agents, t \in TaskIds : ClaimTask(a, t)
  <1> SUFFICES ASSUME TInv, DaemonCall, ~\E a \in Agents, t \in TaskIds : ClaimTask(a, t)
               PROVE  QuietStep
    OBVIOUS
  <1>0. RowsOK /\ clock \in 0..MaxClaims
    BY DEF TInv, TypeOK
  <1>1. ASSUME NEW R \in SUBSET Runtimes, PromoteDueDeferredTasks(R) PROVE QuietStep
    <2>1. DueOn(R) \in SUBSET TaskIds /\ \A t \in DueOn(R) : Is(t, {"deferred"}) /\ task[t].due
      BY DEF DueOn
    <2> QED
      BY <1>0, <1>1, <2>1, QueueRowsStep DEF PromoteDueDeferredTasks
  <1>2. ASSUME NEW R \in SUBSET Runtimes, RuntimesSeen(R) \/ DaemonDeregister(R) PROVE QuietStep
    BY <1>0, <1>2, NoRowStep DEF RuntimesSeen, DaemonDeregister
  <1>3. ASSUME NEW r \in Runtimes, RecoverOrphanedTasks(r) PROVE QuietStep
    <2>1. ActiveOn({r}) \in SUBSET TaskIds /\ \A t \in ActiveOn({r}) : Is(t, Active \cup {"queued"})
      BY DEF ActiveOn, Is
    <2> QED
      BY <1>0, <1>3, <2>1, FailRowsStep DEF RecoverOrphanedTasks, Reasons, SweepReasons
  <1>4. ASSUME NEW t \in TaskIds, ReclaimStaleDispatchedTask(t) PROVE QuietStep
    <2>1. task[t] \in Row /\ Is(t, {"dispatched"}) /\ task' = [task EXCEPT ![t] = Dispatched(task[t])]
          /\ clock + 1 \in 0..MaxClaims
      BY <1>0, <1>4, BoundsType DEF ReclaimStaleDispatchedTask, RowsOK
    <2>2. /\ Dispatched(task[t]) \in Row /\ Dispatched(task[t]).status = "dispatched"
          /\ SameRow(Dispatched(task[t]), task[t])
      BY <2>1, DispatchedIsRow
    <2> QED
      BY <1>0, <2>1, <2>2, MoveOneStep DEF Is, Cancellable, Active, Terminal
  <1>5. ASSUME NEW t \in TaskIds, NEW g \in 1..MaxClaims, RequeueTaskAfterClaimFailure(t, g) PROVE QuietStep
    <2> DEFINE row == [task[t] EXCEPT !.status = "queued", !.gen = 0, !.lease = "none"]
    <2>1. task[t] \in Row /\ Is(t, {"dispatched"}) /\ task' = [task EXCEPT ![t] = row]
      BY <1>0, <1>5 DEF RequeueTaskAfterClaimFailure, RowsOK
    <2>2. row \in Row /\ row.status = "queued" /\ SameRow(row, task[t])
      BY <2>1, RequeuedIsRow
    <2> HIDE DEF row
    <2> QED
      BY <1>0, <2>1, <2>2, MoveOneStep DEF Is, Cancellable, Active, Terminal
  <1>6. ASSUME NEW t \in TaskIds, ExtendTaskPrepareLease(t) PROVE QuietStep
    <2> DEFINE row == [task[t] EXCEPT !.lease = "live"]
    <2>1. /\ task[t] \in Row /\ Is(t, {"dispatched", "waiting_local_directory"})
          /\ task' = [task EXCEPT ![t] = row]
      BY <1>0, <1>6 DEF ExtendTaskPrepareLease, RowsOK, Is
    <2>2. row \in Row /\ row.status = task[t].status /\ SameRow(row, task[t])
      BY <2>1 DEF Row, SameRow, Statuses, Cancellable, Active, Terminal
    <2> HIDE DEF row
    <2> QED
      BY <1>0, <2>1, <2>2, MoveOneStep DEF Is, Cancellable, Active, Terminal
  <1>7. ASSUME NEW t \in TaskIds, MarkTaskWaitingLocalDirectory(t) PROVE QuietStep
    <2> DEFINE row == [task[t] EXCEPT !.status = "waiting_local_directory", !.lease = "live"]
    <2>1. /\ task[t] \in Row /\ Is(t, {"dispatched", "waiting_local_directory"})
          /\ task' = [task EXCEPT ![t] = row]
      BY <1>0, <1>7 DEF MarkTaskWaitingLocalDirectory, RowsOK, Is
    <2>2. row \in Row /\ row.status = "waiting_local_directory" /\ SameRow(row, task[t])
      BY <2>1 DEF Row, SameRow, Statuses, Cancellable, Active, Terminal
    <2> HIDE DEF row
    <2> QED
      BY <1>0, <2>1, <2>2, MoveOneStep DEF Is, Cancellable, Active, Terminal
  <1>8. ASSUME NEW t \in TaskIds, StartTask(t) PROVE QuietStep
    <2> DEFINE row == [task[t] EXCEPT !.status = "running", !.lease = "none"]
    <2>1. /\ task[t] \in Row /\ Is(t, {"dispatched", "waiting_local_directory"})
          /\ task' = [task EXCEPT ![t] = row]
      BY <1>0, <1>8 DEF StartTask, RowsOK, Is
    <2>2. row \in Row /\ row.status = "running" /\ SameRow(row, task[t])
      BY <2>1 DEF Row, SameRow, Statuses, Cancellable, Active, Terminal
    <2> HIDE DEF row
    <2> QED
      BY <1>0, <2>1, <2>2, MoveOneStep DEF Is, Cancellable, Active, Terminal
  <1>9. ASSUME NEW t \in TaskIds, CompleteTask(t) PROVE QuietStep
    <2> DEFINE row == [task[t] EXCEPT !.status = "completed", !.lease = "none"]
    <2>1. task[t] \in Row /\ Is(t, Active) /\ task' = [task EXCEPT ![t] = row]
      BY <1>0, <1>9 DEF CompleteTask, RowsOK, Is, Active
    <2>2. row \in Row /\ row.status = "completed" /\ SameRow(row, task[t])
      BY <2>1 DEF Row, SameRow, Statuses, Cancellable, Active, Terminal
    <2> HIDE DEF row
    <2> QED
      BY <1>0, <2>1, <2>2, MoveOneStep DEF Is, Cancellable, Active, Terminal
  <1>10. ASSUME NEW t \in TaskIds, NEW why \in DaemonReasons, FailTask(t, why) PROVE QuietStep
    <2>1. task[t] \in Row /\ Is(t, Active) /\ why \in Reasons /\ ~Is(t, {"none"})
      BY <1>0, <1>10, InputsType DEF FailTask, RowsOK, Is, Active
    <2>2. CASE ~retryEligible(why, task[t])
      BY <1>0, <1>10, <2>1, <2>2, FailedIsRow, MoveOneStep DEF FailTask, Is, Cancellable, Active, Terminal
    <2>3. CASE retryEligible(why, task[t])
      <3> DEFINE f == Failed(task[t], why)
                 row == RetryRow(t, why)
      <3>1. PICK c \in TaskIds : IsNextId(c) /\ task' = [task EXCEPT ![t] = f, ![c] = row]
        BY <1>10, <2>3 DEF FailTask
      <3>2. f \in Row /\ f.status = "failed" /\ SameRow(f, task[t])
        BY <2>1, FailedIsRow
      <3>3. row \in Row /\ row.status \in {"queued", "deferred"} /\ row.agent \in Agents
            /\ row.subject \in Subjects /\ row.runtime \in Runtimes
        BY <1>0, <2>1, RetryRowIsRow DEF RowsOK
      <3> HIDE DEF f, row
      <3>4. c # t /\ Is(c, {"none"})
        BY <2>1, <3>1 DEF IsNextId
      <3>5. /\ task' \in [TaskIds -> Row] /\ task'[t] = f /\ task'[c] = row
            /\ \A u \in TaskIds \ {t, c} : task'[u] = task[u]
        BY <1>0, <3>1, <3>2, <3>3, <3>4 DEF RowsOK
      <3>6. RowsOK'
        BY <1>0, <2>1, <3>2, <3>3, <3>5 DEF RowsOK, Is, SameRow
      <3>7. \A u \in TaskIds : RowStep(u)
        BY <2>1, <3>2, <3>3, <3>4, <3>5 DEF RowStep, MovedOn, Is, Cancellable, Active, Terminal
      <3> QED
        BY <3>6, <3>7 DEF QuietStep
    <2> QED
      BY <2>2, <2>3
  <1> QED
    BY <1>1, <1>2, <1>3, <1>4, <1>5, <1>6, <1>7, <1>8, <1>9, <1>10 DEF DaemonCall

\* Every step leaves the table well formed, and either is quiet or is a claim.
LEMMA NextQuiet ==
  TInv /\ [Next]_vars => QuietStep \/ \E a \in Agents, t \in TaskIds : ClaimTask(a, t)
  <1> SUFFICES ASSUME TInv, [Next]_vars, ~\E a \in Agents, t \in TaskIds : ClaimTask(a, t)
               PROVE  QuietStep
    OBVIOUS
  <1>0. RowsOK
    BY DEF TInv, TypeOK
  <1>1. ASSUME NEW c \in Chats, PromoteChannelChatTasksIfMediaReady(c) PROVE QuietStep
    <2> DEFINE D == {t \in TaskIds : /\ Is(t, {"deferred"}) /\ task[t].subject = c
                                     /\ task[t].parent = 0 /\ task[t].esc = 0}
    <2>1. D \in SUBSET TaskIds /\ QueueRows(D) /\ \A t \in D : Is(t, {"deferred"}) /\ task[t].esc = 0
      BY <1>1 DEF PromoteChannelChatTasksIfMediaReady
    <2> QED
      BY <1>0, <2>1, QueueRowsStep
  <1>2. ASSUME NEW i \in TrackedIssues, SetIssueInProgress(i) PROVE QuietStep
    BY <1>0, <1>2, NoRowStep DEF SetIssueInProgress
  <1>3. ASSUME NEW W \in SUBSET todo, WorkLost(W) PROVE QuietStep
    BY <1>0, <1>3, NoRowStep DEF WorkLost
  <1>4. CASE UNCHANGED vars
    BY <1>0, <1>4, NoRowStep DEF vars
  <1> QED
    BY <1>1, <1>2, <1>3, <1>4, EnqueueQuiet, CancelQuiet, ContinueQuiet, SweepQuiet, TimeQuiet,
       DaemonCallQuiet DEF Next

-----------------------------------------------------------------------------
(***************************************************************************)
(* What a step may do to everything but the table.                         *)
(***************************************************************************)
PlainWork == {Reconcile(a) : a \in Agents \cup {None}}
             \cup {ResetIssue(i) : i \in Subjects \cup {None}} \cup {FailOffline}
             \cup {CancelEscalations(t) : t \in TaskIds}
             \cup {Rerun(a, i) : a \in Agents, i \in Issues}

Existing == {t \in TaskIds : ~Is(t, {"none"})}

\* New work names rows that exist.
WorkStep == todo' \subseteq todo \cup PlainWork \cup {HandleFailed(t) : t \in Existing}
                                 \cup {Fallback(t, b) : t \in Existing', b \in Agents}

RestStep ==
    /\ WorkStep
    /\ clock' \in 0..MaxClaims
    /\ agentStatus' \in [Agents -> {"idle", "working"}]
    /\ inProgress' \subseteq Issues
    /\ online' \in [Runtimes -> BOOLEAN]
    /\ fresh' \in [Runtimes -> BOOLEAN]
    /\ crashes' \in 0..MaxCrashes

\* What the actions assume of everything but the table.
LEMMA RestTypes ==
  TInv => /\ clock \in 0..MaxClaims
          /\ agentStatus \in [Agents -> {"idle", "working"}]
          /\ inProgress \subseteq Issues
          /\ online \in [Runtimes -> BOOLEAN] /\ fresh \in [Runtimes -> BOOLEAN]
          /\ crashes \in 0..MaxCrashes
          /\ \A t \in TaskIds : task[t].agent \in Agents \cup {None} /\ task[t].subject \in Subjects \cup {None}
  BY DEF TInv, TypeOK, RowsOK, Row

\* Enqueues keep the type of everything but the table.
LEMMA EnqueueRest == TInv /\ Enqueue => RestStep
  <1> SUFFICES ASSUME TInv, NEW t \in TaskIds, NEW a \in Agents, NEW r \in Bound[a],
                      \/ \E i \in Issues, p \in Priorities, b \in {None} \cup (Fallbacks \ {a}) :
                             EnqueueTaskForIssue(t, a, i, r, p, b)
                      \/ \E c \in Chats, st \in {"queued", "deferred"} :
                             ChatAgent[c] = a /\ EnqueueChatTask(t, c, r, st)
                      \/ \E q \in Quick : EnqueueQuickCreateTask(t, a, q, r)
                      \/ \E x \in Runs : EnqueueAutopilotRunTask(t, a, x, r)
               PROVE  RestStep
    BY DEF Enqueue
  <1>1. ASSUME NEW i \in Issues, NEW p \in Priorities, NEW b \in {None} \cup (Fallbacks \ {a}),
               EnqueueTaskForIssue(t, a, i, r, p, b)
        PROVE  RestStep
    <2>1. task[t] \in Row /\ task'[t] = NewRow("queued", a, i, r, p)
      BY <1>1 DEF EnqueueTaskForIssue, InsertRoot, Insert, TInv, TypeOK, RowsOK
    <2>2. t \in Existing'
      BY <2>1 DEF Existing, Is, NewRow
    <2>3. todo' \subseteq todo \cup {Fallback(t, e) : e \in Agents}
      BY <1>1, InputsType DEF EnqueueTaskForIssue
    <2> QED
      BY <1>1, <2>2, <2>3, RestTypes DEF RestStep, WorkStep, EnqueueTaskForIssue, runtimeVars
  <1>2. ASSUME NEW c, NEW st, EnqueueChatTask(t, c, r, st) PROVE RestStep
    BY <1>2, RestTypes DEF RestStep, WorkStep, EnqueueChatTask, runtimeVars
  <1>3. ASSUME NEW q, EnqueueQuickCreateTask(t, a, q, r) PROVE RestStep
    BY <1>3, RestTypes DEF RestStep, WorkStep, EnqueueQuickCreateTask, runtimeVars
  <1>4. ASSUME NEW x, EnqueueAutopilotRunTask(t, a, x, r) PROVE RestStep
    BY <1>4, RestTypes DEF RestStep, WorkStep, EnqueueAutopilotRunTask, runtimeVars
  <1> QED
    BY <1>1, <1>2, <1>3, <1>4

\* Cancellations and reruns keep the type of everything but the table.
LEMMA CancelRest == TInv /\ Cancel => RestStep
  <1> SUFFICES ASSUME TInv, Cancel PROVE RestStep
    OBVIOUS
  <1>1. ASSUME NEW Scope \in CancelScopes, CancelTasks(Scope) PROVE RestStep
    <2>1. Scope \in SUBSET TaskIds
      BY DEF CancelScopes
    <2>2. todo' \subseteq todo \cup PlainWork
      BY <1>1, <2>1, RestTypes DEF CancelTasks, PlainWork
    <2> QED
      BY <1>1, <2>2, RestTypes DEF RestStep, WorkStep, CancelTasks, runtimeVars
  <1>2. ASSUME NEW a \in Agents, NEW i \in Issues, RerunIssue(a, i) PROVE RestStep
    <2>1. todo' \subseteq todo \cup PlainWork
      BY <1>2, RestTypes DEF RerunIssue, PlainWork
    <2> QED
      BY <1>2, <2>1, RestTypes DEF RestStep, WorkStep, RerunIssue, runtimeVars
  <1>3. ASSUME NEW a \in Agents, NEW i \in Issues, CancelDeferredEscalationsForIssueAgent(a, i)
        PROVE  RestStep
    BY <1>3, RestTypes DEF RestStep, WorkStep, CancelDeferredEscalationsForIssueAgent, runtimeVars
  <1> QED
    BY <1>1, <1>2, <1>3 DEF Cancel

\* What handlers do after their commit keeps the type of everything but the table.
LEMMA ContinueRest == TInv /\ Continue => RestStep
  <1> SUFFICES ASSUME TInv, Continue PROVE RestStep
    OBVIOUS
  <1>1. ASSUME NEW a \in Agents, ReconcileAgentStatus(a) PROVE RestStep
    BY <1>1, RestTypes DEF RestStep, WorkStep, ReconcileAgentStatus, runtimeVars
  <1>2. ASSUME NEW t \in TaskIds, HandleFailedTask(t) PROVE RestStep
    <2>1. todo' \subseteq todo \cup PlainWork
      BY <1>2, RestTypes DEF HandleFailedTask, PlainWork
    <2> QED
      BY <1>2, <2>1, RestTypes DEF RestStep, WorkStep, HandleFailedTask, runtimeVars
  <1>3. ASSUME NEW p \in TaskIds, CancelDeferredEscalationsForTask(p) PROVE RestStep
    BY <1>3, RestTypes DEF RestStep, WorkStep, CancelDeferredEscalationsForTask, runtimeVars
  <1>4. ASSUME NEW i \in TrackedIssues, ResetStuckIssue(i) PROVE RestStep
    BY <1>4, RestTypes DEF RestStep, WorkStep, ResetStuckIssue, runtimeVars
  <1>5. ASSUME FailTasksForOfflineRuntimes PROVE RestStep
    <2>1. ActiveOn({r \in Runtimes : ~online[r]}) \subseteq Existing
      BY DEF ActiveOn, Existing, Is, Active
    <2> QED
      BY <1>5, <2>1, RestTypes DEF RestStep, WorkStep, FailTasksForOfflineRuntimes, runtimeVars
  <1>6. ASSUME NEW t, NEW p, NEW b, NEW r, EnqueueDeferredAssigneeFallback(t, p, b, r) PROVE RestStep
    BY <1>6, RestTypes DEF RestStep, WorkStep, EnqueueDeferredAssigneeFallback, runtimeVars
  <1>7. ASSUME NEW t, NEW a, NEW i, NEW p, NEW r, EnqueueRerunTask(t, a, i, r, p) PROVE RestStep
    BY <1>7, RestTypes DEF RestStep, WorkStep, EnqueueRerunTask, runtimeVars
  <1> QED
    BY <1>1, <1>2, <1>3, <1>4, <1>5, <1>6, <1>7 DEF Continue

\* Sweeps keep the type of everything but the table.
LEMMA SweepRest == TInv /\ Sweep => RestStep
  <1> SUFFICES ASSUME TInv, Sweep PROVE RestStep
    OBVIOUS
  <1>1. ASSUME NEW S \in SUBSET TaskIds, SweepStaleTasks(S) PROVE RestStep
    <2>1. S \subseteq Existing
      BY <1>1 DEF SweepStaleTasks, StaleTasks, Existing, Is
    <2> QED
      BY <1>1, <2>1, RestTypes DEF RestStep, WorkStep, SweepStaleTasks, runtimeVars
  <1>2. ASSUME NEW S \in SUBSET TaskIds, SweepExpiredQueuedTasks(S) PROVE RestStep
    <2>1. S \subseteq Existing
      BY <1>2 DEF SweepExpiredQueuedTasks, Existing, Is
    <2> QED
      BY <1>2, <2>1, RestTypes DEF RestStep, WorkStep, SweepExpiredQueuedTasks, runtimeVars
  <1>3. ASSUME NEW R \in SUBSET Runtimes, SweepStaleRuntimes(R) PROVE RestStep
    BY <1>3, RestTypes DEF RestStep, WorkStep, SweepStaleRuntimes, PlainWork
  <1> QED
    BY <1>1, <1>2, <1>3 DEF Sweep

\* The passing of time keeps the type of everything but the table.
LEMMA TimeRest == TInv /\ Time => RestStep
  <1> SUFFICES ASSUME TInv, Time PROVE RestStep
    OBVIOUS
  <1>1. ASSUME NEW t \in TaskIds, FireAtPasses(t) \/ LeaseLapses(t) PROVE RestStep
    BY <1>1, RestTypes DEF RestStep, WorkStep, FireAtPasses, LeaseLapses, runtimeVars
  <1>2. ASSUME NEW r \in Runtimes, HeartbeatsStop(r) PROVE RestStep
    BY <1>2, RestTypes DEF RestStep, WorkStep, HeartbeatsStop
  <1> QED
    BY <1>1, <1>2 DEF Time

\* Calls of daemons keep the type of everything but the table.
LEMMA DaemonCallRest == TInv /\ DaemonCall => RestStep
  <1> SUFFICES ASSUME TInv, DaemonCall PROVE RestStep
    OBVIOUS
  <1>1. ASSUME NEW R \in SUBSET Runtimes,
               PromoteDueDeferredTasks(R) \/ RuntimesSeen(R) \/ DaemonDeregister(R)
        PROVE  RestStep
    <2>1. CASE PromoteDueDeferredTasks(R)
      BY <2>1, RestTypes DEF RestStep, WorkStep, PromoteDueDeferredTasks, runtimeVars
    <2>2. CASE RuntimesSeen(R)
      <3>1. online' \in [Runtimes -> BOOLEAN] /\ fresh' \in [Runtimes -> BOOLEAN]
        BY <2>2, Zenon DEF RuntimesSeen
      <3> QED
        BY <2>2, <3>1, RestTypes DEF RestStep, WorkStep, RuntimesSeen
    <2>3. CASE DaemonDeregister(R)
      <3>1. online' \in [Runtimes -> BOOLEAN]
        BY <2>3, Zenon DEF DaemonDeregister
      <3> QED
        BY <2>3, <3>1, RestTypes DEF RestStep, WorkStep, DaemonDeregister
    <2> QED
      BY <1>1, <2>1, <2>2, <2>3
  <1>2. ASSUME NEW r \in Runtimes, RecoverOrphanedTasks(r) PROVE RestStep
    <2>1. ActiveOn({r}) \subseteq Existing
      BY DEF ActiveOn, Existing, Is, Active
    <2> QED
      BY <1>2, <2>1, RestTypes DEF RestStep, WorkStep, RecoverOrphanedTasks, runtimeVars
  <1>3. ASSUME NEW a \in Agents, NEW t \in TaskIds, ClaimTask(a, t) PROVE RestStep
    BY <1>3, RestTypes, BoundsType DEF RestStep, WorkStep, PlainWork, ClaimTask, runtimeVars
  <1>4. ASSUME NEW t \in TaskIds, ReclaimStaleDispatchedTask(t) PROVE RestStep
    BY <1>4, RestTypes, BoundsType DEF RestStep, WorkStep, ReclaimStaleDispatchedTask, runtimeVars
  <1>5. ASSUME NEW t \in TaskIds, NEW g \in 1..MaxClaims, RequeueTaskAfterClaimFailure(t, g) PROVE RestStep
    BY <1>5, RestTypes DEF RestStep, WorkStep, PlainWork, RequeueTaskAfterClaimFailure, runtimeVars
  <1>6. ASSUME NEW t \in TaskIds, ExtendTaskPrepareLease(t) \/ MarkTaskWaitingLocalDirectory(t)
        PROVE  RestStep
    BY <1>6, RestTypes DEF RestStep, WorkStep, ExtendTaskPrepareLease, MarkTaskWaitingLocalDirectory, runtimeVars
  <1>7. ASSUME NEW t \in TaskIds, StartTask(t) PROVE RestStep
    BY <1>7, RestTypes DEF RestStep, WorkStep, PlainWork, StartTask, runtimeVars
  <1>8. ASSUME NEW t \in TaskIds, CompleteTask(t) PROVE RestStep
    BY <1>8, RestTypes DEF RestStep, WorkStep, PlainWork, CompleteTask, runtimeVars
  <1>9. ASSUME NEW t \in TaskIds, NEW why \in DaemonReasons, FailTask(t, why) PROVE RestStep
    BY <1>9, RestTypes DEF RestStep, WorkStep, PlainWork, FailTask, runtimeVars
  <1> QED
    BY <1>1, <1>2, <1>3, <1>4, <1>5, <1>6, <1>7, <1>8, <1>9 DEF DaemonCall

\* Every step keeps the type of everything but the table.
LEMMA NextRest == TInv /\ [Next]_vars => RestStep
  <1> SUFFICES ASSUME TInv, [Next]_vars PROVE RestStep
    OBVIOUS
  <1>1. ASSUME NEW c \in Chats, PromoteChannelChatTasksIfMediaReady(c) PROVE RestStep
    BY <1>1, RestTypes DEF RestStep, WorkStep, PromoteChannelChatTasksIfMediaReady, runtimeVars
  <1>2. ASSUME NEW i \in TrackedIssues, SetIssueInProgress(i) PROVE RestStep
    BY <1>2, RestTypes, InputsType DEF RestStep, WorkStep, SetIssueInProgress, runtimeVars
  <1>3. ASSUME NEW W \in SUBSET todo, WorkLost(W) PROVE RestStep
    BY <1>3, RestTypes, BoundsType DEF RestStep, WorkStep, WorkLost, runtimeVars
  <1>4. CASE UNCHANGED vars
    BY <1>4, RestTypes DEF RestStep, WorkStep, vars
  <1> QED
    BY <1>1, <1>2, <1>3, <1>4, EnqueueRest, CancelRest, ContinueRest, SweepRest, TimeRest, DaemonCallRest
       DEF Next

-----------------------------------------------------------------------------
(***************************************************************************)
(* Type correctness.                                                       *)
(***************************************************************************)

\* The one row a claim dispatches was queued; every other row stays as it is.
LEMMA ClaimStep ==
  ASSUME TInv, NEW a \in Agents, NEW t \in TaskIds, ClaimTask(a, t)
  PROVE  /\ RowsOK'
         /\ Is(t, {"queued"}) /\ task[t].agent = a
         /\ task'[t].status = "dispatched"
         /\ SameRow(task'[t], task[t])
         /\ \A u \in TaskIds \ {t} : task'[u] = task[u]
  <1>1. /\ RowsOK /\ task[t] \in Row /\ clock + 1 \in 0..MaxClaims
        /\ Is(t, {"queued"}) /\ task[t].agent = a
        /\ task' = [task EXCEPT ![t] = Dispatched(task[t])]
    BY BoundsType DEF ClaimTask, Claimable, TInv, TypeOK, RowsOK
  <1>2. /\ Dispatched(task[t]) \in Row /\ Dispatched(task[t]).status = "dispatched"
        /\ SameRow(Dispatched(task[t]), task[t])
    BY <1>1, DispatchedIsRow
  <1> QED
    BY <1>1, <1>2 DEF RowsOK, Is, SameRow

\* The kinds of work are told apart by their op.
LEMMA WorkOps ==
  /\ \A x \in PlainWork : x.op \notin {"handleFailed", "fallback"}
  /\ \A t : HandleFailed(t).op = "handleFailed" /\ HandleFailed(t).task = t
  /\ \A t, b : Fallback(t, b).op = "fallback" /\ Fallback(t, b).task = t
  <1>1. \A x \in PlainWork : x.op \notin {"handleFailed", "fallback"}
    BY DEF PlainWork, Reconcile, ResetIssue, FailOffline, CancelEscalations, Rerun
  <1>2. \A t : HandleFailed(t).op = "handleFailed" /\ HandleFailed(t).task = t
    BY DEF HandleFailed
  <1>3. \A t, b : Fallback(t, b).op = "fallback" /\ Fallback(t, b).task = t
    BY DEF Fallback
  <1> QED
    BY <1>1, <1>2, <1>3

\* The pieces of remaining work are well typed.
LEMMA WorkTypes ==
  /\ PlainWork \subseteq Work
  /\ \A t \in TaskIds : HandleFailed(t) \in Work
  /\ \A t \in TaskIds, b \in Agents : Fallback(t, b) \in Work
  BY DEF HandleFailed, Fallback, PlainWork, Reconcile, ResetIssue, FailOffline, CancelEscalations, Rerun,
         Work, Ops, Subjects

\* The first state is well typed.
LEMMA TInvInit == Init => TInv
  <1> SUFFICES ASSUME Init PROVE TInv
    OBVIOUS
  <1>1. RowsOK
    BY BlankIsRow DEF Init, RowsOK, Is, Blank
  <1> QED
    BY <1>1, BoundsType DEF Init, TInv, TypeOK, TodoOK

\* Every step preserves the types of the table and of the remaining work.
LEMMA TInvNext == TInv /\ [Next]_vars => TInv'
  <1> SUFFICES ASSUME TInv, [Next]_vars PROVE TInv'
    OBVIOUS
  <1>1. RowsOK' /\ Existing \subseteq Existing'
    <2>1. CASE QuietStep
      BY <2>1 DEF QuietStep, RowStep, MovedOn, Existing, Is
    <2>2. ASSUME NEW a \in Agents, NEW t \in TaskIds, ClaimTask(a, t)
          PROVE  RowsOK' /\ Existing \subseteq Existing'
      BY <2>2, ClaimStep DEF Existing, Is
    <2> QED
      BY <2>1, <2>2, NextQuiet
  <1>2. RestStep
    BY NextRest
  <1>3. todo' \subseteq Work
    BY <1>2, WorkTypes DEF RestStep, WorkStep, TInv, TypeOK, Existing
  <1>4. \A t \in TaskIds : HandleFailed(t) \in todo => t \in Existing
    BY DEF TInv, TodoOK, Existing
  <1>5. \A t \in TaskIds, b \in Agents : Fallback(t, b) \in todo => t \in Existing
    BY DEF TInv, TodoOK, Existing
  <1>6. ASSUME NEW t \in TaskIds, HandleFailed(t) \in todo' PROVE t \in Existing'
    BY <1>1, <1>2, <1>4, <1>6, WorkOps DEF RestStep, WorkStep
  <1>7. ASSUME NEW t \in TaskIds, NEW b \in Agents, Fallback(t, b) \in todo' PROVE t \in Existing'
    BY <1>1, <1>2, <1>5, <1>7, WorkOps DEF RestStep, WorkStep
  <1>8. TodoOK'
    BY <1>6, <1>7 DEF TodoOK, Existing, HandleFailed, Fallback
  <1> QED
    BY <1>1, <1>2, <1>3, <1>8 DEF TInv, TypeOK, RestStep

\* Type correctness of the task queue: every transaction, whatever the order in which
\* handlers, sweeps and daemons commit, leaves a well-formed table in which each row
\* names its agent, its subject and its runtime.
THEOREM TypeCorrect == Spec => []TypeOK
  <1>1. Spec => []TInv
    BY TInvInit, TInvNext, PTL DEF Spec
  <1> QED
    BY <1>1, PTL DEF TInv

-----------------------------------------------------------------------------
(***************************************************************************)
(* Serial execution, final states and capacity.                            *)
(***************************************************************************)

\* A step that is not a claim makes no row active and changes no row's subject or agent.
LEMMA QuietActive ==
  ASSUME QuietStep, NEW t \in TaskIds, Is(t, Active)'
  PROVE  Is(t, Active) /\ task'[t].agent = task[t].agent /\ task'[t].subject = task[t].subject
  BY DEF QuietStep, RowStep, MovedOn, SameRow, Is, Active

\* Every step preserves exclusion: only a claim activates a row, and it checks for conflicts.
LEMMA SerialNext == TInv /\ SerialExecution /\ [Next]_vars => SerialExecution'
  <1> SUFFICES ASSUME TInv, SerialExecution, [Next]_vars,
                      NEW t \in TaskIds, NEW u \in TaskIds, t # u, Is(t, Active)', Is(u, Active)'
               PROVE  ~Conflict(t, u)'
    BY DEF SerialExecution
  <1>1. CASE QuietStep
    BY <1>1, QuietActive DEF SerialExecution, Conflict
  <1>2. ASSUME NEW a \in Agents, NEW c \in TaskIds, ClaimTask(a, c) PROVE ~Conflict(t, u)'
    <2>1. \A v \in TaskIds : Is(v, Active) => ~Conflict(c, v)
      BY <1>2 DEF ClaimTask, Claimable
    <2>2. \A v \in TaskIds : task'[v].agent = task[v].agent /\ task'[v].subject = task[v].subject
      BY <1>2, ClaimStep DEF SameRow
    <2>3. \A v \in TaskIds \ {c} : Is(v, Active)' => Is(v, Active)
      BY <1>2, ClaimStep DEF Is
    <2> QED
      BY <2>1, <2>2, <2>3 DEF SerialExecution, Conflict
  <1> QED
    BY <1>1, <1>2, NextQuiet

\* ClaimAgentTask's serialization, for every number of rows, claims, retries and
\* interleavings: an agent never has two active tasks of one issue, chat session or
\* quick-create lane.  SerialExecution is inductive together with the type invariant
\* because only ClaimTask makes a row active, and it looks at all active rows.
THEOREM SerialExecutionHolds == Spec => []SerialExecution
  <1>1. Init => TInv /\ SerialExecution
    BY TInvInit DEF Init, SerialExecution, Is, Blank, Active
  <1>2. (TInv /\ SerialExecution) /\ [Next]_vars => (TInv /\ SerialExecution)'
    BY TInvNext, SerialNext
  <1> QED
    BY <1>1, <1>2, PTL DEF Spec

\* No step of a well-typed state changes a settled row.
LEMMA FinalNext ==
  TInv /\ [Next]_vars => [\A t \in TaskIds : Is(t, Terminal) => task'[t] = task[t]]_vars
  <1> SUFFICES ASSUME TInv, [Next]_vars, NEW t \in TaskIds, Is(t, Terminal)
               PROVE  task'[t] = task[t]
    OBVIOUS
  <1>1. CASE QuietStep
    BY <1>1 DEF QuietStep, RowStep, MovedOn, Is, Terminal, Cancellable, Active
  <1>2. ASSUME NEW a \in Agents, NEW c \in TaskIds, ClaimTask(a, c) PROVE task'[t] = task[t]
    BY <1>2, ClaimStep DEF Is, Terminal
  <1> QED
    BY <1>1, <1>2, NextQuiet

\* A completed, failed or cancelled row is never written again: every statement of the
\* queue names the states it may leave, and none of them is terminal.
THEOREM TerminalIsFinalHolds == Spec => TerminalIsFinal
  <1>1. Spec => []TInv
    BY TInvInit, TInvNext, PTL DEF Spec
  <1> QED
    BY <1>1, FinalNext, PTL DEF Spec, TerminalIsFinal

\* The active rows of an agent are finitely many, before and after a step.
LEMMA ActiveOfFinite == ASSUME NEW a PROVE IsFiniteSet(ActiveOf(a)) /\ IsFiniteSet(ActiveOf(a))'
  <1>1. IsFiniteSet(TaskIds)
    BY FS_Interval, BoundsType DEF TaskIds
  <1>2. ActiveOf(a) \subseteq TaskIds /\ (ActiveOf(a))' \subseteq TaskIds
    BY DEF ActiveOf
  <1> QED
    BY <1>1, <1>2, FS_Subset

\* Every step preserves the capacity: only a claim adds an active row, and it checks for room.
LEMMA CapacityNext == TInv /\ WithinCapacity /\ [Next]_vars => WithinCapacity'
  <1> SUFFICES ASSUME TInv, WithinCapacity, [Next]_vars, NEW a \in Agents
               PROVE  (Cardinality(ActiveOf(a)))' <= MaxConcurrentTasks[a]
    BY DEF WithinCapacity
  <1>0. /\ MaxConcurrentTasks[a] \in Nat
        /\ Cardinality(ActiveOf(a)) \in Nat /\ Cardinality(ActiveOf(a)) <= MaxConcurrentTasks[a]
        /\ Cardinality((ActiveOf(a))') \in Nat
    BY CapType, ActiveOfFinite, FS_CardinalityType DEF WithinCapacity
  <1>1. ASSUME (ActiveOf(a))' \subseteq ActiveOf(a)
        PROVE  Cardinality((ActiveOf(a))') <= MaxConcurrentTasks[a]
    <2>1. Cardinality((ActiveOf(a))') <= Cardinality(ActiveOf(a))
      BY <1>1, ActiveOfFinite, FS_Subset
    <2> QED
      BY <1>0, <2>1
  <1>2. CASE QuietStep
    <2>1. (ActiveOf(a))' \subseteq ActiveOf(a)
      BY <1>2, QuietActive DEF ActiveOf
    <2> QED
      BY <1>1, <2>1
  <1>3. ASSUME NEW b \in Agents, NEW c \in TaskIds, ClaimTask(b, c)
        PROVE  Cardinality((ActiveOf(a))') <= MaxConcurrentTasks[a]
    <2>1. (ActiveOf(a))' \subseteq ActiveOf(a) \cup (IF a = b THEN {c} ELSE {})
      BY <1>3, ClaimStep DEF ActiveOf, Is, SameRow
    <2>2. CASE a # b
      BY <1>1, <2>1, <2>2
    <2>3. CASE a = b
      <3>1. Cardinality(ActiveOf(a)) < MaxConcurrentTasks[a]
        BY <1>3, <2>3 DEF ClaimTask, HasCapacity
      <3>2. /\ IsFiniteSet(ActiveOf(a) \cup {c})
            /\ Cardinality(ActiveOf(a) \cup {c}) \in Nat
            /\ Cardinality(ActiveOf(a) \cup {c}) <= Cardinality(ActiveOf(a)) + 1
        <4>1. IsFiniteSet(ActiveOf(a))
          BY ActiveOfFinite
        <4>2. /\ IsFiniteSet(ActiveOf(a) \cup {c})
              /\ Cardinality(ActiveOf(a) \cup {c})
                     = IF c \in ActiveOf(a) THEN Cardinality(ActiveOf(a)) ELSE Cardinality(ActiveOf(a)) + 1
          BY <4>1, FS_AddElement, Zenon
        <4> QED
          BY <1>0, <4>2
      <3>3. Cardinality((ActiveOf(a))') <= Cardinality(ActiveOf(a) \cup {c})
        BY <2>1, <2>3, <3>2, FS_Subset
      <3> QED
        BY <1>0, <3>1, <3>2, <3>3
    <2> QED
      BY <2>2, <2>3
  <1> QED
    BY <1>2, <1>3, NextQuiet

\* max_concurrent_tasks is never exceeded: ClaimTask counts under its lock on the agent's
\* row, and nothing but a claim adds to the count.
THEOREM WithinCapacityHolds == Spec => []WithinCapacity
  <1>1. Init => TInv /\ WithinCapacity
    <2> SUFFICES ASSUME Init, NEW a \in Agents PROVE Cardinality(ActiveOf(a)) <= MaxConcurrentTasks[a]
      BY TInvInit DEF WithinCapacity
    <2>1. ActiveOf(a) = {}
      BY DEF Init, ActiveOf, Is, Blank, Active
    <2> QED
      BY <2>1, CapType, FS_EmptySet
  <1>2. (TInv /\ WithinCapacity) /\ [Next]_vars => (TInv /\ WithinCapacity)'
    BY TInvNext, CapacityNext
  <1> QED
    BY <1>1, <1>2, PTL DEF Spec

-----------------------------------------------------------------------------
(***************************************************************************)
(* What is inserted, and what work a step adds.                            *)
(***************************************************************************)
Born(c) == Is(c, {"none"}) /\ ~Is(c, {"none"})'

\* A row of a chat session is for the session's agent, at the priority of a message.
IsMessage(row) == row.subject \in Chats => row.agent = ChatAgent[row.subject] /\ row.prio = chatPriority

\* A row for an input, a chat message, a quick-create, a run or a rerun.
RootIsBorn(c) ==
    /\ task'[c].parent = 0 /\ task'[c].esc = 0 /\ task'[c].max = defaultMaxAttempts
    /\ IsMessage(task'[c])

\* The escalation a routed comment's handler still had to insert.
EscalationIsBorn(c) ==
    /\ task'[c].parent = 0 /\ task'[c].max = defaultMaxAttempts /\ task'[c].status = "deferred"
    /\ \E p \in TaskIds, b \in Fallbacks :
           /\ Fallback(p, b) \in todo /\ Fallback(p, b) \notin todo' /\ p # c
           /\ task'[c].esc = p /\ task'[c].agent = b /\ task'[c].subject = task[p].subject

\* A retry, with the failure it is for or by the sweep's handler that had it to do.
RetryIsBorn(c) ==
    \E t \in TaskIds \ {c}, why \in Reasons :
        /\ ~Is(t, {"none"}) /\ retryEligible(why, task[t]) /\ task'[c] = RetryRow(t, why)
        /\ Is(t, {"failed"})' /\ task'[t].reason = why
        /\ \/ Is(t, Active) /\ (HandleFailed(t) \in todo' => HandleFailed(t) \in todo)
           \/ HandleFailed(t) \in todo /\ HandleFailed(t) \notin todo'

\* At most one row is inserted; failures that are left to handle are new failures; an
\* escalation that is left to insert is the new row's, for another agent.
Grows ==
    /\ \A c, d \in TaskIds : Born(c) /\ Born(d) => c = d
    /\ \A c \in TaskIds : Born(c) => RootIsBorn(c) \/ EscalationIsBorn(c) \/ RetryIsBorn(c)
    /\ \A t \in TaskIds : HandleFailed(t) \in todo' =>
           HandleFailed(t) \in todo \/ (Is(t, Cancellable) /\ Is(t, {"failed"})')
    /\ \A t \in TaskIds, b \in Agents : Fallback(t, b) \in todo' =>
           \/ Fallback(t, b) \in todo
           \/ /\ Born(t) /\ b # task'[t].agent /\ task'[t].subject \notin Chats
              /\ \A e \in Agents : Fallback(t, e) \in todo' => e = b \/ Fallback(t, e) \in todo

\* The pieces of work are different ones.
LEMMA WorkApart ==
  /\ \A t, u : HandleFailed(t) = HandleFailed(u) => t = u
  /\ \A t, u, b, e : Fallback(t, b) = Fallback(u, e) => t = u /\ b = e
  /\ \A t, u, b : HandleFailed(t) # Fallback(u, b)
  /\ \A a, b : Reconcile(a) = Reconcile(b) => a = b
  <1>1. \A t, u : HandleFailed(t) = HandleFailed(u) => t = u
    BY DEF HandleFailed
  <1>2. \A t, u, b, e : Fallback(t, b) = Fallback(u, e) => t = u /\ b = e
    BY DEF Fallback
  <1>3. \A t, u, b : HandleFailed(t) # Fallback(u, b)
    BY DEF HandleFailed, Fallback
  <1>4. \A a, b : Reconcile(a) = Reconcile(b) => a = b
    BY DEF Reconcile
  <1> QED
    BY <1>1, <1>2, <1>3, <1>4

\* A step that inserts nothing and fails the rows of S, or none.
LEMMA PlainGrows ==
  ASSUME NEW S \in SUBSET TaskIds,
         \A c \in TaskIds : Is(c, {"none"}) => task'[c] = task[c],
         \A t \in S : Is(t, Cancellable) /\ task'[t].status = "failed",
         todo' \subseteq todo \cup PlainWork \cup {HandleFailed(t) : t \in S}
  PROVE  Grows
  <1>1. \A c \in TaskIds : ~Born(c)
    BY DEF Born, Is
  <1>2. \A t \in TaskIds : HandleFailed(t) \in todo' => HandleFailed(t) \in todo \/ t \in S
    BY WorkOps, WorkApart
  <1>3. \A t \in TaskIds, b \in Agents : Fallback(t, b) \in todo' => Fallback(t, b) \in todo
    BY WorkOps, WorkApart
  <1>4. \A t \in S : Is(t, {"failed"})'
    BY DEF Is
  <1>5. \A t \in TaskIds : HandleFailed(t) \in todo' =>
            HandleFailed(t) \in todo \/ (Is(t, Cancellable) /\ Is(t, {"failed"})')
    BY <1>2, <1>4
  <1> QED
    BY <1>1, <1>3, <1>5, Zenon DEF Grows

\* A step that inserts nothing and adds no failure to handle.
LEMMA QuietGrows ==
  ASSUME \A c \in TaskIds : Is(c, {"none"}) => task'[c] = task[c],
         todo' \subseteq todo \cup PlainWork
  PROVE  Grows
  <1> DEFINE S == {}
  <1>1. /\ S \in SUBSET TaskIds /\ \A t \in S : Is(t, Cancellable) /\ task'[t].status = "failed"
        /\ todo' \subseteq todo \cup PlainWork \cup {HandleFailed(t) : t \in S}
    OBVIOUS
  <1> HIDE DEF S
  <1> QED
    BY <1>1, PlainGrows

\* A step that writes one row that was there and adds no failure to handle.
LEMMA OneGrows ==
  ASSUME RowsOK, NEW t \in TaskIds, ~Is(t, {"none"}), NEW row, task' = [task EXCEPT ![t] = row],
         todo' \subseteq todo \cup PlainWork
  PROVE  Grows
  <1>1. \A c \in TaskIds : Is(c, {"none"}) => task'[c] = task[c]
    BY DEF RowsOK
  <1> QED
    BY <1>1, QuietGrows

\* A step that leaves the table and adds no failure to handle.
LEMMA NoRowGrows ==
  ASSUME UNCHANGED task, todo' \subseteq todo \cup PlainWork
  PROVE  Grows
  BY QuietGrows

\* A row that is inserted for an input.
LEMMA RootGrows ==
  ASSUME RowsOK, NEW c \in TaskIds, NEW row, Insert(c, row),
         row.status \in {"queued", "deferred"},
         row.parent = 0, row.esc = 0, row.max = defaultMaxAttempts, IsMessage(row),
         NEW b, b # row.agent, b \in Agents => row.subject \notin Chats,
         todo' \subseteq todo \cup PlainWork \cup {Fallback(c, b)}
  PROVE  Grows
  <1>1. task'[c] = row /\ \A d \in TaskIds \ {c} : task'[d] = task[d]
    BY DEF Insert, RowsOK
  <1>2. Born(c) /\ \A d \in TaskIds : Born(d) => d = c
    BY <1>1 DEF Born, Is, Insert, IsNextId
  <1>3. RootIsBorn(c)
    BY <1>1 DEF RootIsBorn
  <1>4. \A t \in TaskIds : HandleFailed(t) \in todo' => HandleFailed(t) \in todo
    BY WorkOps, WorkApart
  <1>5. \A t \in TaskIds, e \in Agents : Fallback(t, e) \in todo' => Fallback(t, e) \in todo \/ (t = c /\ e = b)
    BY WorkOps, WorkApart
  <1> QED
    BY <1>1, <1>2, <1>3, <1>4, <1>5 DEF Grows

\* Enqueues insert one root.
LEMMA EnqueueGrows == TInv /\ Enqueue => Grows
  <1> SUFFICES ASSUME TInv, NEW t \in TaskIds, NEW a \in Agents, NEW r \in Bound[a],
                      \/ \E i \in Issues, p \in Priorities, b \in {None} \cup (Fallbacks \ {a}) :
                             EnqueueTaskForIssue(t, a, i, r, p, b)
                      \/ \E c \in Chats, st \in {"queued", "deferred"} :
                             ChatAgent[c] = a /\ EnqueueChatTask(t, c, r, st)
                      \/ \E q \in Quick : EnqueueQuickCreateTask(t, a, q, r)
                      \/ \E x \in Runs : EnqueueAutopilotRunTask(t, a, x, r)
               PROVE  Grows
    BY DEF Enqueue
  <1>0. RowsOK /\ None \notin Agents
    BY NoneIsNull DEF TInv, TypeOK
  <1>1. ASSUME NEW st \in {"queued", "deferred"}, NEW s, NEW p, InsertRoot(t, NewRow(st, a, s, r, p)),
               s \in Chats => a = ChatAgent[s] /\ p = chatPriority,
               NEW b, b # a, b \in Agents => s \notin Chats, todo' \subseteq todo \cup PlainWork \cup {Fallback(t, b)}
        PROVE  Grows
    <2> DEFINE row == NewRow(st, a, s, r, p)
    <2>1. /\ row.status = st /\ row.agent = a /\ row.parent = 0 /\ row.esc = 0
          /\ row.max = defaultMaxAttempts /\ row.subject = s /\ row.prio = p
      BY DEF NewRow
    <2>2. Insert(t, row)
      BY <1>1 DEF InsertRoot
    <2> HIDE DEF row
    <2>3. IsMessage(row)
      BY <1>1, <2>1 DEF IsMessage
    <2> QED
      BY <1>0, <1>1, <2>1, <2>2, <2>3, RootGrows
  <1>2. ASSUME NEW i \in Issues, NEW p \in Priorities, NEW b \in {None} \cup (Fallbacks \ {a}),
               EnqueueTaskForIssue(t, a, i, r, p, b)
        PROVE  Grows
    <2>1. b # a /\ InsertRoot(t, NewRow("queued", a, i, r, p)) /\ todo' \subseteq todo \cup PlainWork \cup {Fallback(t, b)}
      BY <1>0, <1>2 DEF EnqueueTaskForIssue
    <2>2. i \notin Chats
      BY SubjectsDisjoint
    <2> QED
      BY <1>1, <2>1, <2>2
  <1>3. ASSUME NEW c \in Chats, NEW st \in {"queued", "deferred"}, ChatAgent[c] = a, EnqueueChatTask(t, c, r, st)
        PROVE  Grows
    BY <1>0, <1>1, <1>3 DEF EnqueueChatTask
  <1>4. ASSUME NEW q \in Quick, EnqueueQuickCreateTask(t, a, q, r) PROVE Grows
    BY <1>0, <1>1, <1>4, SubjectsDisjoint DEF EnqueueQuickCreateTask
  <1>5. ASSUME NEW x \in Runs, EnqueueAutopilotRunTask(t, a, x, r) PROVE Grows
    BY <1>0, <1>1, <1>5, SubjectsDisjoint DEF EnqueueAutopilotRunTask, Serialized
  <1> QED
    BY <1>2, <1>3, <1>4, <1>5

\* Cancelling rows inserts none.
LEMMA CancelRowsGrow ==
  ASSUME RowsOK, NEW S \in SUBSET TaskIds, CancelRows(S), \A t \in S : Is(t, Cancellable),
         todo' \subseteq todo \cup PlainWork
  PROVE  Grows
  <1>1. \A c \in TaskIds : Is(c, {"none"}) => task'[c] = task[c]
    BY DEF CancelRows, Is, Cancellable, Active
  <1> QED
    BY <1>1, QuietGrows

\* Cancellations insert no row.
LEMMA CancelGrows == TInv /\ Cancel => Grows
  <1> SUFFICES ASSUME TInv, Cancel PROVE Grows
    OBVIOUS
  <1>0. RowsOK /\ \A t \in TaskIds : task[t].agent \in Agents \cup {None}
    BY RestTypes DEF TInv, TypeOK
  <1>1. ASSUME NEW Scope \in CancelScopes, CancelTasks(Scope) PROVE Grows
    <2> DEFINE S == {t \in Scope : Is(t, Cancellable)}
    <2>1. S \in SUBSET TaskIds /\ CancelRows(S) /\ \A t \in S : Is(t, Cancellable)
      BY <1>1 DEF CancelTasks, CancelScopes
    <2>2. todo' \subseteq todo \cup PlainWork
      BY <1>0, <1>1, <2>1 DEF CancelTasks, PlainWork
    <2> QED
      BY <1>0, <2>1, <2>2, CancelRowsGrow
  <1>2. ASSUME NEW a \in Agents, NEW i \in Issues, RerunIssue(a, i) PROVE Grows
    <2> DEFINE S == {t \in TaskIds : Is(t, Cancellable) /\ task[t].agent = a /\ task[t].subject = i}
    <2>1. S \in SUBSET TaskIds /\ CancelRows(S) /\ \A t \in S : Is(t, Cancellable)
      BY <1>2 DEF RerunIssue
    <2>2. todo' \subseteq todo \cup PlainWork
      BY <1>0, <1>2 DEF RerunIssue, PlainWork
    <2> QED
      BY <1>0, <2>1, <2>2, CancelRowsGrow
  <1>3. ASSUME NEW a \in Agents, NEW i \in Issues, CancelDeferredEscalationsForIssueAgent(a, i) PROVE Grows
    <2> DEFINE S == {t \in TaskIds : /\ Is(t, Preempted) /\ task[t].esc # 0
                                     /\ task[task[t].esc].agent = a /\ task[task[t].esc].subject = i}
    <2>1. S \in SUBSET TaskIds /\ CancelRows(S) /\ (\A t \in S : Is(t, Cancellable)) /\ todo' = todo
      BY <1>3 DEF CancelDeferredEscalationsForIssueAgent, Preempted, Cancellable, Active, Is
    <2> QED
      BY <1>0, <2>1, CancelRowsGrow
  <1> QED
    BY <1>1, <1>2, <1>3 DEF Cancel

\* The retry of a failure a sweep left to handle.
LEMMA HandleFailedGrows ==
  ASSUME TInv, NEW t \in TaskIds, Is(t, {"failed"}), HandleFailedTask(t)
  PROVE  Grows
  <1>0. RowsOK /\ task[t].agent \in Agents \cup {None} /\ task[t].subject \in Subjects \cup {None}
    BY RestTypes DEF TInv, TypeOK
  <1>1. HandleFailed(t) \in todo
    BY DEF HandleFailedTask
  <1>2. todo' \subseteq (todo \ {HandleFailed(t)}) \cup PlainWork
    BY <1>0 DEF HandleFailedTask, PlainWork
  <1>3. HandleFailed(t) \notin todo'
    BY <1>2, WorkOps
  <1>4. CASE ~RetryFits(t)
    BY <1>2, <1>4, NoRowGrows DEF HandleFailedTask
  <1>5. CASE RetryFits(t)
    <2>1. PICK c \in TaskIds : IsNextId(c) /\ task' = [task EXCEPT ![c] = RetryRow(t, task[t].reason)]
      BY <1>5 DEF HandleFailedTask
    <2>2. c # t /\ Is(c, {"none"})
      BY <2>1 DEF IsNextId, Is
    <2>3. /\ task'[c] = RetryRow(t, task[t].reason) /\ task'[t] = task[t]
          /\ \A d \in TaskIds \ {c} : task'[d] = task[d]
      BY <1>0, <2>1, <2>2 DEF RowsOK
    <2>4. \A d \in TaskIds : Born(d) => d = c
      BY <2>3 DEF Born, Is
    <2>5. retryEligible(task[t].reason, task[t]) /\ task[t].reason \in Reasons
      BY <1>5 DEF RetryFits, retryEligible, retryableReasons, Reasons, SweepReasons
    <2>6. RetryIsBorn(c)
      <3>1. ~Is(t, {"none"}) /\ Is(t, {"failed"})' /\ task'[t].reason = task[t].reason
        BY <2>3 DEF Is
      <3> QED
        BY <1>1, <1>3, <2>2, <2>3, <2>5, <3>1 DEF RetryIsBorn
    <2>7. \A u \in TaskIds : HandleFailed(u) \in todo' => HandleFailed(u) \in todo
      BY <1>2, WorkOps
    <2>8. \A u \in TaskIds, b \in Agents : Fallback(u, b) \in todo' => Fallback(u, b) \in todo
      BY <1>2, WorkOps
    <2> QED
      BY <2>4, <2>6, <2>7, <2>8 DEF Grows
  <1> QED
    BY <1>4, <1>5

\* The escalation of a routed comment.
LEMMA FallbackGrows ==
  ASSUME TInv, NEW t \in TaskIds, NEW p \in TaskIds, NEW b \in Fallbacks, NEW r,
         EnqueueDeferredAssigneeFallback(t, p, b, r)
  PROVE  Grows
  <1>0. RowsOK /\ b \in Agents
    BY InputsType DEF TInv, TypeOK
  <1>1. Fallback(p, b) \in todo /\ todo' = todo \ {Fallback(p, b)}
    BY DEF EnqueueDeferredAssigneeFallback
  <1> DEFINE row == [NewRow("deferred", b, task[p].subject, r, task[p].prio) EXCEPT !.esc = p]
  <1>2. Insert(t, row)
    BY DEF EnqueueDeferredAssigneeFallback
  <1>3. /\ row.status = "deferred" /\ row.agent = b /\ row.subject = task[p].subject /\ row.parent = 0
        /\ row.esc = p /\ row.max = defaultMaxAttempts
    BY DEF NewRow
  <1> HIDE DEF row
  <1>4. task'[t] = row /\ Is(t, {"none"}) /\ \A d \in TaskIds \ {t} : task'[d] = task[d]
    BY <1>0, <1>2 DEF Insert, IsNextId, RowsOK
  <1>5. \A d \in TaskIds : Born(d) => d = t
    BY <1>4 DEF Born, Is
  <1>6. p # t
    BY <1>0, <1>1, <1>4 DEF TInv, TodoOK
  <1>7. EscalationIsBorn(t)
    BY <1>1, <1>3, <1>4, <1>6 DEF EscalationIsBorn
  <1> QED
    BY <1>1, <1>5, <1>7 DEF Grows

\* What handlers do after their commit.
LEMMA ContinueGrows ==
  ASSUME TInv, \A t \in TaskIds : HandleFailed(t) \in todo => Is(t, {"failed"}), Continue
  PROVE  Grows
  <1>0. RowsOK
    BY DEF TInv, TypeOK
  <1>1. ASSUME NEW a \in Agents, ReconcileAgentStatus(a) PROVE Grows
    BY <1>1, NoRowGrows DEF ReconcileAgentStatus
  <1>2. ASSUME NEW t \in TaskIds, HandleFailedTask(t) PROVE Grows
    BY <1>2, HandleFailedGrows DEF HandleFailedTask
  <1>3. ASSUME NEW p \in TaskIds, CancelDeferredEscalationsForTask(p) PROVE Grows
    <2> DEFINE S == {t \in TaskIds : task[t].esc = p /\ Is(t, Preempted)}
    <2>1. /\ S \in SUBSET TaskIds /\ CancelRows(S) /\ (\A t \in S : Is(t, Cancellable))
          /\ todo' \subseteq todo
      BY <1>3 DEF CancelDeferredEscalationsForTask, Preempted, Cancellable, Active, Is
    <2> QED
      BY <1>0, <2>1, CancelRowsGrow
  <1>4. ASSUME NEW i \in TrackedIssues, ResetStuckIssue(i) PROVE Grows
    BY <1>4, NoRowGrows DEF ResetStuckIssue
  <1>5. ASSUME FailTasksForOfflineRuntimes PROVE Grows
    <2> DEFINE S == ActiveOn({r \in Runtimes : ~online[r]})
    <2>1. /\ S \in SUBSET TaskIds /\ FailOfflineRows(S) /\ (\A t \in S : Is(t, Active))
          /\ todo' = (todo \ {FailOffline}) \cup {HandleFailed(t) : t \in S}
      BY <1>5 DEF FailTasksForOfflineRuntimes, ActiveOn
    <2> HIDE DEF S
    <2>2. \A c \in TaskIds : Is(c, {"none"}) => task'[c] = task[c]
      BY <2>1 DEF FailOfflineRows, Is, Active
    <2>3. \A t \in S : Is(t, Cancellable) /\ task'[t].status = "failed"
      BY <1>0, <2>1, OfflineIsRow DEF FailOfflineRows, Is, Cancellable, RowsOK
    <2> QED
      BY <2>1, <2>2, <2>3, PlainGrows
  <1>6. ASSUME NEW t \in TaskIds, NEW p \in TaskIds, NEW b \in Fallbacks, NEW r \in Bound[b],
               EnqueueDeferredAssigneeFallback(t, p, b, r)
        PROVE  Grows
    BY <1>6, FallbackGrows
  <1>7. ASSUME NEW t \in TaskIds, NEW a \in Agents, NEW i \in Issues, NEW p \in Priorities,
               NEW r \in Bound[a], EnqueueRerunTask(t, a, i, r, p)
        PROVE  Grows
    <2>1. CASE PendingFree(a, i, {})
      <3> DEFINE row == NewRow("queued", a, i, r, p)
      <3>1. Insert(t, row) /\ todo' \subseteq todo
        BY <1>7, <2>1 DEF EnqueueRerunTask, InsertRoot
      <3>2. /\ row.status = "queued" /\ row.agent = a /\ row.parent = 0 /\ row.esc = 0
            /\ row.max = defaultMaxAttempts /\ row.subject = i
        BY DEF NewRow
      <3> HIDE DEF row
      <3>3. row.subject \notin Chats /\ IsMessage(row)
        BY <3>2, SubjectsDisjoint DEF IsMessage
      <3> QED
        BY <1>0, <3>1, <3>2, <3>3, RootGrows, NoneIsNull
    <2>2. CASE ~PendingFree(a, i, {})
      BY <1>7, <2>2, NoRowGrows DEF EnqueueRerunTask
    <2> QED
      BY <2>1, <2>2
  <1> QED
    BY <1>1, <1>2, <1>3, <1>4, <1>5, <1>6, <1>7 DEF Continue

\* Failing rows inserts none.
LEMMA FailRowsGrow ==
  ASSUME RowsOK, NEW S \in SUBSET TaskIds, NEW why \in Reasons, FailRows(S, why),
         \A t \in S : Is(t, Cancellable),
         todo' = todo \cup {HandleFailed(t) : t \in S}
  PROVE  Grows
  <1>1. \A c \in TaskIds : Is(c, {"none"}) => task'[c] = task[c]
    BY DEF FailRows, Is, Cancellable, Active
  <1>2. \A t \in S : Is(t, Cancellable) /\ task'[t].status = "failed"
    BY FailedIsRow DEF FailRows, RowsOK
  <1> QED
    BY <1>1, <1>2, PlainGrows

\* Sweeps insert no row.
LEMMA SweepGrows == TInv /\ Sweep => Grows
  <1> SUFFICES ASSUME TInv, Sweep PROVE Grows
    OBVIOUS
  <1>0. RowsOK /\ {"timeout", "queued_expired"} \subseteq Reasons
    BY DEF TInv, TypeOK, Reasons, SweepReasons
  <1>1. ASSUME NEW S \in SUBSET TaskIds, SweepStaleTasks(S) PROVE Grows
    <2>1. /\ FailRows(S, "timeout") /\ (\A t \in S : Is(t, Cancellable))
          /\ todo' = todo \cup {HandleFailed(t) : t \in S}
      BY <1>1 DEF SweepStaleTasks, StaleTasks, Cancellable, Active, Is
    <2> QED
      BY <1>0, <2>1, FailRowsGrow
  <1>2. ASSUME NEW S \in SUBSET TaskIds, SweepExpiredQueuedTasks(S) PROVE Grows
    <2>1. /\ FailRows(S, "queued_expired") /\ (\A t \in S : Is(t, Cancellable))
          /\ todo' = todo \cup {HandleFailed(t) : t \in S}
      BY <1>2 DEF SweepExpiredQueuedTasks, Cancellable, Is
    <2> QED
      BY <1>0, <2>1, FailRowsGrow
  <1>3. ASSUME NEW R \in SUBSET Runtimes, SweepStaleRuntimes(R) PROVE Grows
    BY <1>3, NoRowGrows DEF SweepStaleRuntimes, PlainWork
  <1> QED
    BY <1>1, <1>2, <1>3 DEF Sweep

\* A failure a daemon reports, with its retry or without.
LEMMA FailTaskGrows ==
  ASSUME TInv, NEW t \in TaskIds, NEW why \in DaemonReasons, FailTask(t, why)
  PROVE  Grows
  <1>0. RowsOK /\ why \in Reasons /\ task[t] \in Row /\ task[t].agent \in Agents \cup {None}
    BY InputsType, RestTypes DEF TInv, TypeOK, RowsOK
  <1>1. Is(t, Active) /\ ~Is(t, {"none"})
    BY DEF FailTask, Is, Active
  <1>2. todo' \subseteq todo \cup PlainWork
    BY <1>0 DEF FailTask, PlainWork
  <1>3. CASE ~retryEligible(why, task[t])
    BY <1>0, <1>1, <1>2, <1>3, OneGrows DEF FailTask
  <1>4. CASE retryEligible(why, task[t])
    <2> DEFINE f == Failed(task[t], why)
    <2>1. PICK c \in TaskIds : IsNextId(c) /\ task' = [task EXCEPT ![t] = f, ![c] = RetryRow(t, why)]
      BY <1>4 DEF FailTask
    <2>2. f.status = "failed" /\ f.reason = why
      BY <1>0, FailedIsRow
    <2> HIDE DEF f
    <2>3. c # t /\ Is(c, {"none"})
      BY <1>1, <2>1 DEF IsNextId
    <2>4. /\ task'[c] = RetryRow(t, why) /\ task'[t] = f
          /\ \A d \in TaskIds \ {c, t} : task'[d] = task[d]
      BY <1>0, <2>1, <2>3 DEF RowsOK
    <2>5. \A d \in TaskIds : Born(d) => d = c
      BY <1>1, <2>4 DEF Born, Is
    <2>6. \A u \in TaskIds : HandleFailed(u) \in todo' => HandleFailed(u) \in todo
      BY <1>2, WorkOps
    <2>7. \A u \in TaskIds, b \in Agents : Fallback(u, b) \in todo' => Fallback(u, b) \in todo
      BY <1>2, WorkOps
    <2>8. RetryIsBorn(c)
      <3>1. Is(t, {"failed"})' /\ task'[t].reason = why
        BY <2>2, <2>4 DEF Is
      <3> QED
        BY <1>0, <1>1, <1>4, <2>3, <2>4, <2>6, <3>1 DEF RetryIsBorn
    <2> QED
      BY <2>5, <2>6, <2>7, <2>8 DEF Grows
  <1> QED
    BY <1>3, <1>4

\* Daemons insert no row but the retry of a failure they report.
LEMMA DaemonCallGrows == TInv /\ DaemonCall => Grows
  <1> SUFFICES ASSUME TInv, DaemonCall PROVE Grows
    OBVIOUS
  <1>0. RowsOK /\ \A t \in TaskIds : task[t].agent \in Agents \cup {None}
    BY RestTypes DEF TInv, TypeOK
  <1>1. ASSUME NEW R \in SUBSET Runtimes, PromoteDueDeferredTasks(R) PROVE Grows
    <2>1. \A c \in TaskIds : Is(c, {"none"}) => task'[c] = task[c]
      BY <1>1 DEF PromoteDueDeferredTasks, QueueRows, DueOn, Is
    <2> QED
      BY <1>1, <2>1, QuietGrows DEF PromoteDueDeferredTasks
  <1>2. ASSUME NEW R \in SUBSET Runtimes, RuntimesSeen(R) \/ DaemonDeregister(R) PROVE Grows
    BY <1>2, NoRowGrows DEF RuntimesSeen, DaemonDeregister
  <1>3. ASSUME NEW r \in Runtimes, RecoverOrphanedTasks(r) PROVE Grows
    <2>1. ActiveOn({r}) \in SUBSET TaskIds /\ \A t \in ActiveOn({r}) : Is(t, Cancellable)
      BY DEF ActiveOn, Is, Cancellable
    <2> QED
      BY <1>0, <1>3, <2>1, FailRowsGrow DEF RecoverOrphanedTasks, Reasons, SweepReasons
  <1>4. ASSUME NEW a \in Agents, NEW t \in TaskIds, ClaimTask(a, t) PROVE Grows
    <2>1. ~Is(t, {"none"}) /\ todo' \subseteq todo \cup PlainWork
      BY <1>4 DEF ClaimTask, Claimable, Is, PlainWork
    <2> QED
      BY <1>0, <1>4, <2>1, OneGrows DEF ClaimTask
  <1>5. ASSUME NEW t \in TaskIds, ReclaimStaleDispatchedTask(t) PROVE Grows
    BY <1>0, <1>5, OneGrows DEF ReclaimStaleDispatchedTask, Is
  <1>6. ASSUME NEW t \in TaskIds, NEW g \in 1..MaxClaims, RequeueTaskAfterClaimFailure(t, g) PROVE Grows
    <2>1. ~Is(t, {"none"}) /\ todo' \subseteq todo \cup PlainWork
      BY <1>0, <1>6 DEF RequeueTaskAfterClaimFailure, Is, PlainWork
    <2> QED
      BY <1>0, <1>6, <2>1, OneGrows DEF RequeueTaskAfterClaimFailure
  <1>7. ASSUME NEW t \in TaskIds, ExtendTaskPrepareLease(t) \/ MarkTaskWaitingLocalDirectory(t) PROVE Grows
    BY <1>0, <1>7, OneGrows DEF ExtendTaskPrepareLease, MarkTaskWaitingLocalDirectory, Is
  <1>8. ASSUME NEW t \in TaskIds, StartTask(t) PROVE Grows
    <2>1. ~Is(t, {"none"}) /\ todo' \subseteq todo \cup PlainWork
      BY <1>8 DEF StartTask, Is, PlainWork
    <2> QED
      BY <1>0, <1>8, <2>1, OneGrows DEF StartTask
  <1>9. ASSUME NEW t \in TaskIds, CompleteTask(t) PROVE Grows
    <2>1. ~Is(t, {"none"}) /\ todo' \subseteq todo \cup PlainWork
      BY <1>0, <1>9 DEF CompleteTask, Is, PlainWork
    <2> QED
      BY <1>0, <1>9, <2>1, OneGrows DEF CompleteTask
  <1>10. ASSUME NEW t \in TaskIds, NEW why \in DaemonReasons, FailTask(t, why) PROVE Grows
    BY <1>10, FailTaskGrows
  <1> QED
    BY <1>1, <1>2, <1>3, <1>4, <1>5, <1>6, <1>7, <1>8, <1>9, <1>10 DEF DaemonCall

\* Every step, if the failures that are left to handle are failures.
LEMMA NextGrows ==
  ASSUME TInv, \A t \in TaskIds : HandleFailed(t) \in todo => Is(t, {"failed"}), [Next]_vars
  PROVE  Grows
  <1>0. RowsOK
    BY DEF TInv, TypeOK
  <1>1. CASE Time
    <2>1. ASSUME NEW t \in TaskIds, FireAtPasses(t) \/ LeaseLapses(t) PROVE Grows
      BY <1>0, <2>1, OneGrows DEF FireAtPasses, LeaseLapses, Is
    <2>2. ASSUME NEW r \in Runtimes, HeartbeatsStop(r) PROVE Grows
      BY <2>2, NoRowGrows DEF HeartbeatsStop
    <2> QED
      BY <1>1, <2>1, <2>2 DEF Time
  <1>2. ASSUME NEW c \in Chats, PromoteChannelChatTasksIfMediaReady(c) PROVE Grows
    <2>1. \A d \in TaskIds : Is(d, {"none"}) => task'[d] = task[d]
      BY <1>2 DEF PromoteChannelChatTasksIfMediaReady, QueueRows, Is
    <2> QED
      BY <1>2, <2>1, QuietGrows DEF PromoteChannelChatTasksIfMediaReady
  <1>3. ASSUME NEW i \in TrackedIssues, SetIssueInProgress(i) PROVE Grows
    BY <1>3, NoRowGrows DEF SetIssueInProgress
  <1>4. ASSUME NEW W \in SUBSET todo, WorkLost(W) PROVE Grows
    BY <1>4, NoRowGrows DEF WorkLost
  <1>5. CASE UNCHANGED vars
    BY <1>5, NoRowGrows DEF vars
  <1> QED
    BY <1>1, <1>2, <1>3, <1>4, <1>5, EnqueueGrows, CancelGrows, ContinueGrows, SweepGrows,
       DaemonCallGrows DEF Next

-----------------------------------------------------------------------------
(***************************************************************************)
(* Retries.                                                                *)
(***************************************************************************)

\* What a step leaves of a row that it does not insert.
Kept(u) ==
    \/ task'[u] = task[u]
    \/ /\ Is(u, Cancellable) /\ task'[u].status # "none" /\ SameRow(task'[u], task[u])
       /\ Is(u, {"deferred"}) => task'[u].status \in {"deferred", "cancelled"} \/ task[u].due \/ task[u].esc = 0

\* Every row is inserted or kept.
LEMMA NextKeeps ==
  ASSUME TInv, [Next]_vars, NEW u \in TaskIds
  PROVE  Born(u) \/ Kept(u)
  <1>1. CASE QuietStep
    BY <1>1 DEF QuietStep, RowStep, MovedOn, Kept, Born, Is
  <1>2. ASSUME NEW a \in Agents, NEW t \in TaskIds, ClaimTask(a, t) PROVE Kept(u)
    BY <1>2, ClaimStep DEF Kept, Is, Cancellable
  <1> QED
    BY <1>1, <1>2, NextQuiet

\* The columns that are never written after the insert.
LEMMA KeptColumns ==
  ASSUME NEW u \in TaskIds, Kept(u)
  PROVE  /\ task'[u].agent = task[u].agent /\ task'[u].subject = task[u].subject
         /\ task'[u].parent = task[u].parent /\ task'[u].esc = task[u].esc
         /\ task'[u].attempt = task[u].attempt /\ task'[u].max = task[u].max
         /\ task'[u].prio = task[u].prio
         /\ Is(u, {"failed"}) => task'[u] = task[u]
         /\ ~Is(u, {"none"}) => ~Is(u, {"none"})'
  BY DEF Kept, SameRow, Is, Cancellable, Active

\* A failure that is left to handle is one, and has no retry yet.
FailuresOpen ==
    \A t \in TaskIds : HandleFailed(t) \in todo => Is(t, {"failed"}) /\ \A u \in TaskIds : task[u].parent # t

RetryInv ==
    /\ RetryChains
    /\ \A t \in TaskIds : task[t].max <= providerNetworkMaxAttempts
    /\ FailuresOpen

\* A row that may still be cancelled has no retry.
LEMMA LiveHasNoRetry ==
  ASSUME RetryInv, NEW t \in TaskIds, Is(t, Cancellable), NEW u \in TaskIds
  PROVE  task[u].parent # t
  <1>1. t # 0
    BY DEF TaskIds
  <1> QED
    BY <1>1 DEF RetryInv, RetryChains, Is, Cancellable, Active

\* The parent of a new retry had none, has failed, and is nobody else's to retry.
LEMMA RetryIsNew ==
  ASSUME TInv, RetryInv, Grows, NEW c \in TaskIds, Born(c), task'[c].parent # 0
  PROVE  \E t \in TaskIds \ {c}, why \in retryableReasons :
            /\ task'[c].parent = t /\ ~Is(t, {"none"})
            /\ task'[c].agent = task[t].agent /\ task'[c].subject = task[t].subject
            /\ task'[c].attempt = task[t].attempt + 1
            /\ task'[c].attempt <= task'[c].max /\ task'[c].max <= providerNetworkMaxAttempts
            /\ Is(t, {"failed"})' /\ task'[t].reason = why
            /\ \A u \in TaskIds : task[u].parent # t
            /\ HandleFailed(t) \notin todo'
  <1>1. RetryIsBorn(c)
    BY DEF Grows, RootIsBorn, EscalationIsBorn
  <1>2. PICK t \in TaskIds \ {c}, why \in Reasons :
            /\ ~Is(t, {"none"}) /\ retryEligible(why, task[t]) /\ task'[c] = RetryRow(t, why)
            /\ Is(t, {"failed"})' /\ task'[t].reason = why
            /\ \/ Is(t, Active) /\ (HandleFailed(t) \in todo' => HandleFailed(t) \in todo)
               \/ HandleFailed(t) \in todo /\ HandleFailed(t) \notin todo'
    BY <1>1 DEF RetryIsBorn
  <1>3. RowsOK /\ task[t] \in Row
    BY DEF TInv, TypeOK, RowsOK
  <1>4. /\ task'[c].parent = t /\ task'[c].agent = task[t].agent /\ task'[c].subject = task[t].subject
        /\ task'[c].attempt = task[t].attempt + 1 /\ task'[c].max = retryAttemptCeiling(why, task[t].max)
    BY <1>2, <1>3, RetryRowIsRow
  <1>5. why \in retryableReasons /\ task[t].attempt < retryAttemptCeiling(why, task[t].max)
    BY <1>2 DEF retryEligible
  <1>6. /\ task[t].attempt \in Nat /\ task[t].max \in Nat /\ task[t].max <= providerNetworkMaxAttempts
    BY <1>3 DEF Row, RetryInv
  <1>7. /\ retryAttemptCeiling(why, task[t].max) \in Nat
        /\ retryAttemptCeiling(why, task[t].max) <= providerNetworkMaxAttempts
    BY <1>6 DEF retryAttemptCeiling, providerNetworkMaxAttempts
  <1>8. task'[c].attempt <= task'[c].max /\ task'[c].max <= providerNetworkMaxAttempts
    BY <1>4, <1>5, <1>6, <1>7 DEF providerNetworkMaxAttempts
  <1>9. \A u \in TaskIds : task[u].parent # t
    <2>1. CASE Is(t, Active)
      BY <2>1, LiveHasNoRetry DEF Is, Cancellable
    <2>2. CASE HandleFailed(t) \in todo
      BY <2>2 DEF RetryInv, FailuresOpen
    <2> QED
      BY <1>2, <2>1, <2>2
  <1>10. HandleFailed(t) \notin todo'
    <2>1. Is(t, Active) => HandleFailed(t) \notin todo
      BY DEF RetryInv, FailuresOpen, Is, Active
    <2> QED
      BY <1>2, <2>1
  <1> QED
    BY <1>2, <1>4, <1>5, <1>8, <1>9, <1>10

\* Every step keeps the chains of retries.
LEMMA RetryNext == TInv /\ RetryInv /\ [Next]_vars => RetryInv'
  <1> SUFFICES ASSUME TInv, RetryInv, [Next]_vars PROVE RetryInv'
    OBVIOUS
  <1>1. Grows
    BY NextGrows DEF RetryInv, FailuresOpen
  <1>2. \A u \in TaskIds : Born(u) \/ Kept(u)
    BY NextKeeps
  <1>3. \A u \in TaskIds : ~Born(u) =>
           /\ task'[u].agent = task[u].agent /\ task'[u].subject = task[u].subject
           /\ task'[u].parent = task[u].parent
           /\ task'[u].attempt = task[u].attempt /\ task'[u].max = task[u].max
           /\ Is(u, {"failed"}) => task'[u] = task[u]
    BY <1>2, KeptColumns
  <1>4. \A c, d \in TaskIds : Born(c) /\ Born(d) => c = d
    BY <1>1 DEF Grows
  <1>5. \A t \in TaskIds : task[t].parent \in {0} \cup TaskIds /\ task'[t].parent \in {0} \cup TaskIds
    BY TInvNext DEF TInv, TypeOK, RowsOK, Row
  <1>6. \A t, u \in TaskIds : task'[t].parent = task'[u].parent /\ task'[t].parent # 0 => t = u
    <2>1. ASSUME NEW c \in TaskIds, NEW u \in TaskIds, Born(c), ~Born(u), task'[c].parent # 0,
                 task'[c].parent = task'[u].parent
          PROVE  FALSE
      BY <1>1, <1>3, <2>1, RetryIsNew
    <2>2. \A t, u \in TaskIds : ~Born(t) /\ ~Born(u) /\ task'[t].parent = task'[u].parent /\ task'[t].parent # 0 => t = u
      BY <1>3 DEF RetryInv, RetryChains
    <2> QED
      BY <1>4, <2>1, <2>2
  <1>7. ASSUME NEW t \in TaskIds, task'[t].parent # 0
        PROVE  LET p == task'[task'[t].parent]
               IN /\ p.status = "failed" /\ p.reason \in retryableReasons
                  /\ task'[t].agent = p.agent /\ task'[t].subject = p.subject
                  /\ task'[t].attempt = p.attempt + 1
                  /\ task'[t].attempt <= task'[t].max /\ task'[t].max <= providerNetworkMaxAttempts
    <2>1. CASE Born(t)
      <3>1. PICK q \in TaskIds \ {t}, why \in retryableReasons :
              /\ task'[t].parent = q /\ ~Is(q, {"none"})
              /\ task'[t].agent = task[q].agent /\ task'[t].subject = task[q].subject
              /\ task'[t].attempt = task[q].attempt + 1
              /\ task'[t].attempt <= task'[t].max /\ task'[t].max <= providerNetworkMaxAttempts
              /\ Is(q, {"failed"})' /\ task'[q].reason = why
        BY <1>1, <1>7, <2>1, RetryIsNew
      <3>2. ~Born(q)
        BY <3>1 DEF Born
      <3> QED
        BY <1>3, <3>1, <3>2 DEF Is
    <2>2. CASE ~Born(t)
      <3> DEFINE q == task[t].parent
      <3>1. q \in TaskIds /\ task'[t].parent = q
        BY <1>3, <1>5, <1>7, <2>2
      <3>2. /\ task[q].status = "failed" /\ task[q].reason \in retryableReasons
            /\ task[t].agent = task[q].agent /\ task[t].subject = task[q].subject
            /\ task[t].attempt = task[q].attempt + 1
            /\ task[t].attempt <= task[t].max /\ task[t].max <= providerNetworkMaxAttempts
        BY <1>3, <1>7, <2>2 DEF RetryInv, RetryChains
      <3>3. task'[q] = task[q]
        BY <1>3, <3>1, <3>2 DEF Is, Born
      <3> QED
        BY <1>3, <2>2, <3>1, <3>2, <3>3
    <2> QED
      BY <2>1, <2>2
  <1>8. \A t \in TaskIds : task'[t].max <= providerNetworkMaxAttempts
    <2>1. ASSUME NEW t \in TaskIds, Born(t) PROVE task'[t].max <= providerNetworkMaxAttempts
      <3>1. CASE task'[t].parent # 0
        BY <1>1, <2>1, <3>1, RetryIsNew
      <3>2. CASE task'[t].parent = 0
        <4>1. \A q \in TaskIds : \A why : RetryRow(q, why).parent = q /\ q # 0
          BY DEF RetryRow, TaskIds
        <4>2. ~RetryIsBorn(t)
          BY <3>2, <4>1 DEF RetryIsBorn
        <4> QED
          BY <1>1, <2>1, <4>2 DEF Grows, RootIsBorn, EscalationIsBorn, defaultMaxAttempts, providerNetworkMaxAttempts
      <3> QED
        BY <3>1, <3>2
    <2> QED
      BY <1>3, <2>1 DEF RetryInv
  <1>9. ASSUME NEW t \in TaskIds, HandleFailed(t) \in todo'
        PROVE  task'[t].status = "failed" /\ \A u \in TaskIds : task'[u].parent # t
    <2>1. HandleFailed(t) \in todo \/ (Is(t, Cancellable) /\ Is(t, {"failed"})')
      BY <1>1, <1>9 DEF Grows
    <2>2. (Is(t, {"failed"}) \/ Is(t, Cancellable)) /\ \A u \in TaskIds : task[u].parent # t
      BY <2>1, LiveHasNoRetry DEF RetryInv, FailuresOpen
    <2>3. task'[t].status = "failed"
      BY <1>3, <2>1, <2>2 DEF Is, Born, RetryInv, FailuresOpen
    <2>4. \A u \in TaskIds : ~Born(u) => task'[u].parent # t
      BY <1>3, <2>2
    <2>5. \A u \in TaskIds : Born(u) => task'[u].parent # t
      <3>1. t # 0
        BY DEF TaskIds
      <3> QED
        BY <1>1, <1>9, <3>1, RetryIsNew
    <2> QED
      BY <2>3, <2>4, <2>5
  <1>10. RetryChains'
    BY <1>6, <1>7 DEF RetryChains
  <1>11. FailuresOpen'
    BY <1>9 DEF FailuresOpen, Is, HandleFailed
  <1> QED
    BY <1>8, <1>10, <1>11 DEF RetryInv

\* The first state has no retries.
LEMMA RetryInit == Init => RetryInv
  BY DEF Init, RetryInv, RetryChains, FailuresOpen, Blank, providerNetworkMaxAttempts

\* The retries of any number of failures, sweeps and lost handlers: a failed row is retried at
\* most once, by FailTask or by HandleFailedTasks, and within its budget.  RetryChains is not
\* inductive: what a sweep has left to handle must be a failure without a retry (FailuresOpen).
THEOREM RetryChainsHold == Spec => []RetryChains
  <1>1. Init => TInv /\ RetryInv
    BY TInvInit, RetryInit
  <1>2. (TInv /\ RetryInv) /\ [Next]_vars => (TInv /\ RetryInv)'
    BY TInvNext, RetryNext
  <1> QED
    BY <1>1, <1>2, PTL DEF Spec, RetryInv

-----------------------------------------------------------------------------
(***************************************************************************)
(* Escalations.                                                            *)
(***************************************************************************)

\* An escalation's primary was inserted, and it is for a fallback agent.
EscalationsOK == \A t \in TaskIds : task[t].esc # 0 => ~Is(task[t].esc, {"none"}) /\ task[t].agent \in Fallbacks

\* An escalation that is still to be inserted is for another agent than its primary's, the only
\* one of its primary, and not inserted yet.
FallbacksOpen ==
    \A p \in TaskIds, b \in Agents : Fallback(p, b) \in todo =>
        /\ b # task[p].agent /\ \A u \in TaskIds : task[u].esc # p
        /\ \A e \in Agents : Fallback(p, e) \in todo => e = b

EscInv == EscalationWaits /\ EscalationsOK /\ FallbacksOpen

\* A new escalation is the one its primary's handler had left to insert.
LEMMA EscalationIsNew ==
  ASSUME TInv, EscInv, Grows, NEW c \in TaskIds, Born(c), task'[c].esc # 0
  PROVE  /\ task'[c].status = "deferred"
         /\ \E p \in TaskIds \ {c}, b \in Fallbacks :
               /\ Fallback(p, b) \in todo /\ Fallback(p, b) \notin todo' /\ ~Is(p, {"none"})
               /\ task'[c].esc = p /\ task'[c].agent = b /\ task'[c].subject = task[p].subject
               /\ b # task[p].agent /\ \A u \in TaskIds : task[u].esc # p
  <1>0. \A q, why : RetryRow(q, why).esc = 0
    BY DEF RetryRow
  <1>1. ~RootIsBorn(c) /\ ~RetryIsBorn(c)
    BY <1>0 DEF RootIsBorn, RetryIsBorn
  <1>2. EscalationIsBorn(c)
    BY <1>1 DEF Grows
  <1>3. PICK p \in TaskIds, b \in Fallbacks :
           /\ Fallback(p, b) \in todo /\ Fallback(p, b) \notin todo' /\ p # c
           /\ task'[c].esc = p /\ task'[c].agent = b /\ task'[c].subject = task[p].subject
    BY <1>2 DEF EscalationIsBorn
  <1>4. b \in Agents
    BY InputsType
  <1>5. ~Is(p, {"none"}) /\ b # task[p].agent /\ \A u \in TaskIds : task[u].esc # p
    BY <1>3, <1>4 DEF TInv, TodoOK, EscInv, FallbacksOpen
  <1> QED
    BY <1>2, <1>3, <1>5 DEF EscalationIsBorn

\* Every step keeps the escalations inert until they are due, and one for a primary.
LEMMA EscNext == TInv /\ FailuresOpen /\ EscInv /\ [Next]_vars => EscInv'
  <1> SUFFICES ASSUME TInv, FailuresOpen, EscInv, [Next]_vars PROVE EscInv'
    OBVIOUS
  <1>1. Grows
    BY NextGrows DEF FailuresOpen
  <1>2. \A u \in TaskIds : Born(u) \/ Kept(u)
    BY NextKeeps
  <1>3. \A u \in TaskIds : ~Born(u) =>
           /\ task'[u].agent = task[u].agent /\ task'[u].subject = task[u].subject /\ task'[u].esc = task[u].esc
           /\ ~Is(u, {"none"}) => task'[u].status # "none"
    BY <1>2, KeptColumns DEF Is
  <1>4. \A u \in TaskIds : ~Is(u, {"none"}) => ~Born(u)
    BY DEF Born
  <1>5. \A t \in TaskIds : task[t].esc \in {0} \cup TaskIds
    BY DEF TInv, TypeOK, RowsOK, Row
  <1>6. \A t \in TaskIds : t # 0
    BY DEF TaskIds
  <1>7. ASSUME NEW t \in TaskIds, task'[t].esc # 0
        PROVE  /\ task'[t].esc \in TaskIds /\ task'[task'[t].esc].status # "none" /\ task'[t].agent \in Fallbacks
               /\ task'[t].subject = task'[task'[t].esc].subject /\ task'[t].agent # task'[task'[t].esc].agent
               /\ \A u \in TaskIds : task'[u].esc = task'[t].esc => u = t
               /\ task'[t].status \in {"deferred", "cancelled"} \/ task'[t].due
    <2>0. ASSUME NEW c \in TaskIds, NEW u \in TaskIds, Born(c), task'[c].esc # 0, task'[u].esc = task'[c].esc
          PROVE  u = c
      <3>1. CASE ~Born(u)
        BY <1>1, <1>3, <2>0, <3>1, EscalationIsNew
      <3>2. CASE Born(u)
        BY <1>1, <2>0, <3>2 DEF Grows
      <3> QED
        BY <3>1, <3>2
    <2>1. CASE Born(t)
      <3>1. task'[t].status = "deferred"
        BY <1>1, <1>7, <2>1, EscalationIsNew
      <3>2. PICK p \in TaskIds \ {t}, b \in Fallbacks :
               /\ ~Is(p, {"none"})
               /\ task'[t].esc = p /\ task'[t].agent = b /\ task'[t].subject = task[p].subject
               /\ b # task[p].agent
        BY <1>1, <1>7, <2>1, EscalationIsNew
      <3>3. task'[p].agent = task[p].agent /\ task'[p].subject = task[p].subject /\ task'[p].status # "none"
        BY <1>3, <1>4, <3>2
      <3> QED
        BY <1>7, <2>0, <2>1, <3>1, <3>2, <3>3
    <2>2. CASE ~Born(t)
      <3> DEFINE q == task[t].esc
      <3>1. q \in TaskIds /\ task'[t].esc = q /\ q # 0
        BY <1>3, <1>5, <1>7, <2>2
      <3>2. /\ ~Is(q, {"none"}) /\ task[t].agent \in Fallbacks
            /\ task[t].subject = task[q].subject /\ task[t].agent # task[q].agent
            /\ \A u \in TaskIds : task[u].esc = q => u = t
            /\ Is(t, {"deferred", "cancelled"}) \/ task[t].due
        BY <3>1 DEF EscInv, EscalationsOK, EscalationWaits
      <3> HIDE DEF q
      <3>3. task'[q].agent = task[q].agent /\ task'[q].subject = task[q].subject /\ task'[q].status # "none"
        BY <1>3, <1>4, <3>1, <3>2
      <3>4. \A u \in TaskIds : task'[u].esc = q => u = t
        BY <1>3, <1>7, <2>0, <2>2, <3>1, <3>2
      <3>5. task'[t].status \in {"deferred", "cancelled"} \/ task'[t].due
        <4>1. Kept(t) /\ task[t].esc # 0
          BY <1>2, <2>2, <3>1 DEF q
        <4> QED
          BY <3>2, <4>1 DEF Kept, SameRow, Is, Cancellable, Active
      <3> QED
        BY <1>3, <2>2, <3>1, <3>2, <3>3, <3>4, <3>5
    <2> QED
      BY <2>1, <2>2
  <1>8. ASSUME NEW p \in TaskIds, NEW b \in Agents, Fallback(p, b) \in todo'
        PROVE  /\ b # task'[p].agent /\ \A u \in TaskIds : task'[u].esc # p
               /\ \A e \in Agents : Fallback(p, e) \in todo' => e = b
    <2>1. CASE Fallback(p, b) \in todo
      <3>1. /\ ~Is(p, {"none"}) /\ b # task[p].agent /\ (\A u \in TaskIds : task[u].esc # p)
            /\ \A e \in Agents : Fallback(p, e) \in todo => e = b
        BY <2>1 DEF TInv, TodoOK, EscInv, FallbacksOpen
      <3>2. b # task'[p].agent
        BY <1>3, <1>4, <3>1
      <3>3. \A e \in Agents : Fallback(p, e) \in todo' => e = b
        BY <1>1, <1>4, <3>1 DEF Grows
      <3>4. \A u \in TaskIds : ~Born(u) => task'[u].esc # p
        BY <1>3, <3>1
      <3>5. ASSUME NEW u \in TaskIds, Born(u), task'[u].esc = p PROVE FALSE
        <4>1. PICK e \in Fallbacks : Fallback(p, e) \in todo /\ Fallback(p, e) \notin todo'
          BY <1>1, <1>6, <3>5, EscalationIsNew
        <4> QED
          BY <1>8, <3>1, <4>1, InputsType
      <3> QED
        BY <3>2, <3>3, <3>4, <3>5
    <2>2. CASE Fallback(p, b) \notin todo
      <3>1. /\ Born(p) /\ b # task'[p].agent
            /\ \A e \in Agents : Fallback(p, e) \in todo' => e = b \/ Fallback(p, e) \in todo
        BY <1>1, <1>8, <2>2 DEF Grows
      <3>2. Is(p, {"none"})
        BY <3>1 DEF Born
      <3>3. \A e \in Agents : Fallback(p, e) \notin todo
        BY <3>2 DEF TInv, TodoOK
      <3>4. \A u \in TaskIds : ~Born(u) => task'[u].esc # p
        BY <1>3, <1>6, <3>2 DEF EscInv, EscalationsOK
      <3>5. task'[p].esc # p
        BY <1>1, <1>6, <3>1, EscalationIsNew
      <3>6. \A u \in TaskIds : Born(u) => u = p
        BY <1>1, <3>1 DEF Grows
      <3> QED
        BY <3>1, <3>3, <3>4, <3>5, <3>6
    <2> QED
      BY <2>1, <2>2
  <1>9. EscalationWaits'
    BY <1>7 DEF EscalationWaits, Is
  <1>10. EscalationsOK'
    BY <1>7 DEF EscalationsOK, Is
  <1>11. FallbacksOpen'
    BY <1>8 DEF FallbacksOpen, Fallback
  <1> QED
    BY <1>9, <1>10, <1>11 DEF EscInv

\* Types, retries and escalations together.
QueueInv == TInv /\ RetryInv /\ EscInv

\* They hold throughout.
LEMMA QueueInvariant == Spec => []QueueInv
  <1>1. Init => QueueInv
    BY TInvInit, RetryInit DEF QueueInv, EscInv, EscalationWaits, EscalationsOK, FallbacksOpen, Init, Blank
  <1>2. QueueInv /\ [Next]_vars => QueueInv'
    BY TInvNext, RetryNext, EscNext DEF QueueInv, RetryInv
  <1> QED
    BY <1>1, <1>2, PTL DEF Spec

\* EnqueueDeferredAssigneeFallback's promise for any number of comments, agents and lost handlers:
\* an escalation goes to another agent than its primary's, once, and is neither claimed nor run
\* before its fire_at has passed, whatever is promoted, cancelled or rerun meanwhile.
THEOREM EscalationWaitsHolds == Spec => []EscalationWaits
  BY QueueInvariant, PTL DEF QueueInv, EscInv

-----------------------------------------------------------------------------
(***************************************************************************)
(* The order of chat turns.                                                *)
(***************************************************************************)

\* The rows of a session are for its agent, its messages at one priority and the retries of
\* its turns above it.
TurnsRanked ==
    \A t \in TaskIds : task[t].subject \in Chats =>
        /\ task[t].agent = ChatAgent[task[t].subject]
        /\ task[t].parent = 0 => task[t].prio = chatPriority
        /\ task[t].parent # 0 => task[t].prio >= chatRetryPriority

\* Nobody escalates a chat message.
NoChatEscalates ==
    \A p \in TaskIds, b \in Agents : Fallback(p, b) \in todo => task[p].subject \notin Chats

ChatInv == TurnsRanked /\ NoChatEscalates

\* A new row of a session is a message or a retry of one of its turns.
LEMMA NewTurnRanked ==
  ASSUME TInv, ChatInv, Grows, NEW c \in TaskIds, Born(c), task'[c].subject \in Chats
  PROVE  /\ task'[c].agent = ChatAgent[task'[c].subject]
         /\ task'[c].parent = 0 => task'[c].prio = chatPriority
         /\ task'[c].parent # 0 => task'[c].prio >= chatRetryPriority
  <1>1. CASE RootIsBorn(c)
    BY <1>1 DEF RootIsBorn, IsMessage
  <1>2. CASE EscalationIsBorn(c)
    <2>1. \A b \in Fallbacks : b \in Agents
      BY InputsType
    <2> QED
      BY <1>2, <2>1 DEF EscalationIsBorn, ChatInv, NoChatEscalates
  <1>3. CASE RetryIsBorn(c)
    <2>1. PICK t \in TaskIds \ {c}, why \in Reasons : ~Is(t, {"none"}) /\ task'[c] = RetryRow(t, why)
      BY <1>3 DEF RetryIsBorn
    <2>2. RowsOK /\ task[t].prio \in Nat /\ t # 0
      BY DEF TInv, TypeOK, RowsOK, Row, TaskIds
    <2>3. /\ task'[c].agent = task[t].agent /\ task'[c].subject = task[t].subject /\ task'[c].parent = t
          /\ task'[c].prio = IF task[t].subject \in Chats /\ task[t].prio < chatRetryPriority
                             THEN chatRetryPriority ELSE task[t].prio
      BY <2>1 DEF RetryRow
    <2> QED
      BY <2>2, <2>3 DEF ChatInv, TurnsRanked, chatRetryPriority
  <1> QED
    BY <1>1, <1>2, <1>3 DEF Grows

\* Every step keeps the ranks of the turns.
LEMMA ChatNext == TInv /\ FailuresOpen /\ ChatInv /\ [Next]_vars => ChatInv'
  <1> SUFFICES ASSUME TInv, FailuresOpen, ChatInv, [Next]_vars PROVE ChatInv'
    OBVIOUS
  <1>1. Grows
    BY NextGrows DEF FailuresOpen
  <1>2. \A u \in TaskIds : Born(u) \/ Kept(u)
    BY NextKeeps
  <1>3. TurnsRanked'
    <2>1. ASSUME NEW t \in TaskIds, task'[t].subject \in Chats
          PROVE  /\ task'[t].agent = ChatAgent[task'[t].subject]
                 /\ task'[t].parent = 0 => task'[t].prio = chatPriority
                 /\ task'[t].parent # 0 => task'[t].prio >= chatRetryPriority
      <3>1. CASE Born(t)
        BY <1>1, <2>1, <3>1, NewTurnRanked
      <3>2. CASE Kept(t)
        BY <2>1, <3>2, KeptColumns DEF ChatInv, TurnsRanked
      <3> QED
        BY <1>2, <3>1, <3>2
    <2> QED
      BY <2>1 DEF TurnsRanked
  <1>4. NoChatEscalates'
    <2>1. ASSUME NEW p \in TaskIds, NEW b \in Agents, Fallback(p, b) \in todo' PROVE task'[p].subject \notin Chats
      <3>1. CASE Fallback(p, b) \in todo
        <4>1. ~Is(p, {"none"}) /\ task[p].subject \notin Chats
          BY <3>1 DEF TInv, TodoOK, ChatInv, NoChatEscalates
        <4>2. Kept(p)
          BY <1>2, <4>1 DEF Born
        <4> QED
          BY <4>1, <4>2, KeptColumns
      <3>2. CASE Fallback(p, b) \notin todo
        BY <1>1, <2>1, <3>2 DEF Grows
      <3> QED
        BY <3>1, <3>2
    <2> QED
      BY <2>1 DEF NoChatEscalates, Fallback
  <1> QED
    BY <1>3, <1>4 DEF ChatInv

\* A claim takes no message of a session while the retry of a turn of it is queued.
LEMMA ClaimHeedsRetry ==
  ASSUME TInv, ChatInv, NEW a \in Agents, NEW u \in TaskIds, ClaimTask(a, u),
         NEW t \in TaskIds, task[t].parent # 0, task[u].parent = 0,
         task[t].subject = task[u].subject, task[u].subject \in Chats
  PROVE  ~Is(t, {"queued"})
  <1> SUFFICES ASSUME Is(t, {"queued"}) PROVE FALSE
    OBVIOUS
  <1>1. /\ task[t].agent = task[u].agent /\ task[u].prio = chatPriority /\ task[t].prio >= chatRetryPriority
    BY DEF ChatInv, TurnsRanked
  <1>2. task[t].prio \in Nat /\ task[u].prio \in Nat
    BY DEF TInv, TypeOK, RowsOK, Row
  <1>3. u \in Claimable(a) /\ \A v \in Claimable(a) : Before(u, v)
    BY DEF ClaimTask
  <1>4. t \in Claimable(a)
    BY <1>1, <1>3 DEF Claimable, Conflict
  <1>5. Before(u, t)
    BY <1>3, <1>4
  <1> QED
    BY <1>1, <1>2, <1>5 DEF Before, chatPriority, chatRetryPriority

\* ClaimTask's order for any number of sessions, turns and retries: a chat turn whose retry is
\* queued goes before any newer message of its session, since every retry of a turn outranks
\* every message and both are held back by the same active rows.
THEOREM QueuedRetryGoesFirstHolds == Spec => QueuedRetryGoesFirst
  <1> DEFINE I == QueueInv /\ ChatInv
             A == \A t, u \in TaskIds :
                    ClaimedByStep(u) /\ task[u].subject \in Chats /\ OlderTurn(t, u) => ~Is(t, {"queued"})
  <1>1. Init => I
    <2>1. Init => QueueInv
      BY TInvInit, RetryInit DEF QueueInv, EscInv, EscalationWaits, EscalationsOK, FallbacksOpen, Init, Blank
    <2>2. Init => ChatInv
      BY NoneIsNull DEF Init, Blank, ChatInv, TurnsRanked, NoChatEscalates, Subjects
    <2> QED
      BY <2>1, <2>2
  <1>2. I /\ [Next]_vars => I'
    <2>1. QueueInv /\ [Next]_vars => QueueInv'
      BY TInvNext, RetryNext, EscNext DEF QueueInv, RetryInv
    <2> QED
      BY <2>1, ChatNext DEF QueueInv, RetryInv
  <1>3. I /\ [Next]_vars => [A]_vars
    <2> SUFFICES ASSUME I, [Next]_vars, NEW t \in TaskIds, NEW u \in TaskIds,
                        ClaimedByStep(u), task[u].subject \in Chats, OlderTurn(t, u)
                 PROVE  ~Is(t, {"queued"})
      OBVIOUS
    <2>1. TInv /\ ChatInv
      BY DEF QueueInv
    <2>2. task[t].parent # 0 /\ task[u].parent = 0 /\ task[t].subject = task[u].subject
      BY DEF OlderTurn
    <2>3. ~QuietStep
      BY DEF QuietStep, RowStep, MovedOn, ClaimedByStep, Is, Active
    <2>4. PICK a \in Agents, c \in TaskIds : ClaimTask(a, c)
      BY <2>1, <2>3, NextQuiet
    <2>5. c = u
      BY <2>1, <2>4, ClaimStep DEF ClaimedByStep, Is
    <2> QED
      BY <2>1, <2>2, <2>4, <2>5, ClaimHeedsRetry
  <1> QED
    BY <1>1, <1>2, <1>3, PTL DEF Spec, QueuedRetryGoesFirst

-----------------------------------------------------------------------------
(***************************************************************************)
(* The status of agents.                                                   *)
(***************************************************************************)
Accurate(a) == agentStatus[a] = "working" <=> ActiveOf(a) # {}

\* Whoever lost or got an active row will be written, an agent that is nobody's fallback at least:
\* cancelling an escalation does not reconcile.
StatusInv == crashes = 0 => \A a \in Agents \ Fallbacks : StatusPending(a) \/ Accurate(a)

\* Someone will write the status of row t's agent.
Answered(t) ==
    \/ Reconcile(task[t].agent) \in todo' \/ HandleFailed(t) \in todo'
    \/ task[t].agent \in Fallbacks

\* No row becomes active or stops being it without that, and nothing of that is forgotten.
Told ==
    /\ \A t \in TaskIds : (Is(t, Active) <=> Is(t, Active)') \/ Answered(t)
    /\ \A a \in Agents : Reconcile(a) \in todo => Reconcile(a) \in todo'
    /\ \A t \in TaskIds : HandleFailed(t) \in todo => HandleFailed(t) \in todo' \/ Reconcile(task[t].agent) \in todo'
    /\ agentStatus' = agentStatus

\* Such a step keeps the status accurate or leaves it to be written.
LEMMA ToldKeeps ==
  ASSUME TInv, [Next]_vars, Told, NEW a \in Agents \ Fallbacks, StatusPending(a) \/ Accurate(a)
  PROVE  StatusPending(a)' \/ Accurate(a)'
  <1>1. \A t \in TaskIds : ~Is(t, {"none"}) => task'[t].agent = task[t].agent
    BY NextKeeps, KeptColumns DEF Born
  <1>2. \A t \in TaskIds : HandleFailed(t) \in todo => ~Is(t, {"none"})
    BY DEF TInv, TodoOK
  <1>3. ASSUME NEW t \in TaskIds, ~Is(t, {"none"}), task[t].agent = a, Answered(t) PROVE StatusPending(a)'
    <2>1. CASE Reconcile(a) \in todo'
      BY <2>1 DEF StatusPending, Reconcile
    <2>2. CASE HandleFailed(t) \in todo'
      BY <1>1, <1>3, <2>2 DEF StatusPending, HandleFailed
    <2> QED
      BY <1>3, <2>1, <2>2 DEF Answered
  <1>4. CASE StatusPending(a)
    <2>1. CASE Reconcile(a) \in todo
      BY <2>1 DEF Told, StatusPending, Reconcile
    <2>2. ASSUME NEW t \in TaskIds, HandleFailed(t) \in todo, task[t].agent = a PROVE StatusPending(a)'
      <3>1. Answered(t)
        BY <2>2 DEF Told, Answered
      <3> QED
        BY <1>2, <1>3, <2>2, <3>1
    <2> QED
      BY <1>4, <2>1, <2>2 DEF StatusPending
  <1>5. CASE Accurate(a) /\ ~StatusPending(a)'
    <2>1. ASSUME NEW t \in TaskIds PROVE t \in ActiveOf(a)' <=> t \in ActiveOf(a)
      <3>1. CASE Is(t, {"none"})
        <4>1. ~Is(t, Active)
          BY <3>1 DEF Is, Active
        <4>2. ~Is(t, Active)'
          <5>1. CASE QuietStep
            BY <4>1, <5>1, QuietActive
          <5>2. ASSUME NEW b \in Agents, NEW c \in TaskIds, ClaimTask(b, c) PROVE ~Is(t, Active)'
            BY <3>1, <5>2, ClaimStep DEF Is, Active
          <5> QED
            BY <5>1, <5>2, NextQuiet
        <4> QED
          BY <4>1, <4>2 DEF ActiveOf
      <3>2. CASE ~Is(t, {"none"}) /\ task[t].agent # a
        BY <1>1, <3>2 DEF ActiveOf
      <3>3. CASE ~Is(t, {"none"}) /\ task[t].agent = a
        <4>1. ~Answered(t)
          BY <1>3, <1>5, <3>3
        <4>2. Is(t, Active) <=> Is(t, Active)'
          BY <4>1 DEF Told
        <4> QED
          BY <1>1, <3>3, <4>2 DEF ActiveOf
      <3> QED
        BY <3>1, <3>2, <3>3
    <2>2. ActiveOf(a)' = ActiveOf(a)
      BY <2>1 DEF ActiveOf
    <2>3. agentStatus' = agentStatus
      BY DEF Told
    <2> QED
      BY <1>5, <2>2, <2>3 DEF Accurate
  <1> QED
    BY <1>4, <1>5

\* A step that is not a claim, writes no status, and drops no work but w.
LEMMA QuietTold ==
  ASSUME QuietStep, NEW w, w.op \notin {"reconcile", "handleFailed"}, todo \ {w} \subseteq todo',
         agentStatus' = agentStatus,
         \A t \in TaskIds : Is(t, Active) => Is(t, Active)' \/ Answered(t)
  PROVE  Told
  <1>1. \A a : Reconcile(a) # w
    BY DEF Reconcile
  <1>2. \A t : HandleFailed(t) # w
    BY WorkOps
  <1>3. \A t \in TaskIds : Is(t, Active)' => Is(t, Active)
    BY QuietActive
  <1> QED
    BY <1>1, <1>2, <1>3 DEF Told

\* ... and drops no work at all.
LEMMA StillTold ==
  ASSUME QuietStep, todo \subseteq todo', agentStatus' = agentStatus,
         \A t \in TaskIds : Is(t, Active) => Is(t, Active)' \/ Answered(t)
  PROVE  Told
  <1>1. FailOffline.op \notin {"reconcile", "handleFailed"}
    BY DEF FailOffline
  <1>2. todo \ {FailOffline} \subseteq todo'
    OBVIOUS
  <1> QED
    BY <1>1, <1>2, QuietTold

\* ... and leaves the rows that were there as they are.
LEMMA InsertTold ==
  ASSUME RowsOK, QuietStep, NEW c \in TaskIds, NEW row, Insert(c, row) \/ UNCHANGED task,
         NEW w, w.op \notin {"reconcile", "handleFailed"}, todo \ {w} \subseteq todo', agentStatus' = agentStatus
  PROVE  Told
  <1>1. \A t \in TaskIds : Is(t, Active) => Is(t, Active)'
    BY DEF Insert, IsNextId, RowsOK, Is, Active
  <1> QED
    BY <1>1, QuietTold

\* ... or writes one of them.
LEMMA OneTold ==
  ASSUME RowsOK, QuietStep, NEW t \in TaskIds, NEW row, task' = [task EXCEPT ![t] = row],
         todo \subseteq todo', agentStatus' = agentStatus,
         Is(t, Active) => row.status \in Active \/ Reconcile(task[t].agent) \in todo'
  PROVE  Told
  <1>1. task'[t] = row /\ \A u \in TaskIds \ {t} : task'[u] = task[u]
    BY DEF RowsOK
  <1>2. \A u \in TaskIds : Is(u, Active) => Is(u, Active)' \/ Answered(u)
    BY <1>1 DEF Is, Answered
  <1> QED
    BY <1>2, StillTold

\* Enqueues touch no active row.
LEMMA EnqueueTold == TInv /\ Enqueue => Told
  <1> SUFFICES ASSUME TInv, NEW t \in TaskIds, NEW a \in Agents, NEW r \in Bound[a], QuietStep,
                      \/ \E i \in Issues, p \in Priorities, b \in {None} \cup (Fallbacks \ {a}) :
                             EnqueueTaskForIssue(t, a, i, r, p, b)
                      \/ \E c \in Chats, st \in {"queued", "deferred"} :
                             ChatAgent[c] = a /\ EnqueueChatTask(t, c, r, st)
                      \/ \E q \in Quick : EnqueueQuickCreateTask(t, a, q, r)
                      \/ \E x \in Runs : EnqueueAutopilotRunTask(t, a, x, r)
               PROVE  Told
    BY EnqueueQuiet DEF Enqueue
  <1>1. RowsOK /\ FailOffline.op \notin {"reconcile", "handleFailed"}
    BY DEF TInv, TypeOK, FailOffline
  <1>2. \E row : Insert(t, row)
    BY DEF EnqueueTaskForIssue, EnqueueChatTask, EnqueueQuickCreateTask, EnqueueAutopilotRunTask, InsertRoot
  <1>3. todo \subseteq todo' /\ agentStatus' = agentStatus
    BY DEF EnqueueTaskForIssue, EnqueueChatTask, EnqueueQuickCreateTask, EnqueueAutopilotRunTask
  <1> QED
    BY <1>1, <1>2, <1>3, InsertTold

\* Cancelled rows are reconciled for, escalations apart.
LEMMA CancelTold == TInv /\ EscalationsOK /\ Cancel => Told
  <1> SUFFICES ASSUME TInv, EscalationsOK, Cancel PROVE Told
    OBVIOUS
  <1>0. RowsOK /\ QuietStep
    BY CancelQuiet DEF TInv, TypeOK
  <1>1. ASSUME NEW S \in SUBSET TaskIds, CancelRows(S), todo \subseteq todo', agentStatus' = agentStatus,
               \A t \in S : Answered(t)
        PROVE  Told
    <2>1. \A t \in TaskIds \ S : task'[t] = task[t]
      BY <1>1 DEF CancelRows
    <2>2. \A t \in TaskIds : Is(t, Active) => Is(t, Active)' \/ Answered(t)
      BY <1>1, <2>1 DEF Is
    <2> QED
      BY <1>0, <1>1, <2>2, StillTold
  <1>2. ASSUME NEW Scope \in CancelScopes, CancelTasks(Scope) PROVE Told
    <2> DEFINE S == {t \in Scope : Is(t, Cancellable)}
    <2>1. S \in SUBSET TaskIds /\ CancelRows(S)
      BY <1>2 DEF CancelTasks, CancelScopes
    <2>2. todo \subseteq todo' /\ agentStatus' = agentStatus /\ \A t \in S : Answered(t)
      BY <1>2 DEF CancelTasks, Answered
    <2> HIDE DEF S
    <2> QED
      BY <1>1, <2>1, <2>2
  <1>3. ASSUME NEW a \in Agents, NEW i \in Issues, RerunIssue(a, i) PROVE Told
    <2> DEFINE S == {t \in TaskIds : Is(t, Cancellable) /\ task[t].agent = a /\ task[t].subject = i}
    <2>1. S \in SUBSET TaskIds /\ CancelRows(S)
      BY <1>3 DEF RerunIssue
    <2>2. todo \subseteq todo' /\ agentStatus' = agentStatus /\ \A t \in S : Answered(t)
      BY <1>3 DEF RerunIssue, Answered
    <2> HIDE DEF S
    <2> QED
      BY <1>1, <2>1, <2>2
  <1>4. ASSUME NEW a \in Agents, NEW i \in Issues, CancelDeferredEscalationsForIssueAgent(a, i) PROVE Told
    <2> DEFINE S == {t \in TaskIds : /\ Is(t, Preempted) /\ task[t].esc # 0
                                     /\ task[task[t].esc].agent = a /\ task[task[t].esc].subject = i}
    <2>1. S \in SUBSET TaskIds /\ CancelRows(S) /\ todo \subseteq todo' /\ agentStatus' = agentStatus
      BY <1>4 DEF CancelDeferredEscalationsForIssueAgent
    <2>2. \A t \in S : Answered(t)
      BY DEF EscalationsOK, Answered
    <2> HIDE DEF S
    <2> QED
      BY <1>1, <2>1, <2>2
  <1> QED
    BY <1>2, <1>3, <1>4 DEF Cancel

\* What handlers do after their commit, reconciling apart.
LEMMA ContinueTold ==
  ASSUME TInv, EscalationsOK, Continue, ~\E a \in Agents : ReconcileAgentStatus(a)
  PROVE  Told
  <1>0. RowsOK /\ QuietStep
    BY ContinueQuiet DEF TInv, TypeOK
  <1>1. ASSUME NEW t \in TaskIds, HandleFailedTask(t) PROVE Told
    <2>1. /\ Reconcile(task[t].agent) \in todo' /\ todo \ {HandleFailed(t)} \subseteq todo'
          /\ agentStatus' = agentStatus
      BY <1>1 DEF HandleFailedTask
    <2>2. \A a : Reconcile(a) # HandleFailed(t)
      BY DEF Reconcile, HandleFailed
    <2>3. \A u \in TaskIds : Is(u, Active) => task'[u] = task[u]
      BY <1>0, <1>1 DEF HandleFailedTask, IsNextId, RowsOK, Is, Active
    <2>4. \A u \in TaskIds : Is(u, Active) <=> Is(u, Active)'
      BY <1>0, <2>3, QuietActive DEF Is
    <2> QED
      BY <2>1, <2>2, <2>4, WorkApart DEF Told
  <1>2. ASSUME NEW p \in TaskIds, CancelDeferredEscalationsForTask(p) PROVE Told
    <2> DEFINE S == {t \in TaskIds : task[t].esc = p /\ Is(t, Preempted)}
    <2>1. /\ CancelRows(S) /\ todo \ {CancelEscalations(p)} \subseteq todo' /\ agentStatus' = agentStatus
          /\ CancelEscalations(p).op \notin {"reconcile", "handleFailed"}
      BY <1>2 DEF CancelDeferredEscalationsForTask, CancelEscalations
    <2>2. \A t \in S : Answered(t)
      BY DEF EscalationsOK, Answered, TaskIds
    <2>3. \A t \in TaskIds \ S : task'[t] = task[t]
      BY <2>1 DEF CancelRows
    <2>4. \A t \in TaskIds : Is(t, Active) => Is(t, Active)' \/ Answered(t)
      BY <2>2, <2>3 DEF Is
    <2> QED
      BY <1>0, <2>1, <2>4, QuietTold
  <1>3. ASSUME NEW i \in TrackedIssues, ResetStuckIssue(i) PROVE Told
    <2>1. /\ UNCHANGED task /\ todo \ {ResetIssue(i)} \subseteq todo' /\ agentStatus' = agentStatus
          /\ ResetIssue(i).op \notin {"reconcile", "handleFailed"}
      BY <1>3 DEF ResetStuckIssue, ResetIssue
    <2>2. \A t \in TaskIds : Is(t, Active) => Is(t, Active)'
      BY <2>1 DEF Is
    <2> QED
      BY <1>0, <2>1, <2>2, QuietTold
  <1>4. ASSUME FailTasksForOfflineRuntimes PROVE Told
    <2> DEFINE S == ActiveOn({r \in Runtimes : ~online[r]})
    <2>1. /\ S \in SUBSET TaskIds /\ FailOfflineRows(S) /\ agentStatus' = agentStatus
          /\ todo' = (todo \ {FailOffline}) \cup {HandleFailed(t) : t \in S}
          /\ FailOffline.op \notin {"reconcile", "handleFailed"}
      BY <1>4 DEF FailTasksForOfflineRuntimes, ActiveOn, FailOffline
    <2> HIDE DEF S
    <2>2. \A t \in S : Answered(t)
      BY <2>1 DEF Answered
    <2>3. \A t \in TaskIds \ S : task'[t] = task[t]
      BY <2>1 DEF FailOfflineRows
    <2>4. \A t \in TaskIds : Is(t, Active) => Is(t, Active)' \/ Answered(t)
      BY <2>2, <2>3 DEF Is
    <2> QED
      BY <1>0, <2>1, <2>4, QuietTold
  <1>5. ASSUME NEW t \in TaskIds, NEW p \in TaskIds, NEW b \in Fallbacks, NEW r \in Bound[b],
               EnqueueDeferredAssigneeFallback(t, p, b, r)
        PROVE  Told
    <2>1. /\ \E row : Insert(t, row)
          /\ todo \ {Fallback(p, b)} \subseteq todo' /\ agentStatus' = agentStatus
      BY <1>5 DEF EnqueueDeferredAssigneeFallback
    <2>2. Fallback(p, b).op \notin {"reconcile", "handleFailed"}
      BY DEF Fallback
    <2> QED
      BY <1>0, <2>1, <2>2, InsertTold
  <1>6. ASSUME NEW t \in TaskIds, NEW a \in Agents, NEW i \in Issues, NEW p \in Priorities,
               NEW r \in Bound[a], EnqueueRerunTask(t, a, i, r, p)
        PROVE  Told
    <2>1. /\ (\E row : Insert(t, row)) \/ UNCHANGED task
          /\ todo \ {Rerun(a, i)} \subseteq todo' /\ agentStatus' = agentStatus
      BY <1>6 DEF EnqueueRerunTask, InsertRoot
    <2>2. Rerun(a, i).op \notin {"reconcile", "handleFailed"}
      BY DEF Rerun
    <2> QED
      BY <1>0, <2>1, <2>2, InsertTold
  <1> QED
    BY <1>1, <1>2, <1>3, <1>4, <1>5, <1>6 DEF Continue

\* Rows that a sweep fails are left to handle.
LEMMA FailRowsTold ==
  ASSUME QuietStep, NEW S \in SUBSET TaskIds, NEW why, FailRows(S, why), agentStatus' = agentStatus,
         todo' = todo \cup {HandleFailed(t) : t \in S}
  PROVE  Told
  <1>1. \A t \in S : Answered(t)
    BY DEF Answered
  <1>2. \A t \in TaskIds \ S : task'[t] = task[t]
    BY DEF FailRows
  <1>3. \A t \in TaskIds : Is(t, Active) => Is(t, Active)' \/ Answered(t)
    BY <1>1, <1>2 DEF Is
  <1> QED
    BY <1>3, StillTold

\* Sweeps.
LEMMA SweepTold == TInv /\ Sweep => Told
  <1> SUFFICES ASSUME TInv, Sweep PROVE Told
    OBVIOUS
  <1>0. QuietStep
    BY SweepQuiet
  <1>1. ASSUME NEW S \in SUBSET TaskIds, SweepStaleTasks(S) \/ SweepExpiredQueuedTasks(S) PROVE Told
    BY <1>0, <1>1, FailRowsTold DEF SweepStaleTasks, SweepExpiredQueuedTasks
  <1>2. ASSUME NEW R \in SUBSET Runtimes, SweepStaleRuntimes(R) PROVE Told
    <2>1. UNCHANGED task /\ todo \subseteq todo' /\ agentStatus' = agentStatus
      BY <1>2 DEF SweepStaleRuntimes
    <2>2. \A t \in TaskIds : Is(t, Active) => Is(t, Active)'
      BY <2>1 DEF Is
    <2> QED
      BY <1>0, <2>1, <2>2, StillTold
  <1> QED
    BY <1>1, <1>2 DEF Sweep

\* Promotions touch no active row.
LEMMA QueueRowsTold ==
  ASSUME QuietStep, NEW D \in SUBSET TaskIds, QueueRows(D), \A t \in D : Is(t, {"deferred"}),
         todo' = todo, agentStatus' = agentStatus
  PROVE  Told
  <1>1. \A t \in TaskIds : Is(t, Active) => Is(t, Active)'
    BY DEF QueueRows, Is, Active
  <1> QED
    BY <1>1, StillTold

\* The passing of time activates and ends nothing.
LEMMA TimeTold == TInv /\ Time => Told
  <1> SUFFICES ASSUME TInv, Time PROVE Told
    OBVIOUS
  <1>0. RowsOK /\ QuietStep /\ \A t \in TaskIds : task[t] \in Row
    BY TimeQuiet DEF TInv, TypeOK, RowsOK
  <1>1. ASSUME NEW t \in TaskIds, FireAtPasses(t) PROVE Told
    <2>1. /\ task' = [task EXCEPT ![t] = [task[t] EXCEPT !.due = TRUE]] /\ todo' = todo /\ agentStatus' = agentStatus
      BY <1>1 DEF FireAtPasses
    <2>2. Is(t, Active) => [task[t] EXCEPT !.due = TRUE].status \in Active
      BY <1>0 DEF Is, Row
    <2> QED
      BY <1>0, <2>1, <2>2, OneTold
  <1>2. ASSUME NEW t \in TaskIds, LeaseLapses(t) PROVE Told
    <2>1. /\ task' = [task EXCEPT ![t] = [task[t] EXCEPT !.lease = "expired"]] /\ todo' = todo /\ agentStatus' = agentStatus
      BY <1>2 DEF LeaseLapses
    <2>2. Is(t, Active) => [task[t] EXCEPT !.lease = "expired"].status \in Active
      BY <1>0 DEF Is, Row
    <2> QED
      BY <1>0, <2>1, <2>2, OneTold
  <1>3. ASSUME NEW r \in Runtimes, HeartbeatsStop(r) PROVE Told
    <2>1. UNCHANGED task /\ todo \subseteq todo' /\ agentStatus' = agentStatus
      BY <1>3 DEF HeartbeatsStop
    <2>2. \A t \in TaskIds : Is(t, Active) => Is(t, Active)'
      BY <2>1 DEF Is
    <2> QED
      BY <1>0, <2>1, <2>2, StillTold
  <1> QED
    BY <1>1, <1>2, <1>3 DEF Time

\* A claim reconciles for the agent it claims for.
LEMMA ClaimTold ==
  ASSUME TInv, NEW a \in Agents, NEW t \in TaskIds, ClaimTask(a, t)
  PROVE  Told
  <1>1. task[t].agent = a /\ \A u \in TaskIds \ {t} : task'[u] = task[u]
    BY ClaimStep
  <1>2. todo' = todo \cup {Reconcile(a)} /\ agentStatus' = agentStatus
    BY DEF ClaimTask
  <1>3. \A u \in TaskIds : (Is(u, Active) <=> Is(u, Active)') \/ Answered(u)
    BY <1>1, <1>2 DEF Is, Answered
  <1> QED
    BY <1>2, <1>3 DEF Told

\* Calls of daemons.
LEMMA DaemonCallTold == TInv /\ DaemonCall => Told
  <1> SUFFICES ASSUME TInv, DaemonCall, ~\E a \in Agents, t \in TaskIds : ClaimTask(a, t) PROVE Told
    BY ClaimTold
  <1>0. RowsOK /\ QuietStep /\ \A t \in TaskIds : task[t] \in Row
    BY DaemonCallQuiet DEF TInv, TypeOK, RowsOK
  <1>1. ASSUME NEW R \in SUBSET Runtimes, PromoteDueDeferredTasks(R) PROVE Told
    <2>1. DueOn(R) \in SUBSET TaskIds /\ \A t \in DueOn(R) : Is(t, {"deferred"})
      BY DEF DueOn
    <2> QED
      BY <1>0, <1>1, <2>1, QueueRowsTold DEF PromoteDueDeferredTasks
  <1>2. ASSUME NEW R \in SUBSET Runtimes, RuntimesSeen(R) \/ DaemonDeregister(R) PROVE Told
    <2>1. UNCHANGED task /\ todo \subseteq todo' /\ agentStatus' = agentStatus
      BY <1>2 DEF RuntimesSeen, DaemonDeregister
    <2>2. \A t \in TaskIds : Is(t, Active) => Is(t, Active)'
      BY <2>1 DEF Is
    <2> QED
      BY <1>0, <2>1, <2>2, StillTold
  <1>3. ASSUME NEW r \in Runtimes, RecoverOrphanedTasks(r) PROVE Told
    <2>1. ActiveOn({r}) \in SUBSET TaskIds
      BY DEF ActiveOn
    <2> QED
      BY <1>0, <1>3, <2>1, FailRowsTold DEF RecoverOrphanedTasks
  <1>4. ASSUME NEW t \in TaskIds, ReclaimStaleDispatchedTask(t) PROVE Told
    <2>1. /\ task' = [task EXCEPT ![t] = Dispatched(task[t])] /\ todo' = todo /\ agentStatus' = agentStatus
      BY <1>4 DEF ReclaimStaleDispatchedTask
    <2>2. Dispatched(task[t]).status \in Active
      BY <1>0 DEF Dispatched, Row, Active
    <2> QED
      BY <1>0, <2>1, <2>2, OneTold
  <1>5. ASSUME NEW t \in TaskIds, NEW g \in 1..MaxClaims, RequeueTaskAfterClaimFailure(t, g) PROVE Told
    <2>1. /\ \E row : task' = [task EXCEPT ![t] = row]
          /\ todo \subseteq todo' /\ Reconcile(task[t].agent) \in todo' /\ agentStatus' = agentStatus
      BY <1>5 DEF RequeueTaskAfterClaimFailure
    <2> QED
      BY <1>0, <2>1, OneTold
  <1>6. ASSUME NEW t \in TaskIds, ExtendTaskPrepareLease(t) PROVE Told
    <2>1. /\ task' = [task EXCEPT ![t] = [task[t] EXCEPT !.lease = "live"]] /\ todo' = todo /\ agentStatus' = agentStatus
      BY <1>6 DEF ExtendTaskPrepareLease
    <2>2. Is(t, Active) => [task[t] EXCEPT !.lease = "live"].status \in Active
      BY <1>0 DEF Is, Row
    <2> QED
      BY <1>0, <2>1, <2>2, OneTold
  <1>7. ASSUME NEW t \in TaskIds, MarkTaskWaitingLocalDirectory(t) PROVE Told
    <2> DEFINE row == [task[t] EXCEPT !.status = "waiting_local_directory", !.lease = "live"]
    <2>1. task' = [task EXCEPT ![t] = row] /\ todo' = todo /\ agentStatus' = agentStatus
      BY <1>7 DEF MarkTaskWaitingLocalDirectory
    <2>2. row.status \in Active
      BY <1>0 DEF Row, Active
    <2> HIDE DEF row
    <2> QED
      BY <1>0, <2>1, <2>2, OneTold
  <1>8. ASSUME NEW t \in TaskIds, StartTask(t) PROVE Told
    <2> DEFINE row == [task[t] EXCEPT !.status = "running", !.lease = "none"]
    <2>1. task' = [task EXCEPT ![t] = row] /\ todo \subseteq todo' /\ agentStatus' = agentStatus
      BY <1>8 DEF StartTask
    <2>2. row.status \in Active
      BY <1>0 DEF Row, Active
    <2> HIDE DEF row
    <2> QED
      BY <1>0, <2>1, <2>2, OneTold
  <1>9. ASSUME NEW t \in TaskIds, CompleteTask(t) PROVE Told
    <2>1. /\ \E row : task' = [task EXCEPT ![t] = row]
          /\ todo \subseteq todo' /\ Reconcile(task[t].agent) \in todo' /\ agentStatus' = agentStatus
      BY <1>9 DEF CompleteTask
    <2> QED
      BY <1>0, <2>1, OneTold
  <1>10. ASSUME NEW t \in TaskIds, NEW why \in DaemonReasons, FailTask(t, why) PROVE Told
    <2>1. /\ todo \subseteq todo' /\ Reconcile(task[t].agent) \in todo' /\ agentStatus' = agentStatus
      BY <1>10 DEF FailTask
    <2>2. \A u \in TaskIds \ {t} : Is(u, Active) => task'[u] = task[u]
      BY <1>0, <1>10 DEF FailTask, IsNextId, RowsOK, Is, Active
    <2>3. \A u \in TaskIds : Is(u, Active) => Is(u, Active)' \/ Answered(u)
      BY <2>1, <2>2 DEF Is, Answered
    <2> QED
      BY <1>0, <2>1, <2>3, StillTold
  <1> QED
    BY <1>1, <1>2, <1>3, <1>4, <1>5, <1>6, <1>7, <1>8, <1>9, <1>10 DEF DaemonCall

\* Reconciling makes the status accurate and touches nobody else's.
LEMMA ReconcileAccurate ==
  ASSUME TInv, NEW b \in Agents, ReconcileAgentStatus(b), NEW a \in Agents, StatusPending(a) \/ Accurate(a)
  PROVE  StatusPending(a)' \/ Accurate(a)'
  <1>1. /\ task' = task /\ todo' = todo \ {Reconcile(b)}
        /\ agentStatus' = [agentStatus EXCEPT ![b] = IF ActiveOf(b) # {} THEN "working" ELSE "idle"]
    BY DEF ReconcileAgentStatus
  <1>2. agentStatus \in [Agents -> {"idle", "working"}]
    BY RestTypes
  <1>3. ActiveOf(a)' = ActiveOf(a)
    BY <1>1 DEF ActiveOf, Is
  <1>4. CASE a = b
    <2>1. agentStatus'[a] = IF ActiveOf(a) # {} THEN "working" ELSE "idle"
      BY <1>1, <1>2, <1>4
    <2> QED
      BY <1>3, <2>1 DEF Accurate
  <1>5. CASE a # b
    <2>1. agentStatus'[a] = agentStatus[a]
      BY <1>1, <1>2, <1>5
    <2>2. Accurate(a) => Accurate(a)'
      BY <1>3, <2>1 DEF Accurate
    <2>3. StatusPending(a) => StatusPending(a)'
      <3>1. Reconcile(a) # Reconcile(b) /\ \A t : HandleFailed(t) # Reconcile(b)
        BY <1>5 DEF Reconcile, HandleFailed
      <3>2. Reconcile(a) \in todo => Reconcile(a) \in todo'
        BY <1>1, <3>1
      <3>3. \A t \in TaskIds : HandleFailed(t) \in todo => HandleFailed(t) \in todo'
        BY <1>1, <3>1
      <3> QED
        BY <1>1, <3>2, <3>3 DEF StatusPending, Reconcile, HandleFailed
    <2> QED
      BY <2>2, <2>3
  <1> QED
    BY <1>4, <1>5

\* Every step.
LEMMA StatusNext == TInv /\ EscalationsOK /\ StatusInv /\ [Next]_vars => StatusInv'
  <1> SUFFICES ASSUME TInv, EscalationsOK, StatusInv, [Next]_vars, crashes' = 0, NEW a \in Agents \ Fallbacks
               PROVE  StatusPending(a)' \/ Accurate(a)'
    BY DEF StatusInv
  <1>0. RowsOK /\ crashes \in Nat
    BY BoundsType DEF TInv, TypeOK
  <1>1. ASSUME NEW W \in SUBSET todo, WorkLost(W) PROVE FALSE
    BY <1>0, <1>1 DEF WorkLost
  <1>2. crashes = 0
    <2>1. crashes' = crashes
      BY <1>1 DEF Next, vars, Enqueue, EnqueueTaskForIssue, EnqueueChatTask, EnqueueQuickCreateTask,
         EnqueueAutopilotRunTask, Cancel, CancelTasks, RerunIssue, CancelDeferredEscalationsForIssueAgent,
         Continue, ReconcileAgentStatus, HandleFailedTask, CancelDeferredEscalationsForTask, ResetStuckIssue,
         FailTasksForOfflineRuntimes, EnqueueDeferredAssigneeFallback, EnqueueRerunTask, Sweep,
         SweepStaleTasks, SweepExpiredQueuedTasks, SweepStaleRuntimes, Time, FireAtPasses, LeaseLapses,
         HeartbeatsStop, DaemonCall, PromoteDueDeferredTasks, RuntimesSeen, DaemonDeregister,
         RecoverOrphanedTasks, ClaimTask, ReclaimStaleDispatchedTask, RequeueTaskAfterClaimFailure,
         ExtendTaskPrepareLease, MarkTaskWaitingLocalDirectory, StartTask, CompleteTask, FailTask,
         PromoteChannelChatTasksIfMediaReady, SetIssueInProgress
    <2> QED
      BY <2>1
  <1>3. StatusPending(a) \/ Accurate(a)
    BY <1>2 DEF StatusInv
  <1>4. CASE \E b \in Agents : ReconcileAgentStatus(b)
    BY <1>3, <1>4, ReconcileAccurate
  <1>5. CASE ~\E b \in Agents : ReconcileAgentStatus(b)
    <2>1. ASSUME NEW c \in Chats, PromoteChannelChatTasksIfMediaReady(c) PROVE Told
      <3> DEFINE D == {t \in TaskIds : /\ Is(t, {"deferred"}) /\ task[t].subject = c
                                       /\ task[t].parent = 0 /\ task[t].esc = 0}
      <3>1. /\ D \in SUBSET TaskIds /\ QueueRows(D) /\ (\A t \in D : Is(t, {"deferred"}) /\ task[t].esc = 0)
            /\ todo' = todo /\ agentStatus' = agentStatus
        BY <2>1 DEF PromoteChannelChatTasksIfMediaReady
      <3> HIDE DEF D
      <3>2. QuietStep
        BY <1>0, <3>1, QueueRowsStep
      <3> QED
        BY <3>1, <3>2, QueueRowsTold
    <2>2. ASSUME UNCHANGED <<task, todo, agentStatus>> PROVE Told
      BY <2>2 DEF Told, Is
    <2>3. ASSUME UNCHANGED vars \/ \E i \in TrackedIssues : SetIssueInProgress(i) PROVE Told
      BY <2>2, <2>3 DEF vars, SetIssueInProgress
    <2>4. Told
      BY <1>1, <1>5, <2>1, <2>3, EnqueueTold, CancelTold, ContinueTold, SweepTold, TimeTold, DaemonCallTold DEF Next
    <2> QED
      BY <1>3, <2>4, ToldKeeps
  <1> QED
    BY <1>4, <1>5

\* The status of every agent that is nobody's fallback, for any number of agents and rows.
THEOREM StatusInvariant == Spec => []StatusInv
  <1>1. Init => StatusInv
    BY DEF Init, StatusInv, Accurate, ActiveOf, Is, Blank, Active
  <1>2. QueueInv /\ StatusInv /\ [Next]_vars => StatusInv'
    BY StatusNext DEF QueueInv, EscInv
  <1> QED
    BY <1>1, <1>2, QueueInvariant, PTL DEF Spec

\* ReconcileAgentStatus, called by most handlers after their commit, is called often enough: where
\* no comment escalates and no replica lost its work, an agent with nobody about to reconcile it
\* shows as working exactly while it has an active task.  With escalations it is not so (see the
\* README: cancelling a dispatched escalation does not reconcile its agent).
THEOREM AgentStatusAccurateHolds == ASSUME Fallbacks = {} PROVE Spec => []AgentStatusAccurate
  <1>1. StatusInv => AgentStatusAccurate
    BY DEF StatusInv, AgentStatusAccurate, Accurate
  <1> QED
    BY <1>1, StatusInvariant, PTL

==============================================================================
