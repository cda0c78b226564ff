-------------------------- MODULE TaskDaemonProofs --------------------------
(***************************************************************************)
(* Proofs about TaskDaemon: it implements TaskQueue, and at most one       *)
(* delivery of a task runs its agent.                                      *)
(***************************************************************************)
EXTENDS TaskDaemon, TaskQueueProofs

\* What the daemons hold names rows and reports reasons of the queue.
ClaimsOK ==
    /\ claim \in [Gens -> Delivery]
    /\ \A g \in Gens : /\ ~At(g, {"none"}) => TaskOf(g) \in TaskIds
                       /\ At(g, {"failing"}) => claim[g].why \in DaemonReasons

-----------------------------------------------------------------------------
(***************************************************************************)
(* What a step may do to the deliveries.                                   *)
(***************************************************************************)

\* A delivery keeps its task for good; a failure it reports has a reason.
LEMMA MoveToOK ==
  ASSUME ClaimsOK, NEW g \in Gens, NEW ph \in Phases \ {"failing", "none"}, MoveTo(g, ph), ~At(g, {"none"})
  PROVE  ClaimsOK'
  BY DEF ClaimsOK, MoveTo, At, TaskOf, Delivery

\* A delivery that gives up has a reason that daemons report.
LEMMA FailWithOK ==
  ASSUME ClaimsOK, NEW g \in Gens, NEW why \in DaemonReasons, FailWith(g, why), ~At(g, {"none"})
  PROVE  ClaimsOK'
  BY InputsType DEF ClaimsOK, FailWith, At, TaskOf, Delivery, Phases, Held

\* A new delivery names a row of the table.
LEMMA DeliverOK ==
  ASSUME ClaimsOK, NEW t \in TaskIds, NEW g, NEW ph \in {"handler", "gone"}, Deliver(g, t, ph)
  PROVE  ClaimsOK'
  BY DEF ClaimsOK, Deliver, At, TaskOf, Delivery, Phases, Held

-----------------------------------------------------------------------------
(***************************************************************************)
(* TaskDaemon implements TaskQueue: a step of a daemon is a call that the  *)
(* queue allows for, or leaves the queue alone.                            *)
(***************************************************************************)
LEMMA PollImplements ==
  ASSUME ClaimsOK, NEW d \in Daemons, Poll(d)
  PROVE  ClaimsOK' /\ (Next \/ UNCHANGED vars)
  <1>1. CASE PollBegin(d)
    <2>1. Hosted(d) \in SUBSET Runtimes
      BY DEF Hosted
    <2>2. Next
      BY <1>1, <2>1 DEF PollBegin, Next, DaemonCall
    <2> QED
      BY <1>1, <2>2 DEF PollBegin, ClaimsOK, At, TaskOf
  <1>2. CASE PollEnd(d)
    BY <1>2 DEF PollEnd, ClaimsOK, At, TaskOf
  <1>3. ASSUME NEW t \in TaskIds, PollReclaim(d, t) PROVE ClaimsOK' /\ (Next \/ UNCHANGED vars)
    BY <1>3, DeliverOK DEF PollReclaim, Next, DaemonCall
  <1>4. ASSUME NEW t \in TaskIds, NEW a \in Agents, PollClaim(d, a, t)
        PROVE  ClaimsOK' /\ (Next \/ UNCHANGED vars)
    BY <1>4, DeliverOK DEF PollClaim, Next, DaemonCall
  <1> QED
    BY <1>1, <1>2, <1>3, <1>4 DEF Poll

\* A step of a claim handler is a call the queue allows for.
LEMMA ClaimHandlerImplements ==
  ASSUME ClaimsOK, NEW g \in Gens, ClaimHandler(g)
  PROVE  ClaimsOK' /\ (Next \/ UNCHANGED vars)
  <1>1. {"lock", "abandoned", "gone"} \subseteq Phases \ {"failing", "none"}
    BY DEF Phases, Held
  <1>2. CASE FinalizeTaskClaim(g)
    BY <1>1, <1>2, MoveToOK DEF FinalizeTaskClaim, At
  <1>3. CASE ClaimResponseLost(g)
    BY <1>1, <1>3, MoveToOK DEF ClaimResponseLost, At
  <1>4. CASE FinalizeFails(g)
    <2>1. ~At(g, {"none"}) /\ TaskOf(g) \in TaskIds /\ MoveTo(g, "gone")
      BY <1>4 DEF FinalizeFails, At, ClaimsOK
    <2>2. Next \/ UNCHANGED vars
      BY <1>4, <2>1 DEF FinalizeFails, Gens, Next, DaemonCall
    <2> QED
      BY <1>1, <2>1, <2>2, MoveToOK
  <1>5. CASE AbandonedHandlerEnds(g)
    BY <1>1, <1>5, MoveToOK DEF AbandonedHandlerEnds, At
  <1>6. CASE ClaimBuildFails(g)
    <2>1. ~At(g, {"none"}) /\ {TaskOf(g)} \in CancelScopes /\ MoveTo(g, "gone")
      BY <1>6 DEF ClaimBuildFails, At, ClaimsOK, CancelScopes
    <2>2. Next \/ UNCHANGED vars
      BY <1>6, <2>1 DEF ClaimBuildFails, Next, Cancel
    <2> QED
      BY <1>1, <2>1, <2>2, MoveToOK
  <1> QED
    BY <1>2, <1>3, <1>4, <1>5, <1>6 DEF ClaimHandler

\* A step of handleTask is a call the queue allows for.
LEMMA HandleTaskImplements ==
  ASSUME ClaimsOK, NEW g \in Gens, HandleTask(g)
  PROVE  ClaimsOK' /\ (Next \/ UNCHANGED vars)
  <1>0. {"wait", "prepare", "run", "completing", "gone"} \subseteq Phases \ {"failing", "none"}
    BY DEF Phases, Held
  <1>1. ~At(g, {"none"}) => TaskOf(g) \in TaskIds
    BY DEF ClaimsOK
  <1>2. CASE ExtendLease(g)
    <2>1. TaskOf(g) \in TaskIds
      BY <1>1, <1>2 DEF ExtendLease, At
    <2> QED
      BY <1>2, <2>1 DEF ExtendLease, dvars, ClaimsOK, At, TaskOf, Next, DaemonCall
  <1>3. CASE WaitForLocalDirectory(g)
    <2>1. ~At(g, {"none"}) /\ MoveTo(g, "wait")
      BY <1>3 DEF WaitForLocalDirectory, At
    <2>2. Next \/ UNCHANGED vars
      BY <1>1, <1>3, <2>1 DEF WaitForLocalDirectory, Next, DaemonCall
    <2> QED
      BY <1>0, <2>1, <2>2, MoveToOK
  <1>4. CASE LocalDirectoryAcquired(g)
    BY <1>0, <1>4, MoveToOK DEF LocalDirectoryAcquired, At
  <1>5. CASE RunTaskStarts(g)
    <2>1. ~At(g, {"none"})
      BY <1>5 DEF RunTaskStarts, At
    <2>2. Next \/ UNCHANGED vars
      BY <1>1, <1>5, <2>1 DEF RunTaskStarts, Next, DaemonCall
    <2>3. ClaimsOK'
      BY <1>0, <1>5, <2>1, MoveToOK, FailWithOK, UnclassifiedReason DEF RunTaskStarts
    <2> QED
      BY <2>2, <2>3
  <1>6. CASE StartResponseLost(g)
    <2>1. ~At(g, {"none"})
      BY <1>6 DEF StartResponseLost, At
    <2>2. Next
      BY <1>1, <1>6, <2>1 DEF StartResponseLost, Next, DaemonCall
    <2>3. ClaimsOK'
      BY <1>6, <2>1, FailWithOK, UnclassifiedReason DEF StartResponseLost
    <2> QED
      BY <2>2, <2>3
  <1>7. ASSUME NEW why \in DaemonReasons, RunTaskFails(g, why) PROVE ClaimsOK' /\ UNCHANGED vars
    BY <1>7, FailWithOK DEF RunTaskFails, At
  <1>8. CASE RunTaskReturns(g)
    BY <1>0, <1>8, MoveToOK DEF RunTaskReturns, At
  <1>9. CASE ShouldInterruptAgent(g)
    BY <1>0, <1>9, MoveToOK DEF ShouldInterruptAgent, At
  <1>10. CASE ReportComplete(g)
    <2>1. ~At(g, {"none"}) /\ MoveTo(g, "gone")
      BY <1>10 DEF ReportComplete, At
    <2>2. Next \/ UNCHANGED vars
      BY <1>1, <1>10, <2>1 DEF ReportComplete, Next, DaemonCall
    <2> QED
      BY <1>0, <2>1, <2>2, MoveToOK
  <1>11. CASE ReportFail(g)
    <2>1. ~At(g, {"none"}) /\ MoveTo(g, "gone") /\ claim[g].why \in DaemonReasons
      BY <1>11 DEF ReportFail, At, ClaimsOK
    <2>2. Next \/ UNCHANGED vars
      BY <1>1, <1>11, <2>1 DEF ReportFail, Next, DaemonCall
    <2> QED
      BY <1>0, <2>1, <2>2, MoveToOK
  <1>12. CASE ReportDropped(g)
    BY <1>0, <1>12, MoveToOK DEF ReportDropped, At
  <1> QED
    BY <1>2, <1>3, <1>4, <1>5, <1>6, <1>7, <1>8, <1>9, <1>10, <1>11, <1>12 DEF HandleTask

\* Ending a daemon's deliveries keeps their types.
LEMMA CutOK == ASSUME ClaimsOK, NEW d, Cut(d) PROVE ClaimsOK'
  BY DEF ClaimsOK, Cut, ClaimsOf, At, TaskOf, Delivery, Phases, Held, Local

\* Crashes, stops and starts of a daemon are calls the queue allows for.
LEMMA ProcessImplements ==
  ASSUME ClaimsOK, NEW d \in Daemons, Process(d)
  PROVE  ClaimsOK' /\ (Next \/ UNCHANGED vars)
  <1>0. Hosted(d) \in SUBSET Runtimes
    BY DEF Hosted
  <1>1. CASE DaemonCrash(d)
    BY <1>1, CutOK DEF DaemonCrash
  <1>2. CASE DaemonStops(d)
    BY <1>2, UnclassifiedReason, InputsType
       DEF DaemonStops, ClaimsOK, ClaimsOf, At, TaskOf, Delivery, Phases, Held
  <1>3. CASE DaemonExits(d)
    BY <1>0, <1>3, CutOK DEF DaemonExits, Next, DaemonCall
  <1>4. CASE DaemonStarts(d)
    <2>1. Next
      BY <1>0, <1>4 DEF DaemonStarts, Next, DaemonCall
    <2> QED
      BY <1>4, <2>1 DEF DaemonStarts, ClaimsOK, At, TaskOf
  <1>5. CASE ReregisterAfterRuntimeGone(d)
    <2>1. Next
      BY <1>0, <1>5 DEF ReregisterAfterRuntimeGone, Next, DaemonCall
    <2> QED
      BY <1>5, <2>1 DEF ReregisterAfterRuntimeGone, ClaimsOK, At, TaskOf
  <1>6. CASE StartupDone(d)
    BY <1>6 DEF StartupDone, ClaimsOK, At, TaskOf
  <1> QED
    BY <1>1, <1>2, <1>3, <1>4, <1>5, <1>6 DEF Process

\* Recoveries and heartbeats are calls the queue allows for.
LEMMA RuntimeStepImplements ==
  ASSUME ClaimsOK, NEW r \in Runtimes, RuntimeStep(r)
  PROVE  ClaimsOK' /\ (Next \/ UNCHANGED vars)
  <1>1. UNCHANGED claim
    BY DEF RuntimeStep, RecoverOrphans, RecoverOrphansFails, Heartbeat, HeartbeatsMissed, dvars
  <1>2. Next \/ UNCHANGED vars
    <2>1. CASE RecoverOrphans(r)
      BY <2>1 DEF RecoverOrphans, Next, DaemonCall
    <2>2. CASE RecoverOrphansFails(r)
      BY <2>2 DEF RecoverOrphansFails
    <2>3. CASE Heartbeat(r)
      <3>1. {r} \in SUBSET Runtimes /\ RuntimesSeen({r})
        BY <2>3 DEF Heartbeat
      <3> QED
        BY <3>1 DEF Next, DaemonCall
    <2>4. CASE HeartbeatsMissed(r)
      BY <2>4 DEF HeartbeatsMissed, Next, Time
    <2> QED
      BY <2>1, <2>2, <2>3, <2>4 DEF RuntimeStep
  <1> QED
    BY <1>1, <1>2 DEF ClaimsOK, At, TaskOf

\* Every step maps to a step of the queue or to a stutter.
LEMMA StepImplements == ClaimsOK /\ [DNext]_allVars => ClaimsOK' /\ [Next]_vars
  <1> SUFFICES ASSUME ClaimsOK, [DNext]_allVars PROVE ClaimsOK' /\ (Next \/ UNCHANGED vars)
    OBVIOUS
  <1>1. CASE Server
    <2>1. Next
      BY <1>1 DEF Server, Next, Time
    <2> QED
      BY <1>1, <2>1 DEF Server, dvars, ClaimsOK, At, TaskOf
  <1>2. ASSUME NEW t \in TaskIds, PrepareLeaseLapses(t) PROVE ClaimsOK' /\ Next
    <2>1. Next
      BY <1>2 DEF PrepareLeaseLapses, Next, Time
    <2> QED
      BY <1>2, <2>1 DEF PrepareLeaseLapses, ClaimsOK, At, TaskOf
  <1>3. CASE UNCHANGED allVars
    BY <1>3 DEF allVars, dvars, ClaimsOK, At, TaskOf
  <1> QED
    BY <1>1, <1>2, <1>3, PollImplements, ProcessImplements, ClaimHandlerImplements, HandleTaskImplements,
       RuntimeStepImplements DEF DNext

\* The first state is a first state of the queue, with no delivery.
LEMMA ClaimsInit == DInit => Init /\ ClaimsOK
  BY DEF DInit, ClaimsOK, At, TaskOf, Delivery, Phases

\* The daemons, with their polls, crashes, restarts and lost calls, only ever make calls
\* that the queue's specification allows: everything proved of TaskQueue holds of them.
THEOREM DaemonImplementsQueue == DSpec => ImplementsTaskQueue
  <1>1. DInit => Init /\ ClaimsOK
    BY ClaimsInit
  <1>2. ClaimsOK /\ [DNext]_allVars => ClaimsOK'
    BY StepImplements
  <1>3. ClaimsOK /\ [DNext]_allVars => [Next]_vars
    BY StepImplements
  <1> QED
    BY <1>1, <1>2, <1>3, PTL DEF DSpec, ImplementsTaskQueue, Spec

-----------------------------------------------------------------------------
(***************************************************************************)
(* One run per task.                                                       *)
(***************************************************************************)
Running == {"run", "completing"}
Started == {"running"} \cup Terminal

\* Once started, a row stays started: no requeue, reclaim or promotion takes it back.
LEMMA StartedStays ==
  ASSUME TInv, [Next]_vars, NEW t \in TaskIds, Is(t, Started)
  PROVE  Is(t, Started)'
  <1>1. CASE QuietStep
    BY <1>1 DEF QuietStep, RowStep, MovedOn, Is, Started, Terminal, Cancellable, Active
  <1>2. ASSUME NEW a \in Agents, NEW c \in TaskIds, ClaimTask(a, c) PROVE Is(t, Started)'
    BY <1>2, ClaimStep DEF Is, Started, Terminal
  <1> QED
    BY <1>1, <1>2, NextQuiet

\* Nothing but RunTaskStarts makes a delivery run.
NoNewRun == \A g \in Gens : At(g, Running)' => At(g, Running) /\ claim'[g].task = TaskOf(g)

\* A delivery that moves to another phase than run starts no agent.
LEMMA MoveToNoRun ==
  ASSUME ClaimsOK, NEW g \in Gens, NEW ph, MoveTo(g, ph), ph \notin Running \/ At(g, Running)
  PROVE  NoNewRun
  BY DEF ClaimsOK, MoveTo, NoNewRun, At, TaskOf, Delivery

\* A delivery that gives up starts no agent.
LEMMA FailWithNoRun ==
  ASSUME ClaimsOK, NEW g \in Gens, NEW why, FailWith(g, why)
  PROVE  NoNewRun
  BY DEF ClaimsOK, FailWith, NoNewRun, At, TaskOf, Delivery, Running

\* A step that leaves the deliveries alone starts no agent.
LEMMA SameNoRun == ClaimsOK /\ UNCHANGED claim => NoNewRun
  BY DEF NoNewRun, At, TaskOf

\* RunTaskStarts is the only step that starts an agent.
LEMMA RunStep ==
  ClaimsOK /\ [DNext]_allVars => NoNewRun \/ \E g \in Gens : RunTaskStarts(g)
  <1> SUFFICES ASSUME ClaimsOK, [DNext]_allVars, ~\E g \in Gens : RunTaskStarts(g)
               PROVE  NoNewRun
    OBVIOUS
  <1>1. CASE Server
    BY <1>1, SameNoRun DEF Server, dvars
  <1>2. ASSUME NEW d \in Daemons, Poll(d) PROVE NoNewRun
    <2>1. CASE PollBegin(d) \/ PollEnd(d)
      BY <2>1, SameNoRun DEF PollBegin, PollEnd
    <2>2. ASSUME NEW t \in TaskIds, NEW ph \in {"handler", "gone"}, Deliver(clock + 1, t, ph) PROVE NoNewRun
      BY <2>2 DEF Deliver, NoNewRun, ClaimsOK, At, TaskOf, Delivery, Running
    <2>3. ASSUME NEW t \in TaskIds, PollReclaim(d, t) PROVE NoNewRun
      BY <2>2, <2>3 DEF PollReclaim
    <2>4. ASSUME NEW t \in TaskIds, NEW a \in Agents, PollClaim(d, a, t) PROVE NoNewRun
      BY <2>2, <2>4 DEF PollClaim
    <2> QED
      BY <1>2, <2>1, <2>3, <2>4 DEF Poll
  <1>3. ASSUME NEW d \in Daemons, Process(d) PROVE NoNewRun
    <2>1. CASE DaemonCrash(d) \/ DaemonExits(d)
      BY <2>1 DEF DaemonCrash, DaemonExits, Cut, NoNewRun, ClaimsOK, ClaimsOf, At, TaskOf, Delivery, Running
    <2>2. CASE DaemonStops(d)
      BY <2>2 DEF DaemonStops, NoNewRun, ClaimsOK, ClaimsOf, At, TaskOf, Delivery, Running
    <2>3. CASE DaemonStarts(d) \/ ReregisterAfterRuntimeGone(d) \/ StartupDone(d)
      BY <2>3, SameNoRun DEF DaemonStarts, ReregisterAfterRuntimeGone, StartupDone
    <2> QED
      BY <1>3, <2>1, <2>2, <2>3 DEF Process
  <1>4. ASSUME NEW g \in Gens, ClaimHandler(g) PROVE NoNewRun
    BY <1>4, MoveToNoRun
       DEF ClaimHandler, FinalizeTaskClaim, ClaimResponseLost, FinalizeFails, ClaimBuildFails, AbandonedHandlerEnds, Running
  <1>5. ASSUME NEW g \in Gens, HandleTask(g) PROVE NoNewRun
    <2>1. CASE ExtendLease(g)
      BY <2>1, SameNoRun DEF ExtendLease, dvars
    <2>2. CASE WaitForLocalDirectory(g) \/ LocalDirectoryAcquired(g) \/ ShouldInterruptAgent(g)
               \/ ReportComplete(g) \/ ReportFail(g) \/ ReportDropped(g)
      BY <2>2, MoveToNoRun DEF WaitForLocalDirectory, LocalDirectoryAcquired, ShouldInterruptAgent,
                               ReportComplete, ReportFail, ReportDropped, Running
    <2>3. CASE RunTaskReturns(g)
      BY <2>3, MoveToNoRun DEF RunTaskReturns, At, Running
    <2>4. CASE StartResponseLost(g) \/ \E why \in DaemonReasons : RunTaskFails(g, why)
      BY <2>4, FailWithNoRun DEF StartResponseLost, RunTaskFails
    <2> QED
      BY <1>5, <2>1, <2>2, <2>3, <2>4 DEF HandleTask
  <1>6. ASSUME NEW t \in TaskIds, PrepareLeaseLapses(t) PROVE NoNewRun
    BY <1>6, SameNoRun DEF PrepareLeaseLapses
  <1>7. ASSUME NEW r \in Runtimes, RuntimeStep(r) PROVE NoNewRun
    BY <1>7, SameNoRun DEF RuntimeStep, RecoverOrphans, RecoverOrphansFails, Heartbeat, HeartbeatsMissed, dvars
  <1>8. CASE UNCHANGED allVars
    BY <1>8, SameNoRun DEF allVars, dvars
  <1> QED
    BY <1>1, <1>2, <1>3, <1>4, <1>5, <1>6, <1>7, <1>8 DEF DNext

\* A delivery that runs its agent has started its row.
RunsStarted == \A g \in Gens : At(g, Running) => Is(TaskOf(g), Started)

RInv == ClaimsOK /\ TInv /\ RunsStarted /\ OneRunPerTask

\* Every step preserves the strengthening of OneRunPerTask.
LEMMA RInvNext == RInv /\ [DNext]_allVars => RInv'
  <1> SUFFICES ASSUME RInv, [DNext]_allVars PROVE RInv'
    OBVIOUS
  <1>1. ClaimsOK /\ TInv /\ ClaimsOK' /\ [Next]_vars /\ TInv'
    BY StepImplements, TInvNext DEF RInv
  <1>2. \A g \in Gens : At(g, Running) => TaskOf(g) \in TaskIds
    BY <1>1 DEF ClaimsOK, At, Running
  <1>3. \A t \in TaskIds : Is(t, Started) => Is(t, Started)'
    BY <1>1, StartedStays
  <1>4. CASE NoNewRun
    <2>1. RunsStarted'
      BY <1>2, <1>3, <1>4 DEF NoNewRun, RInv, RunsStarted, TaskOf, Is
    <2>2. OneRunPerTask'
      BY <1>4 DEF NoNewRun, RInv, OneRunPerTask, TaskOf, Running, At
    <2> QED
      BY <1>1, <2>1, <2>2 DEF RInv
  <1>5. ASSUME NEW g \in Gens, RunTaskStarts(g) PROVE RInv'
    <2>1. CASE ~Startable(TaskOf(g))
      <3>1. NoNewRun
        BY <1>1, <1>5, <2>1, FailWithNoRun DEF RunTaskStarts
      <3> QED
        BY <1>4, <3>1
    <2>2. CASE Startable(TaskOf(g))
      <3>1. StartTask(TaskOf(g)) /\ MoveTo(g, "run") /\ TaskOf(g) \in TaskIds
        BY <1>1, <1>5, <2>2 DEF RunTaskStarts, ClaimsOK, At
      <3>2. ~Is(TaskOf(g), Started)
        BY <2>2 DEF Startable, Is, Started, Terminal
      <3>3. Is(TaskOf(g), Started)'
        BY <1>1, <3>1 DEF StartTask, TInv, TypeOK, RowsOK, Is, Started, TaskOf, MoveTo, ClaimsOK, Delivery, Row
      <3>4. /\ \A h \in Gens : claim'[h].task = claim[h].task
            /\ \A h \in Gens \ {g} : claim'[h].phase = claim[h].phase
        BY <1>1, <3>1 DEF MoveTo, ClaimsOK, Delivery
      <3>5. RunsStarted'
        BY <1>2, <1>3, <3>3, <3>4 DEF RInv, RunsStarted, At, TaskOf, Is
      <3>6. OneRunPerTask'
        BY <3>2, <3>4 DEF RInv, RunsStarted, OneRunPerTask, At, TaskOf, Running
      <3> QED
        BY <1>1, <3>5, <3>6 DEF RInv
    <2> QED
      BY <2>1, <2>2
  <1> QED
    BY <1>1, <1>4, <1>5, RunStep

\* However often a row is dispatched, handed back and reclaimed, and whichever responses
\* are lost, at most one delivery runs its agent.  The invariant carries that a running
\* delivery's row has been started, which StartTask refuses to do twice.
THEOREM OneRunPerTaskHolds == DSpec => []OneRunPerTask
  <1>1. DInit => RInv
    BY ClaimsInit, TInvInit DEF DInit, RInv, RunsStarted, OneRunPerTask, At, Running
  <1>2. RInv /\ [DNext]_allVars => RInv'
    BY RInvNext
  <1>3. RInv => OneRunPerTask
    BY DEF RInv
  <1> QED
    BY <1>1, <1>2, <1>3, PTL DEF DSpec

-----------------------------------------------------------------------------
(***************************************************************************)
(* A claim that reached its daemon is not handed back by anyone else.      *)
(***************************************************************************)

\* No row goes from dispatched back to queued.
NoneHandedBack == \A t \in TaskIds : Is(t, {"dispatched"}) => task'[t].status # "queued"

\* A step that leaves the table alone hands nothing back.
LEMMA SameNotBack == RowsOK /\ UNCHANGED task => NoneHandedBack
  BY DEF NoneHandedBack, Is

\* One row is written, with another status than queued or where none was dispatched.
LEMMA WriteNotBack ==
  ASSUME RowsOK, NEW t \in TaskIds, NEW new, task' = [task EXCEPT ![t] = new],
         new.status # "queued" \/ ~Is(t, {"dispatched"})
  PROVE  NoneHandedBack
  BY DEF RowsOK, NoneHandedBack, Is

\* The statements over sets of rows.
LEMMA RowsNotBack ==
  ASSUME RowsOK, NEW S,
         \/ \E why : FailRows(S, why)
         \/ FailOfflineRows(S)
         \/ CancelRows(S)
         \/ QueueRows(S) /\ \A t \in S \cap TaskIds : Is(t, {"deferred"})
  PROVE  NoneHandedBack
  <1> SUFFICES ASSUME NEW t \in TaskIds, Is(t, {"dispatched"}) PROVE task'[t].status # "queued"
    BY DEF NoneHandedBack
  <1>0. task[t] \in Row /\ task[t].status = "dispatched"
    BY DEF RowsOK, Is
  <1>1. CASE task'[t] = task[t]
    BY <1>0, <1>1
  <1>2. ASSUME NEW why, FailRows(S, why) PROVE task'[t].status # "queued"
    BY <1>0, <1>1, <1>2 DEF FailRows, Failed, Row
  <1>3. CASE FailOfflineRows(S)
    BY <1>0, <1>1, <1>3 DEF FailOfflineRows, Row
  <1>4. CASE CancelRows(S)
    BY <1>0, <1>1, <1>4 DEF CancelRows, Row
  <1>5. CASE QueueRows(S) /\ \A u \in S \cap TaskIds : Is(u, {"deferred"})
    BY <1>0, <1>1, <1>5 DEF QueueRows, Is
  <1> QED
    BY <1>2, <1>3, <1>4, <1>5

\* An insert goes to an id that has no row.
LEMMA InsertNotBack ==
  ASSUME RowsOK, NEW t \in TaskIds, NEW new, IsNextId(t), task' = [task EXCEPT ![t] = new]
  PROVE  NoneHandedBack
  BY WriteNotBack DEF IsNextId, Is

\* The server without its daemons hands no claim back.
LEMMA ServerNotBack ==
  ASSUME RowsOK, Server PROVE NoneHandedBack
  <1>1. CASE Enqueue
    <2>1. PICK t \in TaskIds : \E new : Insert(t, new)
      BY <1>1 DEF Enqueue, EnqueueTaskForIssue, EnqueueChatTask, EnqueueQuickCreateTask, EnqueueAutopilotRunTask,
                  InsertRoot
    <2> QED
      BY <2>1, InsertNotBack DEF Insert
  <1>2. CASE Cancel
    <2>1. \E S : CancelRows(S)
      BY <1>2 DEF Cancel, CancelTasks, RerunIssue, CancelDeferredEscalationsForIssueAgent
    <2> QED
      BY <2>1, RowsNotBack
  <1>3. CASE Continue
    <2>1. ASSUME NEW t \in TaskIds, HandleFailedTask(t) PROVE NoneHandedBack
      <3>1. UNCHANGED task \/ \E c \in TaskIds : IsNextId(c) /\ \E new : task' = [task EXCEPT ![c] = new]
        BY <2>1 DEF HandleFailedTask
      <3> QED
        BY <3>1, SameNotBack, InsertNotBack
    <2>2. ASSUME NEW t \in TaskIds, CancelDeferredEscalationsForTask(t) PROVE NoneHandedBack
      BY <2>2, RowsNotBack DEF CancelDeferredEscalationsForTask
    <2>3. CASE FailTasksForOfflineRuntimes
      BY <2>3, RowsNotBack DEF FailTasksForOfflineRuntimes
    <2>4. ASSUME NEW t \in TaskIds, NEW p \in TaskIds, NEW b, NEW r, EnqueueDeferredAssigneeFallback(t, p, b, r)
          PROVE  NoneHandedBack
      BY <2>4, InsertNotBack DEF EnqueueDeferredAssigneeFallback, Insert
    <2>5. ASSUME NEW t \in TaskIds, NEW a, NEW i, NEW r, NEW p, EnqueueRerunTask(t, a, i, r, p)
          PROVE  NoneHandedBack
      BY <2>5, SameNotBack, InsertNotBack DEF EnqueueRerunTask, InsertRoot, Insert
    <2>6. ASSUME NEW a, ReconcileAgentStatus(a) PROVE NoneHandedBack
      BY <2>6, SameNotBack DEF ReconcileAgentStatus
    <2>7. ASSUME NEW i, ResetStuckIssue(i) PROVE NoneHandedBack
      BY <2>7, SameNotBack DEF ResetStuckIssue
    <2> QED
      BY <1>3, <2>1, <2>2, <2>3, <2>4, <2>5, <2>6, <2>7 DEF Continue
  <1>4. CASE Sweep
    <2>1. UNCHANGED task \/ \E S : \E why : FailRows(S, why)
      BY <1>4 DEF Sweep, SweepStaleTasks, SweepExpiredQueuedTasks, SweepStaleRuntimes
    <2> QED
      BY <2>1, SameNotBack, RowsNotBack
  <1>5. ASSUME NEW t \in TaskIds, FireAtPasses(t) PROVE NoneHandedBack
    BY <1>5, WriteNotBack DEF FireAtPasses, Is
  <1>6. ASSUME NEW c \in Chats, PromoteChannelChatTasksIfMediaReady(c) PROVE NoneHandedBack
    BY <1>6, RowsNotBack DEF PromoteChannelChatTasksIfMediaReady
  <1>7. CASE UNCHANGED task
    BY <1>7, SameNotBack
  <1> QED
    BY <1>1, <1>2, <1>3, <1>4, <1>5, <1>6, <1>7 DEF Server, SetIssueInProgress, WorkLost

\* The one way back: a handler returns the claim it was given.
HandsBack(h) ==
    /\ At(h, {"handler", "abandoned"}) /\ ClaimIsCurrent(h)
    /\ \E new : task' = [task EXCEPT ![TaskOf(h)] = new]

\* What a step of the daemons may do to a dispatched row.
LEMMA HandBackStep ==
  ASSUME RowsOK, ClaimsOK, [DNext]_allVars
  PROVE  NoneHandedBack \/ \E h \in Gens : HandsBack(h)
  <1> DEFINE Goal == NoneHandedBack \/ \E h \in Gens : HandsBack(h)
  <1>1. CASE Server
    BY <1>1, ServerNotBack
  <1>2. ASSUME NEW d \in Daemons, Poll(d) PROVE Goal
    <2>1. CASE PollBegin(d)
      BY <2>1, RowsNotBack DEF PollBegin, PromoteDueDeferredTasks, DueOn
    <2>2. CASE PollEnd(d)
      BY <2>2, SameNotBack DEF PollEnd, vars
    <2>3. ASSUME NEW t \in TaskIds, task' = [task EXCEPT ![t] = Dispatched(task[t])] PROVE Goal
      <3>1. Dispatched(task[t]).status = "dispatched"
        BY DEF Dispatched, RowsOK, Row
      <3> QED
        BY <2>3, <3>1, WriteNotBack
    <2> QED
      BY <1>2, <2>1, <2>2, <2>3 DEF Poll, PollReclaim, PollClaim, ReclaimStaleDispatchedTask, ClaimTask
  <1>3. ASSUME NEW d \in Daemons, Process(d) PROVE Goal
    BY <1>3, SameNotBack DEF Process, DaemonCrash, DaemonStops, DaemonExits, DaemonStarts,
       ReregisterAfterRuntimeGone, StartupDone, DaemonDeregister, RuntimesSeen, vars
  <1>4. ASSUME NEW g \in Gens, ClaimHandler(g) PROVE Goal
    <2>1. CASE FinalizeFails(g)
      <3>1. CASE ClaimIsCurrent(g)
        BY <2>1, <3>1 DEF FinalizeFails, RequeueTaskAfterClaimFailure, HandsBack
      <3>2. CASE ~ClaimIsCurrent(g)
        BY <2>1, <3>2, SameNotBack DEF FinalizeFails, vars
      <3> QED
        BY <3>1, <3>2
    <2>2. CASE ClaimBuildFails(g)
      BY <2>2, SameNotBack, RowsNotBack DEF ClaimBuildFails, CancelTasks, vars
    <2>3. CASE UNCHANGED vars
      BY <2>3, SameNotBack DEF vars
    <2> QED
      BY <1>4, <2>1, <2>2, <2>3 DEF ClaimHandler, FinalizeTaskClaim, ClaimResponseLost, AbandonedHandlerEnds
  <1>5. ASSUME NEW g \in Gens, HandleTask(g) PROVE Goal
    <2>0. ~At(g, {"none"}) => TaskOf(g) \in TaskIds /\ task[TaskOf(g)] \in Row
      BY DEF ClaimsOK, RowsOK
    <2> DEFINE t == TaskOf(g)
    <2>1. CASE UNCHANGED vars
      BY <2>1, SameNotBack DEF vars
    <2>2. ASSUME ~At(g, {"none"}), NEW st \in Statuses \ {"queued"}, NEW l,
                 task' = [task EXCEPT ![t] = [@ EXCEPT !.status = st, !.lease = l]]
          PROVE  Goal
      <3>1. task' = [task EXCEPT ![t] = [task[t] EXCEPT !.status = st, !.lease = l]]
        BY <2>2
      <3>2. [task[t] EXCEPT !.status = st, !.lease = l].status = st
        BY <2>0, <2>2 DEF Row
      <3> QED
        BY <2>0, <2>2, <3>1, <3>2, WriteNotBack
    <2>3. CASE ExtendLease(g)
      <3>1. task' = [task EXCEPT ![t] = [task[t] EXCEPT !.lease = "live"]] /\ ~At(g, {"none"})
        BY <2>3 DEF ExtendLease, ExtendTaskPrepareLease, At
      <3>2. [task[t] EXCEPT !.lease = "live"].status \in {"dispatched", "waiting_local_directory"}
        BY <2>0, <2>3, <3>1 DEF ExtendLease, ExtendTaskPrepareLease, Is, Row
      <3> QED
        BY <2>0, <3>1, <3>2, WriteNotBack
    <2>4. CASE WaitForLocalDirectory(g)
      <3>1. ~At(g, {"none"}) /\ (UNCHANGED vars \/ MarkTaskWaitingLocalDirectory(t))
        BY <2>4 DEF WaitForLocalDirectory, At
      <3> QED
        BY <2>1, <2>2, <3>1 DEF MarkTaskWaitingLocalDirectory, Statuses, Cancellable, Active
    <2>5. CASE RunTaskStarts(g) \/ StartResponseLost(g)
      <3>1. ~At(g, {"none"}) /\ (UNCHANGED vars \/ StartTask(t))
        BY <2>5 DEF RunTaskStarts, StartResponseLost, At
      <3> QED
        BY <2>1, <2>2, <3>1 DEF StartTask, Statuses, Cancellable, Active
    <2>6. CASE ReportComplete(g)
      <3>1. ~At(g, {"none"}) /\ (UNCHANGED vars \/ CompleteTask(t))
        BY <2>6 DEF ReportComplete, At
      <3> QED
        BY <2>1, <2>2, <3>1 DEF CompleteTask, Statuses, Terminal
    <2>7. CASE ReportFail(g)
      <3>1. ~At(g, {"none"}) /\ (UNCHANGED vars \/ FailTask(t, claim[g].why))
        BY <2>7 DEF ReportFail, At
      <3> DEFINE why == claim[g].why
      <3>2. CASE FailTask(t, why)
        <4>1. \/ task' = [task EXCEPT ![t] = Failed(task[t], why)]
              \/ \E c \in TaskIds : IsNextId(c) /\ task' = [task EXCEPT ![t] = Failed(task[t], why), ![c] = RetryRow(t, why)]
          BY <3>2 DEF FailTask
        <4>2. Failed(task[t], why).status = "failed"
          BY <2>0, <3>1 DEF Failed, Row
        <4>3. CASE task' = [task EXCEPT ![t] = Failed(task[t], why)]
          BY <2>0, <3>1, <4>2, <4>3, WriteNotBack
        <4>4. ASSUME NEW c \in TaskIds, IsNextId(c),
                     task' = [task EXCEPT ![t] = Failed(task[t], why), ![c] = RetryRow(t, why)]
              PROVE  NoneHandedBack
          <5>1. \A u \in TaskIds \ {c} : u = t \/ task'[u] = task[u]
            BY <4>4 DEF RowsOK
          <5>2. t # c => task'[t] = Failed(task[t], why)
            BY <2>0, <3>1, <4>4 DEF RowsOK
          <5>3. ~Is(c, {"dispatched"})
            BY <4>4 DEF IsNextId, Is
          <5> QED
            BY <4>2, <5>1, <5>2, <5>3 DEF NoneHandedBack, Is
        <4> QED
          BY <4>1, <4>3, <4>4
      <3> QED
        BY <2>1, <3>1, <3>2
    <2> QED
      BY <1>5, <2>1, <2>3, <2>4, <2>5, <2>6, <2>7
         DEF HandleTask, LocalDirectoryAcquired, RunTaskReturns, RunTaskFails, ShouldInterruptAgent, ReportDropped
  <1>6. ASSUME NEW t \in TaskIds, PrepareLeaseLapses(t) PROVE Goal
    <2>1. task' = [task EXCEPT ![t] = [task[t] EXCEPT !.lease = "expired"]]
      BY <1>6 DEF PrepareLeaseLapses, LeaseLapses
    <2>2. [task[t] EXCEPT !.lease = "expired"].status \in {"dispatched", "waiting_local_directory"}
      BY <1>6 DEF PrepareLeaseLapses, LeaseLapses, Is, RowsOK, Row
    <2> QED
      BY <2>1, <2>2, WriteNotBack
  <1>7. ASSUME NEW r \in Runtimes, RuntimeStep(r) PROVE Goal
    <2>1. UNCHANGED task \/ \E S : \E why : FailRows(S, why)
      BY <1>7 DEF RuntimeStep, RecoverOrphans, RecoverOrphansFails, Heartbeat, HeartbeatsMissed,
                  RecoverOrphanedTasks, RuntimesSeen, HeartbeatsStop, vars
    <2> QED
      BY <2>1, SameNotBack, RowsNotBack
  <1>8. CASE UNCHANGED allVars
    BY <1>8, SameNotBack DEF allVars, vars
  <1> QED
    BY <1>1, <1>2, <1>3, <1>4, <1>5, <1>6, <1>7, <1>8 DEF DNext

\* A handler hands back the claim it was given and no other: whatever is lost or comes late,
\* a row whose current claim has reached its daemon is never queued again under its feet.
\* The argument is that dispatched_at names one delivery.
THEOREM RequeueSparesNewerClaimHolds == DSpec => RequeueSparesNewerClaim
  <1> DEFINE A == \A g \in Gens : At(g, {"lock", "prepare"}) /\ ClaimIsCurrent(g) => task'[TaskOf(g)].status # "queued"
  <1>1. RInv /\ [DNext]_allVars => [A]_allVars
    <2> SUFFICES ASSUME RInv, [DNext]_allVars, NEW g \in Gens, At(g, {"lock", "prepare"}), ClaimIsCurrent(g)
                 PROVE  task'[TaskOf(g)].status # "queued"
      OBVIOUS
    <2>0. RowsOK /\ ClaimsOK /\ TaskOf(g) \in TaskIds
      BY DEF RInv, TInv, TypeOK, ClaimsOK, At
    <2>1. CASE NoneHandedBack
      BY <2>0, <2>1 DEF NoneHandedBack, ClaimIsCurrent
    <2>2. ASSUME NEW h \in Gens, HandsBack(h) PROVE task'[TaskOf(g)].status # "queued"
      <3>1. TaskOf(h) # TaskOf(g)
        BY <2>2 DEF HandsBack, ClaimIsCurrent, At
      <3>2. task'[TaskOf(g)] = task[TaskOf(g)]
        BY <2>0, <2>2, <3>1 DEF HandsBack, RowsOK
      <3> QED
        BY <3>2 DEF ClaimIsCurrent, Is
    <2> QED
      BY <2>0, <2>1, <2>2, HandBackStep
  <1>2. DInit => RInv
    BY ClaimsInit, TInvInit DEF DInit, RInv, RunsStarted, OneRunPerTask, At, Running
  <1>3. RInv /\ [DNext]_allVars => RInv'
    BY RInvNext
  <1> QED
    BY <1>1, <1>2, <1>3, PTL DEF DSpec, RequeueSparesNewerClaim

-----------------------------------------------------------------------------
(***************************************************************************)
(* Types of the daemons' state; one delivery per dispatched_at.            *)
(***************************************************************************)

\* The state of the processes.
DaemonsOK ==
    /\ daemon \in [Daemons -> {"down", "starting", "up", "stopping"}]
    /\ polling \subseteq Daemons /\ recover \subseteq Runtimes /\ faults \in 0..MaxFaults

\* A delivery is there as soon as its dispatched_at is.
Delivered == \A g \in Gens : /\ TaskOf(g) # 0 <=> g <= clock
                             /\ ~At(g, {"none"}) <=> g <= clock

\* No delivery is made, and none is taken back.
NoDelivery ==
    /\ clock' = clock
    /\ \A g \in Gens : claim'[g].task = claim[g].task /\ (claim'[g].phase = "none" <=> claim[g].phase = "none")

\* One delivery is made, under the next dispatched_at.
OneDelivery ==
    \E t \in TaskIds, ph \in {"handler", "gone"} : Deliver(clock + 1, t, ph) /\ clock < MaxClaims /\ clock' = clock + 1

\* A delivery that moves on is still there.
LEMMA MoveDelivers ==
  ASSUME ClaimsOK, NEW g \in Gens, ~At(g, {"none"}), clock' = clock,
         \/ \E ph : MoveTo(g, ph) /\ ph # "none"
         \/ \E why : FailWith(g, why)
  PROVE  NoDelivery
  BY DEF ClaimsOK, MoveTo, FailWith, NoDelivery, At, Delivery

\* A step that leaves the deliveries and the clock alone.
LEMMA SameDelivers == ASSUME UNCHANGED <<claim, clock>> PROVE NoDelivery
  BY DEF NoDelivery

\* Only a poll makes deliveries.
LEMMA DeliveryStep ==
  ASSUME ClaimsOK, [DNext]_allVars PROVE NoDelivery \/ OneDelivery
  <1> DEFINE Goal == NoDelivery \/ OneDelivery
  <1>1. CASE Server
    <2>1. UNCHANGED claim
      BY <1>1 DEF Server, dvars
    <2>2. UNCHANGED clock
      <3>1. CASE Enqueue
        BY <3>1 DEF Enqueue, EnqueueTaskForIssue, EnqueueChatTask, EnqueueQuickCreateTask, EnqueueAutopilotRunTask
      <3>2. CASE Cancel
        BY <3>2 DEF Cancel, CancelTasks, RerunIssue, CancelDeferredEscalationsForIssueAgent
      <3>3. CASE Continue
        BY <3>3 DEF Continue, ReconcileAgentStatus, HandleFailedTask, CancelDeferredEscalationsForTask,
                    ResetStuckIssue, FailTasksForOfflineRuntimes, EnqueueDeferredAssigneeFallback, EnqueueRerunTask
      <3>4. CASE Sweep
        BY <3>4 DEF Sweep, SweepStaleTasks, SweepExpiredQueuedTasks, SweepStaleRuntimes
      <3> QED
        BY <1>1, <3>1, <3>2, <3>3, <3>4 DEF Server, FireAtPasses, PromoteChannelChatTasksIfMediaReady,
           SetIssueInProgress, WorkLost
    <2> QED
      BY <2>1, <2>2, SameDelivers
  <1>2. ASSUME NEW d \in Daemons, Poll(d) PROVE Goal
    <2>1. CASE PollBegin(d) \/ PollEnd(d)
      BY <2>1, SameDelivers DEF PollBegin, PollEnd, PromoteDueDeferredTasks, vars
    <2>2. ASSUME NEW t \in TaskIds, PollReclaim(d, t) PROVE Goal
      BY <2>2 DEF PollReclaim, ReclaimStaleDispatchedTask, OneDelivery
    <2>3. ASSUME NEW t \in TaskIds, NEW a \in Agents, PollClaim(d, a, t) PROVE Goal
      BY <2>3 DEF PollClaim, ClaimTask, OneDelivery
    <2> QED
      BY <1>2, <2>1, <2>2, <2>3 DEF Poll
  <1>3. ASSUME NEW d \in Daemons, Process(d) PROVE Goal
    <2>0. UNCHANGED clock
      BY <1>3 DEF Process, DaemonCrash, DaemonStops, DaemonExits, DaemonStarts,
         ReregisterAfterRuntimeGone, StartupDone, DaemonDeregister, RuntimesSeen, vars
    <2>1. CASE DaemonCrash(d) \/ DaemonExits(d)
      BY <2>0, <2>1 DEF DaemonCrash, DaemonExits, Cut, NoDelivery, ClaimsOK, ClaimsOf, Delivery, Local, Held
    <2>2. CASE DaemonStops(d)
      BY <2>0, <2>2 DEF DaemonStops, NoDelivery, ClaimsOK, ClaimsOf, Delivery
    <2>3. CASE DaemonStarts(d) \/ ReregisterAfterRuntimeGone(d) \/ StartupDone(d)
      BY <2>0, <2>3, SameDelivers DEF DaemonStarts, ReregisterAfterRuntimeGone, StartupDone
    <2> QED
      BY <1>3, <2>1, <2>2, <2>3 DEF Process
  <1>4. ASSUME NEW g \in Gens, ClaimHandler(g) PROVE Goal
    <2>1. clock' = clock /\ ~At(g, {"none"}) /\ \E ph \in {"lock", "abandoned", "gone"} : MoveTo(g, ph)
      BY <1>4 DEF ClaimHandler, FinalizeTaskClaim, ClaimResponseLost, FinalizeFails, ClaimBuildFails,
         AbandonedHandlerEnds, RequeueTaskAfterClaimFailure, CancelTasks, At, vars
    <2> QED
      BY <2>1, MoveDelivers
  <1>5. ASSUME NEW g \in Gens, HandleTask(g) PROVE Goal
    <2>0. clock' = clock /\ ~At(g, {"none"})
      BY <1>5 DEF HandleTask, ExtendLease, ExtendTaskPrepareLease, WaitForLocalDirectory, MarkTaskWaitingLocalDirectory,
         LocalDirectoryAcquired, RunTaskStarts, StartResponseLost, StartTask, RunTaskReturns, RunTaskFails,
         ShouldInterruptAgent, ReportComplete, CompleteTask, ReportFail, FailTask, ReportDropped, At, vars
    <2>1. CASE ExtendLease(g)
      BY <2>0, <2>1, SameDelivers DEF ExtendLease, dvars
    <2>2. CASE RunTaskStarts(g)
      BY <2>0, <2>2, MoveDelivers DEF RunTaskStarts
    <2>3. CASE StartResponseLost(g) \/ \E why \in DaemonReasons : RunTaskFails(g, why)
      BY <2>0, <2>3, MoveDelivers DEF StartResponseLost, RunTaskFails
    <2>4. ASSUME NEW ph \in {"wait", "prepare", "completing", "gone"}, MoveTo(g, ph) PROVE Goal
      BY <2>0, <2>4, MoveDelivers
    <2> QED
      BY <1>5, <2>1, <2>2, <2>3, <2>4 DEF HandleTask, WaitForLocalDirectory, LocalDirectoryAcquired,
         RunTaskReturns, ShouldInterruptAgent, ReportComplete, ReportFail, ReportDropped
  <1>6. ASSUME NEW t \in TaskIds, PrepareLeaseLapses(t) PROVE Goal
    BY <1>6, SameDelivers DEF PrepareLeaseLapses, LeaseLapses
  <1>7. ASSUME NEW r \in Runtimes, RuntimeStep(r) PROVE Goal
    BY <1>7, SameDelivers DEF RuntimeStep, RecoverOrphans, RecoverOrphansFails, Heartbeat, HeartbeatsMissed,
       RecoverOrphanedTasks, RuntimesSeen, HeartbeatsStop, vars, dvars
  <1>8. CASE UNCHANGED allVars
    BY <1>8, SameDelivers DEF allVars, vars, dvars
  <1> QED
    BY <1>1, <1>2, <1>3, <1>4, <1>5, <1>6, <1>7, <1>8 DEF DNext

\* A fault is counted, within its bound.
LEMMA FaultOK == ASSUME DaemonsOK, NEW kind, Fault(kind) PROVE faults' \in 0..MaxFaults
  BY DaemonBounds DEF DaemonsOK, Fault

\* Every step leaves the processes well typed.
LEMMA DaemonsNext == DaemonsOK /\ [DNext]_allVars => DaemonsOK'
  <1> SUFFICES ASSUME DaemonsOK, [DNext]_allVars PROVE DaemonsOK'
    OBVIOUS
  <1>0. ASSUME UNCHANGED <<daemon, polling, recover>>, UNCHANGED faults \/ \E kind : Fault(kind) PROVE DaemonsOK'
    BY <1>0, FaultOK DEF DaemonsOK
  <1>1. CASE Server
    BY <1>0, <1>1 DEF Server, dvars
  <1>2. ASSUME NEW d \in Daemons, Poll(d) PROVE DaemonsOK'
    BY <1>2 DEF Poll, PollBegin, PollEnd, PollReclaim, PollClaim, DaemonsOK
  <1>3. ASSUME NEW d \in Daemons, Process(d) PROVE DaemonsOK'
    <2>1. faults' \in 0..MaxFaults
      BY <1>3, FaultOK DEF Process, DaemonCrash, DaemonStops, DaemonExits, DaemonStarts, ReregisterAfterRuntimeGone,
         StartupDone, DaemonsOK
    <2>2. daemon' \in [Daemons -> {"down", "starting", "up", "stopping"}]
      BY <1>3 DEF Process, DaemonCrash, DaemonStops, DaemonExits, DaemonStarts, ReregisterAfterRuntimeGone,
         StartupDone, DaemonsOK
    <2>3. polling' \subseteq Daemons /\ recover' \subseteq Runtimes
      BY <1>3 DEF Process, DaemonCrash, DaemonStops, DaemonExits, DaemonStarts, ReregisterAfterRuntimeGone,
         StartupDone, DaemonsOK, Hosted
    <2> QED
      BY <2>1, <2>2, <2>3 DEF DaemonsOK
  <1>4. ASSUME NEW g \in Gens, ClaimHandler(g) PROVE DaemonsOK'
    BY <1>0, <1>4 DEF ClaimHandler, FinalizeTaskClaim, ClaimResponseLost, FinalizeFails, ClaimBuildFails,
       AbandonedHandlerEnds
  <1>5. ASSUME NEW g \in Gens, HandleTask(g) PROVE DaemonsOK'
    BY <1>0, <1>5 DEF HandleTask, ExtendLease, WaitForLocalDirectory, LocalDirectoryAcquired, RunTaskStarts,
       StartResponseLost, RunTaskReturns, RunTaskFails, ShouldInterruptAgent, ReportComplete, ReportFail,
       ReportDropped, dvars
  <1>6. ASSUME NEW t \in TaskIds, PrepareLeaseLapses(t) PROVE DaemonsOK'
    BY <1>0, <1>6 DEF PrepareLeaseLapses
  <1>7. ASSUME NEW r \in Runtimes, RuntimeStep(r) PROVE DaemonsOK'
    <2>1. faults' \in 0..MaxFaults
      BY <1>7, FaultOK DEF RuntimeStep, RecoverOrphans, RecoverOrphansFails, Heartbeat, HeartbeatsMissed, dvars, DaemonsOK
    <2> QED
      BY <1>7, <2>1 DEF RuntimeStep, RecoverOrphans, RecoverOrphansFails, Heartbeat, HeartbeatsMissed, dvars, DaemonsOK
  <1>8. CASE UNCHANGED allVars
    BY <1>0, <1>8 DEF allVars, dvars
  <1> QED
    BY <1>1, <1>2, <1>3, <1>4, <1>5, <1>6, <1>7, <1>8 DEF DNext

\* A step leaves one delivery per dispatched_at that was handed out.
LEMMA DeliveredNext ==
  ASSUME TypeOK, ClaimsOK, Delivered, [DNext]_allVars PROVE Delivered'
  <1>0. clock \in 0..MaxClaims /\ claim \in [Gens -> Delivery] /\ MaxClaims \in Nat
    BY BoundsType DEF TypeOK, ClaimsOK
  <1>1. CASE NoDelivery
    BY <1>1 DEF NoDelivery, Delivered, TaskOf, At
  <1>2. CASE OneDelivery
    <2>1. PICK t \in TaskIds, ph \in {"handler", "gone"} :
              Deliver(clock + 1, t, ph) /\ clock < MaxClaims /\ clock' = clock + 1
      BY <1>2 DEF OneDelivery
    <2>2. clock + 1 \in Gens /\ t # 0 /\ ph # "none"
      BY <1>0, <2>1, BoundsType DEF Gens, TaskIds
    <2>3. /\ claim'[clock + 1].task = t /\ claim'[clock + 1].phase = ph
          /\ \A g \in Gens \ {clock + 1} : claim'[g] = claim[g]
      BY <1>0, <2>1, <2>2 DEF Deliver
    <2>4. \A g \in Gens \ {clock + 1} : g <= clock' <=> g <= clock
      BY <1>0, <2>1 DEF Gens
    <2>5. ASSUME NEW g \in Gens PROVE /\ claim'[g].task # 0 <=> g <= clock'
                                      /\ claim'[g].phase # "none" <=> g <= clock'
      <3>1. CASE g = clock + 1
        BY <1>0, <2>1, <2>2, <2>3, <3>1
      <3>2. CASE g # clock + 1
        BY <2>3, <2>4, <3>2 DEF Delivered, TaskOf, At
      <3> QED
        BY <3>1, <3>2
    <2> QED
      BY <2>5 DEF Delivered, TaskOf, At
  <1> QED
    BY <1>1, <1>2, DeliveryStep

\* Everything the daemons hold is well typed, and there is exactly one delivery for each
\* dispatched_at handed out: what lets dispatched_at name a delivery in the fences above.
THEOREM DaemonTypeCorrect == DSpec => []DTypeOK
  <1> DEFINE I == RInv /\ DaemonsOK /\ Delivered
  <1>1. DInit => I
    <2> SUFFICES ASSUME DInit PROVE I
      OBVIOUS
    <2>1. RInv
      BY ClaimsInit, TInvInit DEF DInit, RInv, RunsStarted, OneRunPerTask, At, Running
    <2>2. DaemonsOK
      BY DaemonBounds DEF DInit, DaemonsOK
    <2>3. Delivered
      BY DEF DInit, Init, Delivered, TaskOf, At, Gens
    <2> QED
      BY <2>1, <2>2, <2>3
  <1>2. I /\ [DNext]_allVars => I'
    BY RInvNext, DaemonsNext, DeliveredNext DEF RInv, TInv
  <1>3. I => DTypeOK
    BY DEF RInv, ClaimsOK, DaemonsOK, Delivered, DTypeOK
  <1> QED
    BY <1>1, <1>2, <1>3, PTL DEF DSpec

=============================================================================
