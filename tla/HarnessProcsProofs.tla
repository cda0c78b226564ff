------------------------- MODULE HarnessProcsProofs -------------------------
(***************************************************************************)
(* Proofs about the harness processes of a conversation, for any numbers   *)
(* of calls, releases and processes: the reaper spares a turn's process,   *)
(* no process is left behind but those that NoStray names, a call with     *)
(* "any" takes nothing down, and a turn runs on what it asked for.         *)
(*                                                                         *)
(* The invariant says who may hold a process: the spawn lock makes the     *)
(* callers between "close" and "probe" one at a time, and the releases and *)
(* the reaper, which go without the lock, hold what is not registered.     *)
(***************************************************************************)
EXTENDS HarnessProcs, TLAPS

Takers == Releasers \cup {Reaper}

\* Release, the reaper and a turn that releases: they close what they have unregistered.
Taking(t) == t \in Takers \/ (t \in TurnCalls /\ call[t].pc = "release")

\* The spawn lock is had by the call that closes, spawns or waits for its process.
LockHeld == \A g \in Calls : call[g].pc \in {"close", "spawn", "bind", "probe"} => lock = g

OneTurn ==
    \A g, h \in TurnCalls :
        call[g].pc \notin {"new", "over"} /\ call[h].pc \notin {"new", "over"} => g = h

\* A turn that has its client is seen by the reaper.
TurnMarks ==
    \A g \in TurnCalls :
        /\ call[g].pc = "got" => used
        /\ call[g].pc = "turn" => inflight
        /\ call[g].pc \in {"bind", "probe", "got", "turn"} => call[g].p # 0

\* Only turns and create_session ask for a harness, and only a turn releases as a caller.
Asked ==
    /\ \A g \in SideCalls : call[g].asks = "any"
    /\ \A g \in TurnCalls : call[g].pc \notin {"new", "release", "over"} => call[g].asks # "any"
    /\ \A g \in Calls : call[g].pc \in {"spawn", "bind", "probe"} => call[g].asks # "any"
    /\ \A g \in Calls : call[g].pc = "release" => g \in TurnCalls

\* What a turn has is of the kind it asked for.
HasItsKind ==
    \A g \in TurnCalls :
        call[g].pc \in {"bind", "probe", "got", "turn"} =>
            proc[call[g].p] # "none" /\ <<call[g].asks, kind[call[g].p]>> \in Keeps

\* What is registered or being closed was started; what is cleaned up after has exited.
Started ==
    /\ entry # 0 => proc[entry] # "none"
    /\ \A t \in Tasks : /\ shut[t].p # 0 => proc[shut[t].p] # "none"
                        /\ shut[t].p = 0 <=> shut[t].at = "none"
                        /\ shut[t].at = "clean" => proc[shut[t].p] = "dead"

\* A process that is waited for is known to its caller alone.
BindingIsNew ==
    \A g \in Calls : call[g].pc \in {"bind", "probe"} =>
        /\ call[g].p # 0 /\ proc[call[g].p] # "none" /\ entry # call[g].p
        /\ \A t \in Tasks : shut[t].p # call[g].p

\* Nobody closes anything before the step that takes it or after the one that ends.
ShutIsIdle ==
    /\ \A g \in Calls : call[g].pc \notin {"close", "release"} => shut[g].p = 0
    /\ \A r \in Releasers \ released : shut[r].p = 0
    /\ reaper # "closing" => shut[Reaper].p = 0

\* What a release or the reaper closes is not registered.
TakenIsGone == \A t \in Tasks : Taking(t) /\ shut[t].p # 0 => shut[t].p # entry

\* The process that is replaced has exited when the next one is spawned.
ReplacedIsDead ==
    \A g \in Calls :
        /\ call[g].pc \in {"spawn", "bind", "probe"} => entry = 0 \/ proc[entry] = "dead"
        /\ call[g].pc = "close" => entry = 0 \/ shut[g].p = entry \/ proc[entry] = "dead"

\* What a caller closes is still registered, or a release closes it too, or one was cancelled.
ClosedIsHeld ==
    \A g \in Calls : call[g].pc = "close" /\ shut[g].p # 0 /\ Live(shut[g].p) =>
        \/ entry = shut[g].p
        \/ \E t \in Tasks : Taking(t) /\ shut[t].p = shut[g].p
        \/ shut[g].p \in left

ProcsInv ==
    /\ ProcsTypeOK
    /\ LockHeld /\ OneTurn /\ TurnMarks /\ Asked /\ HasItsKind
    /\ Started /\ BindingIsNew /\ ShutIsIdle
    /\ TakenIsGone /\ ReplacedIsDead /\ ClosedIsHeld
    /\ TurnIsSpared /\ NoStray /\ SideCallsAreHarmless

\* The types of the records, as in ProcsTypeOK.
Places == {"new", "release", "lock", "close", "spawn", "bind", "probe", "got", "turn", "over"}
CallRecords == [pc : Places, asks : Kinds \cup {"any"}, p : 0..MaxSpawns]
CloseRecords == [p : 0..MaxSpawns, at : {"none", "client", "wait", "clean"}]

\* A turn asks for its harness, or a call that asked goes on.
CallIs(g, at, k, n) == call' = [call EXCEPT ![g] = [pc |-> at, asks |-> k, p |-> n]]

-----------------------------------------------------------------------------
(***************************************************************************)
(* One lemma per action.  Its first step says what the action does; then   *)
(* come the parts it leaves alone, and those it can disturb one by one.    *)
(***************************************************************************)
\* A turn asks when no other is under way.
LEMMA AskTurnInv ==
  ASSUME ProcsInv, NEW g \in Calls, NEW k \in Kinds, AskTurn(g, k)
  PROVE  ProcsInv'
  <1> USE ProcsTasks, ProcsKinds, ProcsBounds
          DEF ProcsInv, ProcsTypeOK, Calls, Tasks, Procs, Takers, CallIs, ShutTo
  <1>1. /\ g \in TurnCalls
        /\ call[g].pc = "new"
        /\ \A h \in TurnCalls : call[h].pc \in {"new", "over"}
        /\ CallIs(g, "lock", k, 0)
        /\ UNCHANGED <<proc, kind, closed, sock, entry, used, inflight, lock, shut, reaper,
                       released, left, faults>>
    BY DEF AskTurn, world
  <1>2. call' \in [Calls -> CallRecords]
    BY <1>1 DEF CallRecords, Places
  <1>3. ProcsTypeOK'
    BY <1>1, <1>2 DEF CallRecords, Places
  <1>4. (Started /\ TakenIsGone /\ ClosedIsHeld /\ SideCallsAreHarmless)'
    BY <1>1 DEF Started, TakenIsGone, ClosedIsHeld, SideCallsAreHarmless, Live, Taking
  <1>5. (LockHeld /\ OneTurn /\ Asked)'
    BY <1>1 DEF LockHeld, OneTurn, Asked
  <1>6. TurnMarks'
    BY <1>1 DEF TurnMarks, OneTurn, Started
  <1>7. HasItsKind'
    BY <1>1 DEF HasItsKind, TurnMarks, Asked, Started, BindingIsNew
  <1>8. BindingIsNew'
    BY <1>1 DEF BindingIsNew, Started, LockHeld
  <1>9. ShutIsIdle'
    BY <1>1 DEF ShutIsIdle, Started
  <1>10. ReplacedIsDead'
    BY <1>1 DEF ReplacedIsDead, LockHeld, Started, ShutIsIdle
  <1>11. TurnIsSpared'
    BY <1>1 DEF TurnIsSpared, TurnMarks, TakenIsGone, BindingIsNew, ShutIsIdle, Started,
       Taking
  <1>12. NoStray'
    BY <1>1 DEF NoStray, ReplacedIsDead, ClosedIsHeld, Started, LockHeld, BindingIsNew, Asked,
       ShutIsIdle, Live
  <1> QED
    BY <1>3, <1>4, <1>5, <1>6, <1>7, <1>8, <1>9, <1>10, <1>11, <1>12

\* create_session asks while a turn is under way.
LEMMA AskInitInv ==
  ASSUME ProcsInv, NEW g \in Calls, NEW k \in Kinds, AskInit(g, k)
  PROVE  ProcsInv'
  <1> USE ProcsTasks, ProcsKinds, ProcsBounds
          DEF ProcsInv, ProcsTypeOK, Calls, Tasks, Procs, Takers, CallIs, ShutTo
  <1>1. /\ g \in InitCalls
        /\ call[g].pc = "new"
        /\ CallIs(g, "lock", k, 0)
        /\ UNCHANGED <<proc, kind, closed, sock, entry, used, inflight, lock, shut, reaper,
                       released, left, faults>>
    BY DEF AskInit, world
  <1>2. call' \in [Calls -> CallRecords]
    BY <1>1 DEF CallRecords, Places
  <1>3. ProcsTypeOK'
    BY <1>1, <1>2 DEF CallRecords, Places
  <1>4. (Started /\ TakenIsGone /\ ClosedIsHeld /\ SideCallsAreHarmless)'
    BY <1>1 DEF Started, TakenIsGone, ClosedIsHeld, SideCallsAreHarmless, Live, Taking
  <1>5. (LockHeld /\ OneTurn /\ Asked)'
    BY <1>1 DEF LockHeld, OneTurn, Asked
  <1>6. TurnMarks'
    BY <1>1 DEF TurnMarks, OneTurn, Started
  <1>7. HasItsKind'
    BY <1>1 DEF HasItsKind, TurnMarks, Asked, Started, BindingIsNew
  <1>8. BindingIsNew'
    BY <1>1 DEF BindingIsNew, Started, LockHeld
  <1>9. ShutIsIdle'
    BY <1>1 DEF ShutIsIdle, Started
  <1>10. ReplacedIsDead'
    BY <1>1 DEF ReplacedIsDead, LockHeld, Started, ShutIsIdle
  <1>11. TurnIsSpared'
    BY <1>1 DEF TurnIsSpared, TurnMarks, TakenIsGone, BindingIsNew, ShutIsIdle, Started,
       Taking
  <1>12. NoStray'
    BY <1>1 DEF NoStray, ReplacedIsDead, ClosedIsHeld, Started, LockHeld, BindingIsNew, Asked,
       ShutIsIdle, Live
  <1> QED
    BY <1>3, <1>4, <1>5, <1>6, <1>7, <1>8, <1>9, <1>10, <1>11, <1>12

\* Other calls come while a turn is under way; they ask for no harness.
LEMMA AskAnyInv ==
  ASSUME ProcsInv, NEW g \in Calls, AskAny(g)
  PROVE  ProcsInv'
  <1> USE ProcsTasks, ProcsKinds, ProcsBounds
          DEF ProcsInv, ProcsTypeOK, Calls, Tasks, Procs, Takers, CallIs, ShutTo
  <1>1. /\ g \in SideCalls
        /\ call[g].pc = "new"
        /\ CallIs(g, "lock", call[g].asks, call[g].p)
        /\ UNCHANGED <<proc, kind, closed, sock, entry, used, inflight, lock, shut, reaper,
                       released, left, faults>>
    BY DEF AskAny, MoveTo, Goto, world
  <1>2. call' \in [Calls -> CallRecords]
    BY <1>1 DEF CallRecords, Places
  <1>3. ProcsTypeOK'
    BY <1>1, <1>2 DEF CallRecords, Places
  <1>4. (Started /\ TakenIsGone /\ ClosedIsHeld /\ SideCallsAreHarmless)'
    BY <1>1 DEF Started, TakenIsGone, ClosedIsHeld, SideCallsAreHarmless, Live, Taking
  <1>5. (LockHeld /\ OneTurn /\ Asked)'
    BY <1>1 DEF LockHeld, OneTurn, Asked
  <1>6. TurnMarks'
    BY <1>1 DEF TurnMarks, OneTurn, Started
  <1>7. HasItsKind'
    BY <1>1 DEF HasItsKind, TurnMarks, Asked, Started, BindingIsNew
  <1>8. BindingIsNew'
    BY <1>1 DEF BindingIsNew, Started, LockHeld
  <1>9. ShutIsIdle'
    BY <1>1 DEF ShutIsIdle, Started
  <1>10. ReplacedIsDead'
    BY <1>1 DEF ReplacedIsDead, LockHeld, Started, ShutIsIdle
  <1>11. TurnIsSpared'
    BY <1>1 DEF TurnIsSpared, TurnMarks, TakenIsGone, BindingIsNew, ShutIsIdle, Started,
       Taking
  <1>12. NoStray'
    BY <1>1 DEF NoStray, ReplacedIsDead, ClosedIsHeld, Started, LockHeld, BindingIsNew, Asked,
       ShutIsIdle, Live
  <1> QED
    BY <1>3, <1>4, <1>5, <1>6, <1>7, <1>8, <1>9, <1>10, <1>11, <1>12

\* A caller that has the lock: nobody else is between "close" and "bind".
LEMMA get_clientInv ==
  ASSUME ProcsInv, NEW g \in Calls, get_client(g)
  PROVE  ProcsInv'
  <1> USE ProcsTasks, ProcsKinds, ProcsBounds
          DEF ProcsInv, ProcsTypeOK, Calls, Tasks, Procs, Takers, CallIs, ShutTo
  <1>1. CASE Unfit(g)
    <2>1. /\ call[g].pc = "lock"
          /\ lock = Reaper
          /\ entry # 0
          /\ proc[entry] = "dead" \/ call[g].asks # "any"
          /\ lock' = g
          /\ CallIs(g, "close", call[g].asks, call[g].p)
          /\ ShutTo(g, entry, "client")
          /\ UNCHANGED <<proc, kind, closed, sock, entry, used, inflight, reaper, released,
                         left, faults>>
      BY <1>1 DEF get_client, Free, Unfit, Goto, MoveTo, world
    <2>2. call' \in [Calls -> CallRecords]
      BY <1>1, <2>1 DEF CallRecords, Places
    <2>3. shut' \in [Tasks -> CloseRecords]
      BY <1>1, <2>1 DEF CloseRecords
    <2>4. ProcsTypeOK'
      BY <2>1, <2>2, <2>3 DEF CallRecords, Places, CloseRecords
    <2>5. (LockHeld /\ OneTurn /\ Asked)'
      BY <1>1, <2>1 DEF LockHeld, OneTurn, Asked
    <2>6. TurnMarks'
      BY <1>1, <2>1 DEF TurnMarks, OneTurn, Started
    <2>7. HasItsKind'
      BY <1>1, <2>1 DEF HasItsKind, TurnMarks, Asked, Started, BindingIsNew
    <2>8. Started'
      BY <1>1, <2>1 DEF Started, BindingIsNew
    <2>9. BindingIsNew'
      BY <1>1, <2>1 DEF BindingIsNew, Started, LockHeld
    <2>10. ShutIsIdle'
      BY <1>1, <2>1 DEF ShutIsIdle, Started
    <2>11. TakenIsGone'
      BY <1>1, <2>1 DEF TakenIsGone, BindingIsNew, Started, ShutIsIdle, Taking
    <2>12. ReplacedIsDead'
      BY <1>1, <2>1 DEF ReplacedIsDead, LockHeld, Started, ShutIsIdle
    <2>13. ClosedIsHeld'
      BY <1>1, <2>1 DEF ClosedIsHeld, Started, ShutIsIdle, LockHeld, Live, Taking
    <2>14. TurnIsSpared'
      BY <1>1, <2>1 DEF TurnIsSpared, TurnMarks, TakenIsGone, BindingIsNew, ShutIsIdle, Started,
       Taking
    <2>15. NoStray'
      BY <1>1, <2>1 DEF NoStray, ReplacedIsDead, ClosedIsHeld, Started, LockHeld, BindingIsNew,
         Asked, ShutIsIdle, Live
    <2>16. SideCallsAreHarmless'
      BY <1>1, <2>1 DEF SideCallsAreHarmless, Asked, Started
    <2> QED
      BY <2>4, <2>5, <2>6, <2>7, <2>8, <2>9, <2>10, <2>11, <2>12, <2>13, <2>14, <2>15, <2>16
  <1>2. CASE ~Unfit(g) /\ entry # 0
    <2>1. /\ call[g].pc = "lock"
          /\ lock = Reaper
          /\ call[g].asks = "any" \/ <<call[g].asks, kind[entry]>> \in Keeps
          /\ CallIs(g, "got", call[g].asks, entry)
          /\ used'
          /\ UNCHANGED <<proc, kind, closed, sock, entry, inflight, lock, shut, reaper,
                         released, left, faults>>
      BY <1>2 DEF get_client, Free, Unfit, Goto, MoveTo, world
    <2>2. call' \in [Calls -> CallRecords]
      BY <1>2, <2>1 DEF CallRecords, Places
    <2>3. ProcsTypeOK'
      BY <2>1, <2>2 DEF CallRecords, Places
    <2>4. (Started /\ TakenIsGone /\ ClosedIsHeld /\ SideCallsAreHarmless)'
      BY <2>1 DEF Started, TakenIsGone, ClosedIsHeld, SideCallsAreHarmless, Live, Taking
    <2>5. (LockHeld /\ OneTurn /\ Asked)'
      BY <1>2, <2>1 DEF LockHeld, OneTurn, Asked
    <2>6. TurnMarks'
      BY <1>2, <2>1 DEF TurnMarks, OneTurn, Started
    <2>7. HasItsKind'
      BY <1>2, <2>1 DEF HasItsKind, TurnMarks, Asked, Started, BindingIsNew
    <2>8. BindingIsNew'
      BY <1>2, <2>1 DEF BindingIsNew, Started, LockHeld
    <2>9. ShutIsIdle'
      BY <1>2, <2>1 DEF ShutIsIdle, Started
    <2>10. ReplacedIsDead'
      BY <1>2, <2>1 DEF ReplacedIsDead, LockHeld, Started, ShutIsIdle
    <2>11. TurnIsSpared'
      BY <1>2, <2>1 DEF TurnIsSpared, TurnMarks, TakenIsGone, BindingIsNew, ShutIsIdle, Started,
       Taking
    <2>12. NoStray'
      BY <1>2, <2>1 DEF NoStray, ReplacedIsDead, ClosedIsHeld, Started, LockHeld, BindingIsNew,
         Asked, ShutIsIdle, Live
    <2> QED
      BY <2>3, <2>4, <2>5, <2>6, <2>7, <2>8, <2>9, <2>10, <2>11, <2>12
  <1>3. CASE ~Unfit(g) /\ entry = 0 /\ call[g].asks = "any"
    <2>1. /\ call[g].pc = "lock"
          /\ CallIs(g, "over", call[g].asks, call[g].p)
          /\ UNCHANGED <<proc, kind, closed, sock, entry, used, inflight, lock, shut, reaper,
                         released, left, faults>>
      BY <1>3 DEF get_client, Free, Unfit, Goto, MoveTo, world
    <2>2. call' \in [Calls -> CallRecords]
      BY <1>3, <2>1 DEF CallRecords, Places
    <2>3. ProcsTypeOK'
      BY <2>1, <2>2 DEF CallRecords, Places
    <2>4. (Started /\ TakenIsGone /\ ClosedIsHeld /\ SideCallsAreHarmless)'
      BY <2>1 DEF Started, TakenIsGone, ClosedIsHeld, SideCallsAreHarmless, Live, Taking
    <2>5. (LockHeld /\ OneTurn /\ Asked)'
      BY <1>3, <2>1 DEF LockHeld, OneTurn, Asked
    <2>6. TurnMarks'
      BY <1>3, <2>1 DEF TurnMarks, OneTurn, Started
    <2>7. HasItsKind'
      BY <1>3, <2>1 DEF HasItsKind, TurnMarks, Asked, Started, BindingIsNew
    <2>8. BindingIsNew'
      BY <1>3, <2>1 DEF BindingIsNew, Started, LockHeld
    <2>9. ShutIsIdle'
      BY <1>3, <2>1 DEF ShutIsIdle, Started
    <2>10. ReplacedIsDead'
      BY <1>3, <2>1 DEF ReplacedIsDead, LockHeld, Started, ShutIsIdle
    <2>11. TurnIsSpared'
      BY <1>3, <2>1 DEF TurnIsSpared, TurnMarks, TakenIsGone, BindingIsNew, ShutIsIdle, Started,
       Taking
    <2>12. NoStray'
      BY <1>3, <2>1 DEF NoStray, ReplacedIsDead, ClosedIsHeld, Started, LockHeld, BindingIsNew,
         Asked, ShutIsIdle, Live
    <2> QED
      BY <2>3, <2>4, <2>5, <2>6, <2>7, <2>8, <2>9, <2>10, <2>11, <2>12
  <1>4. CASE ~Unfit(g) /\ entry = 0 /\ call[g].asks # "any"
    <2>1. /\ call[g].pc = "lock"
          /\ lock = Reaper
          /\ lock' = g
          /\ CallIs(g, "spawn", call[g].asks, call[g].p)
          /\ UNCHANGED <<proc, kind, closed, sock, entry, used, inflight, shut, reaper,
                         released, left, faults>>
      BY <1>4 DEF get_client, Free, Unfit, Goto, MoveTo, world
    <2>2. call' \in [Calls -> CallRecords]
      BY <1>4, <2>1 DEF CallRecords, Places
    <2>3. ProcsTypeOK'
      BY <2>1, <2>2 DEF CallRecords, Places
    <2>4. (Started /\ TakenIsGone /\ ClosedIsHeld /\ SideCallsAreHarmless)'
      BY <2>1 DEF Started, TakenIsGone, ClosedIsHeld, SideCallsAreHarmless, Live, Taking
    <2>5. (LockHeld /\ OneTurn /\ Asked)'
      BY <1>4, <2>1 DEF LockHeld, OneTurn, Asked
    <2>6. TurnMarks'
      BY <1>4, <2>1 DEF TurnMarks, OneTurn, Started
    <2>7. HasItsKind'
      BY <1>4, <2>1 DEF HasItsKind, TurnMarks, Asked, Started, BindingIsNew
    <2>8. BindingIsNew'
      BY <1>4, <2>1 DEF BindingIsNew, Started, LockHeld
    <2>9. ShutIsIdle'
      BY <1>4, <2>1 DEF ShutIsIdle, Started
    <2>10. ReplacedIsDead'
      BY <1>4, <2>1 DEF ReplacedIsDead, LockHeld, Started, ShutIsIdle
    <2>11. TurnIsSpared'
      BY <1>4, <2>1 DEF TurnIsSpared, TurnMarks, TakenIsGone, BindingIsNew, ShutIsIdle, Started,
       Taking
    <2>12. NoStray'
      BY <1>4, <2>1 DEF NoStray, ReplacedIsDead, ClosedIsHeld, Started, LockHeld, BindingIsNew,
         Asked, ShutIsIdle, Live
    <2> QED
      BY <2>3, <2>4, <2>5, <2>6, <2>7, <2>8, <2>9, <2>10, <2>11, <2>12
  <1> QED
    BY <1>1, <1>2, <1>3, <1>4

\* The entry that was closed has exited, and stays registered.
LEMMA ClosedUnfitInv ==
  ASSUME ProcsInv, NEW g \in Calls, ClosedUnfit(g)
  PROVE  ProcsInv'
  <1> USE ProcsTasks, ProcsKinds, ProcsBounds
          DEF ProcsInv, ProcsTypeOK, Calls, Tasks, Procs, Takers, CallIs, ShutTo
  <1>1. CASE call[g].asks = "any"
    <2>1. /\ call[g].pc = "close"
          /\ shut[g].p = 0
          /\ lock' = Reaper
          /\ CallIs(g, "over", call[g].asks, call[g].p)
          /\ UNCHANGED <<proc, kind, closed, sock, entry, used, inflight, shut, reaper,
                         released, left, faults>>
      BY <1>1 DEF ClosedUnfit, MoveTo, NoClose, Goto, world
    <2>2. call' \in [Calls -> CallRecords]
      BY <1>1, <2>1 DEF CallRecords, Places
    <2>3. ProcsTypeOK'
      BY <2>1, <2>2 DEF CallRecords, Places
    <2>4. (Started /\ TakenIsGone /\ ClosedIsHeld /\ SideCallsAreHarmless)'
      BY <2>1 DEF Started, TakenIsGone, ClosedIsHeld, SideCallsAreHarmless, Live, Taking
    <2>5. (LockHeld /\ OneTurn /\ Asked)'
      BY <1>1, <2>1 DEF LockHeld, OneTurn, Asked
    <2>6. TurnMarks'
      BY <1>1, <2>1 DEF TurnMarks, OneTurn, Started
    <2>7. HasItsKind'
      BY <1>1, <2>1 DEF HasItsKind, TurnMarks, Asked, Started, BindingIsNew
    <2>8. BindingIsNew'
      BY <1>1, <2>1 DEF BindingIsNew, Started, LockHeld
    <2>9. ShutIsIdle'
      BY <1>1, <2>1 DEF ShutIsIdle, Started
    <2>10. ReplacedIsDead'
      BY <1>1, <2>1 DEF ReplacedIsDead, LockHeld, Started, ShutIsIdle
    <2>11. TurnIsSpared'
      BY <1>1, <2>1 DEF TurnIsSpared, TurnMarks, TakenIsGone, BindingIsNew, ShutIsIdle, Started,
       Taking
    <2>12. NoStray'
      BY <1>1, <2>1 DEF NoStray, ReplacedIsDead, ClosedIsHeld, Started, LockHeld, BindingIsNew,
         Asked, ShutIsIdle, Live
    <2> QED
      BY <2>3, <2>4, <2>5, <2>6, <2>7, <2>8, <2>9, <2>10, <2>11, <2>12
  <1>2. CASE call[g].asks # "any"
    <2>1. /\ call[g].pc = "close"
          /\ shut[g].p = 0
          /\ CallIs(g, "spawn", call[g].asks, call[g].p)
          /\ UNCHANGED <<proc, kind, closed, sock, entry, used, inflight, lock, shut, reaper,
                         released, left, faults>>
      BY <1>2 DEF ClosedUnfit, MoveTo, NoClose, Goto, world
    <2>2. call' \in [Calls -> CallRecords]
      BY <1>2, <2>1 DEF CallRecords, Places
    <2>3. ProcsTypeOK'
      BY <2>1, <2>2 DEF CallRecords, Places
    <2>4. (Started /\ TakenIsGone /\ ClosedIsHeld /\ SideCallsAreHarmless)'
      BY <2>1 DEF Started, TakenIsGone, ClosedIsHeld, SideCallsAreHarmless, Live, Taking
    <2>5. (LockHeld /\ OneTurn /\ Asked)'
      BY <1>2, <2>1 DEF LockHeld, OneTurn, Asked
    <2>6. TurnMarks'
      BY <1>2, <2>1 DEF TurnMarks, OneTurn, Started
    <2>7. HasItsKind'
      BY <1>2, <2>1 DEF HasItsKind, TurnMarks, Asked, Started, BindingIsNew
    <2>8. BindingIsNew'
      BY <1>2, <2>1 DEF BindingIsNew, Started, LockHeld
    <2>9. ShutIsIdle'
      BY <1>2, <2>1 DEF ShutIsIdle, Started
    <2>10. ReplacedIsDead'
      BY <1>2, <2>1 DEF ReplacedIsDead, LockHeld, Started, ShutIsIdle
    <2>11. TurnIsSpared'
      BY <1>2, <2>1 DEF TurnIsSpared, TurnMarks, TakenIsGone, BindingIsNew, ShutIsIdle, Started,
       Taking
    <2>12. NoStray'
      BY <1>2, <2>1 DEF NoStray, ReplacedIsDead, ClosedIsHeld, Started, LockHeld, BindingIsNew,
         Asked, ShutIsIdle, Live
    <2> QED
      BY <2>3, <2>4, <2>5, <2>6, <2>7, <2>8, <2>9, <2>10, <2>11, <2>12
  <1> QED
    BY <1>1, <1>2

\* The new process is one that nobody knows yet.
LEMMA SpawnStartsInv ==
  ASSUME ProcsInv, NEW g \in Calls, NEW p \in Procs, SpawnStarts(g, p)
  PROVE  ProcsInv'
  <1> USE ProcsTasks, ProcsKinds, ProcsBounds
          DEF ProcsInv, ProcsTypeOK, Calls, Tasks, Procs, Takers, CallIs, ShutTo
  <1>1. /\ call[g].pc = "spawn"
        /\ proc[p] = "none"
        /\ p # 0
        /\ proc' = [proc EXCEPT ![p] = "starting"]
        /\ kind' = [kind EXCEPT ![p] = call[g].asks]
        /\ sock' = 0
        /\ CallIs(g, "bind", call[g].asks, p)
        /\ UNCHANGED <<closed, entry, used, inflight, lock, shut, reaper, released, left, faults>>
    BY DEF SpawnStarts, MoveTo
  <1>2. call' \in [Calls -> CallRecords]
    BY <1>1 DEF Places, CallRecords
  <1>3. ProcsTypeOK'
    BY <1>1, <1>2 DEF CallRecords, Places, Asked
  <1>4. TakenIsGone'
    BY <1>1 DEF TakenIsGone, Taking
  <1>5. (LockHeld /\ OneTurn /\ Asked)'
    BY <1>1 DEF LockHeld, OneTurn, Asked
  <1>6. TurnMarks'
    BY <1>1 DEF TurnMarks, OneTurn, Started
  <1>7. HasItsKind'
    <2>1. <<call[g].asks, call[g].asks>> \in Keeps
      BY <1>1 DEF Asked
    <2> SUFFICES ASSUME NEW h \in TurnCalls, call'[h].pc \in {"bind", "probe", "got", "turn"}
                 PROVE  /\ proc'[call'[h].p] # "none"
                        /\ <<call'[h].asks, kind'[call'[h].p]>> \in Keeps
      BY DEF HasItsKind
    <2>2. CASE h = g
      BY <1>1, <2>1, <2>2
    <2>3. CASE h # g
      <3>1. /\ call'[h] = call[h] /\ call[h].p \in Procs /\ proc[call[h].p] # "none"
            /\ <<call[h].asks, kind[call[h].p]>> \in Keeps
        BY <1>1, <2>3 DEF HasItsKind, TurnMarks
      <3>2. proc'[call[h].p] = proc[call[h].p] /\ kind'[call[h].p] = kind[call[h].p]
        BY <1>1, <3>1
      <3> QED
        BY <3>1, <3>2
    <2> QED
      BY <2>2, <2>3
  <1>8. Started'
    BY <1>1 DEF Started, BindingIsNew
  <1>9. BindingIsNew'
    BY <1>1 DEF BindingIsNew, Started, LockHeld
  <1>10. ShutIsIdle'
    BY <1>1 DEF ShutIsIdle, Started
  <1>11. ReplacedIsDead'
    BY <1>1 DEF ReplacedIsDead, LockHeld, Started, ShutIsIdle
  <1>12. ClosedIsHeld'
    BY <1>1 DEF ClosedIsHeld, Started, ShutIsIdle, LockHeld, Live, Taking
  <1>13. TurnIsSpared'
    BY <1>1 DEF TurnIsSpared, TurnMarks, TakenIsGone, BindingIsNew, ShutIsIdle, Started,
       Taking
  <1>14. NoStray'
    BY <1>1 DEF NoStray, ReplacedIsDead, ClosedIsHeld, Started, LockHeld, BindingIsNew, Asked,
       ShutIsIdle, Live
  <1>15. SideCallsAreHarmless'
    BY <1>1 DEF SideCallsAreHarmless, Asked, Started
  <1> QED
    BY <1>3, <1>4, <1>5, <1>6, <1>7, <1>8, <1>9, <1>10, <1>11, <1>12, <1>13, <1>14, <1>15

\* The probe changes nothing but where its caller is.
LEMMA SpawnProbedInv ==
  ASSUME ProcsInv, NEW g \in Calls, SpawnProbed(g)
  PROVE  ProcsInv'
  <1> USE ProcsTasks, ProcsKinds, ProcsBounds
          DEF ProcsInv, ProcsTypeOK, Calls, Tasks, Procs, Takers, CallIs, ShutTo
  <1>1. /\ call[g].p \in Procs
        /\ call[g].pc = "bind"
        /\ CallIs(g, "probe", call[g].asks, call[g].p)
        /\ UNCHANGED <<proc, kind, closed, sock, entry, used, inflight, lock, shut, reaper,
                       released, left, faults>>
    BY DEF SpawnProbed, MoveTo, Goto, world, Listening, BindingIsNew
  <1>2. call' \in [Calls -> CallRecords]
    BY <1>1 DEF CallRecords, Places
  <1>3. ProcsTypeOK'
    BY <1>1, <1>2 DEF CallRecords, Places
  <1>4. (LockHeld /\ OneTurn /\ Asked)'
    BY <1>1 DEF LockHeld, OneTurn, Asked
  <1>5. TurnMarks'
    BY <1>1 DEF TurnMarks, OneTurn, Started
  <1>6. HasItsKind'
    BY <1>1 DEF HasItsKind, TurnMarks, Asked, Started, BindingIsNew
  <1>7. Started'
    BY <1>1 DEF Started, BindingIsNew
  <1>8. BindingIsNew'
    BY <1>1 DEF BindingIsNew, Started, LockHeld
  <1>9. ShutIsIdle'
    BY <1>1 DEF ShutIsIdle, Started
  <1>10. TakenIsGone'
    BY <1>1 DEF TakenIsGone, BindingIsNew, Started, ShutIsIdle, Taking
  <1>11. ReplacedIsDead'
    BY <1>1 DEF ReplacedIsDead, LockHeld, Started, ShutIsIdle
  <1>12. ClosedIsHeld'
    BY <1>1 DEF ClosedIsHeld, Started, ShutIsIdle, LockHeld, Live, Taking
  <1>13. TurnIsSpared'
    BY <1>1 DEF TurnIsSpared, TurnMarks, TakenIsGone, BindingIsNew, ShutIsIdle, Started, Taking
  <1>14. NoStray'
    BY <1>1 DEF NoStray, ReplacedIsDead, ClosedIsHeld, Started, LockHeld, BindingIsNew, Asked,
       ShutIsIdle, Live
  <1>15. SideCallsAreHarmless'
    BY <1>1 DEF SideCallsAreHarmless, Asked, Started
  <1> QED
    BY <1>3, <1>4, <1>5, <1>6, <1>7, <1>8, <1>9, <1>10, <1>11, <1>12, <1>13, <1>14, <1>15

\* What is replaced as the entry has exited.
LEMMA SpawnReadyInv ==
  ASSUME ProcsInv, NEW g \in Calls, SpawnReady(g)
  PROVE  ProcsInv'
  <1> USE ProcsTasks, ProcsKinds, ProcsBounds
          DEF ProcsInv, ProcsTypeOK, Calls, Tasks, Procs, Takers, CallIs, ShutTo
  <1>1. /\ call[g].p \in Procs
        /\ call[g].pc = "probe"
        /\ entry' = call[g].p
        /\ used'
        /\ lock' = Reaper
        /\ CallIs(g, "got", call[g].asks, call[g].p)
        /\ UNCHANGED <<proc, kind, closed, sock, inflight, shut, reaper, released, left, faults>>
    BY DEF SpawnReady, MoveTo, Goto, world, BindingIsNew
  <1>2. call' \in [Calls -> CallRecords]
    BY <1>1 DEF CallRecords, Places
  <1>3. ProcsTypeOK'
    BY <1>1, <1>2 DEF CallRecords, Places
  <1>4. SideCallsAreHarmless'
    BY <1>1 DEF SideCallsAreHarmless
  <1>5. (LockHeld /\ OneTurn /\ Asked)'
    BY <1>1 DEF LockHeld, OneTurn, Asked
  <1>6. TurnMarks'
    BY <1>1 DEF TurnMarks, OneTurn, Started
  <1>7. HasItsKind'
    BY <1>1 DEF HasItsKind, TurnMarks, Asked, Started, BindingIsNew
  <1>8. Started'
    BY <1>1 DEF Started, BindingIsNew
  <1>9. BindingIsNew'
    BY <1>1 DEF BindingIsNew, Started, LockHeld
  <1>10. ShutIsIdle'
    BY <1>1 DEF ShutIsIdle, Started
  <1>11. TakenIsGone'
    BY <1>1 DEF TakenIsGone, BindingIsNew, Started, ShutIsIdle, Taking
  <1>12. ReplacedIsDead'
    BY <1>1 DEF ReplacedIsDead, LockHeld, Started, ShutIsIdle
  <1>13. ClosedIsHeld'
    BY <1>1 DEF ClosedIsHeld, Started, ShutIsIdle, LockHeld, Live, Taking
  <1>14. TurnIsSpared'
    BY <1>1 DEF TurnIsSpared, TurnMarks, TakenIsGone, BindingIsNew, ShutIsIdle, Started,
       Taking
  <1>15. NoStray'
    BY <1>1 DEF NoStray, ReplacedIsDead, ClosedIsHeld, Started, LockHeld, BindingIsNew, Asked,
       ShutIsIdle, Live
  <1> QED
    BY <1>3, <1>4, <1>5, <1>6, <1>7, <1>8, <1>9, <1>10, <1>11, <1>12, <1>13, <1>14, <1>15

\* The process whose socket is gone is left.
LEMMA HardenFailsInv ==
  ASSUME ProcsInv, NEW g \in Calls, HardenFails(g)
  PROVE  ProcsInv'
  <1> USE ProcsTasks, ProcsKinds, ProcsBounds
          DEF ProcsInv, ProcsTypeOK, Calls, Tasks, Procs, Takers, CallIs, ShutTo
  <1>1. /\ call[g].p \in Procs
        /\ call[g].pc = "probe"
        /\ lock' = Reaper
        /\ CallIs(g, "over", call[g].asks, 0)
        /\ left' = left \cup {call[g].p}
        /\ UNCHANGED <<proc, kind, closed, sock, entry, used, inflight, shut, reaper, released,
                       faults>>
    BY DEF HardenFails, MoveTo, Done, world, BindingIsNew
  <1>2. call' \in [Calls -> CallRecords]
    BY <1>1 DEF CallRecords, Places
  <1>3. ProcsTypeOK'
    BY <1>1, <1>2 DEF CallRecords, Places
  <1>4. (LockHeld /\ OneTurn /\ Asked)'
    BY <1>1 DEF LockHeld, OneTurn, Asked
  <1>5. TurnMarks'
    BY <1>1 DEF TurnMarks, OneTurn, Started
  <1>6. HasItsKind'
    BY <1>1 DEF HasItsKind, TurnMarks, Asked, Started, BindingIsNew
  <1>7. Started'
    BY <1>1 DEF Started, BindingIsNew
  <1>8. BindingIsNew'
    BY <1>1 DEF BindingIsNew, Started, LockHeld
  <1>9. ShutIsIdle'
    BY <1>1 DEF ShutIsIdle, Started
  <1>10. TakenIsGone'
    BY <1>1 DEF TakenIsGone, BindingIsNew, Started, ShutIsIdle, Taking
  <1>11. ReplacedIsDead'
    BY <1>1 DEF ReplacedIsDead, LockHeld, Started, ShutIsIdle
  <1>12. ClosedIsHeld'
    BY <1>1 DEF ClosedIsHeld, Started, ShutIsIdle, LockHeld, Live, Taking
  <1>13. TurnIsSpared'
    BY <1>1 DEF TurnIsSpared, TurnMarks, TakenIsGone, BindingIsNew, ShutIsIdle, Started, Taking
  <1>14. NoStray'
    BY <1>1 DEF NoStray, ReplacedIsDead, ClosedIsHeld, Started, LockHeld, BindingIsNew, Asked,
       ShutIsIdle, Live
  <1>15. SideCallsAreHarmless'
    BY <1>1 DEF SideCallsAreHarmless, Asked, Started
  <1> QED
    BY <1>3, <1>4, <1>5, <1>6, <1>7, <1>8, <1>9, <1>10, <1>11, <1>12, <1>13, <1>14, <1>15

\* The process of a failed spawn is dead.
LEMMA SpawnFailsInv ==
  ASSUME ProcsInv, NEW g \in Calls, SpawnFails(g)
  PROVE  ProcsInv'
  <1> USE ProcsTasks, ProcsKinds, ProcsBounds
          DEF ProcsInv, ProcsTypeOK, Calls, Tasks, Procs, Takers, CallIs, ShutTo
  <1>1. /\ call[g].p \in Procs
        /\ call[g].pc = "bind"
        /\ proc' = [proc EXCEPT ![call[g].p] = "dead"]
        /\ lock' = Reaper
        /\ CallIs(g, "over", call[g].asks, 0)
        /\ faults' \in 0..MaxFaults
        /\ UNCHANGED <<kind, closed, sock, entry, used, inflight, shut, reaper, released, left>>
    BY DEF SpawnFails, MoveTo, Done, Faulty, BindingIsNew
  <1>2. call' \in [Calls -> CallRecords]
    BY <1>1 DEF Places, CallRecords
  <1>3. ProcsTypeOK'
    BY <1>1, <1>2 DEF CallRecords, Places
  <1>4. TakenIsGone'
    BY <1>1 DEF TakenIsGone, Taking
  <1>5. (LockHeld /\ OneTurn /\ Asked)'
    BY <1>1 DEF LockHeld, OneTurn, Asked
  <1>6. TurnMarks'
    BY <1>1 DEF TurnMarks, OneTurn, Started
  <1>7. HasItsKind'
    BY <1>1 DEF HasItsKind, TurnMarks, Asked, Started, BindingIsNew
  <1>8. Started'
    BY <1>1 DEF Started, BindingIsNew
  <1>9. BindingIsNew'
    BY <1>1 DEF BindingIsNew, Started, LockHeld
  <1>10. ShutIsIdle'
    BY <1>1 DEF ShutIsIdle, Started
  <1>11. ReplacedIsDead'
    BY <1>1 DEF ReplacedIsDead, LockHeld, Started, ShutIsIdle
  <1>12. ClosedIsHeld'
    BY <1>1 DEF ClosedIsHeld, Started, ShutIsIdle, LockHeld, Live, Taking
  <1>13. TurnIsSpared'
    BY <1>1 DEF TurnIsSpared, TurnMarks, TakenIsGone, BindingIsNew, ShutIsIdle, Started,
       Taking
  <1>14. NoStray'
    BY <1>1 DEF NoStray, ReplacedIsDead, ClosedIsHeld, Started, LockHeld, BindingIsNew, Asked,
       ShutIsIdle, Live
  <1>15. SideCallsAreHarmless'
    BY <1>1 DEF SideCallsAreHarmless, Asked, Started
  <1> QED
    BY <1>3, <1>4, <1>5, <1>6, <1>7, <1>8, <1>9, <1>10, <1>11, <1>12, <1>13, <1>14, <1>15

\* A cancelled call leaves the process it was waiting for.
LEMMA SpawnCancelledInv ==
  ASSUME ProcsInv, NEW g \in Calls, SpawnCancelled(g)
  PROVE  ProcsInv'
  <1> USE ProcsTasks, ProcsKinds, ProcsBounds
          DEF ProcsInv, ProcsTypeOK, Calls, Tasks, Procs, Takers, CallIs, ShutTo
  <1>1. CASE call[g].pc \in {"lock", "spawn"}
    <2>1. /\ call[g].pc \in {"lock", "spawn"}
          /\ lock' = IF call[g].pc = "lock" THEN lock ELSE Reaper
          /\ CallIs(g, "over", call[g].asks, 0)
          /\ faults' \in 0..MaxFaults
          /\ UNCHANGED <<proc, kind, closed, sock, entry, used, inflight, shut, reaper, released,
                         left>>
      BY <1>1 DEF SpawnCancelled, MoveTo, Done, world, Faulty
    <2>2. call' \in [Calls -> CallRecords]
      BY <1>1, <2>1 DEF CallRecords, Places
    <2>3. ProcsTypeOK'
      BY <2>1, <2>2 DEF CallRecords, Places
    <2>4. (LockHeld /\ OneTurn /\ Asked)'
      BY <1>1, <2>1 DEF LockHeld, OneTurn, Asked
    <2>5. TurnMarks'
      BY <1>1, <2>1 DEF TurnMarks, OneTurn, Started
    <2>6. HasItsKind'
      BY <1>1, <2>1 DEF HasItsKind, TurnMarks, Asked, Started, BindingIsNew
    <2>7. Started'
      BY <1>1, <2>1 DEF Started, BindingIsNew
    <2>8. BindingIsNew'
      BY <1>1, <2>1 DEF BindingIsNew, Started, LockHeld
    <2>9. ShutIsIdle'
      BY <1>1, <2>1 DEF ShutIsIdle, Started
    <2>10. TakenIsGone'
      BY <1>1, <2>1 DEF TakenIsGone, BindingIsNew, Started, ShutIsIdle, Taking
    <2>11. ReplacedIsDead'
      BY <1>1, <2>1 DEF ReplacedIsDead, LockHeld, Started, ShutIsIdle
    <2>12. ClosedIsHeld'
      BY <1>1, <2>1 DEF ClosedIsHeld, Started, ShutIsIdle, LockHeld, Live, Taking
    <2>13. TurnIsSpared'
      BY <1>1, <2>1 DEF TurnIsSpared, TurnMarks, TakenIsGone, BindingIsNew, ShutIsIdle, Started,
         Taking
    <2>14. NoStray'
      BY <1>1, <2>1 DEF NoStray, ReplacedIsDead, ClosedIsHeld, Started, LockHeld, BindingIsNew,
         Asked, ShutIsIdle, Live
    <2>15. SideCallsAreHarmless'
      BY <1>1, <2>1 DEF SideCallsAreHarmless, Asked, Started
    <2> QED
      BY <2>3, <2>4, <2>5, <2>6, <2>7, <2>8, <2>9, <2>10, <2>11, <2>12, <2>13, <2>14, <2>15
  <1>2. CASE call[g].pc \in {"bind", "probe"}
    <2>1. /\ call[g].p \in Procs
          /\ call[g].pc \in {"bind", "probe"}
          /\ lock' = Reaper
          /\ CallIs(g, "over", call[g].asks, 0)
          /\ left' = left \cup {call[g].p}
          /\ faults' \in 0..MaxFaults
          /\ UNCHANGED <<proc, kind, closed, sock, entry, used, inflight, shut, reaper, released>>
      BY <1>2 DEF SpawnCancelled, MoveTo, Done, world, Faulty, BindingIsNew
    <2>2. call' \in [Calls -> CallRecords]
      BY <1>2, <2>1 DEF CallRecords, Places
    <2>3. ProcsTypeOK'
      BY <2>1, <2>2 DEF CallRecords, Places
    <2>4. (LockHeld /\ OneTurn /\ Asked)'
      BY <1>2, <2>1 DEF LockHeld, OneTurn, Asked
    <2>5. TurnMarks'
      BY <1>2, <2>1 DEF TurnMarks, OneTurn, Started
    <2>6. HasItsKind'
      BY <1>2, <2>1 DEF HasItsKind, TurnMarks, Asked, Started, BindingIsNew
    <2>7. Started'
      BY <1>2, <2>1 DEF Started, BindingIsNew
    <2>8. BindingIsNew'
      BY <1>2, <2>1 DEF BindingIsNew, Started, LockHeld
    <2>9. ShutIsIdle'
      BY <1>2, <2>1 DEF ShutIsIdle, Started
    <2>10. TakenIsGone'
      BY <1>2, <2>1 DEF TakenIsGone, BindingIsNew, Started, ShutIsIdle, Taking
    <2>11. ReplacedIsDead'
      BY <1>2, <2>1 DEF ReplacedIsDead, LockHeld, Started, ShutIsIdle
    <2>12. ClosedIsHeld'
      BY <1>2, <2>1 DEF ClosedIsHeld, Started, ShutIsIdle, LockHeld, Live, Taking
    <2>13. TurnIsSpared'
      BY <1>2, <2>1 DEF TurnIsSpared, TurnMarks, TakenIsGone, BindingIsNew, ShutIsIdle, Started,
         Taking
    <2>14. NoStray'
      BY <1>2, <2>1 DEF NoStray, ReplacedIsDead, ClosedIsHeld, Started, LockHeld, BindingIsNew,
         Asked, ShutIsIdle, Live
    <2>15. SideCallsAreHarmless'
      BY <1>2, <2>1 DEF SideCallsAreHarmless, Asked, Started
    <2> QED
      BY <2>3, <2>4, <2>5, <2>6, <2>7, <2>8, <2>9, <2>10, <2>11, <2>12, <2>13, <2>14, <2>15
  <1> QED
    BY <1>1, <1>2 DEF SpawnCancelled

\* A turn that opens its stream is marked in flight.
LEMMA TurnOpensInv ==
  ASSUME ProcsInv, NEW g \in Calls, TurnOpens(g)
  PROVE  ProcsInv'
  <1> USE ProcsTasks, ProcsKinds, ProcsBounds
          DEF ProcsInv, ProcsTypeOK, Calls, Tasks, Procs, Takers, CallIs, ShutTo
  <1>1. /\ g \in TurnCalls
        /\ call[g].pc = "got"
        /\ inflight'
        /\ CallIs(g, "turn", call[g].asks, call[g].p)
        /\ UNCHANGED <<proc, kind, closed, sock, entry, used, lock, shut, reaper, released,
                       left, faults>>
    BY DEF TurnOpens, MoveTo, Goto, world, Listening
  <1>2. call' \in [Calls -> CallRecords]
    BY <1>1 DEF CallRecords, Places
  <1>3. ProcsTypeOK'
    BY <1>1, <1>2 DEF CallRecords, Places
  <1>4. (Started /\ TakenIsGone /\ ClosedIsHeld /\ SideCallsAreHarmless)'
    BY <1>1 DEF Started, TakenIsGone, ClosedIsHeld, SideCallsAreHarmless, Live, Taking
  <1>5. (LockHeld /\ OneTurn /\ Asked)'
    BY <1>1 DEF LockHeld, OneTurn, Asked
  <1>6. TurnMarks'
    BY <1>1 DEF TurnMarks, OneTurn, Started
  <1>7. HasItsKind'
    BY <1>1 DEF HasItsKind, TurnMarks, Asked, Started, BindingIsNew
  <1>8. BindingIsNew'
    BY <1>1 DEF BindingIsNew, Started, LockHeld
  <1>9. ShutIsIdle'
    BY <1>1 DEF ShutIsIdle, Started
  <1>10. ReplacedIsDead'
    BY <1>1 DEF ReplacedIsDead, LockHeld, Started, ShutIsIdle
  <1>11. TurnIsSpared'
    BY <1>1 DEF TurnIsSpared, TurnMarks, TakenIsGone, BindingIsNew, ShutIsIdle, Started,
       Taking
  <1>12. NoStray'
    BY <1>1 DEF NoStray, ReplacedIsDead, ClosedIsHeld, Started, LockHeld, BindingIsNew, Asked,
       ShutIsIdle, Live
  <1> QED
    BY <1>3, <1>4, <1>5, <1>6, <1>7, <1>8, <1>9, <1>10, <1>11, <1>12

\* A turn that ends takes the mark away: it is the only one.
LEMMA clear_in_flightInv ==
  ASSUME ProcsInv, NEW g \in Calls, clear_in_flight(g)
  PROVE  ProcsInv'
  <1> USE ProcsTasks, ProcsKinds, ProcsBounds
          DEF ProcsInv, ProcsTypeOK, Calls, Tasks, Procs, Takers, CallIs, ShutTo
  <1>1. /\ g \in TurnCalls
        /\ call[g].pc \in {"got", "turn"}
        /\ inflight' = FALSE
        /\ CallIs(g, "over", call[g].asks, 0)
        /\ UNCHANGED <<proc, kind, closed, sock, entry, used, lock, shut, reaper, released,
                       left, faults>>
    BY DEF clear_in_flight, MoveTo, Done, world, Listening
  <1>2. call' \in [Calls -> CallRecords]
    BY <1>1 DEF Places, CallRecords
  <1>3. ProcsTypeOK'
    BY <1>1, <1>2 DEF CallRecords, Places
  <1>4. (Started /\ TakenIsGone /\ ClosedIsHeld /\ SideCallsAreHarmless)'
    BY <1>1 DEF Started, TakenIsGone, ClosedIsHeld, SideCallsAreHarmless, Live, Taking
  <1>5. (LockHeld /\ OneTurn /\ Asked)'
    BY <1>1 DEF LockHeld, OneTurn, Asked
  <1>6. TurnMarks'
    BY <1>1 DEF TurnMarks, OneTurn, Started
  <1>7. HasItsKind'
    BY <1>1 DEF HasItsKind, TurnMarks, Asked, Started, BindingIsNew
  <1>8. BindingIsNew'
    BY <1>1 DEF BindingIsNew, Started, LockHeld
  <1>9. ShutIsIdle'
    BY <1>1 DEF ShutIsIdle, Started
  <1>10. ReplacedIsDead'
    BY <1>1 DEF ReplacedIsDead, LockHeld, Started, ShutIsIdle
  <1>11. TurnIsSpared'
    BY <1>1 DEF TurnIsSpared, TurnMarks, TakenIsGone, BindingIsNew, ShutIsIdle, Started,
       Taking
  <1>12. NoStray'
    BY <1>1 DEF NoStray, ReplacedIsDead, ClosedIsHeld, Started, LockHeld, BindingIsNew, Asked,
       ShutIsIdle, Live
  <1> QED
    BY <1>3, <1>4, <1>5, <1>6, <1>7, <1>8, <1>9, <1>10, <1>11, <1>12

\* A call that is done holds no process.
LEMMA SidePostsInv ==
  ASSUME ProcsInv, NEW g \in Calls, SidePosts(g)
  PROVE  ProcsInv'
  <1> USE ProcsTasks, ProcsKinds, ProcsBounds
          DEF ProcsInv, ProcsTypeOK, Calls, Tasks, Procs, Takers, CallIs, ShutTo
  <1>1. /\ g \in InitCalls \cup SideCalls
        /\ call[g].pc = "got"
        /\ CallIs(g, "over", call[g].asks, 0)
        /\ UNCHANGED <<proc, kind, closed, sock, entry, used, inflight, lock, shut, reaper,
                       released, left, faults>>
    BY DEF SidePosts, MoveTo, Done, world
  <1>2. call' \in [Calls -> CallRecords]
    BY <1>1 DEF Places, CallRecords
  <1>3. ProcsTypeOK'
    BY <1>1, <1>2 DEF CallRecords, Places
  <1>4. (Started /\ TakenIsGone /\ ClosedIsHeld /\ SideCallsAreHarmless)'
    BY <1>1 DEF Started, TakenIsGone, ClosedIsHeld, SideCallsAreHarmless, Live, Taking
  <1>5. (LockHeld /\ OneTurn /\ Asked)'
    BY <1>1 DEF LockHeld, OneTurn, Asked
  <1>6. TurnMarks'
    BY <1>1 DEF TurnMarks, OneTurn, Started
  <1>7. HasItsKind'
    BY <1>1 DEF HasItsKind, TurnMarks, Asked, Started, BindingIsNew
  <1>8. BindingIsNew'
    BY <1>1 DEF BindingIsNew, Started, LockHeld
  <1>9. ShutIsIdle'
    BY <1>1 DEF ShutIsIdle, Started
  <1>10. ReplacedIsDead'
    BY <1>1 DEF ReplacedIsDead, LockHeld, Started, ShutIsIdle
  <1>11. TurnIsSpared'
    BY <1>1 DEF TurnIsSpared, TurnMarks, TakenIsGone, BindingIsNew, ShutIsIdle, Started,
       Taking
  <1>12. NoStray'
    BY <1>1 DEF NoStray, ReplacedIsDead, ClosedIsHeld, Started, LockHeld, BindingIsNew, Asked,
       ShutIsIdle, Live
  <1> QED
    BY <1>3, <1>4, <1>5, <1>6, <1>7, <1>8, <1>9, <1>10, <1>11, <1>12

\* The signal goes to a process that runs; one that has exited stays dead.
LEMMA CloseClientInv ==
  ASSUME ProcsInv, NEW t \in Tasks, CloseClient(t)
  PROVE  ProcsInv'
  <1> USE ProcsTasks, ProcsKinds, ProcsBounds
          DEF ProcsInv, ProcsTypeOK, Calls, Tasks, Procs, Takers, CallIs, ShutTo
  <1>1. CASE Live(shut[t].p)
    <2>1. /\ shut[t].at = "client"
          /\ shut[t].p \in Procs
          /\ proc[shut[t].p] \in {"starting", "up", "term"}
          /\ closed' = closed \cup {shut[t].p}
          /\ proc' = [proc EXCEPT ![shut[t].p] = "term"]
          /\ ShutTo(t, shut[t].p, "wait")
          /\ faults' \in 0..MaxFaults
          /\ UNCHANGED <<kind, sock, entry, used, inflight, lock, call, reaper, released, left>>
      BY <1>1 DEF CloseClient, CloseStep, Faulty, Live, Started
    <2>2. shut' \in [Tasks -> CloseRecords]
      BY <1>1, <2>1 DEF CloseRecords
    <2>3. ProcsTypeOK'
      BY <2>1, <2>2 DEF CloseRecords
    <2>4. (LockHeld /\ OneTurn /\ TurnMarks /\ Asked)'
      BY <2>1 DEF LockHeld, OneTurn, TurnMarks, Asked
    <2>5. HasItsKind'
      BY <1>1, <2>1 DEF HasItsKind, TurnMarks, Asked, Started, BindingIsNew
    <2>6. Started'
      BY <1>1, <2>1 DEF Started, BindingIsNew
    <2>7. BindingIsNew'
      BY <1>1, <2>1 DEF BindingIsNew, Started, LockHeld
    <2>8. ShutIsIdle'
      BY <1>1, <2>1 DEF ShutIsIdle, Started
    <2>9. TakenIsGone'
      BY <1>1, <2>1 DEF TakenIsGone, BindingIsNew, Started, ShutIsIdle, Taking
    <2>10. ReplacedIsDead'
      BY <1>1, <2>1 DEF ReplacedIsDead, LockHeld, Started, ShutIsIdle
    <2>11. ClosedIsHeld'
      <3> SUFFICES ASSUME NEW h \in Calls,
                          (call[h].pc = "close" /\ shut[h].p # 0 /\ Live(shut[h].p))'
                   PROVE  (\/ entry = shut[h].p \/ shut[h].p \in left
                           \/ \E u \in Tasks : Taking(u) /\ shut[u].p = shut[h].p)'
        BY DEF ClosedIsHeld
      <3>1. call[h].pc = "close" /\ shut[h].p # 0 /\ Live(shut[h].p) /\ shut'[h].p = shut[h].p
        BY <1>1, <2>1 DEF Live
      <3>2. CASE entry = shut[h].p \/ shut[h].p \in left
        BY <1>1, <2>1, <3>1, <3>2
      <3>3. CASE \E u \in Tasks : Taking(u) /\ shut[u].p = shut[h].p
        <4>1. PICK u \in Tasks : Taking(u) /\ shut[u].p = shut[h].p
          BY <3>3
        <4>2. Taking(u)' /\ shut'[u].p = shut[u].p
          BY <1>1, <2>1, <3>1, <4>1 DEF Started, ShutIsIdle, Taking
        <4> QED
          BY <3>1, <4>1, <4>2
      <3> QED
        BY <3>1, <3>2, <3>3 DEF ClosedIsHeld
    <2>12. TurnIsSpared'
      BY <1>1, <2>1 DEF TurnIsSpared, TurnMarks, TakenIsGone, BindingIsNew, ShutIsIdle, Started,
       Taking
    <2>13. NoStray'
      BY <1>1, <2>1 DEF NoStray, ReplacedIsDead, ClosedIsHeld, Started, LockHeld, BindingIsNew,
         Asked, ShutIsIdle, Live
    <2>14. SideCallsAreHarmless'
      BY <1>1, <2>1 DEF SideCallsAreHarmless, Asked, Started
    <2> QED
      BY <2>3, <2>4, <2>5, <2>6, <2>7, <2>8, <2>9, <2>10, <2>11, <2>12, <2>13, <2>14
  <1>2. CASE ~Live(shut[t].p)
    <2>1. /\ shut[t].at = "client"
          /\ shut[t].p \in Procs
          /\ proc[shut[t].p] = "dead"
          /\ closed' = closed \cup {shut[t].p}
          /\ ShutTo(t, shut[t].p, "clean")
          /\ faults' \in 0..MaxFaults
          /\ UNCHANGED <<proc, kind, sock, entry, used, inflight, lock, call, reaper, released,
                         left>>
      BY <1>2 DEF CloseClient, CloseStep, Faulty, Live, Started
    <2>2. shut' \in [Tasks -> CloseRecords]
      BY <1>2, <2>1 DEF CloseRecords
    <2>3. ProcsTypeOK'
      BY <2>1, <2>2 DEF CloseRecords
    <2>4. (LockHeld /\ OneTurn /\ TurnMarks /\ Asked /\ HasItsKind)'
      BY <2>1 DEF LockHeld, OneTurn, TurnMarks, Asked, HasItsKind
    <2>5. Started'
      BY <1>2, <2>1 DEF Started, BindingIsNew
    <2>6. BindingIsNew'
      BY <1>2, <2>1 DEF BindingIsNew, Started, LockHeld
    <2>7. ShutIsIdle'
      BY <1>2, <2>1 DEF ShutIsIdle, Started
    <2>8. TakenIsGone'
      BY <1>2, <2>1 DEF TakenIsGone, BindingIsNew, Started, ShutIsIdle, Taking
    <2>9. ReplacedIsDead'
      BY <1>2, <2>1 DEF ReplacedIsDead, LockHeld, Started, ShutIsIdle
    <2>10. ClosedIsHeld'
      BY <1>2, <2>1 DEF ClosedIsHeld, Started, ShutIsIdle, LockHeld, Live, Taking
    <2>11. TurnIsSpared'
      BY <1>2, <2>1 DEF TurnIsSpared, TurnMarks, TakenIsGone, BindingIsNew, ShutIsIdle, Started,
       Taking
    <2>12. NoStray'
      BY <1>2, <2>1 DEF NoStray, ReplacedIsDead, ClosedIsHeld, Started, LockHeld, BindingIsNew,
         Asked, ShutIsIdle, Live
    <2>13. SideCallsAreHarmless'
      BY <1>2, <2>1 DEF SideCallsAreHarmless, Asked, Started
    <2> QED
      BY <2>3, <2>4, <2>5, <2>6, <2>7, <2>8, <2>9, <2>10, <2>11, <2>12, <2>13
  <1> QED
    BY <1>1, <1>2

\* What was signalled is dead after the wait.
LEMMA CloseWaitedInv ==
  ASSUME ProcsInv, NEW t \in Tasks, CloseWaited(t)
  PROVE  ProcsInv'
  <1> USE ProcsTasks, ProcsKinds, ProcsBounds
          DEF ProcsInv, ProcsTypeOK, Calls, Tasks, Procs, Takers, CallIs, ShutTo
  <1>1. /\ shut[t].at = "wait"
        /\ shut[t].p \in Procs
        /\ proc' = [proc EXCEPT ![shut[t].p] = "dead"]
        /\ ShutTo(t, shut[t].p, "clean")
        /\ UNCHANGED <<kind, closed, sock, faults, entry, used, inflight, lock, call, reaper,
                       released, left>>
    BY DEF CloseWaited, CloseStep, Started
  <1>2. shut' \in [Tasks -> CloseRecords]
    BY <1>1 DEF CloseRecords
  <1>3. ProcsTypeOK'
    BY <1>1, <1>2 DEF CloseRecords
  <1>4. (LockHeld /\ OneTurn /\ TurnMarks /\ Asked)'
    BY <1>1 DEF LockHeld, OneTurn, TurnMarks, Asked
  <1>5. HasItsKind'
    BY <1>1 DEF HasItsKind, TurnMarks, Asked, Started, BindingIsNew
  <1>6. Started'
    BY <1>1 DEF Started, BindingIsNew
  <1>7. BindingIsNew'
    BY <1>1 DEF BindingIsNew, Started, LockHeld
  <1>8. ShutIsIdle'
    BY <1>1 DEF ShutIsIdle, Started
  <1>9. TakenIsGone'
    BY <1>1 DEF TakenIsGone, BindingIsNew, Started, ShutIsIdle, Taking
  <1>10. ReplacedIsDead'
    BY <1>1 DEF ReplacedIsDead, LockHeld, Started, ShutIsIdle
  <1>11. ClosedIsHeld'
    <2> SUFFICES ASSUME NEW h \in Calls, (call[h].pc = "close" /\ shut[h].p # 0 /\ Live(shut[h].p))'
                 PROVE  (\/ entry = shut[h].p \/ shut[h].p \in left
                         \/ \E u \in Tasks : Taking(u) /\ shut[u].p = shut[h].p)'
      BY DEF ClosedIsHeld
    <2>1. call[h].pc = "close" /\ shut[h].p # 0 /\ Live(shut[h].p) /\ shut'[h].p = shut[h].p
      BY <1>1 DEF Live
    <2>2. CASE entry = shut[h].p \/ shut[h].p \in left
      BY <1>1, <2>1, <2>2
    <2>3. CASE \E u \in Tasks : Taking(u) /\ shut[u].p = shut[h].p
      <3>1. PICK u \in Tasks : Taking(u) /\ shut[u].p = shut[h].p
        BY <2>3
      <3>2. Taking(u)' /\ shut'[u].p = shut[u].p
        BY <1>1, <2>1, <3>1 DEF Started, ShutIsIdle, Taking
      <3> QED
        BY <2>1, <3>1, <3>2
    <2> QED
      BY <2>1, <2>2, <2>3 DEF ClosedIsHeld
  <1>12. TurnIsSpared'
    BY <1>1 DEF TurnIsSpared, TurnMarks, TakenIsGone, BindingIsNew, ShutIsIdle, Started,
       Taking
  <1>13. NoStray'
    BY <1>1 DEF NoStray, ReplacedIsDead, ClosedIsHeld, Started, LockHeld, BindingIsNew, Asked,
       ShutIsIdle, Live
  <1>14. SideCallsAreHarmless'
    BY <1>1 DEF SideCallsAreHarmless, Asked, Started
  <1> QED
    BY <1>3, <1>4, <1>5, <1>6, <1>7, <1>8, <1>9, <1>10, <1>11, <1>12, <1>13, <1>14

\* A close ends when its process is dead.
LEMMA CloseCleansInv ==
  ASSUME ProcsInv, NEW t \in Tasks, CloseCleans(t)
  PROVE  ProcsInv'
  <1> USE ProcsTasks, ProcsKinds, ProcsBounds
          DEF ProcsInv, ProcsTypeOK, Calls, Tasks, Procs, Takers, CallIs, ShutTo
  <1>1. /\ shut[t].at = "clean"
        /\ shut[t].p \in Procs
        /\ sock' = 0
        /\ ShutTo(t, 0, "none")
        /\ UNCHANGED <<proc, kind, closed, faults, entry, used, inflight, lock, call, reaper,
                       released, left>>
    BY DEF CloseCleans, CloseStep, Started
  <1>2. shut' \in [Tasks -> CloseRecords]
    BY <1>1 DEF CloseRecords
  <1>3. ProcsTypeOK'
    BY <1>1, <1>2 DEF CloseRecords
  <1>4. (LockHeld /\ OneTurn /\ TurnMarks /\ Asked /\ HasItsKind)'
    BY <1>1 DEF LockHeld, OneTurn, TurnMarks, Asked, HasItsKind
  <1>5. Started'
    BY <1>1 DEF Started, BindingIsNew
  <1>6. BindingIsNew'
    BY <1>1 DEF BindingIsNew, Started, LockHeld
  <1>7. ShutIsIdle'
    BY <1>1 DEF ShutIsIdle, Started
  <1>8. TakenIsGone'
    BY <1>1 DEF TakenIsGone, BindingIsNew, Started, ShutIsIdle, Taking
  <1>9. ReplacedIsDead'
    BY <1>1 DEF ReplacedIsDead, LockHeld, Started, ShutIsIdle
  <1>10. ClosedIsHeld'
    BY <1>1 DEF ClosedIsHeld, Started, ShutIsIdle, LockHeld, Live, Taking
  <1>11. TurnIsSpared'
    BY <1>1 DEF TurnIsSpared, TurnMarks, TakenIsGone, BindingIsNew, ShutIsIdle, Started,
       Taking
  <1>12. NoStray'
    BY <1>1 DEF NoStray, ReplacedIsDead, ClosedIsHeld, Started, LockHeld, BindingIsNew, Asked,
       ShutIsIdle, Live
  <1>13. SideCallsAreHarmless'
    BY <1>1 DEF SideCallsAreHarmless, Asked, Started
  <1> QED
    BY <1>3, <1>4, <1>5, <1>6, <1>7, <1>8, <1>9, <1>10, <1>11, <1>12, <1>13

\* A cancelled close leaves its process to the entry, or to whoever released it; a cancelled
\* release leaves it to nobody.
LEMMA CloseCancelledInv ==
  ASSUME ProcsInv, NEW t \in Tasks, CloseCancelled(t)
  PROVE  ProcsInv'
  <1> USE ProcsTasks, ProcsKinds, ProcsBounds
          DEF ProcsInv, ProcsTypeOK, Calls, Tasks, Procs, Takers, CallIs, ShutTo
  <1>1. CASE t \in Calls /\ call[t].pc = "close"
    <2>1. /\ t \in Calls
          /\ call[t].pc = "close"
          /\ t # Reaper
          /\ shut[t].p \in Procs
          /\ ShutTo(t, 0, "none")
          /\ faults' \in 0..MaxFaults
          /\ lock' = Reaper
          /\ CallIs(t, "over", call[t].asks, 0)
          /\ UNCHANGED <<proc, kind, closed, sock, entry, used, inflight, reaper, released, left>>
      BY <1>1 DEF CloseCancelled, MoveTo, Done, world, Faulty, Started
    <2>2. call' \in [Calls -> CallRecords]
      BY <1>1, <2>1 DEF CallRecords, Places
    <2>3. shut' \in [Tasks -> CloseRecords]
      BY <1>1, <2>1 DEF CloseRecords
    <2>4. ProcsTypeOK'
      BY <2>1, <2>2, <2>3 DEF CallRecords, Places, CloseRecords
    <2>5. (LockHeld /\ OneTurn /\ Asked)'
      BY <1>1, <2>1 DEF LockHeld, OneTurn, Asked
    <2>6. TurnMarks'
      BY <1>1, <2>1 DEF TurnMarks, OneTurn, Started
    <2>7. HasItsKind'
      BY <1>1, <2>1 DEF HasItsKind, TurnMarks, Asked, Started, BindingIsNew
    <2>8. Started'
      BY <1>1, <2>1 DEF Started, BindingIsNew
    <2>9. BindingIsNew'
      BY <1>1, <2>1 DEF BindingIsNew, Started, LockHeld
    <2>10. ShutIsIdle'
      BY <1>1, <2>1 DEF ShutIsIdle, Started
    <2>11. TakenIsGone'
      BY <1>1, <2>1 DEF TakenIsGone, BindingIsNew, Started, ShutIsIdle, Taking
    <2>12. ReplacedIsDead'
      BY <1>1, <2>1 DEF ReplacedIsDead, LockHeld, Started, ShutIsIdle
    <2>13. ClosedIsHeld'
      BY <1>1, <2>1 DEF ClosedIsHeld, Started, ShutIsIdle, LockHeld, Live, Taking
    <2>14. TurnIsSpared'
      BY <1>1, <2>1 DEF TurnIsSpared, TurnMarks, TakenIsGone, BindingIsNew, ShutIsIdle, Started,
         Taking
    <2>15. NoStray'
      <3> SUFFICES ASSUME NEW p \in Procs, Live(p)
                   PROVE  \/ entry' = p
                          \/ \E u \in Tasks : shut'[u].p = p
                          \/ \E h \in Calls : call'[h].pc \in {"bind", "probe"} /\ call'[h].p = p
                          \/ p \in left'
        BY <1>1, <2>1 DEF NoStray, Live
      <3>1. CASE entry = p \/ p \in left
        BY <1>1, <2>1, <3>1
      <3>2. CASE \E h \in Calls : call[h].pc \in {"bind", "probe"} /\ call[h].p = p
        BY <1>1, <2>1, <3>2
      <3>3. CASE \E u \in Tasks \ {t} : shut[u].p = p
        BY <1>1, <2>1, <3>3
      <3>4. CASE shut[t].p = p
        <4>1. \/ entry = p \/ p \in left
              \/ \E u \in Tasks : Taking(u) /\ shut[u].p = p
          <5>1. t \in Calls /\ call[t].pc = "close" /\ shut[t].p # 0 /\ Live(shut[t].p)
            BY <1>1, <2>1, <3>4
          <5> QED
            BY <5>1, <3>4 DEF ClosedIsHeld
        <4>2. ~Taking(t)
          BY <1>1, <2>1 DEF Taking
        <4> QED
          BY <1>1, <2>1, <4>1, <4>2, <3>1, <3>3
      <3> QED
        BY <3>1, <3>2, <3>3, <3>4 DEF NoStray
    <2>16. SideCallsAreHarmless'
      BY <1>1, <2>1 DEF SideCallsAreHarmless, Asked, Started
    <2> QED
      BY <2>4, <2>5, <2>6, <2>7, <2>8, <2>9, <2>10, <2>11, <2>12, <2>13, <2>14, <2>15, <2>16
  <1>2. CASE t \in Calls /\ call[t].pc # "close"
    <2>1. /\ t \in TurnCalls
          /\ call[t].pc = "release"
          /\ t # Reaper
          /\ shut[t].p \in Procs
          /\ ShutTo(t, 0, "none")
          /\ faults' \in 0..MaxFaults
          /\ left' = left \cup {shut[t].p}
          /\ CallIs(t, "over", call[t].asks, 0)
          /\ UNCHANGED <<proc, kind, closed, sock, entry, used, inflight, lock, reaper, released>>
      BY <1>2 DEF CloseCancelled, MoveTo, Done, world, Faulty, Started, ShutIsIdle, Asked
    <2>2. call' \in [Calls -> CallRecords]
      BY <1>2, <2>1 DEF CallRecords, Places
    <2>3. shut' \in [Tasks -> CloseRecords]
      BY <1>2, <2>1 DEF CloseRecords
    <2>4. ProcsTypeOK'
      BY <2>1, <2>2, <2>3 DEF CallRecords, Places, CloseRecords
    <2>5. (LockHeld /\ OneTurn /\ Asked)'
      BY <1>2, <2>1 DEF LockHeld, OneTurn, Asked
    <2>6. TurnMarks'
      BY <1>2, <2>1 DEF TurnMarks, OneTurn, Started
    <2>7. HasItsKind'
      BY <1>2, <2>1 DEF HasItsKind, TurnMarks, Asked, Started, BindingIsNew
    <2>8. Started'
      BY <1>2, <2>1 DEF Started, BindingIsNew
    <2>9. BindingIsNew'
      BY <1>2, <2>1 DEF BindingIsNew, Started, LockHeld
    <2>10. ShutIsIdle'
      BY <1>2, <2>1 DEF ShutIsIdle, Started
    <2>11. TakenIsGone'
      BY <1>2, <2>1 DEF TakenIsGone, BindingIsNew, Started, ShutIsIdle, Taking
    <2>12. ReplacedIsDead'
      BY <1>2, <2>1 DEF ReplacedIsDead, LockHeld, Started, ShutIsIdle
    <2>13. ClosedIsHeld'
      <3> SUFFICES ASSUME NEW h \in Calls,
                          (call[h].pc = "close" /\ shut[h].p # 0 /\ Live(shut[h].p))'
                   PROVE  (\/ entry = shut[h].p \/ shut[h].p \in left
                           \/ \E u \in Tasks : Taking(u) /\ shut[u].p = shut[h].p)'
        BY DEF ClosedIsHeld
      <3>1. h # t /\ call[h].pc = "close" /\ shut[h].p # 0 /\ Live(shut[h].p) /\ shut'[h] = shut[h]
        BY <1>2, <2>1 DEF Live
      <3>2. CASE entry = shut[h].p \/ shut[h].p \in left
        BY <1>2, <2>1, <3>1, <3>2
      <3>3. CASE \E u \in Tasks : Taking(u) /\ shut[u].p = shut[h].p
        <4>1. PICK u \in Tasks : Taking(u) /\ shut[u].p = shut[h].p
          BY <3>3
        <4>2. CASE u = t
          BY <1>2, <2>1, <3>1, <4>1, <4>2
        <4>3. CASE u # t
          <5>1. Taking(u)' /\ shut'[u] = shut[u]
            BY <1>2, <2>1, <4>1, <4>3 DEF Taking
          <5> QED
            BY <3>1, <4>1, <5>1
        <4> QED
          BY <4>2, <4>3
      <3> QED
        BY <3>1, <3>2, <3>3 DEF ClosedIsHeld
    <2>14. TurnIsSpared'
      BY <1>2, <2>1 DEF TurnIsSpared, TurnMarks, TakenIsGone, BindingIsNew, ShutIsIdle, Started,
         Taking
    <2>15. NoStray'
      <3> SUFFICES ASSUME NEW p \in Procs, Live(p)
                   PROVE  \/ entry' = p
                          \/ \E u \in Tasks : shut'[u].p = p
                          \/ \E h \in Calls : call'[h].pc \in {"bind", "probe"} /\ call'[h].p = p
                          \/ p \in left'
        BY <1>2, <2>1 DEF NoStray, Live
      <3>1. CASE entry = p \/ p \in left
        BY <1>2, <2>1, <3>1
      <3>2. CASE \E h \in Calls : call[h].pc \in {"bind", "probe"} /\ call[h].p = p
        BY <1>2, <2>1, <3>2
      <3>3. CASE \E u \in Tasks \ {t} : shut[u].p = p
        BY <1>2, <2>1, <3>3
      <3>4. CASE shut[t].p = p
        BY <1>2, <2>1, <3>4
      <3> QED
        BY <3>1, <3>2, <3>3, <3>4 DEF NoStray
    <2>16. SideCallsAreHarmless'
      BY <1>2, <2>1 DEF SideCallsAreHarmless, Asked, Started
    <2> QED
      BY <2>4, <2>5, <2>6, <2>7, <2>8, <2>9, <2>10, <2>11, <2>12, <2>13, <2>14, <2>15, <2>16
  <1>3. CASE t \notin Calls
    <2>1. /\ t \in Releasers
          /\ t # Reaper
          /\ shut[t].p \in Procs
          /\ ShutTo(t, 0, "none")
          /\ faults' \in 0..MaxFaults
          /\ left' = left \cup {shut[t].p}
          /\ UNCHANGED <<proc, kind, closed, sock, entry, used, inflight, lock, call, reaper,
                         released>>
      BY <1>3 DEF CloseCancelled, MoveTo, Done, world, Faulty, Started
    <2>2. shut' \in [Tasks -> CloseRecords]
      BY <1>3, <2>1 DEF CloseRecords
    <2>3. ProcsTypeOK'
      BY <2>1, <2>2 DEF CloseRecords
    <2>4. (LockHeld /\ OneTurn /\ Asked)'
      BY <1>3, <2>1 DEF LockHeld, OneTurn, Asked
    <2>5. TurnMarks'
      BY <1>3, <2>1 DEF TurnMarks, OneTurn, Started
    <2>6. HasItsKind'
      BY <1>3, <2>1 DEF HasItsKind, TurnMarks, Asked, Started, BindingIsNew
    <2>7. Started'
      BY <1>3, <2>1 DEF Started, BindingIsNew
    <2>8. BindingIsNew'
      BY <1>3, <2>1 DEF BindingIsNew, Started, LockHeld
    <2>9. ShutIsIdle'
      BY <1>3, <2>1 DEF ShutIsIdle, Started
    <2>10. TakenIsGone'
      BY <1>3, <2>1 DEF TakenIsGone, BindingIsNew, Started, ShutIsIdle, Taking
    <2>11. ReplacedIsDead'
      BY <1>3, <2>1 DEF ReplacedIsDead, LockHeld, Started, ShutIsIdle
    <2>12. ClosedIsHeld'
      <3> SUFFICES ASSUME NEW h \in Calls,
                          (call[h].pc = "close" /\ shut[h].p # 0 /\ Live(shut[h].p))'
                   PROVE  (\/ entry = shut[h].p \/ shut[h].p \in left
                           \/ \E u \in Tasks : Taking(u) /\ shut[u].p = shut[h].p)'
        BY DEF ClosedIsHeld
      <3>1. h # t /\ call[h].pc = "close" /\ shut[h].p # 0 /\ Live(shut[h].p) /\ shut'[h] = shut[h]
        BY <1>3, <2>1 DEF Live
      <3>2. CASE entry = shut[h].p \/ shut[h].p \in left
        BY <1>3, <2>1, <3>1, <3>2
      <3>3. CASE \E u \in Tasks : Taking(u) /\ shut[u].p = shut[h].p
        <4>1. PICK u \in Tasks : Taking(u) /\ shut[u].p = shut[h].p
          BY <3>3
        <4>2. CASE u = t
          BY <1>3, <2>1, <3>1, <4>1, <4>2
        <4>3. CASE u # t
          <5>1. Taking(u)' /\ shut'[u] = shut[u]
            BY <1>3, <2>1, <4>1, <4>3 DEF Taking
          <5> QED
            BY <3>1, <4>1, <5>1
        <4> QED
          BY <4>2, <4>3
      <3> QED
        BY <3>1, <3>2, <3>3 DEF ClosedIsHeld
    <2>13. TurnIsSpared'
      BY <1>3, <2>1 DEF TurnIsSpared, TurnMarks, TakenIsGone, BindingIsNew, ShutIsIdle, Started,
         Taking
    <2>14. NoStray'
      <3> SUFFICES ASSUME NEW p \in Procs, Live(p)
                   PROVE  \/ entry' = p
                          \/ \E u \in Tasks : shut'[u].p = p
                          \/ \E h \in Calls : call'[h].pc \in {"bind", "probe"} /\ call'[h].p = p
                          \/ p \in left'
        BY <1>3, <2>1 DEF NoStray, Live
      <3>1. CASE entry = p \/ p \in left
        BY <1>3, <2>1, <3>1
      <3>2. CASE \E h \in Calls : call[h].pc \in {"bind", "probe"} /\ call[h].p = p
        BY <1>3, <2>1, <3>2
      <3>3. CASE \E u \in Tasks \ {t} : shut[u].p = p
        BY <1>3, <2>1, <3>3
      <3>4. CASE shut[t].p = p
        BY <1>3, <2>1, <3>4
      <3> QED
        BY <3>1, <3>2, <3>3, <3>4 DEF NoStray
    <2>15. SideCallsAreHarmless'
      BY <1>3, <2>1 DEF SideCallsAreHarmless, Asked, Started
    <2> QED
      BY <2>3, <2>4, <2>5, <2>6, <2>7, <2>8, <2>9, <2>10, <2>11, <2>12, <2>13, <2>14, <2>15
  <1> QED
    BY <1>1, <1>2, <1>3

\* A turn that releases takes over the entry in the step that unregisters it.
LEMMA TurnReleasesInv ==
  ASSUME ProcsInv, NEW g \in Calls, TurnReleases(g)
  PROVE  ProcsInv'
  <1> USE ProcsTasks, ProcsKinds, ProcsBounds
          DEF ProcsInv, ProcsTypeOK, Calls, Tasks, Procs, Takers, CallIs, ShutTo
  <1>1. /\ g \in TurnCalls
        /\ call[g].pc = "new"
        /\ entry # 0
        /\ entry' = 0
        /\ \A h \in TurnCalls : call[h].pc \in {"new", "over"}
        /\ CallIs(g, "release", call[g].asks, call[g].p)
        /\ ShutTo(g, entry, "client")
        /\ UNCHANGED <<proc, kind, closed, sock, used, inflight, lock, reaper, released, left,
                       faults>>
    BY DEF TurnReleases, MoveTo, Goto, world
  <1>2. call' \in [Calls -> CallRecords]
    BY <1>1 DEF CallRecords, Places
  <1>3. shut' \in [Tasks -> CloseRecords]
    BY <1>1 DEF CloseRecords
  <1>4. ProcsTypeOK'
    BY <1>1, <1>2, <1>3 DEF CallRecords, Places, CloseRecords
  <1>5. (LockHeld /\ OneTurn /\ Asked)'
    BY <1>1 DEF LockHeld, OneTurn, Asked
  <1>6. TurnMarks'
    BY <1>1 DEF TurnMarks, OneTurn, Started
  <1>7. HasItsKind'
    BY <1>1 DEF HasItsKind, TurnMarks, Asked, Started, BindingIsNew
  <1>8. Started'
    BY <1>1 DEF Started, BindingIsNew
  <1>9. BindingIsNew'
    BY <1>1 DEF BindingIsNew, Started, LockHeld
  <1>10. ShutIsIdle'
    BY <1>1 DEF ShutIsIdle, Started
  <1>11. TakenIsGone'
    BY <1>1 DEF TakenIsGone, BindingIsNew, Started, ShutIsIdle, Taking
  <1>12. ReplacedIsDead'
    BY <1>1 DEF ReplacedIsDead, LockHeld, Started, ShutIsIdle
  <1>13. ClosedIsHeld'
    <2> SUFFICES ASSUME NEW h \in Calls,
                        (call[h].pc = "close" /\ shut[h].p # 0 /\ Live(shut[h].p))'
                 PROVE  (\/ entry = shut[h].p \/ shut[h].p \in left
                         \/ \E u \in Tasks : Taking(u) /\ shut[u].p = shut[h].p)'
      BY DEF ClosedIsHeld
    <2>1. h # g /\ call[h].pc = "close" /\ shut[h].p # 0 /\ Live(shut[h].p) /\ shut'[h] = shut[h]
      BY <1>1 DEF Live
    <2>2. CASE entry = shut[h].p
      <3>1. Taking(g)' /\ shut'[g].p = shut'[h].p
        BY <1>1, <2>1, <2>2 DEF Taking
      <3> QED
        BY <3>1
    <2>3. CASE shut[h].p \in left
      BY <1>1, <2>1, <2>3
    <2>4. CASE \E u \in Tasks : Taking(u) /\ shut[u].p = shut[h].p
      <3>1. PICK u \in Tasks : Taking(u) /\ shut[u].p = shut[h].p
        BY <2>4
      <3>2. u # g
        BY <1>1, <3>1 DEF Taking
      <3>3. Taking(u)' /\ shut'[u] = shut[u]
        BY <1>1, <3>1, <3>2 DEF Taking
      <3> QED
        BY <2>1, <3>1, <3>3
    <2> QED
      BY <2>1, <2>2, <2>3, <2>4 DEF ClosedIsHeld
  <1>14. TurnIsSpared'
    BY <1>1 DEF TurnIsSpared, TurnMarks, TakenIsGone, BindingIsNew, ShutIsIdle, Started, Taking
  <1>15. NoStray'
    BY <1>1 DEF NoStray, ReplacedIsDead, ClosedIsHeld, Started, LockHeld, BindingIsNew, Asked,
       ShutIsIdle, Live
  <1>16. SideCallsAreHarmless'
    BY <1>1 DEF SideCallsAreHarmless, Asked, Started
  <1> QED
    BY <1>4, <1>5, <1>6, <1>7, <1>8, <1>9, <1>10, <1>11, <1>12, <1>13, <1>14, <1>15, <1>16

\* A release that is over holds nothing.
LEMMA TurnReleasedInv ==
  ASSUME ProcsInv, NEW g \in Calls, TurnReleased(g)
  PROVE  ProcsInv'
  <1> USE ProcsTasks, ProcsKinds, ProcsBounds
          DEF ProcsInv, ProcsTypeOK, Calls, Tasks, Procs, Takers, CallIs, ShutTo
  <1>1. /\ call[g].pc = "release"
        /\ shut[g].p = 0
        /\ CallIs(g, "new", call[g].asks, call[g].p)
        /\ UNCHANGED <<proc, kind, closed, sock, entry, used, inflight, lock, shut, reaper,
                       released, left, faults>>
    BY DEF TurnReleased, MoveTo, Goto, NoClose, world
  <1>2. call' \in [Calls -> CallRecords]
    BY <1>1 DEF CallRecords, Places
  <1>3. ProcsTypeOK'
    BY <1>1, <1>2 DEF CallRecords, Places
  <1>4. (LockHeld /\ OneTurn /\ Asked)'
    BY <1>1 DEF LockHeld, OneTurn, Asked
  <1>5. TurnMarks'
    BY <1>1 DEF TurnMarks, OneTurn, Started
  <1>6. HasItsKind'
    BY <1>1 DEF HasItsKind, TurnMarks, Asked, Started, BindingIsNew
  <1>7. Started'
    BY <1>1 DEF Started, BindingIsNew
  <1>8. BindingIsNew'
    BY <1>1 DEF BindingIsNew, Started, LockHeld
  <1>9. ShutIsIdle'
    BY <1>1 DEF ShutIsIdle, Started
  <1>10. TakenIsGone'
    BY <1>1 DEF TakenIsGone, BindingIsNew, Started, ShutIsIdle, Taking
  <1>11. ReplacedIsDead'
    BY <1>1 DEF ReplacedIsDead, LockHeld, Started, ShutIsIdle
  <1>12. ClosedIsHeld'
    BY <1>1 DEF ClosedIsHeld, Started, ShutIsIdle, LockHeld, Live, Taking
  <1>13. TurnIsSpared'
    BY <1>1 DEF TurnIsSpared, TurnMarks, TakenIsGone, BindingIsNew, ShutIsIdle, Started, Taking
  <1>14. NoStray'
    BY <1>1 DEF NoStray, ReplacedIsDead, ClosedIsHeld, Started, LockHeld, BindingIsNew, Asked,
       ShutIsIdle, Live
  <1>15. SideCallsAreHarmless'
    BY <1>1 DEF SideCallsAreHarmless, Asked, Started
  <1> QED
    BY <1>3, <1>4, <1>5, <1>6, <1>7, <1>8, <1>9, <1>10, <1>11, <1>12, <1>13, <1>14, <1>15

\* A release takes over the entry in the step that unregisters it.
LEMMA releaseInv ==
  ASSUME ProcsInv, NEW r \in Releasers, release(r)
  PROVE  ProcsInv'
  <1> USE ProcsTasks, ProcsKinds, ProcsBounds
          DEF ProcsInv, ProcsTypeOK, Calls, Tasks, Procs, Takers, CallIs, ShutTo
  <1>1. CASE entry = 0
    <2>1. /\ released' = released \cup {r}
          /\ UNCHANGED <<proc, kind, closed, sock, entry, shut, used, inflight, lock, call,
                         reaper, left, faults>>
      BY <1>1 DEF release, world
    <2>2. ProcsTypeOK'
      BY <2>1
    <2>3. (LockHeld /\ OneTurn /\ TurnMarks /\ Asked /\ HasItsKind /\ Started /\ BindingIsNew
           /\ TakenIsGone /\ ReplacedIsDead /\ ClosedIsHeld /\ TurnIsSpared
           /\ NoStray /\ SideCallsAreHarmless)'
      BY <2>1 DEF LockHeld, OneTurn, TurnMarks, Asked, HasItsKind, Started, BindingIsNew,
         TakenIsGone, ReplacedIsDead, ClosedIsHeld, TurnIsSpared, NoStray, SideCallsAreHarmless,
         Live, Taking
    <2>4. ShutIsIdle'
      BY <1>1, <2>1 DEF ShutIsIdle, Started
    <2> QED
      BY <2>2, <2>3, <2>4
  <1>2. CASE entry # 0
    <2>1. /\ r \notin released
          /\ released' = released \cup {r}
          /\ entry' = 0
          /\ ShutTo(r, entry, "client")
          /\ UNCHANGED <<proc, kind, closed, sock, used, inflight, lock, call, reaper, left,
                         faults>>
      BY <1>2 DEF release, world
    <2>2. shut' \in [Tasks -> CloseRecords]
      BY <1>2, <2>1 DEF CloseRecords
    <2>3. ProcsTypeOK'
      BY <2>1, <2>2 DEF CloseRecords
    <2>4. (LockHeld /\ OneTurn /\ TurnMarks /\ Asked /\ HasItsKind)'
      BY <2>1 DEF LockHeld, OneTurn, TurnMarks, Asked, HasItsKind
    <2>5. Started'
      BY <1>2, <2>1 DEF Started, BindingIsNew
    <2>6. BindingIsNew'
      BY <1>2, <2>1 DEF BindingIsNew, Started, LockHeld
    <2>7. ShutIsIdle'
      BY <1>2, <2>1 DEF ShutIsIdle, Started
    <2>8. TakenIsGone'
      BY <1>2, <2>1 DEF TakenIsGone, BindingIsNew, Started, ShutIsIdle, Taking
    <2>9. ReplacedIsDead'
      BY <1>2, <2>1 DEF ReplacedIsDead, LockHeld, Started, ShutIsIdle
    <2>10. ClosedIsHeld'
      <3> SUFFICES ASSUME NEW h \in Calls,
                          (call[h].pc = "close" /\ shut[h].p # 0 /\ Live(shut[h].p))'
                   PROVE  (\/ entry = shut[h].p \/ shut[h].p \in left
                           \/ \E u \in Tasks : Taking(u) /\ shut[u].p = shut[h].p)'
        BY DEF ClosedIsHeld
      <3>1. call[h].pc = "close" /\ shut[h].p # 0 /\ Live(shut[h].p) /\ shut'[h].p = shut[h].p
        BY <1>2, <2>1 DEF Live
      <3>2. CASE entry = shut[h].p
        <4>1. Taking(r)' /\ shut'[r].p = shut'[h].p
          BY <1>2, <2>1, <3>1, <3>2 DEF Taking
        <4> QED
          BY <4>1
      <3>4. CASE shut[h].p \in left
        BY <1>2, <2>1, <3>1, <3>4
      <3>3. CASE \E u \in Tasks : Taking(u) /\ shut[u].p = shut[h].p
        <4>1. PICK u \in Tasks : Taking(u) /\ shut[u].p = shut[h].p
          BY <3>3
        <4>2. Taking(u)' /\ shut'[u].p = shut[u].p
          BY <1>2, <2>1, <3>1, <4>1 DEF Started, ShutIsIdle, Taking
        <4> QED
          BY <3>1, <4>1, <4>2
      <3> QED
        BY <3>1, <3>2, <3>3, <3>4 DEF ClosedIsHeld
    <2>11. TurnIsSpared'
      BY <1>2, <2>1 DEF TurnIsSpared, TurnMarks, TakenIsGone, BindingIsNew, ShutIsIdle, Started,
       Taking
    <2>12. NoStray'
      BY <1>2, <2>1 DEF NoStray, ReplacedIsDead, ClosedIsHeld, Started, LockHeld, BindingIsNew,
         Asked, ShutIsIdle, Live
    <2>13. SideCallsAreHarmless'
      BY <1>2, <2>1 DEF SideCallsAreHarmless, Asked, Started
    <2> QED
      BY <2>3, <2>4, <2>5, <2>6, <2>7, <2>8, <2>9, <2>10, <2>11, <2>12, <2>13
  <1> QED
    BY <1>1, <1>2

\* The idle time does not pass over a turn that has its client.
LEMMA IdleTimePassesInv ==
  ASSUME ProcsInv, IdleTimePasses
  PROVE  ProcsInv'
  <1> USE ProcsTasks, ProcsKinds, ProcsBounds
          DEF ProcsInv, ProcsTypeOK, Calls, Tasks, Procs, Takers, CallIs, ShutTo
  <1>1. /\ \A g \in TurnCalls : call[g].pc # "got"
        /\ used' = FALSE
        /\ UNCHANGED <<proc, kind, closed, sock, entry, inflight, lock, call, shut, reaper,
                       released, left, faults>>
    BY DEF IdleTimePasses, world
  <1>2. ProcsTypeOK'
    BY <1>1
  <1>3. (LockHeld /\ OneTurn /\ Asked /\ HasItsKind /\ Started /\ BindingIsNew /\ ShutIsIdle
         /\ TakenIsGone /\ ReplacedIsDead /\ ClosedIsHeld /\ TurnIsSpared
         /\ NoStray /\ SideCallsAreHarmless)'
    BY <1>1 DEF LockHeld, OneTurn, Asked, HasItsKind, Started, BindingIsNew, ShutIsIdle,
       TakenIsGone, ReplacedIsDead, ClosedIsHeld, TurnIsSpared, NoStray, SideCallsAreHarmless,
       Live, Taking
  <1>4. TurnMarks'
    BY <1>1 DEF TurnMarks, OneTurn, Started
  <1> QED
    BY <1>2, <1>3, <1>4

\* A listing takes nothing.
LEMMA idle_reaper_loopInv ==
  ASSUME ProcsInv, _idle_reaper_loop
  PROVE  ProcsInv'
  <1> USE ProcsTasks, ProcsKinds, ProcsBounds
          DEF ProcsInv, ProcsTypeOK, Calls, Tasks, Procs, Takers, CallIs, ShutTo
  <1>1. /\ reaper = "sleep"
        /\ reaper' = "listed"
        /\ UNCHANGED <<proc, kind, closed, sock, entry, used, inflight, lock, call, shut,
                       released, left, faults>>
    BY DEF _idle_reaper_loop, world
  <1>2. ProcsTypeOK'
    BY <1>1
  <1>3. (LockHeld /\ OneTurn /\ TurnMarks /\ Asked /\ HasItsKind /\ Started /\ BindingIsNew
         /\ TakenIsGone /\ ReplacedIsDead /\ ClosedIsHeld /\ TurnIsSpared
         /\ NoStray /\ SideCallsAreHarmless)'
    BY <1>1 DEF LockHeld, OneTurn, TurnMarks, Asked, HasItsKind, Started, BindingIsNew,
       TakenIsGone, ReplacedIsDead, ClosedIsHeld, TurnIsSpared, NoStray, SideCallsAreHarmless,
       Live, Taking
  <1>4. ShutIsIdle'
    BY <1>1 DEF ShutIsIdle, Started
  <1> QED
    BY <1>2, <1>3, <1>4

\* The reaper takes the entry only when no turn has it.
LEMMA ReapListedInv ==
  ASSUME ProcsInv, ReapListed
  PROVE  ProcsInv'
  <1> USE ProcsTasks, ProcsKinds, ProcsBounds
          DEF ProcsInv, ProcsTypeOK, Calls, Tasks, Procs, Takers, CallIs, ShutTo
  <1>1. CASE entry = 0 \/ used \/ inflight
    <2>1. /\ reaper = "listed"
          /\ reaper' = "sleep"
          /\ UNCHANGED <<proc, kind, closed, sock, entry, shut, used, inflight, lock, call,
                         released, left, faults>>
      BY <1>1 DEF ReapListed, world
    <2>2. ProcsTypeOK'
      BY <2>1
    <2>3. (LockHeld /\ OneTurn /\ TurnMarks /\ Asked /\ HasItsKind /\ Started /\ BindingIsNew
           /\ TakenIsGone /\ ReplacedIsDead /\ ClosedIsHeld /\ TurnIsSpared
           /\ NoStray /\ SideCallsAreHarmless)'
      BY <2>1 DEF LockHeld, OneTurn, TurnMarks, Asked, HasItsKind, Started, BindingIsNew,
         TakenIsGone, ReplacedIsDead, ClosedIsHeld, TurnIsSpared, NoStray, SideCallsAreHarmless,
         Live, Taking
    <2>4. ShutIsIdle'
      BY <1>1, <2>1 DEF ShutIsIdle, Started
    <2> QED
      BY <2>2, <2>3, <2>4
  <1>2. CASE ~(entry = 0 \/ used \/ inflight)
    <2>1. /\ reaper = "listed"
          /\ reaper' = "closing"
          /\ entry' = 0
          /\ ShutTo(Reaper, entry, "client")
          /\ UNCHANGED <<proc, kind, closed, sock, used, inflight, lock, call, released, left,
                         faults>>
      BY <1>2 DEF ReapListed, world
    <2>2. shut' \in [Tasks -> CloseRecords]
      BY <1>2, <2>1 DEF CloseRecords
    <2>3. ProcsTypeOK'
      BY <2>1, <2>2 DEF CloseRecords
    <2>4. (LockHeld /\ OneTurn /\ TurnMarks /\ Asked /\ HasItsKind)'
      BY <2>1 DEF LockHeld, OneTurn, TurnMarks, Asked, HasItsKind
    <2>5. Started'
      BY <1>2, <2>1 DEF Started, BindingIsNew
    <2>6. BindingIsNew'
      BY <1>2, <2>1 DEF BindingIsNew, Started, LockHeld
    <2>7. ShutIsIdle'
      BY <1>2, <2>1 DEF ShutIsIdle, Started
    <2>8. TakenIsGone'
      BY <1>2, <2>1 DEF TakenIsGone, BindingIsNew, Started, ShutIsIdle, Taking
    <2>9. ReplacedIsDead'
      BY <1>2, <2>1 DEF ReplacedIsDead, LockHeld, Started, ShutIsIdle
    <2>10. ClosedIsHeld'
      BY <1>2, <2>1 DEF ClosedIsHeld, Started, ShutIsIdle, LockHeld, Live, Taking
    <2>11. TurnIsSpared'
      BY <1>2, <2>1 DEF TurnIsSpared, TurnMarks, TakenIsGone, BindingIsNew, ShutIsIdle, Started,
       Taking
    <2>12. NoStray'
      BY <1>2, <2>1 DEF NoStray, ReplacedIsDead, ClosedIsHeld, Started, LockHeld, BindingIsNew,
         Asked, ShutIsIdle, Live
    <2>13. SideCallsAreHarmless'
      BY <1>2, <2>1 DEF SideCallsAreHarmless, Asked, Started
    <2> QED
      BY <2>3, <2>4, <2>5, <2>6, <2>7, <2>8, <2>9, <2>10, <2>11, <2>12, <2>13
  <1> QED
    BY <1>1, <1>2

\* The reaper is done with its process.
LEMMA ReapedInv ==
  ASSUME ProcsInv, Reaped
  PROVE  ProcsInv'
  <1> USE ProcsTasks, ProcsKinds, ProcsBounds
          DEF ProcsInv, ProcsTypeOK, Calls, Tasks, Procs, Takers, CallIs, ShutTo
  <1>1. /\ shut[Reaper].p = 0
        /\ reaper' = "sleep"
        /\ UNCHANGED <<proc, kind, closed, sock, entry, used, inflight, lock, call, shut,
                       released, left, faults>>
    BY DEF Reaped, NoClose, world
  <1>2. ProcsTypeOK'
    BY <1>1
  <1>3. (LockHeld /\ OneTurn /\ TurnMarks /\ Asked /\ HasItsKind /\ Started /\ BindingIsNew
         /\ TakenIsGone /\ ReplacedIsDead /\ ClosedIsHeld /\ TurnIsSpared
         /\ NoStray /\ SideCallsAreHarmless)'
    BY <1>1 DEF LockHeld, OneTurn, TurnMarks, Asked, HasItsKind, Started, BindingIsNew,
       TakenIsGone, ReplacedIsDead, ClosedIsHeld, TurnIsSpared, NoStray, SideCallsAreHarmless,
       Live, Taking
  <1>4. ShutIsIdle'
    BY <1>1 DEF ShutIsIdle, Started
  <1> QED
    BY <1>2, <1>3, <1>4

\* A process that listens was started.
LEMMA BindsInv ==
  ASSUME ProcsInv, NEW p \in Procs, Binds(p)
  PROVE  ProcsInv'
  <1> USE ProcsTasks, ProcsKinds, ProcsBounds
          DEF ProcsInv, ProcsTypeOK, Calls, Tasks, Procs, Takers, CallIs, ShutTo
  <1>1. /\ proc[p] = "starting"
        /\ proc' = [proc EXCEPT ![p] = "up"]
        /\ sock' = p
        /\ UNCHANGED <<faults, kind, closed, entry, used, inflight, lock, call, shut, reaper,
                       released, left>>
    BY DEF Binds, ProcStep
  <1>2. ProcsTypeOK'
    BY <1>1
  <1>3. (LockHeld /\ OneTurn /\ TurnMarks /\ Asked /\ ShutIsIdle /\ TakenIsGone /\ TurnIsSpared)'
    BY <1>1 DEF LockHeld, OneTurn, TurnMarks, Asked, ShutIsIdle, TakenIsGone, TurnIsSpared, Taking
  <1>4. HasItsKind'
    BY <1>1 DEF HasItsKind, TurnMarks, Asked, Started, BindingIsNew
  <1>5. Started'
    BY <1>1 DEF Started, BindingIsNew
  <1>6. BindingIsNew'
    BY <1>1 DEF BindingIsNew, Started, LockHeld
  <1>7. ReplacedIsDead'
    BY <1>1 DEF ReplacedIsDead, LockHeld, Started, ShutIsIdle
  <1>8. ClosedIsHeld'
    <2> SUFFICES ASSUME NEW h \in Calls, (call[h].pc = "close" /\ shut[h].p # 0 /\ Live(shut[h].p))'
                 PROVE  (\/ entry = shut[h].p \/ shut[h].p \in left
                         \/ \E u \in Tasks : Taking(u) /\ shut[u].p = shut[h].p)'
      BY DEF ClosedIsHeld
    <2>1. call[h].pc = "close" /\ shut[h].p # 0 /\ Live(shut[h].p) /\ shut'[h].p = shut[h].p
      BY <1>1 DEF Live
    <2>2. CASE entry = shut[h].p \/ shut[h].p \in left
      BY <1>1, <2>1, <2>2
    <2>3. CASE \E u \in Tasks : Taking(u) /\ shut[u].p = shut[h].p
      <3>1. PICK u \in Tasks : Taking(u) /\ shut[u].p = shut[h].p
        BY <2>3
      <3>2. Taking(u)' /\ shut'[u].p = shut[u].p
        BY <1>1, <2>1, <3>1 DEF Started, ShutIsIdle, Taking
      <3> QED
        BY <2>1, <3>1, <3>2
    <2> QED
      BY <2>1, <2>2, <2>3 DEF ClosedIsHeld
  <1>9. NoStray'
    BY <1>1 DEF NoStray, ReplacedIsDead, ClosedIsHeld, Started, LockHeld, BindingIsNew, Asked,
       ShutIsIdle, Live
  <1>10. SideCallsAreHarmless'
    BY <1>1 DEF SideCallsAreHarmless, Asked, Started
  <1> QED
    BY <1>2, <1>3, <1>4, <1>5, <1>6, <1>7, <1>8, <1>9, <1>10

\* A process that crashes is dead, whoever has it.
LEMMA CrashesInv ==
  ASSUME ProcsInv, NEW p \in Procs, Crashes(p)
  PROVE  ProcsInv'
  <1> USE ProcsTasks, ProcsKinds, ProcsBounds
          DEF ProcsInv, ProcsTypeOK, Calls, Tasks, Procs, Takers, CallIs, ShutTo
  <1>1. /\ proc[p] \in {"starting", "up"}
        /\ proc' = [proc EXCEPT ![p] = "dead"]
        /\ faults' \in 0..MaxFaults
        /\ UNCHANGED <<sock, kind, closed, entry, used, inflight, lock, call, shut, reaper,
                       released, left>>
    BY DEF Crashes, ProcStep, Faulty
  <1>2. ProcsTypeOK'
    BY <1>1
  <1>3. (LockHeld /\ OneTurn /\ TurnMarks /\ Asked /\ ShutIsIdle /\ TakenIsGone /\ TurnIsSpared)'
    BY <1>1 DEF LockHeld, OneTurn, TurnMarks, Asked, ShutIsIdle, TakenIsGone, TurnIsSpared, Taking
  <1>4. HasItsKind'
    BY <1>1 DEF HasItsKind, TurnMarks, Asked, Started, BindingIsNew
  <1>5. Started'
    BY <1>1 DEF Started, BindingIsNew
  <1>6. BindingIsNew'
    BY <1>1 DEF BindingIsNew, Started, LockHeld
  <1>7. ReplacedIsDead'
    BY <1>1 DEF ReplacedIsDead, LockHeld, Started, ShutIsIdle
  <1>8. ClosedIsHeld'
    BY <1>1 DEF ClosedIsHeld, Started, ShutIsIdle, LockHeld, Live, Taking
  <1>9. NoStray'
    BY <1>1 DEF NoStray, ReplacedIsDead, ClosedIsHeld, Started, LockHeld, BindingIsNew, Asked,
       ShutIsIdle, Live
  <1>10. SideCallsAreHarmless'
    BY <1>1 DEF SideCallsAreHarmless, Asked, Started
  <1> QED
    BY <1>2, <1>3, <1>4, <1>5, <1>6, <1>7, <1>8, <1>9, <1>10

\* A process that exits is dead, whoever has it.
LEMMA ExitsInv ==
  ASSUME ProcsInv, NEW p \in Procs, Exits(p)
  PROVE  ProcsInv'
  <1> USE ProcsTasks, ProcsKinds, ProcsBounds
          DEF ProcsInv, ProcsTypeOK, Calls, Tasks, Procs, Takers, CallIs, ShutTo
  <1>1. /\ proc[p] = "term"
        /\ proc' = [proc EXCEPT ![p] = "dead"]
        /\ sock' \in 0..MaxSpawns
        /\ UNCHANGED <<faults, kind, closed, entry, used, inflight, lock, call, shut, reaper,
                       released, left>>
    BY DEF Exits, ProcStep
  <1>2. ProcsTypeOK'
    BY <1>1
  <1>3. (LockHeld /\ OneTurn /\ TurnMarks /\ Asked /\ ShutIsIdle /\ TakenIsGone /\ TurnIsSpared)'
    BY <1>1 DEF LockHeld, OneTurn, TurnMarks, Asked, ShutIsIdle, TakenIsGone, TurnIsSpared, Taking
  <1>4. HasItsKind'
    BY <1>1 DEF HasItsKind, TurnMarks, Asked, Started, BindingIsNew
  <1>5. Started'
    BY <1>1 DEF Started, BindingIsNew
  <1>6. BindingIsNew'
    BY <1>1 DEF BindingIsNew, Started, LockHeld
  <1>7. ReplacedIsDead'
    BY <1>1 DEF ReplacedIsDead, LockHeld, Started, ShutIsIdle
  <1>8. ClosedIsHeld'
    BY <1>1 DEF ClosedIsHeld, Started, ShutIsIdle, LockHeld, Live, Taking
  <1>9. NoStray'
    BY <1>1 DEF NoStray, ReplacedIsDead, ClosedIsHeld, Started, LockHeld, BindingIsNew, Asked,
       ShutIsIdle, Live
  <1>10. SideCallsAreHarmless'
    BY <1>1 DEF SideCallsAreHarmless, Asked, Started
  <1> QED
    BY <1>2, <1>3, <1>4, <1>5, <1>6, <1>7, <1>8, <1>9, <1>10

-----------------------------------------------------------------------------
\* A manager that has just been made keeps the invariant.
LEMMA ProcsInvInit == ProcsInit => ProcsInv
  <1> SUFFICES ASSUME ProcsInit PROVE ProcsInv
    OBVIOUS
  <1> USE ProcsTasks, ProcsBounds DEF ProcsInit, NoClose, Calls, Tasks, Procs, Takers
  <1>a. call \in [Calls -> CallRecords]
    BY DEF CallRecords, Places
  <1>b. shut \in [Tasks -> CloseRecords]
    BY DEF CloseRecords
  <1>c. used \in BOOLEAN /\ inflight \in BOOLEAN /\ reaper \in {"sleep", "listed", "closing"}
    OBVIOUS
  <1>1. ProcsTypeOK
    BY <1>a, <1>b, <1>c DEF ProcsTypeOK, CallRecords, CloseRecords, Places
  <1>2. LockHeld /\ OneTurn /\ TurnMarks /\ Asked /\ HasItsKind
    BY DEF LockHeld, OneTurn, TurnMarks, Asked, HasItsKind
  <1>3. Started /\ BindingIsNew /\ ShutIsIdle /\ TakenIsGone
    BY DEF Started, BindingIsNew, ShutIsIdle, TakenIsGone
  <1>4. ReplacedIsDead /\ ClosedIsHeld /\ TurnIsSpared /\ NoStray /\ SideCallsAreHarmless
    BY DEF ReplacedIsDead, ClosedIsHeld, TurnIsSpared, NoStray, SideCallsAreHarmless, Live, Taking
  <1> QED
    BY <1>1, <1>2, <1>3, <1>4 DEF ProcsInv

\* Every step keeps the invariant.
LEMMA ProcsInvNext == ProcsInv /\ [ProcsNext]_pvars => ProcsInv'
  <1> SUFFICES ASSUME ProcsInv, [ProcsNext]_pvars PROVE ProcsInv'
    OBVIOUS
  <1>1. CASE UNCHANGED pvars
    BY <1>1 DEF pvars, ProcsInv, ProcsTypeOK, LockHeld, OneTurn, TurnMarks, Asked, HasItsKind,
                Started, BindingIsNew, ShutIsIdle, TakenIsGone, ReplacedIsDead, ClosedIsHeld,
                TurnIsSpared, NoStray, SideCallsAreHarmless, Live, Taking
  <1>2. ASSUME NEW g \in Calls,
               \/ \E k \in Kinds : AskTurn(g, k) \/ AskInit(g, k)
               \/ AskAny(g) \/ get_client(g) \/ ClosedUnfit(g)
               \/ \E p \in Procs : SpawnStarts(g, p)
               \/ SpawnProbed(g) \/ SpawnReady(g) \/ HardenFails(g)
               \/ SpawnFails(g) \/ SpawnCancelled(g)
               \/ TurnReleases(g) \/ TurnReleased(g)
               \/ TurnOpens(g) \/ clear_in_flight(g) \/ SidePosts(g)
        PROVE  ProcsInv'
    BY <1>2, AskTurnInv, AskInitInv, AskAnyInv, get_clientInv, ClosedUnfitInv, SpawnStartsInv,
       SpawnProbedInv, SpawnReadyInv, HardenFailsInv, SpawnFailsInv, SpawnCancelledInv,
       TurnReleasesInv, TurnReleasedInv, TurnOpensInv, clear_in_flightInv, SidePostsInv
  <1>3. ASSUME NEW t \in Tasks,
               CloseClient(t) \/ CloseWaited(t) \/ CloseCleans(t) \/ CloseCancelled(t)
        PROVE  ProcsInv'
    BY <1>3, CloseClientInv, CloseWaitedInv, CloseCleansInv, CloseCancelledInv
  <1>4. ASSUME NEW r \in Releasers, release(r)
        PROVE  ProcsInv'
    BY <1>4, releaseInv
  <1>5. CASE IdleTimePasses \/ _idle_reaper_loop \/ ReapListed \/ Reaped
    BY <1>5, IdleTimePassesInv, idle_reaper_loopInv, ReapListedInv, ReapedInv
  <1>6. ASSUME NEW p \in Procs, Binds(p) \/ Crashes(p) \/ Exits(p)
        PROVE  ProcsInv'
    BY <1>6, BindsInv, CrashesInv, ExitsInv
  <1> QED
    BY <1>1, <1>2, <1>3, <1>4, <1>5, <1>6 DEF ProcsNext

\* The invariant holds in every state the manager reaches.
LEMMA ProcsInvHolds == ProcsSpec => []ProcsInv
  BY ProcsInvInit, ProcsInvNext, PTL DEF ProcsSpec

\* The types of the process manager's state are kept by every step of its callers, of the
\* reaper and of the processes.
THEOREM ProcsTypeCorrect == ProcsSpec => []ProcsTypeOK
  <1>1. ProcsInv => ProcsTypeOK
    BY DEF ProcsInv
  <1> QED
    BY <1>1, ProcsInvHolds, PTL

\* The reaper never closes the process of a turn that has its client or streams, whatever
\* came between its listing and its release (release with only_if_idle_cutoff).
THEOREM TurnIsSparedHolds == ProcsSpec => []TurnIsSpared
  <1>1. ProcsInv => TurnIsSpared
    BY DEF ProcsInv
  <1> QED
    BY <1>1, ProcsInvHolds, PTL

\* However get_client, release and the reaper overlap, a process that runs is registered, waited
\* for or being closed, except where its spawn or its release was given up half-way: by a
\* cancel, or by a socket file that was gone (_spawn_entry, _wait_for_bind, _close_entry).
THEOREM NoStrayHolds == ProcsSpec => []NoStray
  <1>1. ProcsInv => NoStray
    BY DEF ProcsInv
  <1> QED
    BY <1>1, ProcsInvHolds, PTL

\* A get_client with "any" only ever closes a process that has exited.
THEOREM SideCallsAreHarmlessHolds == ProcsSpec => []SideCallsAreHarmless
  <1>1. ProcsInv => SideCallsAreHarmless
    BY DEF ProcsInv
  <1> QED
    BY <1>1, ProcsInvHolds, PTL

\* A turn is only ever given a process of the harness it asked for and, where it named a
\* model, of that model (get_client).
THEOREM RightHarnessHolds == ProcsSpec => []RightHarness
  <1>1. ProcsInv => RightHarness
    BY DEF ProcsInv, HasItsKind, RightHarness
  <1> QED
    BY <1>1, ProcsInvHolds, PTL

=============================================================================
