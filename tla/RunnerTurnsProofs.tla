------------------------- MODULE RunnerTurnsProofs --------------------------
(***************************************************************************)
(* Proofs about the turns of a session, for any number of messages, turns, *)
(* stops, recoveries and faults: the gate moves on, an accepted message is *)
(* lost only to a create_session that overwrites the history, and until a  *)
(* message starts a turn beside one of create_session there is one turn at *)
(* a time, its status is honest and the flag of a stop clean.              *)
(*                                                                         *)
(* An action is first reduced to what it does to the gate, to the turns    *)
(* and to the stops; the invariants are then about those effects.          *)
(***************************************************************************)
EXTENDS RunnerTurns, TLAPS, WellFoundedInduction

\* Where a post holds a slot of the gate.
Waiting == {"gate", "load", "forward", "rogue"}
PostStates == {"new", "gate", "load", "forward", "rogue", "accepted", "lost"}
ContStates == {"none", "scheduled", "gate", "done"}
TurnStates == {"none", "created", "setup", "stream", "tools", "over"}
StopRecords == [pc : {"new", "post", "cancel", "done"}, target : 0..MaxTurns]

\* Types of the gate.
GateTyped ==
    /\ nextSeq \in Nat /\ serving \in Nat
    /\ post \in [Msgs -> PostStates] /\ slot \in [Msgs -> Nat \cup {-1}]
    /\ cont \in [Turns -> ContStates] /\ cslot \in [Turns -> Nat \cup {-1}]

\* A slot that is kept is one the gate has yet to pass; past the gate it is the one served.
SlotsInRange ==
    /\ serving <= nextSeq
    /\ \A m \in Msgs : slot[m] # -1 =>
          serving <= slot[m] /\ slot[m] < nextSeq /\ post[m] \in Waiting \cup {"lost"}
    /\ \A m \in Msgs : post[m] \in Waiting => slot[m] # -1
    /\ \A m \in Msgs : post[m] \in {"load", "forward", "rogue"} => slot[m] = serving
    /\ \A t \in Turns : cslot[t] # -1 => serving <= cslot[t] /\ cslot[t] < nextSeq
    /\ \A t \in Turns : (cont[t] = "gate") <=> (cslot[t] # -1)

\* No two keep the same slot.
SlotsDistinct ==
    /\ \A m, n \in Msgs : slot[m] # -1 /\ slot[m] = slot[n] => m = n
    /\ \A t, u \in Turns : cslot[t] # -1 /\ cslot[t] = cslot[u] => t = u
    /\ \A m \in Msgs, t \in Turns : slot[m] # -1 => slot[m] # cslot[t]

\* A post or a continuation has this slot, or had it when it was cancelled.
Kept(n) == (\E m \in Msgs : slot[m] = n) \/ (\E t \in Turns : cslot[t] = n)

\* Every slot given out and not passed is kept.
SlotsCovered == \A n \in Nat : serving <= n /\ n < nextSeq => Kept(n)

\* What holds of the gate.
GateInv == GateTyped /\ SlotsInRange /\ SlotsDistinct /\ SlotsCovered

\* Types of the turns and the stops.
TurnTyped ==
    /\ turn \in [Turns -> TurnStates]
    /\ active \in 0..MaxTurns /\ started \in 0..MaxTurns
    /\ stop \in [Stops -> StopRecords]

\* Turns are started in order, a turn that is active is not over, and only the end of a turn
\* schedules its continuation.
Shape ==
    /\ \A t \in Turns : t > started => turn[t] = "none"
    /\ \A t \in Turns : cont[t] # "none" => turn[t] = "over"
    /\ active # 0 => turn[active] \in Unfinished
    /\ \A s \in Stops : stop[s].pc \in {"post", "cancel"} => stop[s].target # 0

\* The invariant of gate and turns.
TurnsInv == GateInv /\ TurnTyped /\ Shape

-----------------------------------------------------------------------------
(***************************************************************************)
(* What a step does to the gate.                                           *)
(***************************************************************************)
\* Nothing.
GateStays == UNCHANGED gate

\* A post takes the next slot.
Arrives(m) ==
    /\ post[m] = "new"
    /\ post' = [post EXCEPT ![m] = "gate"] /\ slot' = [slot EXCEPT ![m] = nextSeq]
    /\ nextSeq' = nextSeq + 1
    /\ UNCHANGED <<serving, cont, cslot>>

\* The post that is served serves the next slot.
Leaves(m) ==
    /\ Served(m) \/ post[m] \in {"load", "forward", "rogue"}
    /\ \E how \in {"accepted", "lost"} : post' = [post EXCEPT ![m] = how]
    /\ serving' = slot[m] + 1 /\ slot' = [slot EXCEPT ![m] = -1]
    /\ UNCHANGED <<nextSeq, cont, cslot>>

\* The post that is served goes on to an await, and keeps its slot.
Passes(m) ==
    /\ \/ Served(m) /\ \E p \in {"load", "forward"} : post' = [post EXCEPT ![m] = p]
       \/ post[m] = "forward" /\ post' = [post EXCEPT ![m] = "rogue"]
    /\ UNCHANGED <<nextSeq, serving, slot, cont, cslot>>

\* A post is cancelled at the gate, and its slot stays behind.
GivesUp(m) ==
    /\ post[m] = "gate" /\ slot[m] # serving
    /\ post' = [post EXCEPT ![m] = "lost"]
    /\ UNCHANGED <<nextSeq, serving, slot, cont, cslot>>

\* The end of a turn schedules its continuation.
Schedules(t) ==
    /\ turn[t] \in Unfinished
    /\ cont' = [cont EXCEPT ![t] = "scheduled"]
    /\ UNCHANGED <<nextSeq, serving, post, slot, cslot>>

\* A continuation takes the next slot.
Queues(t) ==
    /\ cont[t] = "scheduled"
    /\ cont' = [cont EXCEPT ![t] = "gate"] /\ cslot' = [cslot EXCEPT ![t] = nextSeq]
    /\ nextSeq' = nextSeq + 1
    /\ UNCHANGED <<serving, post, slot>>

\* The continuation that is served serves the next slot.
Continues(t) ==
    /\ cont[t] = "gate" /\ cslot[t] = serving
    /\ cont' = [cont EXCEPT ![t] = "done"]
    /\ serving' = cslot[t] + 1 /\ cslot' = [cslot EXCEPT ![t] = -1]
    /\ UNCHANGED <<nextSeq, post, slot>>

\* One of these.
GateEffect ==
    \/ GateStays
    \/ \E m \in Msgs : Arrives(m) \/ Leaves(m) \/ Passes(m) \/ GivesUp(m)
    \/ \E t \in Turns : Schedules(t) \/ Queues(t) \/ Continues(t)

\* A slot given out is a new one.
LEMMA ArrivesGate == ASSUME GateInv, NEW m \in Msgs, Arrives(m) PROVE GateInv'
<1> USE DEF GateInv, GateTyped, Arrives, PostStates
<1>1. GateTyped'  OBVIOUS
<1>2. SlotsInRange'  BY DEF SlotsInRange, Waiting
<1>3. SlotsDistinct'  BY DEF SlotsInRange, SlotsDistinct, Waiting
<1>4. SlotsCovered'
  <2> SUFFICES ASSUME NEW n \in Nat, serving <= n, n < nextSeq + 1 PROVE Kept(n)'
      BY DEF SlotsCovered
  <2>1. CASE n = nextSeq  BY <2>1 DEF Kept
  <2>2. CASE n # nextSeq
    <3>1. Kept(n)  BY <2>2 DEF SlotsCovered
    <3>2. slot[m] = -1  BY DEF SlotsInRange, Waiting
    <3>3. slot[m] # n  BY <3>2
    <3>4. QED  BY <3>1, <3>3 DEF Kept
  <2>3. QED  BY <2>1, <2>2
<1>5. QED  BY <1>1, <1>2, <1>3, <1>4

\* Serving the next slot passes only the slot of the post that leaves.
LEMMA LeavesGate == ASSUME GateInv, NEW m \in Msgs, Leaves(m) PROVE GateInv'
<1>1. slot[m] = serving  BY DEF GateInv, SlotsInRange, Leaves, Served
<1>2. PICK how \in {"accepted", "lost"} : post' = [post EXCEPT ![m] = how]  BY DEF Leaves
<1>3. /\ serving' = serving + 1 /\ slot' = [slot EXCEPT ![m] = -1]
      /\ nextSeq' = nextSeq /\ cont' = cont /\ cslot' = cslot
  BY <1>1 DEF Leaves
<1> USE <1>2, <1>3 DEF GateInv, GateTyped, PostStates
<1>4. GateTyped'  OBVIOUS
<1>5. SlotsInRange'  BY <1>1 DEF SlotsInRange, SlotsDistinct, Waiting
<1>6. SlotsDistinct'  BY <1>1 DEF SlotsDistinct
<1>7. SlotsCovered'
  <2> SUFFICES ASSUME NEW n \in Nat, serving + 1 <= n, n < nextSeq PROVE Kept(n)'
      BY DEF SlotsCovered
  <2>1. Kept(n)  BY DEF SlotsCovered
  <2>2. slot[m] # n  BY <1>1
  <2>3. QED  BY <2>1, <2>2 DEF Kept
<1>8. QED  BY <1>4, <1>5, <1>6, <1>7

\* A post behind the gate keeps the slot that is served.
LEMMA PassesGate == ASSUME GateInv, NEW m \in Msgs, Passes(m) PROVE GateInv'
<1>1. slot[m] = serving /\ post[m] \in Waiting  BY DEF GateInv, SlotsInRange, Passes, Served, Waiting
<1>2. PICK p \in {"load", "forward", "rogue"} : post' = [post EXCEPT ![m] = p]  BY DEF Passes
<1>3. nextSeq' = nextSeq /\ serving' = serving /\ slot' = slot /\ cont' = cont /\ cslot' = cslot
  BY DEF Passes
<1> USE <1>2, <1>3 DEF GateInv, GateTyped, PostStates
<1>4. GateTyped'  OBVIOUS
<1>5. SlotsInRange'  BY <1>1 DEF SlotsInRange, Waiting
<1>6. SlotsDistinct' /\ SlotsCovered'  BY DEF SlotsDistinct, SlotsCovered, Kept
<1>7. QED  BY <1>4, <1>5, <1>6

\* An abandoned slot is still kept.
LEMMA GivesUpGate == ASSUME GateInv, NEW m \in Msgs, GivesUp(m) PROVE GateInv'
<1> USE DEF GateInv, GateTyped, GivesUp, PostStates
<1>1. GateTyped'  OBVIOUS
<1>2. SlotsInRange'  BY DEF SlotsInRange, Waiting
<1>3. SlotsDistinct' /\ SlotsCovered'  BY DEF SlotsDistinct, SlotsCovered, Kept
<1>4. QED  BY <1>1, <1>2, <1>3

\* A turn that ends has no continuation yet.
LEMMA SchedulesGate == ASSUME GateInv, TurnTyped, Shape, NEW t \in Turns, Schedules(t) PROVE GateInv'
<1>0. cont[t] = "none"  BY DEF Shape, Schedules, Unfinished
<1> USE DEF GateInv, GateTyped, Schedules, ContStates
<1>1. GateTyped'  OBVIOUS
<1>2. SlotsInRange'  BY <1>0 DEF SlotsInRange
<1>3. SlotsDistinct' /\ SlotsCovered'  BY DEF SlotsDistinct, SlotsCovered, Kept
<1>4. QED  BY <1>1, <1>2, <1>3

\* The slot of a continuation is a new one.
LEMMA QueuesGate == ASSUME GateInv, NEW t \in Turns, Queues(t) PROVE GateInv'
<1> USE DEF GateInv, GateTyped, Queues, ContStates
<1>1. GateTyped'  OBVIOUS
<1>2. cslot[t] = -1  BY DEF SlotsInRange
<1>3. SlotsInRange'  BY DEF SlotsInRange
<1>4. SlotsDistinct'  BY DEF SlotsInRange, SlotsDistinct
<1>5. SlotsCovered'
  <2> SUFFICES ASSUME NEW n \in Nat, serving <= n, n < nextSeq + 1 PROVE Kept(n)'
      BY DEF SlotsCovered
  <2>1. CASE n = nextSeq  BY <2>1 DEF Kept
  <2>2. CASE n # nextSeq
    <3>1. Kept(n)  BY <2>2 DEF SlotsCovered
    <3>2. cslot[t] # n  BY <1>2
    <3>3. QED  BY <3>1, <3>2 DEF Kept
  <2>3. QED  BY <2>1, <2>2
<1>6. QED  BY <1>1, <1>3, <1>4, <1>5

\* Serving the next slot passes only the slot of the continuation.
LEMMA ContinuesGate == ASSUME GateInv, NEW t \in Turns, Continues(t) PROVE GateInv'
<1>1. /\ serving' = serving + 1 /\ cslot' = [cslot EXCEPT ![t] = -1]
      /\ cont' = [cont EXCEPT ![t] = "done"] /\ cslot[t] = serving
      /\ nextSeq' = nextSeq /\ post' = post /\ slot' = slot
  BY DEF Continues
<1> USE <1>1 DEF GateInv, GateTyped, ContStates
<1>2. GateTyped'  OBVIOUS
<1>3. \A m \in Msgs : slot[m] # serving  BY DEF SlotsDistinct
<1>4. SlotsInRange'  BY <1>3 DEF SlotsInRange, SlotsDistinct, Waiting
<1>5. SlotsDistinct'  BY DEF SlotsDistinct
<1>6. SlotsCovered'
  <2> SUFFICES ASSUME NEW n \in Nat, serving + 1 <= n, n < nextSeq PROVE Kept(n)'
      BY DEF SlotsCovered
  <2>1. Kept(n)  BY DEF SlotsCovered
  <2>2. cslot[t] # n  OBVIOUS
  <2>3. QED  BY <2>1, <2>2 DEF Kept
<1>7. QED  BY <1>2, <1>4, <1>5, <1>6

\* Each effect keeps what holds of the gate.
LEMMA GateKept == ASSUME TurnsInv, GateEffect PROVE GateInv'
<1> USE DEF TurnsInv
<1>1. ASSUME GateStays PROVE GateInv'
  BY <1>1 DEF GateStays, gate, GateInv, GateTyped, SlotsInRange, SlotsDistinct, SlotsCovered, Kept
<1>2. ASSUME NEW m \in Msgs, Arrives(m) \/ Leaves(m) \/ Passes(m) \/ GivesUp(m) PROVE GateInv'
  BY <1>2, ArrivesGate, LeavesGate, PassesGate, GivesUpGate
<1>3. ASSUME NEW t \in Turns, Schedules(t) \/ Queues(t) \/ Continues(t) PROVE GateInv'
  BY <1>3, SchedulesGate, QueuesGate, ContinuesGate
<1>4. QED  BY <1>1, <1>2, <1>3 DEF GateEffect

-----------------------------------------------------------------------------
(***************************************************************************)
(* What a step does to the turns.                                          *)
(***************************************************************************)
\* Nothing.
TurnsStay == UNCHANGED <<active, turn, started>>

\* A turn starts and is the active one.
Starts ==
    /\ started < MaxTurns /\ started' = started + 1 /\ active' = started + 1
    /\ turn' = [turn EXCEPT ![started + 1] = "created"]

\* The task of a turn goes on.
Advances(t) ==
    /\ turn[t] \in Unfinished
    /\ \E p \in Unfinished : turn' = [turn EXCEPT ![t] = p]
    /\ UNCHANGED <<active, started>>

\* A turn is over, and none is active.
Ends(t) ==
    /\ turn[t] \in Unfinished
    /\ turn' = [turn EXCEPT ![t] = "over"] /\ active' = 0 /\ UNCHANGED started

\* The stop flags a step may leave behind.
StopEffect ==
    \/ UNCHANGED stop
    \/ \E s \in Stops :
         \/ stop' = [stop EXCEPT ![s] = [pc |-> "done", target |-> 0]]
         \/ active # 0 /\ stop' = [stop EXCEPT ![s] = [pc |-> "post", target |-> active]]
         \/ stop[s].pc = "post" /\ stop' = [stop EXCEPT ![s] = [pc |-> "cancel", target |-> stop[s].target]]

\* A turn that ends schedules its continuation in the same step.
TurnEffect ==
    \/ TurnsStay /\ (UNCHANGED cont \/ \E t \in Turns : Queues(t) \/ Continues(t))
    \/ Starts /\ (UNCHANGED cont \/ \E t \in Turns : Continues(t))
    \/ \E t \in Turns : Advances(t) /\ UNCHANGED cont
    \/ \E t \in Turns : Ends(t) /\ Schedules(t)

\* Stops keep their type.
LEMMA StopTyped == ASSUME TurnTyped, StopEffect PROVE stop' \in [Stops -> StopRecords]
<1> USE DEF TurnTyped
<1>1. CASE UNCHANGED stop  BY <1>1
<1>2. ASSUME NEW s \in Stops, NEW r \in StopRecords, stop' = [stop EXCEPT ![s] = r]
      PROVE stop' \in [Stops -> StopRecords]
  BY <1>2
<1>3. [pc |-> "done", target |-> 0] \in StopRecords  BY TurnBounds DEF StopRecords
<1>4. [pc |-> "post", target |-> active] \in StopRecords  BY DEF StopRecords
<1>5. ASSUME NEW s \in Stops PROVE [pc |-> "cancel", target |-> stop[s].target] \in StopRecords
  BY DEF StopRecords
<1>6. QED  BY <1>1, <1>2, <1>3, <1>4, <1>5 DEF StopEffect

\* A stop under way is for some turn.
LEMMA StopAimed ==
    ASSUME TurnTyped, Shape, StopEffect, NEW s \in Stops, stop'[s].pc \in {"post", "cancel"}
    PROVE  stop'[s].target # 0
<1> USE DEF TurnTyped, Shape
<1>1. CASE UNCHANGED stop  BY <1>1
<1>2. ASSUME NEW u \in Stops, stop' = [stop EXCEPT ![u] = [pc |-> "done", target |-> 0]]
      PROVE  stop'[s].target # 0
  BY <1>2
<1>3. ASSUME NEW u \in Stops, active # 0, stop' = [stop EXCEPT ![u] = [pc |-> "post", target |-> active]]
      PROVE  stop'[s].target # 0
  BY <1>3
<1>4. ASSUME NEW u \in Stops, stop[u].pc = "post",
             stop' = [stop EXCEPT ![u] = [pc |-> "cancel", target |-> stop[u].target]]
      PROVE  stop'[s].target # 0
  BY <1>4
<1>5. QED  BY <1>1, <1>2, <1>3, <1>4 DEF StopEffect

\* Each effect on the turns keeps their shape.
LEMMA ShapeKept == ASSUME TurnsInv, TurnEffect, StopEffect PROVE TurnTyped' /\ Shape'
<1> USE DEF TurnsInv, GateInv, GateTyped, TurnTyped, Turns, Unfinished, TurnStates
<1>1. stop' \in [Stops -> StopRecords]  BY StopTyped
<1>2. \A s \in Stops : stop'[s].pc \in {"post", "cancel"} => stop'[s].target # 0  BY StopAimed
<1>3. CASE TurnsStay /\ UNCHANGED cont  BY <1>1, <1>2, <1>3 DEF TurnsStay, Shape
<1>4. ASSUME NEW t \in Turns, TurnsStay, Queues(t) \/ Continues(t) PROVE TurnTyped' /\ Shape'
  <2>1. turn[t] = "over"  BY <1>4 DEF Queues, Continues, Shape
  <2>2. \A u \in Turns : cont'[u] # "none" => turn[u] = "over"
    BY <1>4, <2>1 DEF Queues, Continues, Shape
  <2>3. QED  BY <1>1, <1>2, <1>4, <2>2 DEF TurnsStay, Shape
<1>5. ASSUME Starts, UNCHANGED cont \/ \E t \in Turns : Continues(t) PROVE TurnTyped' /\ Shape'
  <2>1. started + 1 \in Turns /\ started + 1 > started  BY <1>5, TurnBounds DEF Starts
  <2>2. turn[started + 1] = "none" /\ cont[started + 1] = "none"  BY <2>1 DEF Shape
  <2>3. \A u \in Turns : cont'[u] # "none" => cont[u] # "none"  BY <1>5 DEF Continues
  <2>4. TurnTyped'  BY <1>1, <1>5, <2>1, TurnBounds DEF Starts
  <2>5. Shape'
    <3>1. \A u \in Turns : u > started' => turn'[u] = "none"  BY <1>5, <2>1 DEF Starts, Shape
    <3>2. \A u \in Turns : cont'[u] # "none" => turn'[u] = "over"
      BY <1>5, <2>2, <2>3 DEF Starts, Shape
    <3>3. turn'[active'] \in Unfinished  BY <1>5, <2>1 DEF Starts
    <3>4. QED  BY <1>2, <3>1, <3>2, <3>3 DEF Shape
  <2>6. QED  BY <2>4, <2>5
<1>6. ASSUME NEW t \in Turns, Advances(t), UNCHANGED cont PROVE TurnTyped' /\ Shape'
  <2>1. PICK p \in Unfinished : turn' = [turn EXCEPT ![t] = p]  BY <1>6 DEF Advances
  <2>2. turn[t] \in Unfinished /\ active' = active /\ started' = started  BY <1>6 DEF Advances
  <2>3. TurnTyped'  BY <1>1, <2>1, <2>2
  <2>4. Shape'  BY <1>2, <1>6, <2>1, <2>2 DEF Shape
  <2>5. QED  BY <2>3, <2>4
<1>7. ASSUME NEW t \in Turns, Ends(t), Schedules(t) PROVE TurnTyped' /\ Shape'
  <2>1. TurnTyped'  BY <1>1, <1>7, TurnBounds DEF Ends
  <2>2. Shape'  BY <1>2, <1>7 DEF Shape, Ends, Schedules
  <2>3. QED  BY <2>1, <2>2
<1>8. QED  BY <1>3, <1>4, <1>5, <1>6, <1>7 DEF TurnEffect

-----------------------------------------------------------------------------
(***************************************************************************)
(* Every action has one of these effects.                                  *)
(***************************************************************************)
\* Posts.
LEMMA HandlerEffects ==
    ASSUME NEW m \in Msgs, Handler(m)
    PROVE  GateEffect /\ TurnEffect /\ StopEffect
<1> USE DEF GateEffect, TurnEffect, StopEffect, session, task, shown
<1>1. CASE Arrive(m)  BY <1>1 DEF Arrive, Arrives, TurnsStay
<1>2. CASE BufferMessage(m)
  BY <1>2 DEF BufferMessage, Leave, Leaves, Passes, TurnsStay
<1>3. CASE StartWarm(m)  BY <1>3 DEF StartWarm, StartTurn, Leave, Leaves, Starts
<1>4. CASE LoadHistory(m)  BY <1>4 DEF LoadHistory, Passes, TurnsStay
<1>5. CASE StartCold(m)  BY <1>5 DEF StartCold, StartTurn, Leave, Leaves, Starts
<1>6. CASE HandlerFails(m)  BY <1>6 DEF HandlerFails, Leave, Leaves, TurnsStay
<1>7. CASE CancelledAtGate(m)  BY <1>7 DEF CancelledAtGate, GivesUp, TurnsStay
<1>8. CASE Forward(m)  BY <1>8 DEF Forward, Leave, Leaves, Passes, TurnsStay
<1>9. CASE RogueEnds(m)  BY <1>9 DEF RogueEnds, Leave, Leaves, TurnsStay
<1>10. QED  BY <1>1, <1>2, <1>3, <1>4, <1>5, <1>6, <1>7, <1>8, <1>9 DEF Handler

\* A turn's end.
LEMMA EndEffects ==
    ASSUME NEW t \in Turns, NEW how, turn[t] \in Unfinished, _on_proxy_stream_end(t, how),
           UNCHANGED <<nextSeq, serving, post, slot, cslot>>
    PROVE  Ends(t) /\ Schedules(t)
BY DEF _on_proxy_stream_end, Ends, Schedules

\* Turns, the harness and continuations.
LEMMA TaskEffects ==
    ASSUME NEW t \in Turns, Task(t)
    PROVE  GateEffect /\ TurnEffect /\ StopEffect
<1> USE DEF GateEffect, TurnEffect, StopEffect
<1>0. ASSUME NEW how, turn[t] \in Unfinished, _on_proxy_stream_end(t, how), TurnStep
      PROVE  GateEffect /\ TurnEffect /\ StopEffect
  BY <1>0, EndEffects DEF TurnStep
<1>1. CASE _run_turn_bg(t)
  BY <1>1 DEF _run_turn_bg, TurnStep, GateStays, gate, Advances, Unfinished
<1>2. CASE SetupFails(t)  BY <1>0, <1>2 DEF SetupFails, Unfinished
<1>3. CASE StreamOpens(t)
  <2>1. CASE hctx = 0
    BY <1>3, <2>1 DEF StreamOpens, TurnStep, GateStays, gate, Advances, Unfinished
  <2>2. CASE hctx # 0  BY <1>0, <1>3, <2>2 DEF StreamOpens, Unfinished
  <2>3. QED  BY <2>1, <2>2
<1>4. CASE proxy_stream(t)
  <2>1. GateStays /\ StopEffect /\ UNCHANGED <<cont, active, started>>  BY <1>4 DEF proxy_stream, TurnStep, GateStays, gate
  <2>2. turn' = turn \/ turn' = [turn EXCEPT ![t] = "tools"]  BY <1>4 DEF proxy_stream
  <2>3. TurnsStay \/ Advances(t)  BY <1>4, <2>1, <2>2 DEF proxy_stream, TurnsStay, Advances, Unfinished
  <2>4. QED  BY <2>1, <2>3
<1>5. CASE TurnEnds(t)  BY <1>0, <1>5 DEF TurnEnds, Unfinished
<1>6. CASE HarnessDies(t)  BY <1>0, <1>6 DEF HarnessDies, Unfinished
<1>12. CASE DrainFails(t)  BY <1>0, <1>12 DEF DrainFails, Unfinished
<1>7. CASE _stream_turn(t)
  BY <1>7 DEF _stream_turn, HarnessStep, GateStays, gate, session, task, shown, TurnsStay
<1>8. CASE _teardown_turn(t)
  BY <1>8 DEF _teardown_turn, HarnessStep, GateStays, gate, session, task, shown, TurnsStay
<1>9. CASE ContinuationQueues(t)
  BY <1>9 DEF ContinuationQueues, Queues, session, task, shown, TurnsStay
<1>10. CASE _check_and_start_next_turn(t)
  BY <1>10 DEF _check_and_start_next_turn, StartTurn, Continues, Starts, TurnsStay
<1>11. QED
  BY <1>1, <1>2, <1>3, <1>4, <1>5, <1>6, <1>7, <1>8, <1>9, <1>10, <1>12 DEF Task

\* Stops.
LEMMA StopEffects ==
    ASSUME TurnsInv, NEW s \in Stops, Stop(s)
    PROVE  GateEffect /\ TurnEffect /\ StopEffect
<1> USE DEF GateEffect, TurnEffect, StopEffect
<1>1. CASE StopArrives(s)
  BY <1>1 DEF StopArrives, StopStep, GateStays, gate, TurnsStay
<1>2. CASE StopPosts(s)
  BY <1>2 DEF StopPosts, StopStep, GateStays, gate, session, task, shown, TurnsStay
<1>3. CASE _cancel_active_turn(s)
  <2>1. StopEffect  BY <1>3 DEF _cancel_active_turn
  <2>2. ASSUME active # stop[s].target PROVE GateStays /\ TurnsStay /\ UNCHANGED cont
    BY <1>3, <2>2 DEF _cancel_active_turn, StopStep, GateStays, gate, session, task, shown, TurnsStay
  <2>3. ASSUME active = stop[s].target PROVE active \in Turns /\ Ends(active) /\ Schedules(active)
    <3>1. active # 0 /\ turn[active] \in Unfinished  BY <1>3, <2>3 DEF TurnsInv, Shape, _cancel_active_turn
    <3>2. active \in Turns  BY <3>1, TurnBounds DEF TurnsInv, TurnTyped, Turns
    <3>3. \E how : _on_proxy_stream_end(active, how)  BY <1>3, <2>3, Zenon DEF _cancel_active_turn
    <3>4. UNCHANGED <<nextSeq, serving, post, slot, cslot>>  BY <1>3 DEF _cancel_active_turn, StopStep
    <3>5. QED  BY <3>1, <3>2, <3>3, <3>4 DEF _on_proxy_stream_end, Ends, Schedules
  <2>4. QED  BY <2>1, <2>2, <2>3
<1>4. QED  BY <1>1, <1>2, <1>3 DEF Stop

\* Injections and recoveries.
LEMMA OtherEffects ==
    ASSUME _watch_injections \/ \E r \in Recoveries : Recovery(r)
    PROVE  GateEffect /\ TurnEffect /\ StopEffect
<1> USE DEF GateEffect, TurnEffect, StopEffect
<1>1. CASE _watch_injections
  BY <1>1 DEF _watch_injections, HarnessStep, GateStays, gate, session, task, shown, TurnsStay
<1>2. ASSUME MayRecover PROVE Starts \/ TurnsStay  BY <1>2 DEF MayRecover, StartTurn, Starts, TurnsStay
<1>3. ASSUME NEW r \in Recoveries, Recovery(r) PROVE GateEffect /\ TurnEffect /\ StopEffect
  <2>1. GateStays /\ StopEffect /\ UNCHANGED cont
    BY <1>3 DEF Recovery, create_session, CreateRecovers, _catch_up_scan, CatchesUp, RecoveryStep, GateStays, gate
  <2>2. CASE create_session(r) \/ _catch_up_scan(r)
    BY <2>1, <2>2 DEF create_session, _catch_up_scan, session, task, shown, TurnsStay
  <2>3. CASE CreateRecovers(r)
    <3>1. Starts \/ TurnsStay  BY <1>2, <2>3 DEF CreateRecovers, TurnsStay
    <3>2. QED  BY <2>1, <3>1
  <2>4. CASE CatchesUp(r)
    <3>1. Starts \/ TurnsStay  BY <1>2, <2>4 DEF CatchesUp, TurnsStay
    <3>2. QED  BY <2>1, <3>1
  <2>5. QED  BY <1>3, <2>2, <2>3, <2>4 DEF Recovery
<1>4. QED  BY <1>1, <1>3

\* At first the gate has given out no slot and there is no turn.
LEMMA TurnsInvInit == TurnsInit => TurnsInv
<1> SUFFICES ASSUME TurnsInit PROVE TurnsInv  OBVIOUS
<1> USE DEF TurnsInit
<1>1. GateTyped  BY DEF GateTyped, PostStates, ContStates
<1>2. SlotsInRange /\ SlotsDistinct /\ SlotsCovered
  BY DEF SlotsInRange, SlotsDistinct, SlotsCovered, Waiting
<1>3. TurnTyped
  <2>1. [pc |-> "new", target |-> 0] \in StopRecords  BY TurnBounds DEF StopRecords
  <2>2. QED  BY <2>1, TurnBounds DEF TurnTyped, TurnStates
<1>4. Shape  BY DEF Shape
<1>5. QED  BY <1>1, <1>2, <1>3, <1>4 DEF TurnsInv, GateInv

\* Every step keeps the invariant.
LEMMA TurnsInvNext == TurnsInv /\ [TurnsNext]_uvars => TurnsInv'
<1> SUFFICES ASSUME TurnsInv, [TurnsNext]_uvars PROVE TurnsInv'  OBVIOUS
<1>1. ASSUME GateEffect, TurnEffect, StopEffect PROVE TurnsInv'
  BY <1>1, GateKept, ShapeKept DEF TurnsInv
<1>2. CASE TurnsNext
  <2>1. GateEffect /\ TurnEffect /\ StopEffect
    BY <1>2, HandlerEffects, TaskEffects, StopEffects, OtherEffects DEF TurnsNext
  <2>2. QED  BY <1>1, <2>1
<1>3. CASE UNCHANGED uvars
  BY <1>1, <1>3 DEF uvars, gate, session, task, shown, GateEffect, GateStays, TurnEffect, TurnsStay, StopEffect
<1>4. QED  BY <1>2, <1>3

\* The invariant of gate and turns holds throughout, for any number of messages, turns, stops
\* and recoveries and with every overlap.
THEOREM TurnsInvariant == TurnsSpec => []TurnsInv
<1>1. QED  BY TurnsInvInit, TurnsInvNext, PTL DEF TurnsSpec

\* GateMovesOn: the slot that is served has a post or a continuation behind it, or its post was
\* cancelled while it waited (the finally of post_session_events serves the next one).
THEOREM GateKeepsMoving == TurnsSpec => []GateMovesOn
<1>1. TurnsInv => GateMovesOn
  <2> SUFFICES ASSUME TurnsInv, serving < nextSeq PROVE HoldsSlot(serving) \/ Abandoned(serving)
      BY DEF GateMovesOn
  <2> USE DEF TurnsInv, GateInv, GateTyped
  <2>1. Kept(serving)  BY DEF SlotsCovered
  <2>2. ASSUME NEW m \in Msgs, slot[m] = serving PROVE HoldsSlot(serving) \/ Abandoned(serving)
    BY <2>2 DEF SlotsInRange, HoldsSlot, Abandoned, Waiting
  <2>3. ASSUME NEW t \in Turns, cslot[t] = serving PROVE HoldsSlot(serving)
    BY <2>3 DEF SlotsInRange, HoldsSlot
  <2>4. QED  BY <2>1, <2>2, <2>3 DEF Kept
<1>2. QED  BY <1>1, TurnsInvariant, PTL

-----------------------------------------------------------------------------
(***************************************************************************)
(* One turn at a time, until a message whose history was loaded starts a   *)
(* turn beside one of create_session.                                      *)
(***************************************************************************)
\* One turn, an honest status and a clean flag, with what makes them inductive.
AloneInv == muted \in Muted /\ OneTurnAtATime /\ StatusHonest /\ FlagIsClean

\* A step that touches neither the turn, the stops nor what is shown.
Quiet ==
    /\ UNCHANGED <<active, started, interrupted, stop, status, parked, overtaken, muted>>
    /\ UNCHANGED buffer \/ active # 0 \/ overtaken
    /\ turn' = turn \/ \E t \in Turns : Advances(t)

\* The invariant says nothing of a session that was overtaken.
LEMMA OvertakenKeeps == ASSUME AloneInv, overtaken', UNCHANGED muted PROVE AloneInv'
BY DEF AloneInv, OneTurnAtATime, StatusHonest, FlagIsClean

\* A quiet step keeps it.
LEMMA QuietKeeps == ASSUME TurnsInv, AloneInv, Quiet PROVE AloneInv'
<1> USE DEF AloneInv, Quiet
<1>1. OneTurnAtATime'
  <2>1. CASE turn' = turn  BY <2>1 DEF OneTurnAtATime
  <2>2. ASSUME NEW t \in Turns, Advances(t) PROVE OneTurnAtATime'
    <3>1. PICK p \in Unfinished : turn' = [turn EXCEPT ![t] = p]  BY <2>2 DEF Advances
    <3>2. turn[t] \in Unfinished  BY <2>2 DEF Advances
    <3>3. QED  BY <3>1, <3>2 DEF OneTurnAtATime, TurnsInv, TurnTyped
  <2>3. QED  BY <2>1, <2>2
<1>2. StatusHonest'  BY DEF StatusHonest
<1>3. FlagIsClean'  BY DEF FlagIsClean
<1>4. QED  BY <1>1, <1>2, <1>3

\* What a turn's end publishes is honest.
LEMMA EndIsHonest ==
    ASSUME muted \in Muted, NEW how, NEW s \in EndStatus(how), Publish(s), buffer = <<>>,
           status' = "running"
    PROVE  parked' \/ "idle" \in muted
<1>1. s \in {"failed", "idle", "waiting", "running"}  BY DEF EndStatus
<1>2. "failed" \notin muted  BY DEF Muted
<1>3. CASE s = "failed"  BY <1>2, <1>3 DEF Publish, Shown
<1>4. CASE s = "idle"  BY <1>4 DEF Publish, Shown
<1>5. CASE s \in {"waiting", "running"}  BY <1>5 DEF Publish
<1>6. QED  BY <1>1, <1>3, <1>4, <1>5

\* The end of a turn keeps it: none is active, and running is shown only if messages wait.
LEMMA EndKeeps ==
    ASSUME TurnsInv, AloneInv, NEW t \in Turns, NEW how, turn[t] \in Unfinished,
           _on_proxy_stream_end(t, how), UNCHANGED muted
    PROVE  AloneInv'
<1>1. /\ turn' = [turn EXCEPT ![t] = "over"] /\ active' = 0 /\ interrupted' = FALSE /\ buffer' = buffer
  BY DEF _on_proxy_stream_end
<1>2. PICK s \in EndStatus(how) : Publish(s)  BY DEF _on_proxy_stream_end
<1>3. overtaken' = overtaken  BY <1>2 DEF Publish
<1>4. OneTurnAtATime'  BY <1>1, <1>3 DEF AloneInv, OneTurnAtATime, TurnsInv, TurnTyped, Unfinished
<1>5. StatusHonest'  BY <1>1, <1>2, EndIsHonest DEF AloneInv, StatusHonest
<1>6. FlagIsClean'  BY <1>1 DEF FlagIsClean
<1>7. QED  BY <1>4, <1>5, <1>6 DEF AloneInv

\* A turn that starts where none is active keeps it.
LEMMA StartKeeps ==
    ASSUME TurnsInv, AloneInv, active = 0, StartTurn, overtaken => overtaken', UNCHANGED muted
    PROVE  AloneInv'
<1>1. /\ started < MaxTurns /\ active' = started + 1 /\ interrupted' = interrupted
      /\ turn' = [turn EXCEPT ![started + 1] = "created"]
  BY DEF StartTurn
<1>2. OneTurnAtATime'
  BY <1>1 DEF AloneInv, OneTurnAtATime, TurnsInv, TurnTyped, Turns
<1>3. active' # 0  BY <1>1 DEF TurnsInv, TurnTyped
<1>4. interrupted => overtaken  BY DEF AloneInv, FlagIsClean
<1>5. StatusHonest' /\ FlagIsClean'  BY <1>1, <1>3, <1>4 DEF StatusHonest, FlagIsClean
<1>6. QED  BY <1>2, <1>5 DEF AloneInv

\* Posts keep it.
LEMMA HandlerAlone ==
    ASSUME TurnsInv, AloneInv, NEW m \in Msgs, Handler(m)
    PROVE  AloneInv'
<1>0. ASSUME Quiet PROVE AloneInv'  BY <1>0, QuietKeeps
<1> USE DEF session, task, shown, server
<1>1. CASE Arrive(m)  BY <1>0, <1>1 DEF Arrive, Quiet
<1>2. CASE BufferMessage(m)  BY <1>0, <1>2 DEF BufferMessage, Quiet
<1>3. CASE StartWarm(m)  BY <1>3, StartKeeps DEF StartWarm
<1>4. CASE LoadHistory(m)  BY <1>0, <1>4 DEF LoadHistory, Quiet
<1>5. CASE StartCold(m)
  <2>1. StartTurn /\ overtaken' = (overtaken \/ active # 0) /\ UNCHANGED muted  BY <1>5 DEF StartCold
  <2>2. CASE overtaken'  BY <2>1, <2>2, OvertakenKeeps
  <2>3. CASE ~overtaken'
    <3>1. active = 0 /\ ~overtaken  BY <2>1, <2>3
    <3>2. QED  BY <2>1, <3>1, StartKeeps
  <2>4. QED  BY <2>2, <2>3
<1>6. CASE HandlerFails(m)  BY <1>0, <1>6 DEF HandlerFails, Quiet
<1>7. CASE CancelledAtGate(m)  BY <1>0, <1>7 DEF CancelledAtGate, Quiet
<1>8. CASE Forward(m)  BY <1>0, <1>8 DEF Forward, Quiet
<1>9. CASE RogueEnds(m)  BY <1>0, <1>9 DEF RogueEnds, Quiet
<1>10. QED  BY <1>1, <1>2, <1>3, <1>4, <1>5, <1>6, <1>7, <1>8, <1>9 DEF Handler

\* Turns, the harness and continuations keep it.
LEMMA TaskAlone ==
    ASSUME TurnsInv, AloneInv, NEW t \in Turns, Task(t)
    PROVE  AloneInv'
<1>0. ASSUME Quiet PROVE AloneInv'  BY <1>0, QuietKeeps
<1>e. ASSUME NEW how, turn[t] \in Unfinished, _on_proxy_stream_end(t, how), TurnStep PROVE AloneInv'
  BY <1>e, EndKeeps DEF TurnStep, server
<1> USE DEF session, task, shown, server
<1>1. CASE _run_turn_bg(t)
  BY <1>0, <1>1 DEF _run_turn_bg, TurnStep, Quiet, Advances, Unfinished
<1>2. CASE SetupFails(t)  BY <1>e, <1>2 DEF SetupFails, Unfinished
<1>3. CASE StreamOpens(t)
  <2>1. CASE hctx = 0
    BY <1>0, <1>3, <2>1 DEF StreamOpens, TurnStep, Quiet, Advances, Unfinished
  <2>2. CASE hctx # 0  BY <1>e, <1>3, <2>2 DEF StreamOpens, Unfinished
  <2>3. QED  BY <2>1, <2>2
<1>4. CASE proxy_stream(t)
  <2>1. UNCHANGED <<active, started, interrupted, stop, status, parked, overtaken, muted>>
    BY <1>4 DEF proxy_stream, TurnStep
  <2>2. turn' = turn \/ turn' = [turn EXCEPT ![t] = "tools"]  BY <1>4 DEF proxy_stream
  <2>3. turn[t] \in Unfinished  BY <1>4 DEF proxy_stream, Unfinished
  <2>4. active # 0 \/ overtaken  BY <2>3, TurnBounds DEF AloneInv, OneTurnAtATime, Turns
  <2>5. turn' = turn \/ Advances(t)  BY <2>1, <2>2, <2>3 DEF Advances, Unfinished
  <2>6. QED  BY <1>0, <2>1, <2>4, <2>5 DEF Quiet
<1>5. CASE TurnEnds(t)  BY <1>e, <1>5 DEF TurnEnds, Unfinished
<1>6. CASE HarnessDies(t)  BY <1>e, <1>6 DEF HarnessDies, Unfinished
<1>7. CASE DrainFails(t)  BY <1>e, <1>7 DEF DrainFails, Unfinished
<1>8. CASE _stream_turn(t)  BY <1>0, <1>8 DEF _stream_turn, HarnessStep, Quiet
<1>9. CASE _teardown_turn(t)  BY <1>0, <1>9 DEF _teardown_turn, HarnessStep, Quiet
<1>10. CASE ContinuationQueues(t)  BY <1>0, <1>10 DEF ContinuationQueues, Quiet
<1>11. CASE _check_and_start_next_turn(t)
  <2>1. UNCHANGED <<stop, overtaken, muted>>  BY <1>11 DEF _check_and_start_next_turn
  <2>2. CASE active # 0 \/ buffer = <<>>
    <3>1. UNCHANGED <<active, turn, started, interrupted, buffer, status, parked>>
      BY <1>11, <2>2 DEF _check_and_start_next_turn
    <3>2. QED  BY <1>0, <2>1, <3>1 DEF Quiet
  <2>3. CASE active = 0 /\ buffer # <<>>
    <3>1. StartTurn  BY <1>11, <2>3 DEF _check_and_start_next_turn
    <3>2. QED  BY <2>1, <2>3, <3>1, StartKeeps
  <2>4. QED  BY <2>2, <2>3
<1>12. QED
  BY <1>1, <1>2, <1>3, <1>4, <1>5, <1>6, <1>7, <1>8, <1>9, <1>10, <1>11 DEF Task

\* Stops keep it.
LEMMA StopAlone ==
    ASSUME TurnsInv, AloneInv, NEW s \in Stops, Stop(s)
    PROVE  AloneInv'
<1> USE DEF session, task, shown, server
<1>1. ASSUME UNCHANGED <<active, turn, status, parked, overtaken, muted, buffer>>, FlagIsClean' PROVE AloneInv'
  BY <1>1 DEF AloneInv, OneTurnAtATime, StatusHonest
<1>t. stop \in [Stops -> StopRecords]  BY DEF TurnsInv, TurnTyped
<1>2. CASE StopArrives(s)
  <2>1. UNCHANGED <<active, turn, status, parked, overtaken, muted, buffer>>  BY <1>2 DEF StopArrives, StopStep
  <2>2. CASE active = 0
    <3>1. interrupted' = interrupted /\ (interrupted => overtaken)
      BY <1>2, <2>2 DEF StopArrives, AloneInv, FlagIsClean
    <3>2. FlagIsClean'  BY <2>1, <3>1 DEF FlagIsClean
    <3>3. QED  BY <1>1, <2>1, <3>2
  <2>3. CASE active # 0
    <3>1. stop' = [stop EXCEPT ![s] = [pc |-> "post", target |-> active]]  BY <1>2, <2>3 DEF StopArrives
    <3>2. stop'[s].pc = "post" /\ stop'[s].target = active'  BY <1>t, <2>1, <3>1
    <3>3. FlagIsClean'  BY <2>1, <2>3, <3>2 DEF FlagIsClean
    <3>4. QED  BY <1>1, <2>1, <3>3
  <2>4. QED  BY <2>2, <2>3
<1>3. CASE StopPosts(s)
  <2>1. UNCHANGED <<active, turn, status, parked, overtaken, muted, buffer, interrupted>>
    BY <1>3 DEF StopPosts, StopStep
  <2>2. stop' = [stop EXCEPT ![s] = [pc |-> "cancel", target |-> stop[s].target]]  BY <1>3 DEF StopPosts
  <2>3. ASSUME NEW u \in Stops, stop[u].pc \in {"post", "cancel"}
        PROVE  stop'[u].pc \in {"post", "cancel"} /\ stop'[u].target = stop[u].target
    BY <1>t, <2>2, <2>3
  <2>4. FlagIsClean'  BY <2>1, <2>3 DEF AloneInv, FlagIsClean
  <2>5. QED  BY <1>1, <2>1, <2>4
<1>4. CASE _cancel_active_turn(s)
  <2>1. stop' = [stop EXCEPT ![s] = [pc |-> "done", target |-> 0]] /\ UNCHANGED muted
    BY <1>4 DEF _cancel_active_turn, StopStep
  <2>2. CASE active # stop[s].target
    <3>1. UNCHANGED <<active, turn, status, parked, overtaken, buffer, interrupted>>
      BY <1>4, <2>2 DEF _cancel_active_turn
    <3>2. FlagIsClean'  BY <1>t, <2>1, <2>2, <3>1 DEF AloneInv, FlagIsClean
    <3>3. QED  BY <1>1, <2>1, <3>1, <3>2
  <2>3. CASE active = stop[s].target
    <3>1. active # 0 /\ turn[active] \in Unfinished  BY <1>4, <2>3 DEF TurnsInv, Shape, _cancel_active_turn
    <3>2. active \in Turns  BY <3>1, TurnBounds DEF TurnsInv, TurnTyped, Turns
    <3>3. PICK how : _on_proxy_stream_end(active, how)  BY <1>4, <2>3, Zenon DEF _cancel_active_turn
    <3>4. QED  BY <2>1, <3>1, <3>2, <3>3, EndKeeps
  <2>4. QED  BY <2>2, <2>3
<1>5. QED  BY <1>2, <1>3, <1>4 DEF Stop

\* Recoveries keep it: they look for an active turn in the step that starts one.
LEMMA RecoveryAlone ==
    ASSUME TurnsInv, AloneInv, NEW r \in Recoveries, Recovery(r)
    PROVE  AloneInv'
<1> USE DEF session, task, shown
<1>1. UNCHANGED <<buffer, stop, overtaken, muted>>
  BY DEF Recovery, create_session, CreateRecovers, _catch_up_scan, CatchesUp, RecoveryStep
<1>2. ASSUME UNCHANGED <<active, turn, started, live, interrupted, status, parked>> PROVE AloneInv'
  BY <1>1, <1>2, QuietKeeps DEF Quiet
<1>3. ASSUME MayRecover PROVE AloneInv'
  <2>1. CASE active = 0 /\ StartTurn  BY <1>1, <2>1, StartKeeps
  <2>2. QED  BY <1>2, <1>3, <2>1 DEF MayRecover
<1>4. CASE create_session(r) \/ _catch_up_scan(r)  BY <1>2, <1>4 DEF create_session, _catch_up_scan
<1>5. CASE CreateRecovers(r)  BY <1>2, <1>3, <1>5 DEF CreateRecovers
<1>6. CASE CatchesUp(r)  BY <1>2, <1>3, <1>6 DEF CatchesUp
<1>7. QED  BY <1>4, <1>5, <1>6 DEF Recovery

\* It holds throughout.
THEOREM AloneInvariant == TurnsSpec => []AloneInv
<1>1. TurnsInit => AloneInv
  BY DEF TurnsInit, AloneInv, OneTurnAtATime, StatusHonest, FlagIsClean, Unfinished, Muted
<1>2. TurnsInv /\ AloneInv /\ [TurnsNext]_uvars => AloneInv'
  <2> SUFFICES ASSUME TurnsInv, AloneInv, [TurnsNext]_uvars PROVE AloneInv'  OBVIOUS
  <2>1. CASE _watch_injections
    BY <2>1, QuietKeeps DEF _watch_injections, HarnessStep, session, task, shown, server, Quiet
  <2>2. CASE UNCHANGED uvars  BY <2>2, QuietKeeps DEF uvars, session, task, shown, server, Quiet
  <2>3. QED  BY <2>1, <2>2, HandlerAlone, TaskAlone, StopAlone, RecoveryAlone DEF TurnsNext
<1>3. QED  BY <1>1, <1>2, TurnsInvariant, PTL DEF TurnsSpec

\* OneTurnAtATime: the task that is not over is the one in _active_turns, although recoveries do
\* not pass the gate; only the await of a cold start's history, between its check and its turn,
\* lets a create_session start one beside it.
THEOREM OneTurn == TurnsSpec => []OneTurnAtATime
<1>1. AloneInv => OneTurnAtATime  BY DEF AloneInv
<1>2. QED  BY <1>1, AloneInvariant, PTL

\* StatusHonest: with no turn and nothing buffered the status shown last is running only for
\* sub-agents at work or where the terminal's observer shows the end (_on_proxy_stream_end,
\* _publish_turn_status).
THEOREM NoSpinner == TurnsSpec => []StatusHonest
<1>1. AloneInv => StatusHonest  BY DEF AloneInv
<1>2. QED  BY <1>1, AloneInvariant, PTL

\* FlagIsClean: the flag of a stop is up only while the stop is under way and its turn is active.
THEOREM StopTaintsNoOther == TurnsSpec => []FlagIsClean
<1>1. AloneInv => FlagIsClean  BY DEF AloneInv
<1>2. QED  BY <1>1, AloneInvariant, PTL

-----------------------------------------------------------------------------
(***************************************************************************)
(* No message that was accepted is lost.                                   *)
(***************************************************************************)
\* A set of naturals has a least member.
LEMMA NatSetHasMin ==
    ASSUME NEW S, S \subseteq Nat, S # {}
    PROVE  \E x \in S : \A y \in S : x <= y
<1>1. PICK x \in S : \A y \in S : <<y, x>> \notin OpToRel(<, Nat)
  BY NatLessThanWellFounded, WFMin, Zenon
<1>2. ASSUME NEW y \in S PROVE x <= y
  <2>1. <<y, x>> \notin {ss \in Nat \X Nat : ss[1] < ss[2]}  BY <1>1, <1>2, Zenon DEF OpToRel
  <2>2. QED  BY <2>1
<1>3. QED  BY <1>2

\* RemoveFirst takes out one place that holds the item.
LEMMA FirstPlace ==
    ASSUME NEW S, NEW s \in Seq(S), NEW e, Contains(s, e)
    PROVE  \E i \in 1..Len(s) : s[i] = e /\ RemoveFirst(s, e) = RemoveAt(s, i)
<1> DEFINE I == {i \in 1..Len(s) : s[i] = e}
<1>1. I \subseteq Nat /\ I # {}  BY DEF Contains
<1>2. \E x \in I : \A y \in I : x <= y  BY <1>1, NatSetHasMin
<1>3. Min(I) \in I  BY <1>2, Zenon DEF Min
<1>4. SelectInSeq(s, LAMBDA v : v = e) = Min(I)  BY <1>1 DEF SelectInSeq
<1>5. RemoveFirst(s, e) = RemoveAt(s, Min(I))  BY <1>1, <1>4 DEF RemoveFirst
<1>6. QED  BY <1>3, <1>5

\* What is at another place stays.
LEMMA RemoveAtKeeps ==
    ASSUME NEW S, NEW s \in Seq(S), NEW i \in 1..Len(s)
    PROVE  /\ RemoveAt(s, i) \in Seq(S)
           /\ \A j \in 1..Len(s) : j # i => \E k \in 1..Len(RemoveAt(s, i)) : RemoveAt(s, i)[k] = s[j]
<1> DEFINE r == RemoveAt(s, i)
           a == SubSeq(s, 1, i - 1)
           z == SubSeq(s, i + 1, Len(s))
<1>a. a \in Seq(S) /\ Len(a) = i - 1 /\ \A k \in 1..(i - 1) : a[k] = s[k]
  OBVIOUS
<1>z. z \in Seq(S) /\ Len(z) = Len(s) - i /\ \A k \in 1..(Len(s) - i) : z[k] = s[i + k]
  OBVIOUS
<1>r. r = a \o z  BY DEF RemoveAt
<1>s. a \in Seq(S) /\ z \in Seq(S)  BY <1>a, <1>z
<1> HIDE DEF r, a, z
<1>1. r \in Seq(S)  BY <1>s, <1>r
<1>2. Len(r) = Len(s) - 1
  <2>1. Len(r) = Len(a) + Len(z)  BY <1>s, <1>r
  <2>2. QED  BY <1>a, <1>z, <2>1
<1>3. ASSUME NEW j \in 1..Len(s), j < i PROVE j \in 1..Len(r) /\ r[j] = s[j]
  <2>1. j \in 1..Len(a)  BY <1>a, <1>3
  <2>2. r[j] = a[j]  BY <1>a, <1>z, <1>r, <2>1
  <2>3. QED  BY <1>2, <1>3, <1>a, <2>1, <2>2
<1>4. ASSUME NEW j \in 1..Len(s), j > i PROVE j - 1 \in 1..Len(r) /\ r[j - 1] = s[j]
  <2>1. j - i \in 1..Len(z) /\ Len(a) + (j - i) = j - 1  BY <1>a, <1>z, <1>4
  <2>2. r[j - 1] = z[j - i]  BY <1>a, <1>z, <1>r, <2>1
  <2>3. z[j - i] = s[j]  BY <1>z, <2>1
  <2>4. QED  BY <1>2, <1>4, <2>2, <2>3
<1>5. ASSUME NEW j \in 1..Len(s), j # i PROVE \E k \in 1..Len(r) : r[k] = s[j]
  BY <1>3, <1>4, <1>5
<1>6. QED  BY <1>1, <1>5 DEF r

\* Another item stays.
LEMMA RemoveFirstKeeps ==
    ASSUME NEW S, NEW s \in Seq(S), NEW e
    PROVE  /\ RemoveFirst(s, e) \in Seq(S)
           /\ \A x : x # e /\ Contains(s, x) => Contains(RemoveFirst(s, e), x)
<1>1. CASE ~Contains(s, e)
  <2>1. RemoveFirst(s, e) = s  BY <1>1 DEF RemoveFirst, Contains
  <2>2. QED  BY <2>1
<1>2. CASE Contains(s, e)
  <2>1. PICK i \in 1..Len(s) : s[i] = e /\ RemoveFirst(s, e) = RemoveAt(s, i)  BY <1>2, FirstPlace
  <2>2. QED  BY <2>1, RemoveAtKeeps DEF Contains
<1>3. QED  BY <1>1, <1>2

\* A concatenation has what its parts have.
LEMMA ContainsConcat ==
    ASSUME NEW S, NEW s \in Seq(S), NEW u \in Seq(S)
    PROVE  /\ s \o u \in Seq(S)
           /\ \A x : Contains(s, x) \/ Contains(u, x) => Contains(s \o u, x)
<1>1. s \o u \in Seq(S) /\ Len(s \o u) = Len(s) + Len(u)  OBVIOUS
<1>2. ASSUME NEW x, Contains(s, x) PROVE Contains(s \o u, x)
  <2>1. PICK i \in 1..Len(s) : s[i] = x  BY <1>2 DEF Contains
  <2>2. i \in 1..Len(s \o u) /\ (s \o u)[i] = x  BY <1>1, <2>1
  <2>3. QED  BY <2>2 DEF Contains
<1>3. ASSUME NEW x, Contains(u, x) PROVE Contains(s \o u, x)
  <2>1. PICK i \in 1..Len(u) : u[i] = x  BY <1>3 DEF Contains
  <2>2. Len(s) + i \in 1..Len(s \o u) /\ (s \o u)[Len(s) + i] = x  BY <1>1, <2>1
  <2>3. QED  BY <2>2 DEF Contains
<1>4. QED  BY <1>1, <1>2, <1>3

\* An item at the end.
LEMMA ContainsAppend ==
    ASSUME NEW S, NEW s \in Seq(S), NEW e \in S
    PROVE  /\ Append(s, e) \in Seq(S) /\ Contains(Append(s, e), e)
           /\ \A x : Contains(s, x) => Contains(Append(s, e), x)
BY DEF Contains

\* A message is in the history or waits in the buffer, or create_session has dropped it.
Waits(b, m) == \E i \in 1..Len(b) : b[i].msg = m
Held(m) == Contains(history, m) \/ Waits(buffer, m) \/ m \in overwritten
Accepted == {"accepted", "forward", "rogue"}

\* The post awaits the history of a cold session.
Loads(m) == post[m] = "load"

\* A cold session has had no turn, and no message is accepted before its history is loaded.
ColdIsNew ==
    /\ cold => started = 0 /\ \A n \in Msgs : post[n] \notin Accepted
    /\ \A m, n \in Msgs : Loads(m) => post[n] \notin Accepted

\* Types of the sequences.
DataTyped ==
    /\ buffer \in Seq(Entries) /\ history \in Seq(Msgs) /\ stored \in Seq(Msgs)
    /\ injq \in Seq(Msgs) /\ wire \in [Turns -> Seq(Frames)]

\* What was accepted is kept, with what makes that inductive.
KeepInv == DataTyped /\ ColdIsNew /\ NoneLost

\* Types of the loads.
AskTyped == cursor \in Nat /\ asked \in [Msgs \cup Recoveries -> [from : Nat, to : Nat]]

\* Only the post that is served can be loading.
LEMMA OneServed ==
    ASSUME TurnsInv, NEW m \in Msgs, Served(m) \/ post[m] \in {"load", "forward", "rogue"},
           NEW n \in Msgs, Loads(n)
    PROVE  n = m
BY DEF TurnsInv, GateInv, GateTyped, SlotsInRange, SlotsDistinct, Served, Loads, Waiting

\* No turn is active in a session that has had none.
LEMMA NoneActive == ASSUME TurnsInv, started = 0 PROVE active = 0 /\ \A t \in Turns : turn[t] = "none"
BY TurnBounds DEF TurnsInv, TurnTyped, Shape, Turns, Unfinished

\* What a load answers is a sequence of messages.
LEMMA AnswerTyped ==
    ASSUME AskTyped, stored \in Seq(Msgs), NEW x \in Msgs \cup Recoveries,
           NEW n \in 0..Len(stored), Answered(x, n)
    PROVE  Answer(x, n) \in Seq(Msgs)
<1>1. asked[x].from \in Nat  BY DEF AskTyped
<1>2. n \in asked[x].from..Len(stored)  BY DEF Answered
<1>3. QED  BY <1>1, <1>2 DEF Answer

\* A buffered message waits.
LEMMA WaitsAppend ==
    ASSUME NEW b \in Seq(Entries), NEW e \in Entries
    PROVE  /\ Append(b, e) \in Seq(Entries) /\ Waits(Append(b, e), e.msg)
           /\ \A m : Waits(b, m) => Waits(Append(b, e), m)
BY DEF Waits

\* The other messages go on waiting when an injection is consumed.
LEMMA WaitsRemove ==
    ASSUME NEW b \in Seq(Entries), NEW e
    PROVE  /\ RemoveFirst(b, e) \in Seq(Entries)
           /\ \A m : Waits(b, m) => Waits(RemoveFirst(b, e), m) \/ (Contains(b, e) /\ m = e.msg)
<1>1. CASE ~Contains(b, e)
  <2>1. RemoveFirst(b, e) = b  BY <1>1 DEF RemoveFirst, Contains
  <2>2. QED  BY <2>1
<1>2. CASE Contains(b, e)
  <2>1. PICK i \in 1..Len(b) : b[i] = e /\ RemoveFirst(b, e) = RemoveAt(b, i)  BY <1>2, FirstPlace
  <2>2. RemoveAt(b, i) \in Seq(Entries)  BY RemoveAtKeeps
  <2>3. ASSUME NEW m, Waits(b, m), m # e.msg PROVE Waits(RemoveAt(b, i), m)
    <3>1. PICK j \in 1..Len(b) : b[j].msg = m  BY <2>3 DEF Waits
    <3>2. j # i  BY <2>1, <2>3, <3>1
    <3>3. PICK k \in 1..Len(RemoveAt(b, i)) : RemoveAt(b, i)[k] = b[j]  BY <3>2, RemoveAtKeeps
    <3>4. QED  BY <3>1, <3>3 DEF Waits
  <2>4. QED  BY <1>2, <2>1, <2>2, <2>3
<1>3. QED  BY <1>1, <1>2

\* The messages of a whole buffer.
LEMMA WaitsMessages ==
    ASSUME NEW b \in Seq(Entries)
    PROVE  /\ Messages(b) \in Seq(Msgs)
           /\ \A m : Waits(b, m) => Contains(Messages(b), m)
<1>1. Messages(b) = [i \in 1..Len(b) |-> b[i].msg]  BY DEF Messages
<1>2. ASSUME NEW i \in 1..Len(b) PROVE b[i].msg \in Msgs
  <2>1. b[i] \in Entries  OBVIOUS
  <2>2. QED  BY <2>1 DEF Entries
<1>3. Messages(b) \in Seq(Msgs) /\ Len(Messages(b)) = Len(b)  BY <1>1, <1>2
<1>4. QED  BY <1>1, <1>3 DEF Waits, Contains

\* The first of the buffer and the others.
LEMMA WaitsTail ==
    ASSUME NEW b \in Seq(Entries), b # <<>>
    PROVE  /\ Tail(b) \in Seq(Entries) /\ Head(b).msg \in Msgs
           /\ \A m : Waits(b, m) => Waits(Tail(b), m) \/ m = Head(b).msg
<1>1. /\ Tail(b) \in Seq(Entries) /\ Head(b) = b[1] /\ Len(Tail(b)) = Len(b) - 1
      /\ \A i \in 1..Len(Tail(b)) : Tail(b)[i] = b[i + 1]
  OBVIOUS
<1>2. Head(b).msg \in Msgs
  <2>1. b[1] \in Entries  OBVIOUS
  <2>2. QED  BY <1>1, <2>1 DEF Entries
<1>3. ASSUME NEW m, Waits(b, m), m # Head(b).msg PROVE Waits(Tail(b), m)
  <2>1. PICK i \in 1..Len(b) : b[i].msg = m  BY <1>3 DEF Waits
  <2>2. i - 1 \in 1..Len(Tail(b)) /\ Tail(b)[i - 1] = b[i]  BY <1>1, <1>3, <2>1
  <2>3. QED  BY <2>1, <2>2 DEF Waits
<1>4. QED  BY <1>1, <1>2, <1>3

\* The empty sequence has every type.
LEMMA EmptySeq == \A S : <<>> \in Seq(S)
OBVIOUS

\* What an action has to leave: what was held is held, and what is newly accepted is held.
Keeps ==
    \A n \in Msgs : /\ post[n] \in Accepted => Held(n)'
                    /\ post'[n] \in Accepted => post[n] \in Accepted \/ Held(n)'

\* That is enough.
LEMMA KeepsNoneLost ==
    ASSUME DataTyped', ColdIsNew', Keeps PROVE KeepInv'
BY DEF KeepInv, Keeps, NoneLost, Held, Accepted, Waits

\* What was accepted is held.
LEMMA HeldIfAccepted == ASSUME KeepInv, NEW n \in Msgs, post[n] \in Accepted PROVE Held(n)
BY DEF KeepInv, NoneLost, Held, Accepted, Waits

\* A step that leaves history and buffer alone, and accepts and loads no message anew.
LEMMA SameKeeps ==
    ASSUME KeepInv, UNCHANGED <<buffer, history, overwritten, cold, started>>, DataTyped',
           \A n \in Msgs : post'[n] \in Accepted => post[n] \in Accepted,
           \A n \in Msgs : Loads(n)' => Loads(n) \/ cold
    PROVE  KeepInv'
<1>1. ColdIsNew'  BY DEF KeepInv, ColdIsNew
<1>2. Keeps  BY HeldIfAccepted DEF Keeps, Held
<1>3. QED  BY <1>1, <1>2, KeepsNoneLost

\* Posts keep what was accepted.
LEMMA HandlerKeeps ==
    ASSUME TurnsInv, KeepInv, AskTyped, NEW m \in Msgs, Handler(m)
    PROVE  KeepInv'
<1> USE DEF session, task, shown, server, harness
<1>t. post \in [Msgs -> PostStates]  BY DEF TurnsInv, GateInv, GateTyped
<1>h. \A n \in Msgs : post[n] \in Accepted => Held(n)  BY HeldIfAccepted
<1>d. /\ buffer \in Seq(Entries) /\ history \in Seq(Msgs) /\ stored \in Seq(Msgs)
      /\ injq \in Seq(Msgs) /\ wire \in [Turns -> Seq(Frames)]
  BY DEF KeepInv, DataTyped
<1>s. ASSUME DataTyped', UNCHANGED <<buffer, history, overwritten, cold, started>>,
             NEW p \in PostStates, post' = [post EXCEPT ![m] = p],
             p \in Accepted => post[m] \in Accepted, p = "load" => cold
      PROVE  KeepInv'
  BY <1>t, <1>s, SameKeeps DEF Loads
<1>w. ASSUME Served(m), ~cold, UNCHANGED <<cold, overwritten>>, DataTyped',
             NEW p \in Accepted, post' = [post EXCEPT ![m] = p],
             \A n \in Msgs : Held(n) => Held(n)', Held(m)'
      PROVE  KeepInv'
  <2>1. \A n \in Msgs : ~Loads(n)  BY <1>w, OneServed DEF Served, Loads
  <2>2. ColdIsNew'  BY <1>t, <1>w, <2>1 DEF ColdIsNew, Loads, Accepted
  <2>3. Keeps  BY <1>h, <1>t, <1>w DEF Keeps
  <2>4. QED  BY <1>w, <2>2, <2>3, KeepsNoneLost
<1>1. CASE Arrive(m)
  <2>1. /\ post' = [post EXCEPT ![m] = "gate"]
        /\ UNCHANGED <<buffer, history, overwritten, cold, started, injq, wire>>
    BY <1>1 DEF Arrive
  <2>2. stored' \in Seq(Msgs)
    <3>1. CASE native  BY <1>d, <1>1, <3>1 DEF Arrive
    <3>2. CASE ~native  BY <1>d, <1>1, <3>2 DEF Arrive
    <3>3. QED  BY <3>1, <3>2
  <2>3. DataTyped'  BY <1>d, <2>1, <2>2 DEF DataTyped
  <2>4. QED  BY <1>s, <2>1, <2>3 DEF PostStates, Accepted
<1>2. CASE BufferMessage(m)
  <2>1. PICK e \in {[msg |-> m, inj |-> FALSE], [msg |-> m, inj |-> TRUE]} : buffer' = Append(buffer, e)
    BY <1>2 DEF BufferMessage
  <2>2. PICK p \in {"accepted", "forward"} : post' = [post EXCEPT ![m] = p]  BY <1>2 DEF BufferMessage, Leave
  <2>3. Served(m) /\ active # 0 /\ UNCHANGED <<history, overwritten, cold, stored, injq, wire>>
    BY <1>2 DEF BufferMessage
  <2>4. e \in Entries /\ e.msg = m
    <3>1. CASE e = [msg |-> m, inj |-> FALSE]  BY <3>1 DEF Entries
    <3>2. CASE e = [msg |-> m, inj |-> TRUE]  BY <3>2 DEF Entries
    <3>3. QED  BY <3>1, <3>2
  <2>5. /\ buffer' \in Seq(Entries) /\ Waits(buffer', m)
        /\ \A n : Waits(buffer, n) => Waits(buffer', n)
    BY <1>d, <2>1, <2>4, WaitsAppend
  <2>6. DataTyped'  BY <1>d, <2>3, <2>5 DEF DataTyped
  <2>7. ~cold  BY <2>3, NoneActive DEF KeepInv, ColdIsNew
  <2>8. \A n \in Msgs : Held(n) => Held(n)'  BY <2>3, <2>5 DEF Held
  <2>9. Held(m)'  BY <2>5 DEF Held
  <2>10. QED  BY <1>w, <2>2, <2>3, <2>6, <2>7, <2>8, <2>9 DEF Accepted
<1>3. CASE StartWarm(m)
  <2>1. /\ history' = Append(history, m) /\ post' = [post EXCEPT ![m] = "accepted"] /\ Served(m) /\ ~cold
        /\ UNCHANGED <<buffer, overwritten, cold, stored, injq, wire>>
    BY <1>3 DEF StartWarm, Leave
  <2>2. DataTyped'  BY <1>d, <2>1 DEF DataTyped
  <2>3. \A n \in Msgs : Held(n) => Held(n)'  BY <1>d, <2>1, ContainsAppend DEF Held
  <2>4. Held(m)'  BY <1>d, <2>1, ContainsAppend DEF Held
  <2>5. QED  BY <1>w, <2>1, <2>2, <2>3, <2>4 DEF Accepted
<1>4. CASE LoadHistory(m)
  <2>1. /\ post' = [post EXCEPT ![m] = "load"] /\ cold
        /\ UNCHANGED <<buffer, history, overwritten, cold, started, stored, injq, wire>>
    BY <1>4 DEF LoadHistory
  <2>2. DataTyped'  BY <1>d, <2>1 DEF DataTyped
  <2>3. QED  BY <1>s, <2>1, <2>2 DEF PostStates, Accepted
<1>5. CASE StartCold(m)
  <2>1. PICK k \in 0..Len(stored) : Answered(m, k) /\ history' = Append(RemoveFirst(Answer(m, k), m), m)
    BY <1>5 DEF StartCold
  <2>2. /\ post' = [post EXCEPT ![m] = "accepted"] /\ Loads(m) /\ ~cold'
        /\ UNCHANGED <<buffer, overwritten, stored, injq, wire>>
    BY <1>5 DEF StartCold, Leave, Loads
  <2>3. Answer(m, k) \in Seq(Msgs)  BY <1>d, <2>1, AnswerTyped
  <2>4. RemoveFirst(Answer(m, k), m) \in Seq(Msgs)  BY <2>3, RemoveFirstKeeps
  <2>5. history' \in Seq(Msgs) /\ Contains(history', m)  BY <2>1, <2>4, ContainsAppend
  <2>6. DataTyped'  BY <1>d, <2>2, <2>5 DEF DataTyped
  <2>7. \A n \in Msgs : post[n] \notin Accepted  BY <2>2 DEF KeepInv, ColdIsNew
  <2>8. \A n \in Msgs : Loads(n) => n = m  BY <1>5, OneServed DEF StartCold
  <2>9. ColdIsNew'  BY <1>t, <2>2, <2>8 DEF ColdIsNew, Loads
  <2>10. Keeps  BY <1>t, <2>2, <2>5, <2>7 DEF Keeps, Held
  <2>11. QED  BY <2>6, <2>9, <2>10, KeepsNoneLost
<1>6. CASE HandlerFails(m)
  <2>1. /\ post' = [post EXCEPT ![m] = IF post[m] = "forward" THEN "accepted" ELSE "lost"]
        /\ UNCHANGED <<buffer, history, overwritten, cold, started, stored, injq, wire>>
    BY <1>6 DEF HandlerFails, Leave
  <2>2. DataTyped'  BY <1>d, <2>1 DEF DataTyped
  <2>3. QED  BY <1>s, <2>1, <2>2 DEF PostStates, Accepted
<1>7. CASE CancelledAtGate(m)
  <2>1. /\ post' = [post EXCEPT ![m] = "lost"]
        /\ UNCHANGED <<buffer, history, overwritten, cold, started, stored, injq, wire>>
    BY <1>7 DEF CancelledAtGate
  <2>2. DataTyped'  BY <1>d, <2>1 DEF DataTyped
  <2>3. QED  BY <1>s, <2>1, <2>2 DEF PostStates, Accepted
<1>8. CASE Forward(m)
  <2>1. PICK p \in {"accepted", "rogue"} : post' = [post EXCEPT ![m] = p]  BY <1>8 DEF Forward, Leave
  <2>2. /\ post[m] = "forward" /\ UNCHANGED <<buffer, history, overwritten, cold, started, stored, wire>>
        /\ injq' = Append(injq, m) \/ injq' = <<>>
    BY <1>8 DEF Forward
  <2>3. injq' \in Seq(Msgs)
    <3>1. CASE injq' = Append(injq, m)  BY <1>d, <3>1
    <3>2. CASE injq' = <<>>  BY <3>2
    <3>3. QED  BY <2>2, <3>1, <3>2
  <2>4. DataTyped'  BY <1>d, <2>2, <2>3 DEF DataTyped
  <2>5. QED  BY <1>s, <2>1, <2>2, <2>4 DEF PostStates, Accepted
<1>9. CASE RogueEnds(m)
  <2>1. /\ post' = [post EXCEPT ![m] = "accepted"] /\ post[m] = "rogue"
        /\ injq' = <<>> \/ injq' = injq
        /\ UNCHANGED <<buffer, history, overwritten, cold, started, stored, wire>>
    BY <1>9 DEF RogueEnds, Leave
  <2>2. DataTyped'
    <3>1. injq' \in Seq(Msgs)  BY <1>d, <2>1, EmptySeq
    <3>2. QED  BY <1>d, <2>1, <3>1 DEF DataTyped
  <2>3. QED  BY <1>s, <2>1, <2>2 DEF PostStates, Accepted
<1>10. QED  BY <1>1, <1>2, <1>3, <1>4, <1>5, <1>6, <1>7, <1>8, <1>9 DEF Handler

\* A step that leaves the posts alone, makes nothing cold and holds what was held.
LEMMA LateKeeps ==
    ASSUME KeepInv, UNCHANGED post, cold' => cold /\ started' = started, DataTyped',
           \A n \in Msgs : Held(n) => Held(n)'
    PROVE  KeepInv'
<1>1. ColdIsNew'  BY DEF KeepInv, ColdIsNew, Loads
<1>2. Keeps  BY HeldIfAccepted DEF Keeps
<1>3. QED  BY <1>1, <1>2, KeepsNoneLost

\* A frame for a consumed injection names a message.
LEMMA FrameTyped == ASSUME NEW f \in Frames, f[1] = "consumed" PROVE f[2] \in Msgs
BY DEF Frames

\* Turns, the harness and continuations keep what was accepted.
LEMMA TaskKeeps ==
    ASSUME TurnsInv, KeepInv, NEW t \in Turns, Task(t)
    PROVE  KeepInv'
<1> USE DEF session, task, shown, server, harness
<1>d. /\ buffer \in Seq(Entries) /\ history \in Seq(Msgs) /\ stored \in Seq(Msgs)
      /\ injq \in Seq(Msgs) /\ wire \in [Turns -> Seq(Frames)]
  BY DEF KeepInv, DataTyped
<1>f. /\ <<"created">> \in Frames /\ <<"end">> \in Frames  BY DEF Frames
<1>s. ASSUME UNCHANGED <<post, stored, buffer, history, overwritten, cold, started>>,
             injq' = injq \/ injq' = <<>>,
             wire' \in [Turns -> Seq(Frames)]
      PROVE  KeepInv'
  <2>1. injq' \in Seq(Msgs)  BY <1>d, <1>s, EmptySeq
  <2>2. DataTyped'  BY <1>d, <1>s, <2>1 DEF DataTyped
  <2>3. QED  BY <1>s, <2>2, LateKeeps DEF Held
<1>e. ASSUME NEW how, _on_proxy_stream_end(t, how), TurnStep, injq' = injq \/ injq' = <<>>,
             wire' \in [Turns -> Seq(Frames)]
      PROVE  KeepInv'
  BY <1>s, <1>e DEF _on_proxy_stream_end, TurnStep
<1>1. CASE _run_turn_bg(t)  BY <1>s, <1>d, <1>1 DEF _run_turn_bg, TurnStep
<1>2. CASE SetupFails(t)  BY <1>e, <1>d, <1>2 DEF SetupFails
<1>3. CASE StreamOpens(t)
  <2>1. CASE hctx = 0
    <3>1. wire' = [wire EXCEPT ![t] = <<<<"created">>>>] /\ injq' = <<>>
      BY <1>3, <2>1 DEF StreamOpens
    <3>2. <<<<"created">>>> \in Seq(Frames)  BY <1>f
    <3>3. wire' \in [Turns -> Seq(Frames)]  BY <1>d, <3>1, <3>2
    <3>4. QED  BY <1>s, <1>3, <2>1, <3>1, <3>3 DEF StreamOpens, TurnStep
  <2>2. CASE hctx # 0  BY <1>e, <1>d, <1>3, <2>2 DEF StreamOpens
  <2>3. QED  BY <2>1, <2>2
<1>4. CASE proxy_stream(t)
  <2>0. wire[t] \in Seq(Frames) /\ wire[t] # <<>>  BY <1>4, <1>d DEF proxy_stream
  <2>1. PICK f \in Frames : f = Head(wire[t])  BY <2>0
  <2>2. wire' = [wire EXCEPT ![t] = Tail(wire[t])] /\ UNCHANGED <<post, stored, injq, overwritten, cold, started>>
    BY <1>4 DEF proxy_stream, TurnStep
  <2>3. wire' \in [Turns -> Seq(Frames)]  BY <1>d, <2>0, <2>2
  <2>4. CASE UNCHANGED <<buffer, history>>  BY <1>s, <2>2, <2>3, <2>4
  <2>5. ASSUME f[1] = "consumed", NEW e, e = [msg |-> f[2], inj |-> TRUE], buffer' = RemoveFirst(buffer, e),
               history' = IF Contains(buffer, e) THEN Append(history, f[2]) ELSE history
        PROVE  KeepInv'
    <3>1. f[2] \in Msgs /\ e.msg = f[2]  BY <2>5, FrameTyped
    <3>2. /\ buffer' \in Seq(Entries)
          /\ \A n : Waits(buffer, n) => Waits(buffer', n) \/ (Contains(buffer, e) /\ n = e.msg)
      BY <1>d, <2>5, WaitsRemove
    <3>3. /\ history' \in Seq(Msgs) /\ \A n : Contains(history, n) => Contains(history', n)
          /\ Contains(buffer, e) => Contains(history', f[2])
      BY <1>d, <2>5, <3>1, ContainsAppend
    <3>4. DataTyped'  BY <1>d, <2>2, <2>3, <3>2, <3>3 DEF DataTyped
    <3>5. \A n \in Msgs : Held(n) => Held(n)'  BY <2>2, <3>1, <3>2, <3>3 DEF Held
    <3>6. QED  BY <2>2, <3>4, <3>5, LateKeeps
  <2>6. \/ UNCHANGED <<buffer, history>>
        \/ /\ f[1] = "consumed"
           /\ \E e : /\ e = [msg |-> f[2], inj |-> TRUE] /\ buffer' = RemoveFirst(buffer, e)
                     /\ history' = IF Contains(buffer, e) THEN Append(history, f[2]) ELSE history
    BY <1>4, <2>1, Zenon DEF proxy_stream
  <2>7. QED  BY <2>4, <2>5, <2>6
<1>5. CASE TurnEnds(t)  BY <1>e, <1>d, <1>5 DEF TurnEnds
<1>6. CASE HarnessDies(t)
  <2>1. wire' \in [Turns -> Seq(Frames)] /\ injq' = <<>>  BY <1>d, <1>6 DEF HarnessDies
  <2>2. QED  BY <1>e, <1>6, <2>1 DEF HarnessDies
<1>12. CASE DrainFails(t)
  <2>1. wire' \in [Turns -> Seq(Frames)] /\ injq' = injq  BY <1>d, <1>12 DEF DrainFails
  <2>2. QED  BY <1>e, <1>12, <2>1 DEF DrainFails
<1>7. CASE _stream_turn(t)
  <2>1. wire' = [wire EXCEPT ![t] = Append(wire[t], <<"end">>)]  BY <1>7 DEF _stream_turn
  <2>2. Append(wire[t], <<"end">>) \in Seq(Frames)  BY <1>d, <1>f
  <2>3. wire' \in [Turns -> Seq(Frames)]  BY <1>d, <2>1, <2>2
  <2>4. QED  BY <1>s, <1>7, <2>3 DEF _stream_turn, HarnessStep, gate
<1>8. CASE _teardown_turn(t)  BY <1>s, <1>d, <1>8 DEF _teardown_turn, HarnessStep, gate
<1>9. CASE ContinuationQueues(t)  BY <1>s, <1>d, <1>9 DEF ContinuationQueues
<1>10. CASE _check_and_start_next_turn(t)
  <2>1. UNCHANGED <<post, stored, injq, wire, overwritten, cold>>  BY <1>10 DEF _check_and_start_next_turn
  <2>0. ~cold
    <3>1. turn[t] = "over"  BY <1>10 DEF _check_and_start_next_turn, TurnsInv, Shape
    <3>2. started # 0  BY <3>1, NoneActive
    <3>3. QED  BY <3>2 DEF KeepInv, ColdIsNew
  <2>2. CASE UNCHANGED <<buffer, history>>
    <3>1. DataTyped'  BY <1>d, <2>1, <2>2 DEF DataTyped
    <3>2. QED  BY <2>0, <2>1, <2>2, <3>1, LateKeeps DEF Held
  <2>3. ASSUME buffer # <<>>, buffer' = Tail(buffer), history' = Append(history, Head(buffer).msg) PROVE KeepInv'
    <3>1. /\ buffer' \in Seq(Entries) /\ Head(buffer).msg \in Msgs
          /\ \A n : Waits(buffer, n) => Waits(buffer', n) \/ n = Head(buffer).msg
      BY <1>d, <2>3, WaitsTail
    <3>2. /\ history' \in Seq(Msgs) /\ Contains(history', Head(buffer).msg)
          /\ \A n : Contains(history, n) => Contains(history', n)
      BY <1>d, <2>3, <3>1, ContainsAppend
    <3>3. DataTyped'  BY <1>d, <2>1, <3>1, <3>2 DEF DataTyped
    <3>4. \A n \in Msgs : Held(n) => Held(n)'  BY <2>1, <3>1, <3>2 DEF Held
    <3>5. QED  BY <2>0, <2>1, <3>3, <3>4, LateKeeps
  <2>4. ASSUME buffer' = <<>>, history' = history \o Messages(buffer) PROVE KeepInv'
    <3>1. Messages(buffer) \in Seq(Msgs) /\ \A n : Waits(buffer, n) => Contains(Messages(buffer), n)
      BY <1>d, WaitsMessages
    <3>2. /\ history' \in Seq(Msgs)
          /\ \A n : Contains(history, n) \/ Contains(Messages(buffer), n) => Contains(history', n)
      BY <1>d, <2>4, <3>1, ContainsConcat
    <3>3. DataTyped'  BY <1>d, <2>1, <2>4, <3>2 DEF DataTyped
    <3>4. \A n \in Msgs : Held(n) => Held(n)'  BY <2>1, <3>1, <3>2 DEF Held
    <3>5. QED  BY <2>0, <2>1, <3>3, <3>4, LateKeeps
  <2>5. QED  BY <1>10, <2>2, <2>3, <2>4 DEF _check_and_start_next_turn
<1>11. QED
  BY <1>1, <1>2, <1>3, <1>4, <1>5, <1>6, <1>7, <1>8, <1>9, <1>10, <1>12 DEF Task

\* Injections and stops keep what was accepted.
LEMMA OtherKeeps ==
    ASSUME TurnsInv, KeepInv, _watch_injections \/ \E s \in Stops : Stop(s)
    PROVE  KeepInv'
<1> USE DEF session, task, shown, server, harness
<1>d. /\ buffer \in Seq(Entries) /\ history \in Seq(Msgs) /\ stored \in Seq(Msgs)
      /\ injq \in Seq(Msgs) /\ wire \in [Turns -> Seq(Frames)]
  BY DEF KeepInv, DataTyped
<1>s. ASSUME UNCHANGED <<post, stored, buffer, history, overwritten, cold, started>>, injq' \in Seq(Msgs),
             wire' \in [Turns -> Seq(Frames)]
      PROVE  KeepInv'
  <2>1. DataTyped'  BY <1>d, <1>s DEF DataTyped
  <2>2. QED  BY <1>s, <2>1, LateKeeps DEF Held
<1>1. CASE _watch_injections
  <2>1. UNCHANGED <<post, stored, buffer, history, overwritten, cold, started>>
    BY <1>1 DEF _watch_injections, HarnessStep, gate
  <2>2. injq # <<>> /\ injq' = Tail(injq)  BY <1>1 DEF _watch_injections
  <2>3. PICK m \in Msgs : m = Head(injq)  BY <1>d, <2>2
  <2>4. <<"consumed", m>> \in Frames  BY DEF Frames
  <2>5. wire' = wire \/ wire' = [wire EXCEPT ![hctx] = Append(wire[hctx], <<"consumed", m>>)]
    BY <1>1, <2>3 DEF _watch_injections
  <2>6. ASSUME hctx \in Turns PROVE Append(wire[hctx], <<"consumed", m>>) \in Seq(Frames)
    BY <1>d, <2>4, <2>6
  <2>7. wire' \in [Turns -> Seq(Frames)]  BY <1>d, <2>5, <2>6
  <2>8. QED  BY <1>d, <1>s, <2>1, <2>2, <2>7
<1>2. ASSUME NEW s \in Stops, Stop(s) PROVE KeepInv'
  <2>1. CASE StopArrives(s)  BY <1>s, <1>d, <2>1 DEF StopArrives, StopStep
  <2>2. CASE StopPosts(s)
    <3>1. injq' = <<>> \/ injq' = injq  BY <2>2 DEF StopPosts
    <3>2. injq' \in Seq(Msgs)  BY <1>d, <3>1, EmptySeq
    <3>3. QED  BY <1>s, <1>d, <2>2, <3>2 DEF StopPosts, StopStep
  <2>3. CASE _cancel_active_turn(s)
    <3>1. wire' = wire \/ wire' = [wire EXCEPT ![active] = <<>>]  BY <2>3 DEF _cancel_active_turn
    <3>2. UNCHANGED <<post, stored, injq>>  BY <2>3 DEF _cancel_active_turn, StopStep
    <3>3. UNCHANGED <<buffer, history, overwritten, cold, started>>
      BY <2>3 DEF _cancel_active_turn, _on_proxy_stream_end
    <3>4. wire' \in [Turns -> Seq(Frames)]  BY <1>d, <3>1, EmptySeq
    <3>5. QED  BY <1>s, <1>d, <3>2, <3>3, <3>4
  <2>4. QED  BY <1>2, <2>1, <2>2, <2>3 DEF Stop
<1>3. QED  BY <1>1, <1>2

\* Recoveries keep what was accepted, or overwrite it.
LEMMA RecoveryKeeps ==
    ASSUME TurnsInv, KeepInv, AskTyped, NEW r \in Recoveries, Recovery(r)
    PROVE  KeepInv'
<1> USE DEF session, task, shown, server, harness
<1>d. /\ buffer \in Seq(Entries) /\ history \in Seq(Msgs) /\ stored \in Seq(Msgs)
      /\ injq \in Seq(Msgs) /\ wire \in [Turns -> Seq(Frames)]
  BY DEF KeepInv, DataTyped
<1>1. UNCHANGED <<post, stored, buffer, injq, wire>>
  BY DEF Recovery, create_session, CreateRecovers, _catch_up_scan, CatchesUp, RecoveryStep, gate
<1>s. ASSUME UNCHANGED <<history, overwritten>>, cold' => cold /\ started' = started PROVE KeepInv'
  <2>1. DataTyped'  BY <1>d, <1>1, <1>s DEF DataTyped
  <2>2. QED  BY <1>1, <1>s, <2>1, LateKeeps DEF Held
<1>2. CASE create_session(r)  BY <1>s, <1>2 DEF create_session
<1>3. CASE _catch_up_scan(r)  BY <1>s, <1>3 DEF _catch_up_scan
<1>4. CASE CreateRecovers(r)
  <2>1. PICK n \in 0..Len(stored) :
           /\ Answered(r, n)
           /\ \/ UNCHANGED <<started, history, cold, overwritten>>
              \/ /\ history' = Answer(r, n) /\ cold' = FALSE
                 /\ overwritten' = overwritten \cup
                       {m \in Msgs : Contains(history, m) /\ ~Contains(Answer(r, n), m)}
    BY <1>4 DEF CreateRecovers
  <2>2. CASE UNCHANGED <<started, history, cold, overwritten>>  BY <1>s, <2>2
  <2>3. CASE /\ history' = Answer(r, n) /\ cold' = FALSE
             /\ overwritten' = overwritten \cup
                   {m \in Msgs : Contains(history, m) /\ ~Contains(Answer(r, n), m)}
    <3>1. Answer(r, n) \in Seq(Msgs)  BY <1>d, <2>1, AnswerTyped
    <3>2. DataTyped'  BY <1>d, <1>1, <2>3, <3>1 DEF DataTyped
    <3>3. \A m \in Msgs : Held(m) => Held(m)'  BY <1>1, <2>3 DEF Held
    <3>4. QED  BY <1>1, <2>3, <3>2, <3>3, LateKeeps
  <2>4. QED  BY <2>1, <2>2, <2>3
<1>5. CASE CatchesUp(r)
  <2>1. PICK n \in 0..Len(stored) :
           /\ Answered(r, n)
           /\ \/ UNCHANGED <<started, history, cold>>
              \/ history' = history \o Answer(r, n) /\ cold' = FALSE
    BY <1>5 DEF CatchesUp
  <2>2. UNCHANGED overwritten  BY <1>5 DEF CatchesUp
  <2>3. CASE UNCHANGED <<started, history, cold>>  BY <1>s, <2>2, <2>3
  <2>4. CASE history' = history \o Answer(r, n) /\ cold' = FALSE
    <3>1. Answer(r, n) \in Seq(Msgs)  BY <1>d, <2>1, AnswerTyped
    <3>2. history' \in Seq(Msgs) /\ \A m : Contains(history, m) => Contains(history', m)
      BY <1>d, <2>4, <3>1, ContainsConcat
    <3>3. DataTyped'  BY <1>d, <1>1, <3>2 DEF DataTyped
    <3>4. \A m \in Msgs : Held(m) => Held(m)'  BY <1>1, <2>2, <3>2 DEF Held
    <3>5. QED  BY <1>1, <2>4, <3>3, <3>4, LateKeeps
  <2>5. QED  BY <2>1, <2>3, <2>4
<1>6. QED  BY <1>2, <1>3, <1>4, <1>5 DEF Recovery

\* Loads keep their types.
LEMMA AskKept == ASSUME AskTyped, KeepInv, [TurnsNext]_uvars PROVE AskTyped'
<1> USE DEF server
<1>l. Len(stored) \in Nat  BY DEF KeepInv, DataTyped
<1>s. ASSUME UNCHANGED <<cursor, asked>> PROVE AskTyped'  BY <1>s DEF AskTyped
<1>a. ASSUME NEW x \in Msgs \cup Recoveries, NEW k \in Nat, Ask(x, k), UNCHANGED cursor PROVE AskTyped'
  BY <1>a, <1>l DEF Ask, AskTyped
<1>n. ASSUME NEW x, asked' = [asked EXCEPT ![x] = NotAsked], cursor' \in Nat PROVE AskTyped'
  BY <1>n DEF NotAsked, AskTyped
<1>w. ASSUME NEW x \in Msgs \cup Recoveries, NEW n \in 0..Len(stored), Answered(x, n) PROVE AskTyped'
  <2>1. cursor' \in Nat  BY <1>l, <1>w DEF Answered, AskTyped
  <2>2. QED  BY <1>n, <1>w, <2>1 DEF Answered
<1>1. ASSUME NEW m \in Msgs, Handler(m) PROVE AskTyped'
  <2>1. CASE LoadHistory(m)  BY <1>a, <2>1 DEF LoadHistory
  <2>2. CASE StartCold(m)  BY <1>w, <2>2 DEF StartCold
  <2>3. CASE HandlerFails(m)  BY <1>n, <2>3 DEF HandlerFails, AskTyped
  <2>4. QED
    BY <1>s, <1>1, <2>1, <2>2, <2>3 DEF Handler, Arrive, BufferMessage, StartWarm, CancelledAtGate, Forward, RogueEnds
<1>2. ASSUME NEW t \in Turns, Task(t) PROVE AskTyped'
  BY <1>s, <1>2 DEF Task, TurnStep, HarnessStep, _run_turn_bg, SetupFails, StreamOpens, proxy_stream, TurnEnds,
     DrainFails, HarnessDies, _stream_turn, _teardown_turn, ContinuationQueues, _check_and_start_next_turn
<1>3. ASSUME _watch_injections PROVE AskTyped'  BY <1>s, <1>3 DEF _watch_injections, HarnessStep
<1>4. ASSUME NEW s \in Stops, Stop(s) PROVE AskTyped'
  BY <1>s, <1>4 DEF Stop, StopArrives, StopPosts, _cancel_active_turn, StopStep
<1>5. ASSUME NEW r \in Recoveries, Recovery(r) PROVE AskTyped'
  <2>1. CASE create_session(r)  BY <1>a, <2>1 DEF create_session
  <2>2. CASE CreateRecovers(r)  BY <1>w, <2>2 DEF CreateRecovers
  <2>3. CASE _catch_up_scan(r)  BY <1>a, <2>3 DEF _catch_up_scan, AskTyped
  <2>4. CASE CatchesUp(r)  BY <1>w, <2>4 DEF CatchesUp
  <2>5. QED  BY <1>5, <2>1, <2>2, <2>3, <2>4 DEF Recovery
<1>6. CASE UNCHANGED uvars  BY <1>s, <1>6 DEF uvars
<1>7. QED  BY <1>1, <1>2, <1>3, <1>4, <1>5, <1>6 DEF TurnsNext

\* What was accepted is kept throughout.
THEOREM KeepInvariant == TurnsSpec => []KeepInv
<1> DEFINE Inv == KeepInv /\ AskTyped
<1>1. TurnsInit => Inv
  <2> SUFFICES ASSUME TurnsInit PROVE Inv  OBVIOUS
  <2>1. DataTyped  BY EmptySeq DEF TurnsInit, DataTyped
  <2>2. ColdIsNew /\ NoneLost  BY DEF TurnsInit, ColdIsNew, Loads, Accepted, NoneLost
  <2>3. AskTyped  BY DEF TurnsInit, AskTyped, NotAsked
  <2>4. QED  BY <2>1, <2>2, <2>3 DEF KeepInv
<1>2. TurnsInv /\ Inv /\ [TurnsNext]_uvars => Inv'
  <2> SUFFICES ASSUME TurnsInv, KeepInv, AskTyped, [TurnsNext]_uvars PROVE Inv'  OBVIOUS
  <2>1. CASE UNCHANGED uvars
    BY <2>1, AskKept DEF uvars, session, task, shown, server, gate, harness, KeepInv, DataTyped, ColdIsNew, Loads,
       NoneLost
  <2>2. CASE TurnsNext
    BY <2>2, HandlerKeeps, TaskKeeps, OtherKeeps, RecoveryKeeps, AskKept DEF TurnsNext
  <2>3. QED  BY <2>1, <2>2
<1>3. QED  BY <1>1, <1>2, TurnsInvariant, PTL DEF TurnsSpec

\* NoneLost: a message answered with 202 is in the history or waits in the buffer, whatever the
\* turn, the harness or a stop does, and however a load of a cold session fails; only a
\* create_session that replaces the history by an answer without the message drops it.
THEOREM NoMessageIsLost == TurnsSpec => []NoneLost
<1>1. KeepInv => NoneLost  BY DEF KeepInv
<1>2. QED  BY <1>1, KeepInvariant, PTL
=============================================================================
