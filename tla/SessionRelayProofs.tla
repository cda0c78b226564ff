------------------------- MODULE SessionRelayProofs -------------------------
(***************************************************************************)
(* Proofs about SessionRelay.                                              *)
(*                                                                         *)
(* Every step is first reduced to what it does to the outputs on their way *)
(* from the runner to the transcript: the quiet steps touch none, the six  *)
(* reads take the first event of the wire, the six steps between two reads *)
(* store or drop what is on hand, and the runner appends to the wire.  The *)
(* invariants are then kept by those few effects: Link ties the tunnel's   *)
(* hooks and the relay's slot to the status, Behind says that everything   *)
(* told or stored was made before all that is unread, Filed that the text  *)
(* on hand and the transcript are in order and apart, and Turned that the  *)
(* turns follow each other on the wire.  The properties follow from them.  *)
(***************************************************************************)
EXTENDS SessionRelay, TLAPS

\* An output of the runner.
Outputs == [turn : Turns, kind : {"text", "call"}]

-----------------------------------------------------------------------------
(***************************************************************************)
(* Types.                                                                  *)
(***************************************************************************)
\* The parts of the type invariant.
RunnerOK ==
    /\ msg \in [Turns -> {"new", "wait", "go", "queued", "running", "over", "cut", "refused"}]
    /\ rturn \in 0..MaxTurns /\ (rturn # 0 => msg[rturn] = "running")
    /\ made \in Seq(Outputs) /\ Len(made) <= MaxOut
    /\ halting \in BOOLEAN /\ (halting => rturn # 0)
TunnelOK ==
    /\ linked \in BOOLEAN
    /\ down \in {"none", "due", "list"} /\ hook \in {"none", "list", "labels", "recover", "clear"}
    /\ label \in {"none", "task", "disconnected"} /\ saw \in {"none", "task", "disconnected"}
\* Where the relay's task is.
RelayStates == {"none", "opening", "reading", "flush", "flushed", "after", "dying"}
TaskOK ==
    /\ relay \in RelayStates
    /\ sub \in BOOLEAN /\ (sub => linked /\ relay \notin {"none", "opening", "dying"})
    /\ wire \in Seq(Events) /\ ev \in Events
TextOK ==
    /\ acc \in Seq(Outs) /\ inflight \in Seq(Outs) /\ store \in Seq(Outs)
    /\ header \in 0..MaxTurns /\ shown \subseteq Outs
StopOK ==
    /\ status \in {"idle", "running", "failed"} /\ fence \in BOOLEAN
    /\ stop \in [Stops -> {"new", "post", "landed", "done"}]
    /\ fenced \subseteq Turns /\ missed \subseteq Turns
CountOK ==
    /\ faults \in 0..MaxFaults /\ drops \in Nat /\ unsaved \in Nat
    /\ drops <= faults /\ unsaved <= faults

\* The type invariant with the bounds that keep it.
Typed == RunnerOK /\ TunnelOK /\ TaskOK /\ TextOK /\ StopOK /\ CountOK

\* The forwards a lost tunnel broke are of messages.
BrokenOK == broken \subseteq Turns

\* Together they imply the types the model states.
LEMMA TypedImplies == Typed /\ BrokenOK => RelayTypeOK
<1> SUFFICES ASSUME Typed, BrokenOK PROVE RelayTypeOK  OBVIOUS
<1>1. RunnerOK /\ TunnelOK /\ TaskOK /\ TextOK /\ StopOK /\ CountOK  BY DEF Typed
<1>2. faults \in 0..MaxFaults /\ drops \in 0..MaxFaults /\ unsaved \in 0..MaxFaults
  BY <1>1, RelayBounds DEF CountOK
<1>3. QED
  BY <1>1, <1>2, Zenon DEF RunnerOK, TunnelOK, TaskOK, TextOK, StopOK, BrokenOK, RelayTypeOK, Outputs, RelayStates

\* What comes with an event.
LEMMA EventShape ==
    ASSUME NEW e \in Events
    PROVE  /\ e[1] = "created" => e[2] \in Turns /\ e = <<"created", e[2]>>
           /\ e[1] \in {"text", "call"} => e[2] \in Outs
BY DEF Events

\* The events there are.
LEMMA EventKinds ==
    /\ <<"running">> \in Events /\ <<"idle">> \in Events /\ <<"failed">> \in Events
    /\ <<"terminal">> \in Events /\ <<"none">> \in Events
    /\ \A t \in Turns : <<"created", t>> \in Events
    /\ \A k \in {"text", "call"}, n \in Outs : <<k, n>> \in Events
BY DEF Events

\* The places of two sequences joined.
LEMMA JoinedPlaces ==
    ASSUME NEW S, NEW a \in Seq(S), NEW z \in Seq(S)
    PROVE  /\ a \o z \in Seq(S) /\ Len(a \o z) = Len(a) + Len(z)
           /\ \A k \in 1..Len(a) : (a \o z)[k] = a[k]
           /\ \A k \in 1..Len(z) : (a \o z)[Len(a) + k] = z[k]
OBVIOUS

\* The places of a sequence without its head.
LEMMA TailPlaces ==
    ASSUME NEW S, NEW s \in Seq(S), s # <<>>
    PROVE  /\ Tail(s) \in Seq(S) /\ Len(Tail(s)) = Len(s) - 1 /\ Len(s) \in Nat /\ Len(s) >= 1
           /\ \A i \in 1..(Len(s) - 1) : Tail(s)[i] = s[i + 1]
           /\ Head(s) = s[1] /\ Head(s) \in S
OBVIOUS

\* The places of a sequence with one more.
LEMMA AppendPlaces ==
    ASSUME NEW S, NEW s \in Seq(S), NEW e \in S
    PROVE  /\ Append(s, e) \in Seq(S) /\ Len(Append(s, e)) = Len(s) + 1
           /\ \A i \in 1..Len(s) : Append(s, e)[i] = s[i]
           /\ Append(s, e)[Len(s) + 1] = e
OBVIOUS

\* Reading an event keeps the types.
LEMMA ReadsTyped ==
    ASSUME Typed, NEW k, Reads(k)
    PROVE  /\ relay = "reading" /\ wire # <<>> /\ wire' \in Seq(Events)
           /\ Head(wire) \in Events /\ Head(wire)[1] = k /\ wire' = Tail(wire)
<1>1. wire \in Seq(Events)  BY Zenon DEF Typed, TaskOK
<1>2. relay = "reading" /\ wire # <<>> /\ Head(wire)[1] = k /\ wire' = Tail(wire)  BY Zenon DEF Reads
<1>3. QED  BY <1>1, <1>2, TailPlaces

\* Sending events keeps the types.
LEMMA EmitTyped ==
    ASSUME Typed, NEW es \in Seq(Events), Emit(es)
    PROVE  wire' \in Seq(Events) /\ (sub => wire' = wire \o es) /\ (~sub => wire' = wire)
<1>1. wire \in Seq(Events) /\ sub \in BOOLEAN  BY Zenon DEF Typed, TaskOK
<1>2. (sub => wire' = wire \o es) /\ (~sub => wire' = wire)  BY DEF Emit
<1>3. QED  BY <1>1, <1>2, JoinedPlaces

\* _publish_status keeps the types.
LEMMA PublishTyped ==
    ASSUME Typed, NEW s \in {"idle", "running", "failed"}, _publish_status(s)
    PROVE  /\ status' \in {"idle", "running", "failed"}
           /\ \/ inflight' = <<>> /\ header' = 0
              \/ inflight' = inflight /\ header' = header
BY DEF _publish_status, ForgetInflight, Typed, StopOK

\* _ensure_runner_relay fills an empty slot, or does nothing.
LEMMA EnsureTyped ==
    ASSUME Typed, _ensure_runner_relay
    PROVE  \/ relay = "none" /\ relay' = "opening" /\ acc' = <<>>
           \/ relay # "none" /\ relay' = relay /\ acc' = acc
BY DEF _ensure_runner_relay

\* A fault keeps the bound.
LEMMA FaultyTyped ==
    ASSUME Typed, Faulty
    PROVE  faults \in Nat /\ faults' = faults + 1 /\ faults' \in 0..MaxFaults
BY RelayBounds DEF Faulty, Typed, CountOK

\* A part that does not change keeps its type.
LEMMA Frames ==
    ASSUME Typed
    PROVE  /\ UNCHANGED <<msg, rturn, made, halting>> => RunnerOK'
           /\ UNCHANGED <<linked, down, hook, label, saw>> => TunnelOK'
           /\ UNCHANGED <<relay, sub, linked, wire, ev>> => TaskOK'
           /\ UNCHANGED <<acc, inflight, store, header, shown>> => TextOK'
           /\ UNCHANGED <<status, fence, stop, fenced, missed>> => StopOK'
           /\ UNCHANGED <<faults, drops, unsaved>> => CountOK'
           /\ Faulty /\ UNCHANGED <<drops, unsaved>> => CountOK'
<1>1. RunnerOK /\ TunnelOK /\ TaskOK /\ TextOK /\ StopOK /\ CountOK  BY DEF Typed
<1>2. UNCHANGED <<msg, rturn, made, halting>> => RunnerOK'  BY <1>1 DEF RunnerOK
<1>3. UNCHANGED <<linked, down, hook, label, saw>> => TunnelOK'  BY <1>1, Zenon DEF TunnelOK
<1>4. UNCHANGED <<relay, sub, linked, wire, ev>> => TaskOK'  BY <1>1 DEF TaskOK
<1>5. UNCHANGED <<acc, inflight, store, header, shown>> => TextOK'  BY <1>1, Zenon DEF TextOK
<1>6. UNCHANGED <<status, fence, stop, fenced, missed>> => StopOK'  BY <1>1, Zenon DEF StopOK
<1>7. UNCHANGED <<faults, drops, unsaved>> => CountOK'  BY <1>1, Zenon DEF CountOK
<1>8. Faulty /\ UNCHANGED <<drops, unsaved>> => CountOK'  BY <1>1, FaultyTyped DEF CountOK
<1>9. QED  BY <1>2, <1>3, <1>4, <1>5, <1>6, <1>7, <1>8

\* A message that is not running may move.
LEMMA MsgMoves ==
    ASSUME Typed, NEW t \in Turns, msg[t] # "running", UNCHANGED <<rturn, made, halting>>,
           NEW x \in {"new", "wait", "go", "queued", "running", "over", "cut", "refused"}, msg' = [msg EXCEPT ![t] = x]
    PROVE  RunnerOK'
<1>1. RunnerOK  BY DEF Typed
<1>2. /\ msg' \in [Turns -> {"new", "wait", "go", "queued", "running", "over", "cut", "refused"}]
      /\ \A u \in Turns \ {t} : msg'[u] = msg[u]
  BY <1>1 DEF RunnerOK
<1>3. rturn # 0 => rturn \in Turns \ {t}  BY <1>1, RelayBounds DEF RunnerOK, Turns
<1>4. rturn' # 0 => msg'[rturn'] = "running"  BY <1>1, <1>2, <1>3 DEF RunnerOK
<1>5. QED  BY <1>1, <1>2, <1>4, Zenon DEF RunnerOK

\* The post of a message keeps the types.
LEMMA PostTyped == ASSUME Typed, NEW t \in Turns, Post(t) PROVE Typed'
<1>0. RunnerOK /\ TaskOK /\ TextOK  BY DEF Typed
<1>1. CASE PostEnsures(t)
  <2>1. /\ _ensure_runner_relay /\ msg[t] = "new"
        /\ msg' = [msg EXCEPT ![t] = IF relay \in {"none", "opening"} THEN "wait" ELSE "go"]
        /\ UNCHANGED <<rturn, made, halting, linked, down, hook, saw, drops, sub, wire, ev>>
        /\ UNCHANGED <<inflight, header, shown, store, status, label, fence, stop, fenced, missed, unsaved, faults>>
    BY <1>1, Zenon DEF PostEnsures, tunnel, text
  <2>2. RunnerOK'  BY <2>1, MsgMoves
  <2>3. TunnelOK' /\ StopOK' /\ CountOK'  BY <2>1, Frames
  <2>4. CASE relay = "none" /\ relay' = "opening" /\ acc' = <<>>
    <3>1. ~sub  BY <1>0, <2>4, Zenon DEF TaskOK
    <3>2. TaskOK'  BY <1>0, <2>1, <2>4, <3>1, Zenon DEF TaskOK, RelayStates
    <3>3. acc' \in Seq(Outs)  BY <2>4
    <3>4. TextOK'  BY <1>0, <2>1, <3>3, Zenon DEF TextOK
    <3>5. QED  BY <2>2, <2>3, <3>2, <3>4 DEF Typed
  <2>5. CASE relay' = relay /\ acc' = acc
    <3>1. TaskOK' /\ TextOK'  BY <2>1, <2>5, Frames
    <3>2. QED  BY <2>2, <2>3, <3>1 DEF Typed
  <2>6. QED  BY <2>1, <2>4, <2>5, EnsureTyped
<1>2. CASE PostTimesOut(t)
  <2>1. /\ msg[t] = "wait" /\ msg' = [msg EXCEPT ![t] = "refused"]
        /\ UNCHANGED <<rturn, made, halting, linked, down, hook, saw, drops, relay, sub, wire, ev, acc>>
        /\ UNCHANGED <<inflight, header, shown, store, status, label, fence, stop, fenced, missed, unsaved, faults>>
    BY <1>2, Zenon DEF PostTimesOut, tunnel, text, task
  <2>2. RunnerOK'  BY <2>1, MsgMoves
  <2>3. QED  BY <2>1, <2>2, Frames DEF Typed
<1>3. ASSUME UNCHANGED <<rturn, made, halting, linked, down, hook, saw, drops, relay, sub, wire, ev, acc>>,
             UNCHANGED <<shown, store, label, fence, stop, fenced, missed, unsaved, faults>>,
             \/ UNCHANGED <<status, inflight, header>>
             \/ _publish_status("idle"),
             \/ msg' = msg
             \/ msg[t] # "running" /\ \E x \in {"queued", "refused"} : msg' = [msg EXCEPT ![t] = x]
      PROVE  Typed'
  <2>1. RunnerOK'
    <3>1. CASE msg' = msg  BY <1>3, <3>1, Frames
    <3>2. CASE msg[t] # "running" /\ \E x \in {"queued", "refused"} : msg' = [msg EXCEPT ![t] = x]
      BY <1>3, <3>2, MsgMoves
    <3>3. QED  BY <1>3, <3>1, <3>2
  <2>2. TunnelOK' /\ TaskOK' /\ CountOK'  BY <1>3, Frames
  <2>3. CASE UNCHANGED <<status, inflight, header>>
    <3>1. TextOK' /\ StopOK'  BY <1>3, <2>3, Frames
    <3>2. QED  BY <2>1, <2>2, <3>1 DEF Typed
  <2>4. CASE _publish_status("idle")
    <3>1. /\ status' \in {"idle", "running", "failed"}
          /\ \/ inflight' = <<>> /\ header' = 0
             \/ inflight' = inflight /\ header' = header
      BY <2>4, PublishTyped
    <3>2. <<>> \in Seq(Outs) /\ 0 \in 0..MaxTurns  BY RelayBounds
    <3>3. TextOK'  BY <1>0, <1>3, <3>1, <3>2 DEF TextOK
    <3>4. StopOK'  BY <1>3, <3>1, Zenon DEF Typed, StopOK
    <3>5. QED  BY <2>1, <2>2, <3>3, <3>4 DEF Typed
  <2>5. QED  BY <1>3, <2>3, <2>4
<1>4. CASE PostForwards(t)
  <2>1. /\ UNCHANGED <<rturn, made, halting, linked, down, hook, saw, drops, relay, sub, wire, ev, acc>>
        /\ UNCHANGED <<shown, store, label, fence, stop, fenced, missed, unsaved, faults>>
    BY <1>4, Zenon DEF PostForwards, tunnel, task
  <2>2. /\ msg[t] = "go" /\ \E x \in {"queued", "refused"} : msg' = [msg EXCEPT ![t] = x]
        /\ UNCHANGED <<status, inflight, header>> \/ _publish_status("idle")
    BY <1>4, Zenon DEF PostForwards
  <2>3. QED  BY <1>3, <2>1, <2>2
<1>5. CASE ForwardFails(t)
  <2>1. /\ UNCHANGED <<rturn, made, halting, linked, down, hook, saw, drops, relay, sub, wire, ev, acc>>
        /\ UNCHANGED <<shown, store, label, fence, stop, fenced, missed, unsaved, faults>> /\ _publish_status("idle")
    BY <1>5, Zenon DEF ForwardFails, task
  <2>2. msg' = msg \/ (msg[t] = "queued" /\ msg' = [msg EXCEPT ![t] = "refused"])
    BY <1>5, Zenon DEF ForwardFails
  <2>3. QED  BY <1>3, <2>1, <2>2
<1>6. QED  BY <1>1, <1>2, <1>4, <1>5 DEF Post

\* What a step of the runner leaves alone keeps its type.
LEMMA RunnerMoves ==
    ASSUME Typed, RunnerStep, wire' \in Seq(Events), UNCHANGED made, fenced' = fenced, missed' \subseteq Turns,
           \/ UNCHANGED faults
           \/ Faulty
    PROVE  /\ TunnelOK' /\ TaskOK' /\ TextOK' /\ StopOK' /\ CountOK'
<1>0. TaskOK /\ StopOK  BY DEF Typed
<1>1. UNCHANGED <<linked, down, hook, saw, drops, relay, sub, ev, acc, inflight, header, shown, store,
                  status, label, fence, stop, unsaved>>
  BY Zenon DEF RunnerStep, tunnel, text
<1>2. TunnelOK' /\ TextOK' /\ CountOK'  BY <1>1, Frames
<1>3. TaskOK'  BY <1>0, <1>1 DEF TaskOK
<1>4. StopOK'  BY <1>0, <1>1 DEF StopOK
<1>5. QED  BY <1>2, <1>3, <1>4

\* RunnerStarts.
LEMMA StartsTyped == ASSUME Typed, NEW t \in Turns, RunnerStarts(t) PROVE Typed'
<1>0. RunnerOK /\ StopOK  BY DEF Typed
<1>1. /\ rturn = 0 /\ msg[t] = "queued" /\ UNCHANGED <<made, halting, fenced>> /\ RunnerStep
      /\ missed' = IF sub THEN missed ELSE missed \cup {t}
  BY Zenon DEF RunnerStarts
<1>2. missed' \subseteq Turns  BY <1>0, <1>1 DEF StopOK
<1>3. CASE /\ msg' = [msg EXCEPT ![t] = "running"] /\ rturn' = t
           /\ Emit(<<<<"running">>, <<"created", t>>>>) /\ UNCHANGED faults
  <2>1. <<<<"running">>, <<"created", t>>>> \in Seq(Events)  BY EventKinds
  <2>2. wire' \in Seq(Events)  BY <1>3, <2>1, EmitTyped
  <2>3. RunnerOK'
    <3>1. msg' \in [Turns -> {"new", "wait", "go", "queued", "running", "over", "cut", "refused"}] /\ msg'[t] = "running"
      BY <1>0, <1>3 DEF RunnerOK
    <3>2. t \in 0..MaxTurns  BY RelayBounds DEF Turns
    <3>3. ~halting  BY <1>0, <1>1, Zenon DEF RunnerOK
    <3>4. QED  BY <1>0, <1>1, <1>3, <3>1, <3>2, <3>3, Zenon DEF RunnerOK
  <2>4. QED  BY <1>1, <1>2, <1>3, <2>2, <2>3, RunnerMoves DEF Typed
<1>4. CASE /\ Faulty /\ msg' = [msg EXCEPT ![t] = "over"] /\ rturn' = rturn
           /\ Emit(<<<<"running">>, <<"failed">>>>)
  <2>1. <<<<"running">>, <<"failed">>>> \in Seq(Events)  BY EventKinds
  <2>2. wire' \in Seq(Events)  BY <1>4, <2>1, EmitTyped
  <2>3. RunnerOK'  BY <1>1, <1>4, MsgMoves
  <2>4. QED  BY <1>1, <1>2, <1>4, <2>2, <2>3, RunnerMoves DEF Typed
<1>5. QED  BY <1>3, <1>4, Zenon DEF RunnerStarts

\* RunnerEmits.
LEMMA EmitsTyped == ASSUME Typed, RunnerEmits PROVE Typed'
<1>0. RunnerOK /\ StopOK  BY DEF Typed
<1>1. PICK k \in {"text", "call"} :
        /\ made' = Append(made, [turn |-> rturn, kind |-> k]) /\ Emit(<<<<k, Len(made) + 1>>>>)
  BY Zenon DEF RunnerEmits
<1>2. rturn # 0 /\ Len(made) < MaxOut /\ UNCHANGED <<msg, rturn, halting, fenced, missed, faults>> /\ RunnerStep
  BY Zenon DEF RunnerEmits
<1>3. rturn \in Turns /\ Len(made) \in Nat /\ Len(made) + 1 \in Outs
  BY <1>0, <1>2, RelayBounds DEF RunnerOK, Turns, Outs
<1>4. [turn |-> rturn, kind |-> k] \in Outputs  BY <1>3 DEF Outputs
<1>5. made' \in Seq(Outputs) /\ Len(made') <= MaxOut  BY <1>0, <1>1, <1>2, <1>4, RelayBounds DEF RunnerOK
<1>6. RunnerOK'  BY <1>0, <1>2, <1>5 DEF RunnerOK
<1>7. <<<<k, Len(made) + 1>>>> \in Seq(Events)  BY <1>3, EventKinds
<1>8. wire' \in Seq(Events)  BY <1>1, <1>7, EmitTyped
<1>9. missed' \subseteq Turns /\ TaskOK /\ StopOK  BY <1>0, <1>2 DEF StopOK, Typed
<1>10. UNCHANGED <<linked, down, hook, saw, drops, relay, sub, ev, acc, inflight, header, shown, store,
                   status, label, fence, stop, unsaved>>
  BY <1>2, Zenon DEF RunnerStep, tunnel, text
<1>11. TunnelOK' /\ TextOK' /\ CountOK' /\ StopOK'  BY <1>2, <1>10, Frames
<1>12. TaskOK'  BY <1>8, <1>9, <1>10 DEF TaskOK
<1>13. QED  BY <1>6, <1>11, <1>12 DEF Typed

\* The end of a turn.
LEMMA OverTyped ==
    ASSUME Typed, rturn # 0, NEW x \in {"over", "cut"}, TurnOver(x), made' = made
    PROVE  RunnerOK' /\ rturn' = 0
<1>0. RunnerOK  BY DEF Typed
<1>1. rturn \in Turns  BY <1>0, RelayBounds DEF RunnerOK, Turns
<1>2. /\ msg' = [msg EXCEPT ![rturn] = x] /\ rturn' = 0 /\ halting' = FALSE  BY Zenon DEF TurnOver
<1>3. msg' \in [Turns -> {"new", "wait", "go", "queued", "running", "over", "cut", "refused"}]  BY <1>0, <1>2 DEF RunnerOK
<1>4. 0 \in 0..MaxTurns  BY RelayBounds
<1>5. QED  BY <1>0, <1>2, <1>3, <1>4, Zenon DEF RunnerOK

\* RunnerEnds and RunnerHalts.
LEMMA EndsTyped == ASSUME Typed, RunnerEnds \/ RunnerHalts PROVE Typed'
<1>0. RunnerOK /\ StopOK  BY DEF Typed
<1>1. rturn # 0 /\ (\E x \in {"over", "cut"} : TurnOver(x)) /\ UNCHANGED <<made, fenced, missed>> /\ RunnerStep
  BY <1>0, Zenon DEF RunnerEnds, RunnerHalts, RunnerOK
<1>2. UNCHANGED faults \/ Faulty  BY Zenon DEF RunnerEnds, RunnerHalts
<1>3. <<<<"terminal">>, <<"idle">>>> \in Seq(Events) /\ <<<<"terminal">>, <<"failed">>>> \in Seq(Events)
      /\ <<<<"idle">>>> \in Seq(Events) /\ <<<<"failed">>>> \in Seq(Events)
  BY EventKinds
<1>4. \/ Emit(<<<<"terminal">>, <<"idle">>>>) \/ Emit(<<<<"terminal">>, <<"failed">>>>)
      \/ Emit(<<<<"idle">>>>) \/ Emit(<<<<"failed">>>>)
  BY Zenon DEF RunnerEnds, RunnerHalts
<1>5. wire' \in Seq(Events)  BY <1>3, <1>4, EmitTyped
<1>6. missed' \subseteq Turns  BY <1>0, <1>1 DEF StopOK
<1>7. QED  BY <1>1, <1>2, <1>5, <1>6, OverTyped, RunnerMoves DEF Typed

\* The steps of an interrupt request.
LEMMA StopTyped == ASSUME Typed, NEW s \in Stops, Stop(s) PROVE Typed'
<1>0. RunnerOK /\ StopOK  BY DEF Typed
<1>1. UNCHANGED <<msg, rturn, made, linked, down, hook, saw, drops, relay, sub, wire, ev, acc, inflight, header,
                  shown, store, status, label, missed, unsaved>>
  BY Zenon DEF Stop, StopRequested, StopLands, StopAnswered, StopFails, StopStep, tunnel, task, text
<1>2. UNCHANGED faults \/ Faulty
  BY Zenon DEF Stop, StopRequested, StopLands, StopAnswered, StopFails
<1>3. TunnelOK' /\ TaskOK' /\ TextOK' /\ CountOK'  BY <1>1, <1>2, Frames
<1>4. halting' = halting \/ halting' = (rturn # 0)
  BY Zenon DEF Stop, StopRequested, StopLands, StopAnswered, StopFails
<1>5. halting' \in BOOLEAN /\ (halting' => rturn # 0)
  <2>1. CASE halting' = halting  BY <1>0, <2>1 DEF RunnerOK
  <2>2. CASE halting' = (rturn # 0)  BY <2>2
  <2>3. QED  BY <1>4, <2>1, <2>2
<1>6. RunnerOK'  BY <1>0, <1>1, <1>5, Zenon DEF RunnerOK
<1>7. fence' \in BOOLEAN
  BY <1>0, Zenon DEF Stop, StopRequested, StopLands, StopAnswered, StopFails, StopOK
<1>8. fenced' = fenced \/ fenced' = fenced \cup Begun
  BY Zenon DEF Stop, StopRequested, StopLands, StopAnswered, StopFails
<1>9. fenced' \subseteq Turns  BY <1>0, <1>8 DEF StopOK, Begun
<1>10. stop' = [stop EXCEPT ![s] = "post"] \/ stop' = [stop EXCEPT ![s] = "landed"] \/ stop' = [stop EXCEPT ![s] = "done"]
  BY Zenon DEF Stop, StopRequested, StopLands, StopAnswered, StopFails
<1>11. stop' \in [Stops -> {"new", "post", "landed", "done"}]  BY <1>0, <1>10 DEF StopOK
<1>12. StopOK'  BY <1>0, <1>1, <1>7, <1>9, <1>11, Zenon DEF StopOK
<1>13. QED  BY <1>3, <1>6, <1>12 DEF Typed

\* What the relay's task leaves alone.
LEMMA RelayMoves ==
    ASSUME Typed, RelayStep
    PROVE  /\ UNCHANGED <<rturn, made, halting, linked, down, hook, saw, drops, broken, stop, fenced, missed>>
           /\ UNCHANGED msg => RunnerOK'
           /\ label' \in {"none", "task", "disconnected"} => TunnelOK'
           /\ status' \in {"idle", "running", "failed"} /\ fence' \in BOOLEAN => StopOK'
<1>0. RunnerOK /\ TunnelOK /\ StopOK  BY DEF Typed
<1>1. UNCHANGED <<rturn, made, halting, linked, down, hook, saw, drops, broken, stop, fenced, missed>>
  BY Zenon DEF RelayStep, tunnel
<1>2. UNCHANGED msg => RunnerOK'  BY <1>1, Frames
<1>3. label' \in {"none", "task", "disconnected"} => TunnelOK'  BY <1>0, <1>1, Zenon DEF TunnelOK
<1>4. status' \in {"idle", "running", "failed"} /\ fence' \in BOOLEAN => StopOK'  BY <1>0, <1>1, Zenon DEF StopOK
<1>5. QED  BY <1>1, <1>2, <1>3, <1>4

\* RelayOpens.
LEMMA OpensTyped == ASSUME Typed, RelayOpens PROVE Typed'
<1>0. RunnerOK /\ TaskOK /\ TunnelOK  BY DEF Typed
<1>1. /\ relay = "opening" /\ linked /\ relay' = "reading" /\ sub' = TRUE /\ RelayStep
      /\ UNCHANGED <<wire, ev, acc, inflight, header, shown, store, status, label, fence, unsaved, faults>>
      /\ msg' = [t \in Turns |-> IF msg[t] = "wait" THEN "go" ELSE msg[t]]
  BY Zenon DEF RelayOpens, text
<1>2. UNCHANGED <<rturn, made, halting, linked, down, hook, saw, drops, stop, fenced, missed>>  BY <1>1, RelayMoves
<1>3. RunnerOK'
  <2>1. msg' \in [Turns -> {"new", "wait", "go", "queued", "running", "over", "cut", "refused"}]
    BY <1>0, <1>1 DEF RunnerOK
  <2>2. rturn # 0 => rturn \in Turns  BY <1>0, RelayBounds DEF RunnerOK, Turns
  <2>3. rturn # 0 => msg'[rturn] = "running"  BY <1>0, <1>1, <2>2 DEF RunnerOK
  <2>4. QED  BY <1>0, <1>2, <2>1, <2>3, Zenon DEF RunnerOK
<1>4. TaskOK'
  <2>1. linked' /\ relay' \in RelayStates /\ relay' \notin {"none", "opening", "dying"}
    BY <1>1, <1>2 DEF RelayStates
  <2>2. QED  BY <1>0, <1>1, <2>1 DEF TaskOK
<1>5. TunnelOK' /\ TextOK' /\ StopOK' /\ CountOK'  BY <1>1, <1>2, Frames
<1>6. QED  BY <1>3, <1>4, <1>5 DEF Typed

\* An event is read, and the buffers are kept, added to or dropped.
LEMMA ReadingTyped ==
    ASSUME Typed, RelayStep, UNCHANGED <<msg, sub, store, unsaved, faults>>,
           NEW k, Reads(k), relay' \in {"reading", "flush", "after"}, ev' \in Events,
           label' \in {"none", "task", "disconnected"}, status' \in {"idle", "running", "failed"}, fence' \in BOOLEAN,
           acc' \in Seq(Outs), inflight' \in Seq(Outs), header' \in 0..MaxTurns, shown' \subseteq Outs
    PROVE  Typed'
<1>0. TaskOK /\ TextOK  BY DEF Typed
<1>1. relay = "reading" /\ wire' \in Seq(Events)  BY ReadsTyped
<1>2. UNCHANGED <<linked, drops>>  BY RelayMoves
<1>3. TaskOK'  BY <1>0, <1>1, <1>2 DEF TaskOK, RelayStates
<1>4. TextOK'  BY <1>0 DEF TextOK
<1>5. CountOK'  BY <1>2, Frames
<1>6. QED  BY <1>3, <1>4, <1>5, RelayMoves DEF Typed

\* The steps that read an event.
LEMMA ReadersTyped ==
    ASSUME Typed, RelayStatus \/ RelayDrops \/ RelayCreated \/ RelayText \/ RelayBoundary
    PROVE  Typed'
<1>0. TaskOK /\ TextOK /\ StopOK /\ TunnelOK  BY DEF Typed
<1>t. /\ ev \in Events /\ wire \in Seq(Events) /\ acc \in Seq(Outs) /\ inflight \in Seq(Outs) /\ header \in 0..MaxTurns
      /\ shown \subseteq Outs /\ label \in {"none", "task", "disconnected"} /\ status \in {"idle", "running", "failed"}
      /\ fence \in BOOLEAN
  BY <1>0, Zenon DEF TaskOK, TextOK, StopOK, TunnelOK
<1>b. <<>> \in Seq(Outs) /\ 0 \in 0..MaxTurns  BY RelayBounds
<1>1. CASE RelayStatus
  <2>1. UNCHANGED <<msg, relay, sub, ev, shown, store, unsaved, faults>> /\ RelayStep  BY <1>1, Zenon DEF RelayStatus
  <2>2. PICK k \in {"running", "idle", "failed"} : Reads(k) /\ _publish_status(k)
    BY <1>1, Zenon DEF RelayStatus
  <2>3. (acc' = acc \/ acc' = <<>>) /\ label' \in {label, "none", "task"}  BY <1>1 DEF RelayStatus
  <2>4. fence' = fence \/ fence' = FALSE  BY <1>1, Zenon DEF RelayStatus
  <2>5. fence' \in BOOLEAN  BY <1>t, <2>4, Zenon
  <2>6. relay' = "reading"  BY <2>1, <2>2, ReadsTyped
  <2>7. status' \in {"idle", "running", "failed"}  BY <2>2, PublishTyped
  <2>8. inflight' \in Seq(Outs) /\ header' \in 0..MaxTurns  BY <1>t, <1>b, <2>2, PublishTyped
  <2>9. acc' \in Seq(Outs) /\ label' \in {"none", "task", "disconnected"}  BY <1>t, <1>b, <2>3
  <2>10. QED  BY <1>t, <2>1, <2>2, <2>5, <2>6, <2>7, <2>8, <2>9, ReadingTyped
<1>2. CASE RelayDrops
  <2>1. /\ UNCHANGED <<msg, relay, sub, ev, acc, inflight, header, shown, store, status, label, fence, unsaved, faults>>
        /\ RelayStep
    BY <1>2, Zenon DEF RelayDrops, text
  <2>2. PICK k \in {"created", "text", "call"} : Reads(k)  BY <1>2, Zenon DEF RelayDrops
  <2>3. relay' = "reading"  BY <2>1, <2>2, ReadsTyped
  <2>4. QED  BY <1>t, <2>1, <2>2, <2>3, ReadingTyped
<1>3. CASE RelayCreated
  <2>1. /\ Reads("created") /\ header' = Head(wire)[2] /\ RelayStep
        /\ UNCHANGED <<msg, relay, sub, ev, acc, shown, store, status, label, fence, unsaved, faults>>
    BY <1>3, Zenon DEF RelayCreated
  <2>2. inflight' = inflight \/ inflight' = <<>>  BY <1>3 DEF RelayCreated
  <2>3. relay' = "reading"  BY <2>1, ReadsTyped
  <2>4. header' \in 0..MaxTurns  BY <2>1, ReadsTyped, EventShape, RelayBounds DEF Turns
  <2>5. inflight' \in Seq(Outs)  BY <1>t, <1>b, <2>2
  <2>6. QED  BY <1>t, <2>1, <2>3, <2>4, <2>5, ReadingTyped
<1>4. CASE RelayText
  <2>1. /\ Reads("text") /\ RelayStep /\ acc' = Append(acc, Head(wire)[2])
        /\ inflight' = Append(inflight, Head(wire)[2]) /\ shown' = shown \cup {Head(wire)[2]}
        /\ UNCHANGED <<msg, relay, sub, ev, header, store, status, label, fence, unsaved, faults>>
    BY <1>4, Zenon DEF RelayText
  <2>2. relay' = "reading" /\ Head(wire)[2] \in Outs  BY <2>1, ReadsTyped, EventShape
  <2>3. acc' \in Seq(Outs) /\ inflight' \in Seq(Outs) /\ shown' \subseteq Outs  BY <1>t, <2>1, <2>2, AppendPlaces
  <2>4. QED  BY <1>t, <2>1, <2>2, <2>3, ReadingTyped
<1>5. CASE RelayBoundary
  <2>1. /\ UNCHANGED <<msg, sub, acc, inflight, header, shown, store, status, label, unsaved, faults>> /\ RelayStep
        /\ ev' = Head(wire) /\ relay' \in {"flush", "after"}
    BY <1>5 DEF RelayBoundary, text
  <2>2. PICK k \in {"call", "terminal"} : Reads(k)  BY <1>5, Zenon DEF RelayBoundary
  <2>3. fence' \in BOOLEAN  BY <1>t, <1>5, Zenon DEF RelayBoundary
  <2>4. ev' \in Events /\ relay' \in {"reading", "flush", "after"}  BY <2>1, <2>2, ReadsTyped
  <2>5. QED  BY <1>t, <2>1, <2>2, <2>3, <2>4, ReadingTyped
<1>6. QED  BY <1>1, <1>2, <1>3, <1>4, <1>5

\* The task goes on without reading.
LEMMA GoesOnTyped ==
    ASSUME Typed, RelayStep, UNCHANGED <<msg, sub, wire, fence>>, relay \in {"flush", "flushed", "after"} \/ ~sub,
           relay' \in {"reading", "flushed", "after"} \/ (relay' \in {"none", "dying"} /\ ~sub),
           ev' \in Events, CountOK', shown' = shown,
           label' \in {"none", "task", "disconnected"}, status' \in {"idle", "running", "failed"},
           acc' \in Seq(Outs), inflight' \in Seq(Outs), store' \in Seq(Outs), header' \in 0..MaxTurns
    PROVE  Typed'
<1>0. TaskOK /\ TextOK /\ StopOK  BY DEF Typed
<1>1. UNCHANGED linked  BY RelayMoves
<1>2. relay' \in RelayStates  BY DEF RelayStates
<1>3. sub' => linked' /\ relay' \notin {"none", "opening", "dying"}  BY <1>0, <1>1 DEF TaskOK
<1>4. TaskOK'  BY <1>0, <1>2, <1>3 DEF TaskOK
<1>5. TextOK'  BY <1>0 DEF TextOK
<1>6. fence' \in BOOLEAN  BY <1>0 DEF StopOK
<1>7. QED  BY <1>4, <1>5, <1>6, RelayMoves DEF Typed

\* The steps of a flush, and the end of the relay.
LEMMA FlushTyped ==
    ASSUME Typed, FlushCommits \/ FlushResumes \/ FlushFails \/ RelayAfter \/ RelayLost \/ RelayEnds
    PROVE  Typed'
<1>0. TaskOK /\ TextOK /\ StopOK /\ TunnelOK /\ CountOK  BY DEF Typed
<1>t. /\ ev \in Events /\ acc \in Seq(Outs) /\ inflight \in Seq(Outs) /\ store \in Seq(Outs) /\ header \in 0..MaxTurns
      /\ label \in {"none", "task", "disconnected"} /\ status \in {"idle", "running", "failed"}
  BY <1>0, Zenon DEF TaskOK, TextOK, StopOK, TunnelOK
<1>b. <<>> \in Seq(Outs) /\ 0 \in 0..MaxTurns  BY RelayBounds
<1>d. RelayStep => UNCHANGED drops  BY RelayMoves
<1>f. Faulty /\ unsaved' = unsaved + 1 /\ UNCHANGED drops => CountOK'
  BY <1>0, FaultyTyped DEF CountOK
<1>1. CASE FlushCommits
  <2>1. /\ relay = "flush" /\ store' = store \o acc /\ relay' = "flushed" /\ RelayStep
        /\ UNCHANGED <<msg, sub, wire, ev, acc, inflight, header, shown, status, label, fence, unsaved, faults>>
    BY <1>1, Zenon DEF FlushCommits
  <2>2. store' \in Seq(Outs)  BY <1>t, <2>1
  <2>3. CountOK'  BY <1>d, <2>1, Frames
  <2>4. QED  BY <1>t, <2>1, <2>2, <2>3, GoesOnTyped
<1>2. CASE FlushResumes
  <2>1. /\ relay = "flushed" /\ acc' = <<>> /\ inflight' = <<>> /\ relay' = "after" /\ RelayStep
        /\ UNCHANGED <<msg, sub, wire, ev, header, shown, store, status, label, fence, unsaved, faults>>
    BY <1>2, Zenon DEF FlushResumes
  <2>2. CountOK'  BY <1>d, <2>1, Frames
  <2>3. QED  BY <1>t, <1>b, <2>1, <2>2, GoesOnTyped
<1>3. CASE FlushFails
  <2>1. /\ relay = "flush" /\ Faulty /\ relay' = "after" /\ unsaved' = unsaved + 1 /\ RelayStep
        /\ UNCHANGED <<msg, sub, wire, ev, acc, inflight, header, shown, store, status, label, fence>>
    BY <1>3, Zenon DEF FlushFails, text
  <2>2. CountOK'  BY <1>d, <1>f, <2>1
  <2>3. QED  BY <1>t, <2>1, <2>2, GoesOnTyped
<1>4. CASE RelayAfter
  <2>1. /\ relay = "after" /\ relay' = "reading" /\ ev' = <<"none">> /\ RelayStep
        /\ UNCHANGED <<msg, sub, wire, acc, shown, status, label, fence>>
    BY <1>4, Zenon DEF RelayAfter
  <2>2. ev' \in Events  BY <2>1, EventKinds
  <2>3. CASE /\ ev[1] = "call" /\ store' = Append(store, ev[2]) /\ UNCHANGED <<inflight, header, unsaved, faults>>
    <3>1. store' \in Seq(Outs)  BY <1>t, <2>3, EventShape, AppendPlaces
    <3>2. CountOK'  BY <1>d, <2>1, <2>3, Frames
    <3>3. QED  BY <1>t, <2>1, <2>2, <2>3, <3>1, <3>2, GoesOnTyped
  <2>4. CASE Faulty /\ unsaved' = unsaved + 1 /\ UNCHANGED <<inflight, header, store>>
    <3>1. CountOK'  BY <1>d, <1>f, <2>1, <2>4
    <3>2. QED  BY <1>t, <2>1, <2>2, <2>4, <3>1, GoesOnTyped
  <2>5. CASE ForgetInflight /\ UNCHANGED <<store, unsaved, faults>>
    <3>1. inflight' = <<>> /\ header' = 0  BY <2>5 DEF ForgetInflight
    <3>2. CountOK'  BY <1>d, <2>1, <2>5, Frames
    <3>3. QED  BY <1>t, <1>b, <2>1, <2>2, <2>5, <3>1, <3>2, GoesOnTyped
  <2>6. QED  BY <1>4, <2>3, <2>4, <2>5, Zenon DEF RelayAfter
<1>5. CASE RelayLost
  <2>1. /\ relay' = "dying" /\ _publish_status("failed") /\ RelayStep
        /\ UNCHANGED <<msg, sub, wire, ev, acc, shown, store, label, fence, unsaved, faults>>
    BY <1>5, Zenon DEF RelayLost
  <2>2. ~sub  BY <1>0, <1>5 DEF RelayLost, TaskOK
  <2>3. status' \in {"idle", "running", "failed"} /\ inflight' \in Seq(Outs) /\ header' \in 0..MaxTurns
    BY <1>t, <1>b, <2>1, PublishTyped
  <2>4. CountOK'  BY <1>d, <2>1, Frames
  <2>5. QED  BY <1>t, <2>1, <2>2, <2>3, <2>4, GoesOnTyped
<1>6. CASE RelayEnds
  <2>1. /\ relay = "dying" /\ relay' = "none" /\ label' = "disconnected" /\ acc' = <<>> /\ inflight' = <<>> /\ header' = 0
        /\ RelayStep /\ UNCHANGED <<msg, sub, wire, ev, shown, store, status, fence, unsaved, faults>>
    BY <1>6, Zenon DEF RelayEnds, ForgetInflight
  <2>2. ~sub  BY <1>0, <2>1 DEF TaskOK
  <2>3. CountOK'  BY <1>d, <2>1, Frames
  <2>4. QED  BY <1>t, <1>b, <2>1, <2>2, <2>3, GoesOnTyped
<1>7. QED  BY <1>1, <1>2, <1>3, <1>4, <1>5, <1>6

\* The tunnel and the hooks of its handler.
LEMMA TunnelTyped == ASSUME Typed, Tunnel PROVE Typed'
<1>0. RunnerOK /\ TunnelOK /\ TaskOK /\ TextOK /\ StopOK /\ CountOK  BY DEF Typed
<1>1. UNCHANGED <<msg, rturn, made, halting, fence, stop, fenced, missed, unsaved, shown, store, wire, ev>>
  BY Zenon DEF Tunnel, TunnelDrops, _on_runner_disconnect, OfflineMarks, TunnelReturns, _on_runner_connect,
     ReadLabels, _publish_runner_recovered_status, ClearLabels, TunnelStep, runner
<1>2. RunnerOK'  BY <1>1, Frames
<1>b. <<>> \in Seq(Outs) /\ 0 \in 0..MaxTurns  BY RelayBounds
<1>3. CASE TunnelDrops
  <2>1. /\ Faulty /\ drops' = drops + 1 /\ linked' = FALSE /\ sub' = FALSE /\ down' = "due"
        /\ UNCHANGED <<hook, saw, relay, acc, inflight, header, status, label>>
    BY <1>3, Zenon DEF TunnelDrops
  <2>2. CountOK'  BY <1>0, <1>1, <2>1, FaultyTyped DEF CountOK
  <2>3. TunnelOK'  BY <1>0, <2>1, Zenon DEF TunnelOK
  <2>4. TaskOK'  BY <1>0, <1>1, <2>1 DEF TaskOK
  <2>5. TextOK' /\ StopOK'  BY <1>1, <2>1, Frames
  <2>6. QED  BY <1>2, <2>2, <2>3, <2>4, <2>5 DEF Typed
<1>4. ASSUME UNCHANGED <<faults, drops, sub>>, linked' = linked \/ linked' = TRUE,
             down' \in {"none", "due", "list"}, hook' \in {"none", "list", "labels", "recover", "clear"},
             label' \in {"none", "task", "disconnected"}, saw' \in {"none", "task", "disconnected"},
             relay' = relay \/ (relay = "none" /\ relay' = "opening"), acc' = acc \/ acc' = <<>>,
             \/ UNCHANGED <<inflight, header>>
             \/ inflight' = <<>> /\ header' = 0,
             status' \in {"idle", "running", "failed"}
      PROVE  Typed'
  <2>1. CountOK'  BY <1>1, <1>4, Frames
  <2>2. linked' \in BOOLEAN  BY <1>0, <1>4 DEF TunnelOK
  <2>3. TunnelOK'  BY <1>4, <2>2, Zenon DEF TunnelOK
  <2>4. relay' \in RelayStates  BY <1>0, <1>4 DEF TaskOK, RelayStates
  <2>5. sub' => linked' /\ relay' \notin {"none", "opening", "dying"}
    <3>1. SUFFICES ASSUME sub PROVE linked' /\ relay' \notin {"none", "opening", "dying"}  BY <1>4
    <3>2. linked /\ relay \notin {"none", "opening", "dying"}  BY <1>0, <3>1 DEF TaskOK
    <3>3. linked'  BY <1>4, <3>2, Zenon
    <3>4. QED  BY <1>4, <3>2, <3>3
  <2>6. TaskOK'  BY <1>0, <1>1, <1>4, <2>4, <2>5 DEF TaskOK
  <2>7. acc' \in Seq(Outs)  BY <1>0, <1>b, <1>4 DEF TextOK
  <2>8. inflight' \in Seq(Outs) /\ header' \in 0..MaxTurns  BY <1>0, <1>b, <1>4 DEF TextOK
  <2>9. TextOK'  BY <1>0, <1>1, <2>7, <2>8 DEF TextOK
  <2>10. StopOK'  BY <1>0, <1>1, <1>4, Zenon DEF StopOK
  <2>11. QED  BY <1>2, <2>1, <2>3, <2>6, <2>9, <2>10 DEF Typed
<1>t. /\ down \in {"none", "due", "list"} /\ hook \in {"none", "list", "labels", "recover", "clear"}
      /\ label \in {"none", "task", "disconnected"} /\ saw \in {"none", "task", "disconnected"}
      /\ status \in {"idle", "running", "failed"}
  BY <1>0, Zenon DEF TunnelOK, StopOK
<1>5. CASE _on_runner_disconnect
  <2>1. /\ down' = (IF linked THEN "none" ELSE "list")
        /\ UNCHANGED <<linked, hook, saw, drops, relay, sub, acc, inflight, header, status, label, faults>>
    BY <1>5, Zenon DEF _on_runner_disconnect
  <2>2. down' \in {"none", "due", "list"}  BY <2>1
  <2>3. QED  BY <1>4, <1>t, <2>1, <2>2
<1>6. CASE OfflineMarks
  <2>1. /\ down' = "none" /\ _publish_status("failed")
        /\ UNCHANGED <<linked, hook, saw, drops, relay, sub, acc, label, faults>>
    BY <1>6, Zenon DEF OfflineMarks
  <2>2. QED  BY <1>4, <1>t, <2>1, PublishTyped
<1>7. CASE TunnelReturns
  <2>1. /\ linked' = TRUE /\ hook' = "list"
        /\ UNCHANGED <<down, saw, drops, relay, sub, acc, inflight, header, status, label, faults>>
    BY <1>7, Zenon DEF TunnelReturns
  <2>2. QED  BY <1>4, <1>t, <2>1
<1>8. CASE _on_runner_connect
  <2>1. /\ _ensure_runner_relay /\ hook' = (IF status = "failed" THEN "labels" ELSE "none")
        /\ UNCHANGED <<linked, down, saw, drops, sub, inflight, header, status, label, faults>>
    BY <1>8, Zenon DEF _on_runner_connect
  <2>2. hook' \in {"none", "list", "labels", "recover", "clear"}  BY <2>1
  <2>3. (relay' = relay \/ (relay = "none" /\ relay' = "opening")) /\ (acc' = acc \/ acc' = <<>>)  BY <2>1, EnsureTyped
  <2>4. QED  BY <1>4, <1>t, <2>1, <2>2, <2>3
<1>9. CASE ReadLabels
  <2>1. /\ saw' = label /\ hook' = "recover"
        /\ UNCHANGED <<linked, down, drops, relay, sub, acc, inflight, header, status, label, faults>>
    BY <1>9, Zenon DEF ReadLabels
  <2>2. QED  BY <1>4, <1>t, <2>1
<1>10. CASE _publish_runner_recovered_status
  <2>1. /\ saw' = "none" /\ UNCHANGED <<linked, down, drops, relay, sub, acc, label, faults>>
    BY <1>10, Zenon DEF _publish_runner_recovered_status
  <2>2. \/ hook' = "none" /\ UNCHANGED <<status, inflight, header>>
        \/ hook' = "clear" /\ status' = "idle" /\ inflight' = <<>> /\ header' = 0
    BY <1>10, Zenon DEF _publish_runner_recovered_status, ForgetInflight
  <2>3. QED  BY <1>4, <1>t, <2>1, <2>2
<1>11. CASE ClearLabels
  <2>1. /\ hook' = "none" /\ label' = "none"
        /\ UNCHANGED <<linked, down, saw, drops, relay, sub, acc, inflight, header, status, faults>>
    BY <1>11, Zenon DEF ClearLabels
  <2>2. QED  BY <1>4, <1>t, <2>1
<1>12. QED  BY <1>3, <1>5, <1>6, <1>7, <1>8, <1>9, <1>10, <1>11, Zenon DEF Tunnel

\* The types hold at first.
LEMMA TypedInit == RelayInit => Typed
<1> SUFFICES ASSUME RelayInit PROVE Typed  OBVIOUS
<1>1. /\ msg = [t \in Turns |-> "new"] /\ rturn = 0 /\ made = <<>> /\ halting = FALSE
      /\ linked = TRUE /\ down = "none" /\ hook = "none" /\ saw = "none" /\ drops = 0
      /\ relay = "none" /\ sub = FALSE /\ wire = <<>> /\ ev = <<"none">> /\ acc = <<>>
      /\ inflight = <<>> /\ header = 0 /\ shown = {} /\ store = <<>>
      /\ status = "idle" /\ label = "none" /\ fence = FALSE
      /\ stop = [s \in Stops |-> "new"] /\ fenced = {} /\ missed = {} /\ unsaved = 0 /\ faults = 0
  BY Zenon DEF RelayInit
<1>2. RunnerOK
  <2>1. msg \in [Turns -> {"new", "wait", "go", "queued", "running", "over", "cut", "refused"}]  BY <1>1
  <2>2. rturn \in 0..MaxTurns /\ made \in Seq(Outputs) /\ Len(made) <= MaxOut  BY <1>1, RelayBounds
  <2>3. halting \in BOOLEAN /\ ~halting  BY <1>1
  <2>4. QED  BY <1>1, <2>1, <2>2, <2>3 DEF RunnerOK
<1>3. linked \in BOOLEAN /\ sub \in BOOLEAN /\ fence \in BOOLEAN /\ ~sub  BY <1>1
<1>4. TunnelOK  BY <1>1, <1>3 DEF TunnelOK
<1>5. TaskOK
  <2>1. wire \in Seq(Events) /\ ev \in Events  BY <1>1, EventKinds
  <2>2. QED  BY <1>1, <1>3, <2>1 DEF TaskOK, RelayStates
<1>6. TextOK  BY <1>1, RelayBounds DEF TextOK
<1>7. StopOK  BY <1>1, <1>3 DEF StopOK
<1>8. CountOK  BY <1>1, RelayBounds DEF CountOK
<1>9. QED  BY <1>2, <1>4, <1>5, <1>6, <1>7, <1>8 DEF Typed

\* And every step keeps them.
LEMMA TypedNext == Typed /\ [RelayNext]_rvars => Typed'
<1> SUFFICES ASSUME Typed, [RelayNext]_rvars PROVE Typed'  OBVIOUS
<1>1. CASE UNCHANGED rvars
  <2>1. /\ UNCHANGED <<msg, rturn, made, halting>> /\ UNCHANGED <<linked, down, hook, label, saw>>
        /\ UNCHANGED <<relay, sub, linked, wire, ev>> /\ UNCHANGED <<acc, inflight, store, header, shown>>
        /\ UNCHANGED <<status, fence, stop, fenced, missed>> /\ UNCHANGED <<faults, drops, unsaved>>
    BY <1>1, Zenon DEF rvars, runner, tunnel, task, text
  <2>2. QED  BY <2>1, Frames DEF Typed
<1>2. CASE Relay
  BY <1>2, OpensTyped, ReadersTyped, FlushTyped, Zenon DEF Relay
<1>3. CASE RelayNext
  BY <1>2, <1>3, PostTyped, StartsTyped, EmitsTyped, EndsTyped, StopTyped, TunnelTyped, Zenon DEF RelayNext
<1>4. QED  BY <1>1, <1>3

\* The strengthened types, for any number of turns, outputs, stops, unread events and faults.
THEOREM RelayTyped == RelaySpec => []Typed
BY TypedInit, TypedNext, PTL DEF RelaySpec

\* Types, for any number of turns, outputs, stops, unread events and faults.
THEOREM RelayTypes == RelaySpec => []RelayTypeOK
<1>1. RelayInit => BrokenOK  BY DEF RelayInit, BrokenOK
<1>2. Typed /\ BrokenOK /\ [RelayNext]_rvars => BrokenOK'
  <2>1. SUFFICES ASSUME BrokenOK, [RelayNext]_rvars PROVE BrokenOK'  OBVIOUS
  <2>2. CASE UNCHANGED rvars  BY <2>1, <2>2 DEF rvars, tunnel, BrokenOK
  <2>3. ASSUME NEW t \in Turns, Post(t) PROVE BrokenOK'
    BY <2>1, <2>3 DEF Post, PostEnsures, PostTimesOut, PostForwards, ForwardFails, tunnel, BrokenOK
  <2>4. CASE (\E t \in Turns : RunnerStarts(t)) \/ RunnerEmits \/ RunnerEnds \/ RunnerHalts
    <3>1. RunnerStep  BY <2>4, Zenon DEF RunnerStarts, RunnerEmits, RunnerEnds, RunnerHalts
    <3>2. QED  BY <2>1, <3>1 DEF RunnerStep, tunnel, BrokenOK
  <2>5. ASSUME NEW s \in Stops, Stop(s) PROVE BrokenOK'
    <3>1. StopStep  BY <2>5, Zenon DEF Stop, StopRequested, StopLands, StopAnswered, StopFails
    <3>2. QED  BY <2>1, <3>1 DEF StopStep, tunnel, BrokenOK
  <2>6. CASE Relay
    <3>1. RelayStep
      BY <2>6, Zenon DEF Relay, RelayOpens, RelayStatus, RelayDrops, RelayCreated, RelayText, RelayBoundary, FlushCommits,
         FlushResumes, FlushFails, RelayAfter, RelayLost, RelayEnds
    <3>2. QED  BY <2>1, <3>1 DEF RelayStep, tunnel, BrokenOK
  <2>7. CASE Tunnel
    <3>1. CASE TunnelDrops  BY <2>1, <3>1 DEF TunnelDrops, BrokenOK
    <3>2. CASE ~TunnelDrops
      <4>1. broken' = broken
        BY <2>7, <3>2, Zenon DEF Tunnel, _on_runner_disconnect, OfflineMarks, TunnelReturns, _on_runner_connect,
           ReadLabels, _publish_runner_recovered_status, ClearLabels
      <4>2. QED  BY <2>1, <4>1 DEF BrokenOK
    <3>3. QED  BY <3>1, <3>2
  <2>8. QED  BY <2>1, <2>2, <2>3, <2>4, <2>5, <2>6, <2>7, Zenon DEF RelayNext
<1>3. QED  BY <1>1, <1>2, RelayTyped, TypedImplies, PTL DEF RelaySpec

-----------------------------------------------------------------------------
(***************************************************************************)
(* What the steps do to the outputs on their way.                          *)
(***************************************************************************)
\* The relay handles an event across awaits.
Busy == relay \in {"flush", "flushed", "after"}

\* What the loss of a tunnel leaves behind.
Torn == ~linked \/ ~sub \/ down # "none" \/ hook # "none" \/ broken # {}
\* The turns that ended with a status alone.
Cut == {t \in Turns : msg[t] = "cut"}
\* The steps that read, make and store nothing.
Quiet ==
    /\ UNCHANGED <<made, rturn, wire, ev, shown, store, unsaved, missed>>
    /\ \/ UNCHANGED <<inflight, header, status>>
       \/ inflight' = <<>> /\ header' = 0 /\ Torn
    /\ acc' = acc \/ (acc' = <<>> /\ relay \in {"none", "dying"})
    /\ relay' = relay \/ (~Busy /\ ~Busy')
    /\ sub' = sub \/ sub' = FALSE \/ relay = "opening"
    /\ ~fence' \/ fence' = fence \/ Begun \subseteq fenced'
    /\ fenced \subseteq fenced' /\ Begun' = Begun /\ Cut' = Cut
    /\ ~halting' \/ halting' = halting \/ rturn \in fenced'
    /\ drops' = drops \/ drops' > 0

\* _publish_status by status.
LEMMA PublishEffect ==
    ASSUME NEW s \in {"idle", "running", "failed"}, _publish_status(s)
    PROVE  /\ s = "failed" => status' = "failed" /\ inflight' = <<>> /\ header' = 0
           /\ s = "running" => status' = "running" /\ UNCHANGED <<inflight, header>>
           /\ s = "idle" => \/ status = "failed" /\ UNCHANGED <<status, inflight, header>>
                            \/ status' = "idle" /\ inflight' = <<>> /\ header' = 0
BY DEF _publish_status, ForgetInflight

\* The posts are such steps.
LEMMA PostQuiet == ASSUME Typed, NEW t \in Turns, Post(t) PROVE Quiet
<1>1. /\ UNCHANGED <<rturn, made, halting, linked, down, hook, saw, drops, sub, wire, ev>>
      /\ UNCHANGED <<shown, store, label, fence, stop, fenced, missed, unsaved, faults>>
  BY Zenon DEF Post, PostEnsures, PostTimesOut, PostForwards, ForwardFails, tunnel, text, task
<1>2. /\ acc' = acc \/ (acc' = <<>> /\ relay \in {"none", "dying"})
      /\ relay' = relay \/ (relay = "none" /\ relay' = "opening")
  BY EnsureTyped, Zenon DEF Post, PostEnsures, PostTimesOut, PostForwards, ForwardFails, task, _ensure_runner_relay
<1>3. \/ msg' = msg
      \/ /\ msg[t] \in {"new", "wait", "go", "queued"}
         /\ \E x \in {"wait", "go", "queued", "refused"} : msg' = [msg EXCEPT ![t] = x]
  BY DEF Post, PostEnsures, PostTimesOut, PostForwards, ForwardFails
<1>4. Begun' = Begun /\ Cut' = Cut
  <2>1. msg \in [Turns -> {"new", "wait", "go", "queued", "running", "over", "cut", "refused"}]  BY Zenon DEF Typed, RunnerOK
  <2>2. \A u \in Turns : /\ msg'[u] \in {"running", "over", "cut"} <=> msg[u] \in {"running", "over", "cut"}
                         /\ msg'[u] = "cut" <=> msg[u] = "cut"
    BY <1>3, <2>1
  <2>3. QED  BY <2>2 DEF Begun, Cut
<1>5. relay' = relay \/ (~Busy /\ ~Busy')  BY <1>2 DEF Busy
<1>6. \/ UNCHANGED <<inflight, header, status>>
      \/ inflight' = <<>> /\ header' = 0 /\ Torn
  <2>1. \/ UNCHANGED <<inflight, header, status>>
        \/ _publish_status("idle") /\ (~linked \/ t \in broken)
    BY Zenon DEF Post, PostEnsures, PostTimesOut, PostForwards, ForwardFails, text
  <2>2. t \in broken => broken # {}  OBVIOUS
  <2>3. QED  BY <2>1, <2>2, PublishEffect DEF Torn
<1>7. QED  BY <1>1, <1>2, <1>4, <1>5, <1>6 DEF Quiet

\* So are the interrupt requests,
LEMMA StopQuiet == ASSUME Typed, NEW s \in Stops, Stop(s) PROVE Quiet
<1>1. UNCHANGED <<msg, rturn, made, linked, down, hook, saw, drops, relay, sub, wire, ev, acc, inflight, header,
                  shown, store, status, label, missed, unsaved>>
  BY Zenon DEF Stop, StopRequested, StopLands, StopAnswered, StopFails, StopStep, tunnel, task, text
<1>2. Begun' = Begun /\ Cut' = Cut  BY <1>1 DEF Begun, Cut
<1>3. rturn # 0 => rturn \in Begun  BY RelayBounds DEF Typed, RunnerOK, Begun, Turns
<1>4. CASE StopRequested(s)
  <2>1. halting' = halting /\ fenced' = fenced \cup Begun  BY <1>4, Zenon DEF StopRequested
  <2>2. QED  BY <1>1, <1>2, <2>1 DEF Quiet
<1>5. CASE StopLands(s)
  <2>1. halting' = (rturn # 0) /\ fenced' = fenced \cup Begun /\ fence' = fence  BY <1>5, Zenon DEF StopLands
  <2>2. ~halting' \/ rturn \in fenced'  BY <1>3, <2>1
  <2>3. QED  BY <1>1, <1>2, <2>1, <2>2 DEF Quiet
<1>6. CASE StopAnswered(s)
  <2>1. UNCHANGED <<halting, fence, fenced>>  BY <1>6, Zenon DEF StopAnswered
  <2>2. QED  BY <1>1, <1>2, <2>1 DEF Quiet
<1>7. CASE StopFails(s)
  <2>1. UNCHANGED <<halting, fenced>> /\ fence' = FALSE  BY <1>7, Zenon DEF StopFails
  <2>2. QED  BY <1>1, <1>2, <2>1 DEF Quiet
<1>8. QED  BY <1>4, <1>5, <1>6, <1>7 DEF Stop

\* the tunnel and its hooks,
LEMMA TunnelQuiet == ASSUME Typed, Tunnel PROVE Quiet
<1>1. UNCHANGED <<msg, rturn, made, halting, fence, stop, fenced, missed, unsaved, shown, store, wire, ev>>
  BY Zenon DEF Tunnel, TunnelDrops, _on_runner_disconnect, OfflineMarks, TunnelReturns, _on_runner_connect,
     ReadLabels, _publish_runner_recovered_status, ClearLabels, TunnelStep, runner
<1>2. Begun' = Begun /\ Cut' = Cut  BY <1>1 DEF Begun, Cut
<1>3. CASE TunnelDrops
  <2>1. sub' = FALSE /\ drops' = drops + 1 /\ UNCHANGED <<relay, acc, inflight, header, status>>
    BY <1>3, Zenon DEF TunnelDrops
  <2>2. drops' > 0  BY <2>1 DEF Typed, CountOK
  <2>3. QED  BY <1>1, <1>2, <2>1, <2>2 DEF Quiet
<1>4. ASSUME UNCHANGED <<drops, sub>>, acc' = acc \/ (acc' = <<>> /\ relay = "none"),
             relay' = relay \/ (relay = "none" /\ relay' = "opening"),
             \/ UNCHANGED <<inflight, header, status>>
             \/ inflight' = <<>> /\ header' = 0 /\ Torn
      PROVE  Quiet
  <2>1. relay' = relay \/ (~Busy /\ ~Busy')  BY <1>4 DEF Busy
  <2>2. QED  BY <1>1, <1>2, <1>4, <2>1 DEF Quiet
<1>5. CASE _on_runner_disconnect \/ TunnelReturns \/ ReadLabels \/ ClearLabels
  BY <1>4, <1>5, Zenon DEF _on_runner_disconnect, TunnelReturns, ReadLabels, ClearLabels
<1>6. CASE OfflineMarks
  <2>1. down = "list" /\ _publish_status("failed") /\ UNCHANGED <<relay, acc, drops, sub>>
    BY <1>6, Zenon DEF OfflineMarks
  <2>2. Torn  BY <2>1 DEF Torn
  <2>3. QED  BY <1>4, <2>1, <2>2, PublishEffect
<1>7. CASE _on_runner_connect
  <2>1. _ensure_runner_relay /\ UNCHANGED <<drops, sub, inflight, header, status>>  BY <1>7, Zenon DEF _on_runner_connect
  <2>2. QED  BY <1>4, <2>1, EnsureTyped
<1>8. CASE _publish_runner_recovered_status
  <2>0. hook = "recover" /\ UNCHANGED <<drops, relay, sub, acc>>  BY <1>8, Zenon DEF _publish_runner_recovered_status
  <2>1. Torn /\ UNCHANGED <<drops, relay, sub, acc>>  BY <2>0 DEF Torn
  <2>2. \/ UNCHANGED <<inflight, header, status>>
        \/ inflight' = <<>> /\ header' = 0
    BY <1>8, Zenon DEF _publish_runner_recovered_status, ForgetInflight
  <2>3. QED  BY <1>4, <2>1, <2>2
<1>9. QED  BY <1>3, <1>5, <1>6, <1>7, <1>8, Zenon DEF Tunnel

\* and the relay's beginning and end.
LEMMA TaskQuiet == ASSUME Typed, RelayOpens \/ RelayLost \/ RelayEnds PROVE Quiet
<1>1. UNCHANGED <<rturn, made, halting, drops, fenced, missed>>
  <2>1. RelayStep  BY Zenon DEF RelayOpens, RelayLost, RelayEnds
  <2>2. QED  BY <2>1, RelayMoves
<1>2. UNCHANGED <<wire, ev, shown, store, fence, unsaved>>
  BY Zenon DEF RelayOpens, RelayLost, RelayEnds, text
<1>3. CASE RelayOpens
  <2>1. relay = "opening" /\ relay' = "reading" /\ UNCHANGED <<acc, inflight, header, status>>
        /\ msg' = [t \in Turns |-> IF msg[t] = "wait" THEN "go" ELSE msg[t]]
    BY <1>3, Zenon DEF RelayOpens, text
  <2>2. Begun' = Begun /\ Cut' = Cut
    <3>1. \A u \in Turns : /\ msg'[u] \in {"running", "over", "cut"} <=> msg[u] \in {"running", "over", "cut"}
                           /\ msg'[u] = "cut" <=> msg[u] = "cut"
      BY <2>1
    <3>2. QED  BY <3>1 DEF Begun, Cut
  <2>3. ~Busy /\ ~Busy'  BY <2>1 DEF Busy
  <2>4. QED  BY <1>1, <1>2, <2>1, <2>2, <2>3 DEF Quiet
<1>4. CASE RelayLost
  <2>1. relay' = "dying" /\ _publish_status("failed") /\ UNCHANGED <<msg, sub, acc>>  BY <1>4, Zenon DEF RelayLost
  <2>2. relay \in {"reading", "opening"}  BY <1>4 DEF RelayLost
  <2>3. Begun' = Begun /\ Cut' = Cut  BY <2>1 DEF Begun, Cut
  <2>4. ~Busy /\ ~Busy'  BY <2>1, <2>2 DEF Busy
  <2>5. inflight' = <<>> /\ header' = 0  BY <2>1, PublishEffect
  <2>t. Torn  BY <1>4 DEF RelayLost, Torn
  <2>6. QED  BY <1>1, <1>2, <2>1, <2>3, <2>4, <2>5, <2>t DEF Quiet
<1>5. CASE RelayEnds
  <2>1. relay = "dying" /\ relay' = "none" /\ acc' = <<>> /\ inflight' = <<>> /\ header' = 0 /\ UNCHANGED <<msg, sub>>
    BY <1>5, Zenon DEF RelayEnds, ForgetInflight
  <2>2. Begun' = Begun /\ Cut' = Cut  BY <2>1 DEF Begun, Cut
  <2>3. ~Busy /\ ~Busy'  BY <2>1 DEF Busy
  <2>4. Torn  BY <2>1 DEF Typed, TaskOK, Torn
  <2>5. QED  BY <1>1, <1>2, <2>1, <2>2, <2>3, <2>4 DEF Quiet
<1>6. QED  BY <1>3, <1>4, <1>5

\* What a step of the relay that reads or stores leaves alone.
Steady == UNCHANGED <<msg, rturn, made, halting, linked, down, hook, drops, broken, sub, fenced, missed>>

\* The relay has read the first event of the wire.
Takes == Steady /\ relay = "reading" /\ wire # <<>> /\ wire' = Tail(wire) /\ UNCHANGED <<store, unsaved>>

\* What it does with the event, by the kind of event.
HearsRunning ==
    /\ Takes /\ wire[1][1] = "running"
    /\ ~fence' /\ acc' = <<>> /\ UNCHANGED <<relay, ev, inflight, header, shown>>
HearsEnd ==
    /\ Takes /\ wire[1][1] \in {"idle", "failed"}
    /\ UNCHANGED <<relay, ev, acc, shown, fence>>
    /\ \/ status = "failed" /\ UNCHANGED <<status, inflight, header>>
       \/ inflight' = <<>> /\ header' = 0
HearsNothing ==
    /\ Takes /\ fence /\ wire[1][1] \in {"created", "text", "call"}
    /\ UNCHANGED <<relay, ev, acc, inflight, header, shown, status, fence>>
HearsCreated ==
    /\ Takes /\ ~fence /\ wire[1][1] = "created" /\ header' = wire[1][2]
    /\ inflight' = <<>> \/ (header = wire[1][2] /\ inflight' = inflight)
    /\ UNCHANGED <<relay, ev, acc, shown, status, fence>>
HearsText ==
    /\ Takes /\ ~fence /\ wire[1][1] = "text"
    /\ acc' = Append(acc, wire[1][2]) /\ inflight' = Append(inflight, wire[1][2])
    /\ shown' = shown \cup {wire[1][2]}
    /\ UNCHANGED <<relay, ev, header, status, fence>>
HearsBoundary ==
    /\ Takes /\ wire[1][1] \in {"call", "terminal"} /\ ev' = wire[1] /\ ~fence'
    /\ (acc # <<>> /\ relay' = "flush") \/ (acc = <<>> /\ relay' = "after")
    /\ UNCHANGED <<acc, inflight, header, shown, status>>
Hears == HearsRunning \/ HearsEnd \/ HearsNothing \/ HearsCreated \/ HearsText \/ HearsBoundary

\* Reading takes the first event.
LEMMA TakesFirst ==
    ASSUME Typed, NEW k, Reads(k), RelayStep, UNCHANGED <<msg, sub, store, unsaved>>
    PROVE  Takes /\ wire[1] = Head(wire) /\ wire[1][1] = k
<1>1. relay = "reading" /\ wire # <<>> /\ Head(wire)[1] = k /\ wire' = Tail(wire)  BY ReadsTyped
<1>2. wire \in Seq(Events)  BY Zenon DEF Typed, TaskOK
<1>3. Head(wire) = wire[1]  BY <1>1, <1>2, TailPlaces
<1>4. Steady  BY RelayMoves DEF Steady
<1>5. QED  BY <1>1, <1>3, <1>4 DEF Takes

\* Every step that reads is one of these.
LEMMA Reading ==
    ASSUME Typed, RelayStatus \/ RelayDrops \/ RelayCreated \/ RelayText \/ RelayBoundary
    PROVE  Hears
<1>1. CASE RelayStatus
  <2>0. UNCHANGED <<msg, relay, sub, ev, shown, store, unsaved>> /\ RelayStep  BY <1>1, Zenon DEF RelayStatus
  <2>1. CASE Reads("running") /\ _publish_status("running") /\ fence' = FALSE /\ acc' = <<>>
    <3>1. Takes /\ wire[1][1] = "running"  BY <2>0, <2>1, TakesFirst
    <3>2. UNCHANGED <<inflight, header>>  BY <2>1, PublishEffect
    <3>3. QED  BY <2>0, <2>1, <3>1, <3>2 DEF HearsRunning, Hears
  <2>2. CASE Reads("idle") /\ _publish_status("idle") /\ UNCHANGED <<fence, acc>>
    <3>1. Takes /\ wire[1][1] = "idle"  BY <2>0, <2>2, TakesFirst
    <3>2. \/ status = "failed" /\ UNCHANGED <<status, inflight, header>>
          \/ inflight' = <<>> /\ header' = 0
      BY <2>2, PublishEffect
    <3>3. QED  BY <2>0, <2>2, <3>1, <3>2 DEF HearsEnd, Hears
  <2>3. CASE Reads("failed") /\ _publish_status("failed") /\ UNCHANGED <<fence, acc>>
    <3>1. Takes /\ wire[1][1] = "failed"  BY <2>0, <2>3, TakesFirst
    <3>2. inflight' = <<>> /\ header' = 0  BY <2>3, PublishEffect
    <3>3. QED  BY <2>0, <2>3, <3>1, <3>2 DEF HearsEnd, Hears
  <2>4. QED  BY <1>1, <2>1, <2>2, <2>3, Zenon DEF RelayStatus
<1>2. CASE RelayDrops
  <2>1. PICK k \in {"created", "text", "call"} : Reads(k)  BY <1>2, Zenon DEF RelayDrops
  <2>2. fence /\ RelayStep /\ UNCHANGED <<msg, sub, relay, ev, acc, inflight, header, shown, store, status, fence, unsaved>>
    BY <1>2, Zenon DEF RelayDrops, text
  <2>3. Takes /\ wire[1][1] = k  BY <2>1, <2>2, TakesFirst
  <2>4. QED  BY <2>2, <2>3 DEF HearsNothing, Hears
<1>3. CASE RelayCreated
  <2>1. ~fence /\ Reads("created") /\ header' = Head(wire)[2]
        /\ RelayStep /\ UNCHANGED <<msg, sub, relay, ev, acc, shown, store, status, fence, unsaved>>
    BY <1>3, Zenon DEF RelayCreated
  <2>2. inflight' = <<>> \/ (header = Head(wire)[2] /\ inflight' = inflight)  BY <1>3, Zenon DEF RelayCreated
  <2>3. Takes /\ wire[1] = Head(wire) /\ wire[1][1] = "created"  BY <2>1, TakesFirst
  <2>4. QED  BY <2>1, <2>2, <2>3 DEF HearsCreated, Hears
<1>4. CASE RelayText
  <2>1. ~fence /\ Reads("text")
        /\ RelayStep /\ UNCHANGED <<msg, sub, relay, ev, header, store, status, fence, unsaved>>
    BY <1>4, Zenon DEF RelayText
  <2>2. acc' = Append(acc, Head(wire)[2]) /\ inflight' = Append(inflight, Head(wire)[2]) /\ shown' = shown \cup {Head(wire)[2]}
    BY <1>4, Zenon DEF RelayText
  <2>3. Takes /\ wire[1] = Head(wire) /\ wire[1][1] = "text"  BY <2>1, TakesFirst
  <2>4. QED  BY <2>1, <2>2, <2>3 DEF HearsText, Hears
<1>5. CASE RelayBoundary
  <2>1. /\ ev' = Head(wire)
        /\ (acc # <<>> /\ relay' = "flush") \/ (acc = <<>> /\ relay' = "after")
        /\ RelayStep /\ UNCHANGED <<msg, sub, acc, inflight, header, shown, store, status, unsaved>>
    BY <1>5, Zenon DEF RelayBoundary, text
  <2>2. CASE ~fence /\ Reads("call") /\ UNCHANGED fence
    <3>1. Takes /\ wire[1] = Head(wire) /\ wire[1][1] = "call"  BY <2>1, <2>2, TakesFirst
    <3>2. QED  BY <2>1, <2>2, <3>1 DEF HearsBoundary, Hears
  <2>3. CASE Reads("terminal") /\ fence' = FALSE
    <3>1. Takes /\ wire[1] = Head(wire) /\ wire[1][1] = "terminal"  BY <2>1, <2>3, TakesFirst
    <3>2. QED  BY <2>1, <2>3, <3>1 DEF HearsBoundary, Hears
  <2>4. QED  BY <1>5, <2>2, <2>3 DEF RelayBoundary
<1>6. QED  BY <1>1, <1>2, <1>3, <1>4, <1>5

\* What the relay does with an event across awaits.
Keeps == Steady /\ UNCHANGED <<wire, shown, fence, status>>
StoresText == Keeps /\ relay = "flush" /\ relay' = "flushed" /\ store' = store \o acc
              /\ UNCHANGED <<ev, acc, inflight, header, unsaved>>
ClearsText == Keeps /\ relay = "flushed" /\ relay' = "after" /\ acc' = <<>> /\ inflight' = <<>>
              /\ UNCHANGED <<ev, header, store, unsaved>>
LosesFlush == Keeps /\ relay = "flush" /\ relay' = "after" /\ unsaved' = unsaved + 1
              /\ UNCHANGED <<ev, acc, inflight, header, store>>
StoresCall == Keeps /\ relay = "after" /\ relay' = "reading" /\ ev[1] = "call" /\ store' = Append(store, ev[2])
              /\ UNCHANGED <<acc, inflight, header, unsaved>>
LosesCall  == Keeps /\ relay = "after" /\ relay' = "reading" /\ ev[1] = "call" /\ unsaved' = unsaved + 1
              /\ UNCHANGED <<acc, inflight, header, store>>
ShowsEnd   == Keeps /\ relay = "after" /\ relay' = "reading" /\ ev[1] = "terminal" /\ inflight' = <<>> /\ header' = 0
              /\ UNCHANGED <<acc, store, unsaved>>
Works == StoresText \/ ClearsText \/ LosesFlush \/ StoresCall \/ LosesCall \/ ShowsEnd

\* Every step between two reads is one of these.
LEMMA Working ==
    ASSUME Typed, FlushCommits \/ FlushResumes \/ FlushFails \/ RelayAfter
    PROVE  Works
<1>1. RelayStep /\ UNCHANGED <<msg, sub, wire, shown, fence, status>>
  BY Zenon DEF FlushCommits, FlushResumes, FlushFails, RelayAfter, text
<1>2. Keeps  BY <1>1, RelayMoves DEF Keeps, Steady
<1>3. CASE FlushCommits  BY <1>2, <1>3, Zenon DEF FlushCommits, Works, StoresText
<1>4. CASE FlushResumes  BY <1>2, <1>4, Zenon DEF FlushResumes, Works, ClearsText
<1>5. CASE FlushFails  BY <1>2, <1>5, Zenon DEF FlushFails, Works, LosesFlush, text
<1>6. CASE RelayAfter
  <2>1. relay = "after" /\ relay' = "reading" /\ acc' = acc  BY <1>6, Zenon DEF RelayAfter
  <2>2. CASE ev[1] = "call" /\ store' = Append(store, ev[2]) /\ UNCHANGED <<inflight, header, unsaved>>
    BY <1>2, <2>1, <2>2, Zenon DEF Works, StoresCall
  <2>3. CASE ev[1] = "call" /\ unsaved' = unsaved + 1 /\ UNCHANGED <<inflight, header, store>>
    BY <1>2, <2>1, <2>3, Zenon DEF Works, LosesCall
  <2>4. CASE ev[1] = "terminal" /\ ForgetInflight /\ UNCHANGED <<store, unsaved>>
    BY <1>2, <2>1, <2>4, Zenon DEF Works, ShowsEnd, ForgetInflight
  <2>5. QED  BY <1>6, <2>2, <2>3, <2>4, Zenon DEF RelayAfter
<1>7. QED  BY <1>3, <1>4, <1>5, <1>6

\* What the runner says is on the wire when the relay is subscribed, and gone when it is not.
Says(es) == (sub /\ wire' = wire \o es) \/ (~sub /\ wire' = wire)
\* What the runner leaves alone.
Apart == UNCHANGED <<linked, down, hook, drops, broken, relay, sub, ev, acc, inflight, header, shown, store, status, fence,
                     unsaved, fenced>>
\* What the runner does.
Starts(t) ==
    /\ Apart /\ rturn = 0 /\ t \notin Begun /\ msg[t] = "queued" /\ Begun' = Begun \cup {t}
    /\ missed' = (IF sub THEN missed ELSE missed \cup {t}) /\ UNCHANGED <<made, halting>>
    /\ \A u \in Turns : u # t => msg'[u] = msg[u]
    /\ \/ rturn' = t /\ Says(<<<<"running">>, <<"created", t>>>>)
       \/ rturn' = 0 /\ Says(<<<<"running">>, <<"failed">>>>)
Makes(k) ==
    /\ Apart /\ rturn # 0 /\ UNCHANGED <<msg, rturn, halting, missed>> /\ Len(made) < MaxOut
    /\ made' = Append(made, [turn |-> rturn, kind |-> k]) /\ Says(<<<<k, Len(made) + 1>>>>)
Ends ==
    /\ Apart /\ rturn # 0 /\ rturn' = 0 /\ ~halting' /\ UNCHANGED <<made, missed>> /\ Begun' = Begun
    /\ \A u \in Turns : u # rturn => msg'[u] = msg[u]
    /\ msg'[rturn] \in {"over", "cut"}
    /\ \/ Says(<<<<"terminal">>, <<"idle">>>>)
       \/ Says(<<<<"terminal">>, <<"failed">>>>)
       \/ halting /\ Says(<<<<"idle">>>>)
       \/ msg'[rturn] = "cut" /\ Says(<<<<"failed">>>>)

\* Emit is that, within the bound.
LEMMA EmitSays == ASSUME Typed, NEW es, Emit(es) PROVE Says(es)
<1>1. sub \in BOOLEAN  BY Zenon DEF Typed, TaskOK
<1>2. QED  BY <1>1 DEF Emit, Says

\* The runner's frame.
LEMMA RunnerApart == ASSUME RunnerStep, fenced' = fenced PROVE Apart
BY Zenon DEF RunnerStep, Apart, tunnel, text

\* RunnerStarts is such a step,
LEMMA Starting == ASSUME Typed, NEW t \in Turns, RunnerStarts(t) PROVE Starts(t)
<1>1. /\ rturn = 0 /\ msg[t] = "queued" /\ UNCHANGED <<made, halting>> /\ Apart
      /\ missed' = IF sub THEN missed ELSE missed \cup {t}
  BY RunnerApart, Zenon DEF RunnerStarts
<1>2. \/ rturn' = t /\ msg' = [msg EXCEPT ![t] = "running"] /\ Says(<<<<"running">>, <<"created", t>>>>)
      \/ rturn' = 0 /\ msg' = [msg EXCEPT ![t] = "over"] /\ Says(<<<<"running">>, <<"failed">>>>)
  BY <1>1, EmitSays, Zenon DEF RunnerStarts
<1>3. msg \in [Turns -> {"new", "wait", "go", "queued", "running", "over", "cut", "refused"}]  BY Zenon DEF Typed, RunnerOK
<1>4. PICK x \in {"running", "over"} : msg' = [msg EXCEPT ![t] = x]  BY <1>2
<1>5. msg'[t] = x /\ \A u \in Turns : u # t => msg'[u] = msg[u]  BY <1>3, <1>4
<1>6. t \notin Begun /\ Begun' = Begun \cup {t}  BY <1>1, <1>3, <1>5 DEF Begun
<1>7. QED  BY <1>1, <1>2, <1>5, <1>6, Zenon DEF Starts

\* and RunnerEmits,
LEMMA Making == ASSUME Typed, RunnerEmits PROVE \E k \in {"text", "call"} : Makes(k)
<1>1. rturn # 0 /\ Len(made) < MaxOut /\ UNCHANGED <<msg, rturn, halting, missed>> /\ Apart
  BY RunnerApart, Zenon DEF RunnerEmits
<1>2. PICK k \in {"text", "call"} :
        made' = Append(made, [turn |-> rturn, kind |-> k]) /\ Emit(<<<<k, Len(made) + 1>>>>)
  BY Zenon DEF RunnerEmits
<1>3. Says(<<<<k, Len(made) + 1>>>>)  BY <1>2, EmitSays
<1>4. QED  BY <1>1, <1>2, <1>3, Zenon DEF Makes

\* and the two ends of a turn.
LEMMA Ending == ASSUME Typed, RunnerEnds \/ RunnerHalts PROVE Ends
<1>0. RunnerOK  BY DEF Typed
<1>1. rturn # 0 /\ UNCHANGED <<made, missed>> /\ Apart
  BY <1>0, RunnerApart, Zenon DEF RunnerEnds, RunnerHalts, RunnerOK
<1>2. PICK x \in {"over", "cut"} :
        /\ TurnOver(x)
        /\ \/ Says(<<<<"terminal">>, <<"idle">>>>)
           \/ Says(<<<<"terminal">>, <<"failed">>>>)
           \/ halting /\ Says(<<<<"idle">>>>)
           \/ x = "cut" /\ Says(<<<<"failed">>>>)
  BY EmitSays, Zenon DEF RunnerEnds, RunnerHalts
<1>3. rturn' = 0 /\ halting' = FALSE /\ msg' = [msg EXCEPT ![rturn] = x]  BY <1>2, Zenon DEF TurnOver
<1>4. rturn \in Turns /\ msg[rturn] = "running"  BY <1>0, <1>1, RelayBounds DEF RunnerOK, Turns
<1>5. msg \in [Turns -> {"new", "wait", "go", "queued", "running", "over", "cut", "refused"}]  BY <1>0, Zenon DEF RunnerOK
<1>6. msg'[rturn] = x /\ \A u \in Turns : u # rturn => msg'[u] = msg[u]  BY <1>3, <1>4, <1>5
<1>7. Begun' = Begun  BY <1>4, <1>6 DEF Begun
<1>8. QED  BY <1>1, <1>2, <1>3, <1>6, <1>7 DEF Ends

\* The places of the wire after the runner spoke.
LEMMA SaysPlaces ==
    ASSUME Typed, NEW es \in Seq(Events), Says(es)
    PROVE  /\ Len(wire) \in Nat /\ Len(wire') \in Nat /\ Len(wire) <= Len(wire') /\ wire' \in Seq(Events)
           /\ \A i \in 1..Len(wire) : wire'[i] = wire[i]
           /\ \A i \in 1..Len(wire') : i > Len(wire) =>
                sub /\ i - Len(wire) \in 1..Len(es) /\ wire'[i] = es[i - Len(wire)]
           /\ sub => Len(wire') = Len(wire) + Len(es) /\ \A k \in 1..Len(es) : wire'[Len(wire) + k] = es[k]
           /\ ~sub => wire' = wire
<1>1. wire \in Seq(Events)  BY Zenon DEF Typed, TaskOK
<1>2. CASE ~sub /\ wire' = wire  BY <1>1, <1>2
<1>3. CASE sub /\ wire' = wire \o es
  <2>1. /\ wire' \in Seq(Events) /\ Len(wire') = Len(wire) + Len(es) /\ Len(wire) \in Nat /\ Len(es) \in Nat
        /\ \A k \in 1..Len(wire) : wire'[k] = wire[k]
        /\ \A k \in 1..Len(es) : wire'[Len(wire) + k] = es[k]
    BY <1>1, <1>3, JoinedPlaces
  <2>2. \A i \in 1..Len(wire') : i > Len(wire) => i - Len(wire) \in 1..Len(es) /\ wire'[i] = es[i - Len(wire)]
    <3>1. SUFFICES ASSUME NEW i \in 1..Len(wire'), i > Len(wire)
                   PROVE  i - Len(wire) \in 1..Len(es) /\ wire'[i] = es[i - Len(wire)]
      OBVIOUS
    <3>2. i - Len(wire) \in 1..Len(es) /\ Len(wire) + (i - Len(wire)) = i  BY <2>1, <3>1
    <3>3. QED  BY <2>1, <3>2
  <2>3. Len(wire) <= Len(wire')  BY <2>1
  <2>4. QED  BY <1>3, <2>1, <2>2, <2>3
<1>4. QED  BY <1>2, <1>3 DEF Says

\* The places of the wire after the relay read its first event.
LEMMA TakesPlaces ==
    ASSUME Typed, Takes
    PROVE  /\ Len(wire) \in Nat /\ Len(wire) >= 1 /\ Len(wire') = Len(wire) - 1 /\ Len(wire') \in Nat
           /\ \A i \in 1..Len(wire') : wire'[i] = wire[i + 1] /\ i + 1 \in 1..Len(wire)
           /\ 1 \in 1..Len(wire) /\ wire[1] \in Events
           /\ \A j \in 1..Len(wire) : j # 1 => j - 1 \in 1..Len(wire') /\ wire'[j - 1] = wire[j]
           /\ wire' = <<>> => Len(wire) = 1
<1>1. wire \in Seq(Events) /\ wire # <<>> /\ wire' = Tail(wire)  BY Zenon DEF Typed, TaskOK, Takes
<1>2. /\ wire' \in Seq(Events) /\ Len(wire') = Len(wire) - 1 /\ Len(wire) \in Nat /\ Len(wire) >= 1
      /\ \A i \in 1..(Len(wire) - 1) : wire'[i] = wire[i + 1]
      /\ wire[1] \in Events
  BY <1>1, TailPlaces
<1>3. Len(wire') \in Nat /\ 1 \in 1..Len(wire)  BY <1>2
<1>4. \A i \in 1..Len(wire') : wire'[i] = wire[i + 1] /\ i + 1 \in 1..Len(wire)  BY <1>2
<1>5. \A j \in 1..Len(wire) : j # 1 => j - 1 \in 1..Len(wire') /\ wire'[j - 1] = wire[j]
  <2>1. SUFFICES ASSUME NEW j \in 1..Len(wire), j # 1 PROVE j - 1 \in 1..Len(wire') /\ wire'[j - 1] = wire[j]  OBVIOUS
  <2>2. j - 1 \in 1..Len(wire') /\ (j - 1) + 1 = j  BY <1>2, <2>1
  <2>3. QED  BY <1>4, <2>2
<1>6. wire' = <<>> => Len(wire) = 1  BY <1>2
<1>7. QED  BY <1>2, <1>3, <1>4, <1>5, <1>6

\* Every step is one of these.
LEMMA Steps ==
    ASSUME Typed, RelayNext
    PROVE  \/ Quiet \/ Hears \/ Works \/ Ends
           \/ \E t \in Turns : Starts(t)
           \/ \E k \in {"text", "call"} : Makes(k)
<1>1. CASE \E t \in Turns : Post(t)  BY <1>1, PostQuiet
<1>2. CASE \E t \in Turns : RunnerStarts(t)  BY <1>2, Starting
<1>3. CASE RunnerEmits  BY <1>3, Making
<1>4. CASE RunnerEnds \/ RunnerHalts  BY <1>4, Ending
<1>5. CASE \E s \in Stops : Stop(s)  BY <1>5, StopQuiet
<1>6. CASE Relay
  <2>1. CASE RelayOpens \/ RelayLost \/ RelayEnds  BY <2>1, TaskQuiet
  <2>2. CASE RelayStatus \/ RelayDrops \/ RelayCreated \/ RelayText \/ RelayBoundary  BY <2>2, Reading
  <2>3. CASE FlushCommits \/ FlushResumes \/ FlushFails \/ RelayAfter  BY <2>3, Working
  <2>4. QED  BY <1>6, <2>1, <2>2, <2>3, Zenon DEF Relay
<1>7. CASE Tunnel  BY <1>7, TunnelQuiet
<1>8. QED  BY <1>1, <1>2, <1>3, <1>4, <1>5, <1>6, <1>7, Zenon DEF RelayNext

-----------------------------------------------------------------------------
(***************************************************************************)
(* The tunnel and the relay's slot.                                        *)
(***************************************************************************)
\* A connect hook that outlives its tunnel has the disconnect hook behind it.
HookWaits == ~linked /\ hook # "none" => down = "due"
\* A session whose runner is away, with both hooks and the relay done, is failed.
LostIsFailed == ~linked /\ down = "none" /\ relay \in {"none", "dying"} => status = "failed"
\* A relay that does not read has nothing on hand.
NewIsEmpty == /\ relay \in {"none", "opening", "dying"} => inflight = <<>> /\ header = 0 /\ wire = <<>>
              /\ Busy => ev[1] \in {"call", "terminal"}
\* While the tunnel has never dropped the relay is subscribed before a message is forwarded.
Unbroken == drops = 0 => /\ linked /\ relay # "dying" /\ missed = {}
                         /\ down = "none" /\ hook = "none" /\ broken = {}
                         /\ relay \notin {"none", "opening"} => sub
                         /\ relay \in {"none", "opening"} => shown = {}
                         /\ \A t \in Turns : msg[t] \in {"go", "queued"} => sub
\* What ties the hooks, the slot and the status.
Link == HookWaits /\ LostIsFailed /\ NewIsEmpty /\ Unbroken

\* It holds at first.
LEMMA LinkInit == ASSUME RelayInit PROVE Link
<1>1. /\ \A t \in Turns : msg[t] = "new"
      /\ linked = TRUE /\ relay = "none" /\ wire = <<>> /\ inflight = <<>> /\ header = 0 /\ shown = {} /\ missed = {}
      /\ down = "none" /\ hook = "none" /\ broken = {}
  BY DEF RelayInit
<1>2. ~Busy  BY <1>1 DEF Busy
<1>3. QED  BY <1>1, <1>2 DEF Link, HookWaits, LostIsFailed, NewIsEmpty, Unbroken

\* The posts keep it,
LEMMA PostLink == ASSUME Typed, Link, NEW t \in Turns, Post(t) PROVE Link'
<1>1. /\ UNCHANGED <<rturn, made, halting, linked, down, hook, saw, drops, sub, wire, ev>>
      /\ UNCHANGED <<shown, store, label, fence, stop, fenced, missed, unsaved, faults>>
  BY Zenon DEF Post, PostEnsures, PostTimesOut, PostForwards, ForwardFails, tunnel, text, task
<1>2. relay' = relay \/ (relay = "none" /\ relay' = "opening")
  BY EnsureTyped, Zenon DEF Post, PostEnsures, PostTimesOut, PostForwards, ForwardFails, task
<1>3. \/ msg' = msg
      \/ \E x \in {"wait", "go", "queued", "refused"} :
               /\ msg' = [msg EXCEPT ![t] = x]
               /\ x \in {"go", "queued"} => relay \notin {"none", "opening"} \/ msg[t] = "go"
  BY DEF Post, PostEnsures, PostTimesOut, PostForwards, ForwardFails
<1>4. msg \in [Turns -> {"new", "wait", "go", "queued", "running", "over", "cut", "refused"}] /\ relay \in RelayStates
  BY Zenon DEF Typed, RunnerOK, TaskOK
<1>s. /\ status = "failed" => status' = "failed"
      /\ \/ UNCHANGED <<inflight, header>>
         \/ inflight' = <<>> /\ header' = 0
  <2>1. UNCHANGED <<inflight, header, status>> \/ _publish_status("idle")
    BY Zenon DEF Post, PostEnsures, PostTimesOut, PostForwards, ForwardFails, text
  <2>2. QED  BY <2>1 DEF _publish_status, ForgetInflight
<1>5. HookWaits' /\ LostIsFailed'  BY <1>1, <1>2, <1>s DEF Link, HookWaits, LostIsFailed
<1>6. Busy' => Busy  BY <1>2 DEF Busy
<1>7. NewIsEmpty'  BY <1>1, <1>2, <1>6, <1>s DEF Link, NewIsEmpty
<1>8. ASSUME drops = 0, NEW u \in Turns, msg'[u] \in {"go", "queued"} PROVE sub
  <2>1. msg[u] \in {"go", "queued"} \/ relay \notin {"none", "opening"}  BY <1>3, <1>4, <1>8
  <2>2. QED  BY <1>8, <2>1 DEF Link, Unbroken
<1>9. broken = {} => broken' = {}
  BY DEF Post, PostEnsures, PostTimesOut, PostForwards, ForwardFails, tunnel
<1>10. Unbroken'  BY <1>1, <1>2, <1>8, <1>9 DEF Link, Unbroken
<1>11. QED  BY <1>5, <1>7, <1>10 DEF Link

\* the interrupt requests,
LEMMA StopLink == ASSUME Typed, Link, NEW s \in Stops, Stop(s) PROVE Link'
<1>1. UNCHANGED <<msg, rturn, made, linked, down, hook, saw, drops, broken, relay, sub, wire, ev, acc, inflight, header,
                  shown, store, status, label, missed, unsaved>>
  BY Zenon DEF Stop, StopRequested, StopLands, StopAnswered, StopFails, StopStep, tunnel, task, text
<1>2. QED  BY <1>1 DEF Link, HookWaits, LostIsFailed, NewIsEmpty, Unbroken, Busy

\* the tunnel and its hooks,
LEMMA TunnelLink == ASSUME Typed, Link, Tunnel PROVE Link'
<1>1. UNCHANGED <<msg, missed, shown, wire, ev>>
  BY Zenon DEF Tunnel, TunnelDrops, _on_runner_disconnect, OfflineMarks, TunnelReturns, _on_runner_connect,
     ReadLabels, _publish_runner_recovered_status, ClearLabels, TunnelStep, runner
<1>2. relay' = relay \/ (relay = "none" /\ relay' = "opening")
  BY EnsureTyped, Zenon DEF Tunnel, TunnelDrops, _on_runner_disconnect, OfflineMarks, TunnelReturns, _on_runner_connect,
     ReadLabels, _publish_runner_recovered_status, ClearLabels
<1>3. \/ UNCHANGED <<inflight, header>>
      \/ inflight' = <<>> /\ header' = 0
  BY TunnelQuiet, Zenon DEF Quiet
<1>4. NewIsEmpty'
  <2>1. Busy' => Busy  BY <1>2 DEF Busy
  <2>2. QED  BY <1>1, <1>2, <1>3, <2>1 DEF Link, NewIsEmpty
<1>5. CASE TunnelDrops
  <2>1. linked' = FALSE /\ down' = "due" /\ drops' = drops + 1  BY <1>5, Zenon DEF TunnelDrops
  <2>2. drops' # 0  BY <2>1 DEF Typed, CountOK
  <2>3. QED  BY <1>4, <2>1, <2>2 DEF Link, HookWaits, LostIsFailed, Unbroken
<1>6. ASSUME UNCHANGED <<drops, sub>>, ~linked \/ down # "none" \/ hook # "none" PROVE Unbroken'
  BY <1>6 DEF Link, Unbroken
<1>7. CASE _on_runner_disconnect
  <2>1. down = "due" /\ hook = "none" /\ UNCHANGED <<drops, sub, linked, hook, relay, status>> /\ (linked \/ down' # "none")
    BY <1>7, Zenon DEF _on_runner_disconnect
  <2>2. QED  BY <1>4, <1>6, <2>1 DEF Link, HookWaits, LostIsFailed
<1>8. CASE OfflineMarks
  <2>1. down = "list" /\ _publish_status("failed") /\ UNCHANGED <<drops, sub, linked, hook>>
    BY <1>8, Zenon DEF OfflineMarks
  <2>2. status' = "failed"  BY <2>1, PublishEffect
  <2>3. QED  BY <1>4, <1>6, <2>1, <2>2 DEF Link, HookWaits, LostIsFailed
<1>9. CASE TunnelReturns
  <2>1. ~linked /\ linked' = TRUE /\ UNCHANGED <<drops, sub>>  BY <1>9, Zenon DEF TunnelReturns
  <2>2. QED  BY <1>4, <1>6, <2>1 DEF Link, HookWaits, LostIsFailed
<1>10. CASE _on_runner_connect
  <2>1. hook = "list" /\ UNCHANGED <<drops, sub, linked, down, status>>
    BY <1>10, Zenon DEF _on_runner_connect
  <2>2. QED  BY <1>2, <1>4, <1>6, <2>1 DEF Link, HookWaits, LostIsFailed
<1>11. CASE ReadLabels \/ ClearLabels
  <2>1. hook # "none" /\ UNCHANGED <<drops, sub, linked, down, status, relay>>
    <3>1. CASE ReadLabels
      <4>1. hook = "labels" /\ UNCHANGED <<drops, sub, linked, down, status, relay>>  BY <3>1, Zenon DEF ReadLabels
      <4>2. QED  BY <4>1
    <3>2. CASE ClearLabels
      <4>1. hook = "clear" /\ UNCHANGED <<drops, sub, linked, down, status, relay>>  BY <3>2, Zenon DEF ClearLabels
      <4>2. QED  BY <4>1
    <3>3. QED  BY <1>11, <3>1, <3>2
  <2>2. QED  BY <1>4, <1>6, <2>1 DEF Link, HookWaits, LostIsFailed
<1>12. CASE _publish_runner_recovered_status
  <2>1. hook = "recover" /\ UNCHANGED <<drops, sub, linked, down, relay>>
    BY <1>12, Zenon DEF _publish_runner_recovered_status
  <2>2. QED  BY <1>4, <1>6, <2>1 DEF Link, HookWaits, LostIsFailed
<1>13. QED  BY <1>5, <1>7, <1>8, <1>9, <1>10, <1>11, <1>12, Zenon DEF Tunnel

\* the relay's beginning and end,
LEMMA TaskLink == ASSUME Typed, Link, RelayOpens \/ RelayLost \/ RelayEnds PROVE Link'
<1>1. UNCHANGED <<linked, down, hook, drops, broken, missed>>
  <2>1. RelayStep  BY Zenon DEF RelayOpens, RelayLost, RelayEnds
  <2>2. QED  BY <2>1, RelayMoves
<1>2. UNCHANGED <<wire, ev, shown>>  BY Zenon DEF RelayOpens, RelayLost, RelayEnds, text
<1>3. HookWaits'  BY <1>1 DEF Link, HookWaits
<1>4. CASE RelayOpens
  <2>1. relay = "opening" /\ linked /\ relay' = "reading" /\ sub'  BY <1>4, Zenon DEF RelayOpens
  <2>2. NewIsEmpty' /\ LostIsFailed'  BY <2>1 DEF NewIsEmpty, Busy, LostIsFailed
  <2>3. Unbroken'  BY <1>1, <2>1 DEF Link, Unbroken
  <2>4. QED  BY <1>3, <2>2, <2>3 DEF Link
<1>5. CASE RelayLost
  <2>1. relay' = "dying" /\ _publish_status("failed")  BY <1>5, Zenon DEF RelayLost
  <2>2. (relay = "reading" /\ ~sub /\ wire = <<>>) \/ (relay = "opening" /\ ~linked)  BY <1>5, Zenon DEF RelayLost
  <2>3. status' = "failed" /\ inflight' = <<>> /\ header' = 0  BY <2>1, PublishEffect
  <2>4. NewIsEmpty' /\ LostIsFailed'  BY <1>2, <2>1, <2>2, <2>3 DEF Link, NewIsEmpty, Busy, LostIsFailed
  <2>5. drops # 0  BY <2>2 DEF Link, Unbroken
  <2>6. QED  BY <1>1, <1>3, <2>4, <2>5 DEF Link, Unbroken
<1>6. CASE RelayEnds
  <2>1. relay = "dying" /\ relay' = "none" /\ inflight' = <<>> /\ header' = 0 /\ UNCHANGED status
    BY <1>6, Zenon DEF RelayEnds, ForgetInflight
  <2>2. NewIsEmpty'  BY <1>2, <2>1 DEF Link, NewIsEmpty, Busy
  <2>3. LostIsFailed'  BY <1>1, <2>1 DEF Link, LostIsFailed
  <2>4. drops # 0  BY <2>1 DEF Link, Unbroken
  <2>5. QED  BY <1>1, <1>3, <2>2, <2>3, <2>4 DEF Link, Unbroken
<1>7. QED  BY <1>4, <1>5, <1>6

\* its reads,
LEMMA HearsLink == ASSUME Typed, Link, Hears PROVE Link'
<1>1. Takes /\ relay' \in {"reading", "flush", "after"}
  BY DEF Hears, HearsRunning, HearsEnd, HearsNothing, HearsCreated, HearsText, HearsBoundary, Takes
<1>2. UNCHANGED <<msg, linked, down, hook, drops, broken, sub, missed>> /\ relay = "reading"  BY <1>1, Zenon DEF Takes, Steady
<1>3. Busy' => ev'[1] \in {"call", "terminal"}
  BY <1>1 DEF Hears, HearsRunning, HearsEnd, HearsNothing, HearsCreated, HearsText, HearsBoundary, Takes, Busy
<1>4. HookWaits' /\ LostIsFailed' /\ NewIsEmpty'  BY <1>1, <1>2, <1>3 DEF Link, HookWaits, LostIsFailed, NewIsEmpty
<1>5. Unbroken'  BY <1>1, <1>2 DEF Link, Unbroken
<1>6. QED  BY <1>4, <1>5 DEF Link

\* what it does between two reads,
LEMMA WorksLink == ASSUME Typed, Link, Works PROVE Link'
<1>1. Keeps /\ Busy /\ relay' \in {"flushed", "after", "reading"} /\ (Busy' => ev' = ev)
  BY DEF Works, StoresText, ClearsText, LosesFlush, StoresCall, LosesCall, ShowsEnd, Busy
<1>2. UNCHANGED <<msg, linked, down, hook, drops, broken, sub, missed>>  BY <1>1, Zenon DEF Keeps, Steady
<1>3. HookWaits' /\ LostIsFailed' /\ NewIsEmpty'  BY <1>1, <1>2 DEF Link, HookWaits, LostIsFailed, NewIsEmpty
<1>4. Unbroken'  BY <1>1, <1>2 DEF Link, Unbroken, Busy
<1>5. QED  BY <1>3, <1>4 DEF Link

\* and the runner.
LEMMA RunnerLink ==
    ASSUME Typed, Link, Apart, wire' = wire \/ sub,
           missed' = missed \/ drops # 0,
           \A u \in Turns : msg'[u] = msg[u] \/ msg'[u] \in {"running", "over", "cut"}
    PROVE  Link'
<1>1. UNCHANGED <<linked, down, hook, drops, broken, relay, sub, ev, inflight, header, shown, status>>
  BY Zenon DEF Apart
<1>2. sub => relay \notin {"none", "opening", "dying"}  BY Zenon DEF Typed, TaskOK
<1>3. HookWaits' /\ LostIsFailed' /\ NewIsEmpty'
  BY <1>1, <1>2 DEF Link, HookWaits, LostIsFailed, NewIsEmpty, Busy
<1>4. Unbroken'  BY <1>1 DEF Link, Unbroken
<1>5. QED  BY <1>3, <1>4 DEF Link

\* So every step keeps it.
LEMMA LinkNext == ASSUME Typed, Link, RelayNext PROVE Link'
<1>1. CASE \E t \in Turns : Post(t)  BY <1>1, PostLink
<1>2. CASE \E t \in Turns : RunnerStarts(t)
  <2>1. PICK t \in Turns : Starts(t)  BY <1>2, Starting
  <2>2. msg'[t] \in {"running", "over", "cut"}  BY <2>1 DEF Starts, Begun
  <2>3. drops = 0 => sub  BY <2>1 DEF Starts, Link, Unbroken
  <2>4. missed' = missed \/ drops # 0  BY <2>1, <2>3 DEF Starts
  <2>5. QED  BY <2>1, <2>2, <2>4, RunnerLink DEF Starts, Says
<1>3. CASE RunnerEmits
  <2>1. PICK k \in {"text", "call"} : Makes(k)  BY <1>3, Making
  <2>2. QED  BY <2>1, RunnerLink DEF Makes, Says
<1>4. CASE RunnerEnds \/ RunnerHalts
  <2>1. Ends  BY <1>4, Ending
  <2>2. QED  BY <2>1, RunnerLink DEF Ends, Says
<1>5. CASE \E s \in Stops : Stop(s)  BY <1>5, StopLink
<1>6. CASE Relay
  <2>1. CASE RelayOpens \/ RelayLost \/ RelayEnds  BY <2>1, TaskLink
  <2>2. CASE RelayStatus \/ RelayDrops \/ RelayCreated \/ RelayText \/ RelayBoundary  BY <2>2, Reading, HearsLink
  <2>3. CASE FlushCommits \/ FlushResumes \/ FlushFails \/ RelayAfter  BY <2>3, Working, WorksLink
  <2>4. QED  BY <1>6, <2>1, <2>2, <2>3, Zenon DEF Relay
<1>7. CASE Tunnel  BY <1>7, TunnelLink
<1>8. QED  BY <1>1, <1>2, <1>3, <1>4, <1>5, <1>6, <1>7, Zenon DEF RelayNext

\* Stuttering keeps it.
LEMMA LinkFrame == ASSUME Link, UNCHANGED rvars PROVE Link'
<1>1. UNCHANGED <<linked, down, hook, drops, broken, relay, sub, ev, inflight, header, shown, status, missed, msg, wire>>
  BY Zenon DEF rvars, runner, tunnel, task, text
<1>2. QED  BY <1>1 DEF Link, HookWaits, LostIsFailed, NewIsEmpty, Busy, Unbroken

\* The hooks, the slot and the status stay tied.
THEOREM RelayLinked == RelaySpec => []Link
<1>1. RelayInit => Link  BY LinkInit
<1>2. Typed /\ Link /\ [RelayNext]_rvars => Link'  BY LinkNext, LinkFrame
<1>3. QED  BY <1>1, <1>2, RelayTyped, PTL DEF RelaySpec

\* A runner that is away, with nothing left to happen, is seen as failed, in whatever order
\* its hooks, the relay's own end and a reconnect ran.
THEOREM OfflineIsShown == RelaySpec => []OfflineShown
<1>1. Link => OfflineShown  BY DEF Link, LostIsFailed, OfflineShown
<1>2. QED  BY <1>1, RelayLinked, PTL

\* Only a tunnel that dropped makes the relay miss the start of a turn.
THEOREM TurnsAreHeard == RelaySpec => []HeardFromTheStart
<1>1. Typed /\ Link => HeardFromTheStart  BY DEF Link, Unbroken, HeardFromTheStart, Typed, CountOK
<1>2. QED  BY <1>1, RelayLinked, RelayTyped, PTL

-----------------------------------------------------------------------------
(***************************************************************************)
(* No ghost of a turn that is over.                                        *)
(***************************************************************************)
\* When no turn runs, the last event unread is the status of the last turn.
Settles == sub /\ rturn = 0 /\ wire # <<>> => wire[Len(wire)][1] \in {"idle", "failed"}
\* A tool call in hand has events behind it when no turn runs.
CallIsFollowed == sub /\ rturn = 0 /\ Busy /\ ev[1] = "call" => wire # <<>>
\* What NoGhost rests on.
Ghost == Settles /\ CallIsFollowed /\ NoGhost

\* The quiet steps keep it,
LEMMA QuietGhost == ASSUME Typed, Link, Ghost, Quiet PROVE Ghost'
<1>1. UNCHANGED <<rturn, wire, ev>>  BY Zenon DEF Quiet
<1>2. relay' = relay \/ (~Busy /\ ~Busy')  BY Zenon DEF Quiet
<1>3. sub' => sub \/ relay = "opening"  BY DEF Quiet
<1>4. relay = "opening" => wire = <<>> /\ inflight = <<>> /\ ~Busy  BY DEF Link, NewIsEmpty, Busy
<1>5. Settles'  BY <1>1, <1>3, <1>4 DEF Ghost, Settles
<1>6. Busy' => Busy  BY <1>2 DEF Busy
<1>7. CallIsFollowed'  BY <1>1, <1>3, <1>4, <1>6 DEF Ghost, CallIsFollowed
<1>8. CASE inflight' = <<>>  BY <1>5, <1>7, <1>8 DEF Ghost, NoGhost
<1>9. CASE inflight' = inflight /\ status' = status /\ inflight # <<>>
  <2>1. rturn # 0 \/ wire # <<>> \/ Busy \/ status = "failed" \/ ~sub  BY <1>9 DEF Ghost, NoGhost, Busy
  <2>2. ~sub => ~sub'  BY <1>3, <1>4, <1>9
  <2>3. Busy => relay' \in {"flush", "flushed", "after"}  BY <1>2 DEF Busy
  <2>4. NoGhost'  BY <1>1, <1>9, <2>1, <2>2, <2>3 DEF NoGhost
  <2>5. QED  BY <1>5, <1>7, <2>4 DEF Ghost
<1>10. QED  BY <1>8, <1>9 DEF Quiet

\* the reads,
LEMMA HearsGhost == ASSUME Typed, Ghost, Hears PROVE Ghost'
<1>1. Takes  BY DEF Hears, HearsRunning, HearsEnd, HearsNothing, HearsCreated, HearsText, HearsBoundary
<1>2. UNCHANGED <<rturn, sub>>  BY <1>1, Zenon DEF Takes, Steady
<1>3. /\ Len(wire) \in Nat /\ Len(wire) >= 1 /\ Len(wire') = Len(wire) - 1
      /\ \A i \in 1..Len(wire') : wire'[i] = wire[i + 1]
      /\ wire' = <<>> => Len(wire) = 1
  BY <1>1, TakesPlaces
<1>4. wire \in Seq(Events) /\ wire' \in Seq(Events) /\ wire # <<>>
  BY <1>1, TailPlaces DEF Typed, TaskOK, Takes
<1>5. wire' # <<>> => Len(wire') \in 1..Len(wire')  BY <1>4
<1>6. wire' # <<>> => wire'[Len(wire')] = wire[Len(wire)]  BY <1>3, <1>5
<1>7. Settles'  BY <1>2, <1>4, <1>6 DEF Ghost, Settles
<1>8. wire' = <<>> /\ sub /\ rturn = 0 => wire[1][1] \in {"idle", "failed"}  BY <1>3, <1>4 DEF Ghost, Settles
<1>9. CallIsFollowed'
  BY <1>2, <1>8 DEF Hears, HearsRunning, HearsEnd, HearsNothing, HearsCreated, HearsText, HearsBoundary, Takes,
                    CallIsFollowed, Busy
<1>10. wire' = <<>> /\ sub /\ rturn = 0 => inflight' = <<>> \/ status' = "failed"
  BY <1>8 DEF Hears, HearsRunning, HearsEnd, HearsNothing, HearsCreated, HearsText, HearsBoundary
<1>11. NoGhost'  BY <1>2, <1>10 DEF NoGhost
<1>12. QED  BY <1>7, <1>9, <1>11 DEF Ghost

\* the steps between two reads,
LEMMA WorksGhost == ASSUME Typed, Link, Ghost, Works PROVE Ghost'
<1>1. UNCHANGED <<rturn, sub, wire>> /\ Busy /\ (Busy' => ev' = ev)
  BY DEF Works, StoresText, ClearsText, LosesFlush, StoresCall, LosesCall, ShowsEnd, Busy, Keeps, Steady
<1>2. Settles' /\ CallIsFollowed'  BY <1>1 DEF Ghost, Settles, CallIsFollowed
<1>3. Busy' \/ ev[1] = "call" \/ inflight' = <<>>
  BY DEF Works, StoresText, ClearsText, LosesFlush, StoresCall, LosesCall, ShowsEnd, Busy
<1>4. NoGhost'  BY <1>1, <1>3 DEF Ghost, CallIsFollowed, NoGhost, Busy
<1>5. QED  BY <1>2, <1>4 DEF Ghost

\* What is said last of a turn is its status.
LEMMA LastSaid ==
    ASSUME Typed, NEW e \in Events, NEW es, es = <<e>> \/ (\E d \in Events : es = <<d, e>>), Says(es)
    PROVE  /\ sub => wire' # <<>> /\ wire'[Len(wire')] = e
           /\ ~sub => wire' = wire
<1>1. es \in Seq(Events) /\ Len(es) \in 1..2 /\ es[Len(es)] = e
  <2>1. CASE es = <<e>>  BY <2>1
  <2>2. CASE \E d \in Events : es = <<d, e>>  BY <2>2
  <2>3. QED  BY <2>1, <2>2
<1>2. Len(es) \in 1..Len(es)  BY <1>1
<1>3. /\ Len(wire) \in Nat /\ (~sub => wire' = wire)
      /\ sub => Len(wire') = Len(wire) + Len(es) /\ \A k \in 1..Len(es) : wire'[Len(wire) + k] = es[k]
  BY <1>1, SaysPlaces
<1>4. sub => wire'[Len(wire')] = e  BY <1>1, <1>2, <1>3
<1>5. ASSUME sub PROVE wire' # <<>>
  <2>0. Len(wire') = Len(wire) + Len(es) /\ Len(wire) \in Nat  BY <1>3, <1>5, Zenon
  <2>1. Len(wire') >= 1  BY <1>1, <2>0
  <2>2. QED  BY <2>1
<1>6. QED  BY <1>3, <1>4, <1>5

\* and the runner.
LEMMA RunnerGhost ==
    ASSUME Typed, Ghost, Apart, wire' = wire \/ sub,
           sub /\ rturn' = 0 => wire' # <<>> /\ wire'[Len(wire')][1] \in {"idle", "failed"}
    PROVE  Ghost'
<1>1. UNCHANGED <<relay, sub, ev, inflight, status>>  BY Zenon DEF Apart
<1>2. Settles'  BY <1>1 DEF Settles
<1>3. CallIsFollowed'  BY <1>1 DEF CallIsFollowed
<1>4. NoGhost'  BY <1>1 DEF Ghost, NoGhost
<1>5. QED  BY <1>2, <1>3, <1>4 DEF Ghost

\* So every step keeps it.
LEMMA GhostNext == ASSUME Typed, Link, Ghost, RelayNext PROVE Ghost'
<1>1. CASE Quiet  BY <1>1, QuietGhost
<1>2. CASE Hears  BY <1>2, HearsGhost
<1>3. CASE Works  BY <1>3, WorksGhost
<1>4. CASE Ends
  <2>1. Apart /\ rturn' = 0  BY <1>4 DEF Ends
  <2>2. PICK e \in {<<"idle">>, <<"failed">>} : Says(<<e>>) \/ Says(<<<<"terminal">>, e>>)  BY <1>4, Zenon DEF Ends
  <2>3. e \in Events /\ <<"terminal">> \in Events  BY EventKinds
  <2>4. (sub => wire' # <<>> /\ wire'[Len(wire')] = e) /\ (~sub => wire' = wire)
    <3>1. CASE Says(<<e>>)  BY <2>3, <3>1, LastSaid
    <3>2. CASE Says(<<<<"terminal">>, e>>)
      <4>1. \E d \in Events : <<<<"terminal">>, e>> = <<d, e>>  BY <2>3
      <4>2. QED  BY <2>3, <3>2, <4>1, LastSaid
    <3>3. QED  BY <2>2, <3>1, <3>2
  <2>5. e[1] \in {"idle", "failed"}  OBVIOUS
  <2>6. sub \in BOOLEAN  BY Zenon DEF Typed, TaskOK
  <2>7. QED  BY <2>1, <2>4, <2>5, <2>6, RunnerGhost
<1>5. ASSUME NEW t \in Turns, Starts(t) PROVE Ghost'
  <2>1. Apart  BY <1>5 DEF Starts
  <2>2. t # 0  BY DEF Turns
  <2>3. CASE rturn' = t /\ Says(<<<<"running">>, <<"created", t>>>>)
    <3>1. wire' = wire \/ sub  BY <2>3 DEF Says
    <3>2. QED  BY <2>1, <2>2, <2>3, <3>1, RunnerGhost
  <2>4. CASE rturn' = 0 /\ Says(<<<<"running">>, <<"failed">>>>)
    <3>1. <<"failed">> \in Events /\ <<"running">> \in Events  BY EventKinds
    <3>2. \E d \in Events : <<<<"running">>, <<"failed">>>> = <<d, <<"failed">>>>  BY <3>1
    <3>3. (sub => wire' # <<>> /\ wire'[Len(wire')] = <<"failed">>) /\ (~sub => wire' = wire)
      BY <2>4, <3>1, <3>2, LastSaid
    <3>4. sub \in BOOLEAN  BY Zenon DEF Typed, TaskOK
    <3>5. QED  BY <2>1, <3>3, <3>4, RunnerGhost
  <2>5. QED  BY <1>5, <2>3, <2>4 DEF Starts
<1>6. ASSUME NEW k \in {"text", "call"}, Makes(k) PROVE Ghost'
  <2>1. Apart /\ rturn' # 0 /\ (wire' = wire \/ sub)  BY <1>6 DEF Makes, Says
  <2>2. QED  BY <2>1, RunnerGhost
<1>7. QED  BY <1>1, <1>2, <1>3, <1>4, <1>5, <1>6, Steps

\* NoGhost and what it rests on.
THEOREM RelayGhosts == RelaySpec => []Ghost
<1>1. RelayInit => Ghost
  BY DEF RelayInit, Ghost, Settles, CallIsFollowed, NoGhost
<1>2. Ghost /\ UNCHANGED rvars => Ghost'
  <2>1. UNCHANGED rvars => UNCHANGED <<rturn, wire, sub, relay, ev, inflight, status>>
    BY Zenon DEF rvars, runner, tunnel, task, text
  <2>2. QED  BY <2>1 DEF Ghost, Settles, CallIsFollowed, NoGhost, Busy
<1>3. Typed /\ Link /\ Ghost /\ [RelayNext]_rvars => Ghost'  BY <1>2, GhostNext
<1>4. QED  BY <1>1, <1>3, RelayTyped, RelayLinked, PTL DEF RelaySpec

\* What a client that reconnects is shown is not text of a turn known to be over, whatever stops,
\* failed flushes and losses of the tunnel came before.
THEOREM NoTurnHaunts == RelaySpec => []NoGhost
<1>1. Ghost => NoGhost  BY DEF Ghost
<1>2. QED  BY <1>1, RelayGhosts, PTL

-----------------------------------------------------------------------------
(***************************************************************************)
(* Outputs come from turns that have begun.                                *)
(***************************************************************************)
\* Every output is of a turn that has begun,
MadeByBegun == \A n \in 1..Len(made) : made[n].turn \in Begun
\* and every event of an output names one that was made.
SentIsMade == /\ \A i \in 1..Len(wire) : wire[i][1] \in {"text", "call"} => wire[i][2] \in 1..Len(made)
              /\ Busy /\ ev[1] = "call" => ev[2] \in 1..Len(made)
\* Both.
Begins == MadeByBegun /\ SentIsMade

\* What was made stays as it is.
LEMMA MadeGrows ==
    ASSUME Typed, RelayNext
    PROVE  /\ Len(made) \in Nat /\ Len(made') \in Nat /\ Len(made) <= Len(made')
           /\ \A n \in 1..Len(made) : n \in 1..Len(made') /\ made'[n] = made[n]
<1>1. made \in Seq(Outputs) /\ Len(made) \in Nat  BY DEF Typed, RunnerOK
<1>2. CASE made' = made  BY <1>1, <1>2
<1>3. ASSUME NEW k \in {"text", "call"}, Makes(k)
      PROVE  /\ Len(made') \in Nat /\ Len(made) <= Len(made')
             /\ \A n \in 1..Len(made) : n \in 1..Len(made') /\ made'[n] = made[n]
  <2>1. made' = Append(made, [turn |-> rturn, kind |-> k]) /\ rturn # 0  BY <1>3 DEF Makes
  <2>2. [turn |-> rturn, kind |-> k] \in Outputs  BY <2>1, RelayBounds DEF Typed, RunnerOK, Outputs, Turns
  <2>3. QED  BY <1>1, <2>1, <2>2, AppendPlaces
<1>4. made' = made \/ \E k \in {"text", "call"} : Makes(k)
  BY Steps, Zenon DEF Quiet, Hears, HearsRunning, HearsEnd, HearsNothing, HearsCreated, HearsText, HearsBoundary, Takes,
     Steady, Works, StoresText, ClearsText, LosesFlush, StoresCall, LosesCall, ShowsEnd, Keeps, Ends, Starts
<1>5. QED  BY <1>1, <1>2, <1>3, <1>4

\* The output that is made is the last, of the turn that runs.
LEMMA MakesLast ==
    ASSUME Typed, NEW k \in {"text", "call"}, Makes(k)
    PROVE  /\ Len(made) \in Nat /\ Len(made') = Len(made) + 1 /\ rturn \in Begun /\ rturn # 0
           /\ made'[Len(made) + 1].turn = rturn
           /\ \A n \in 1..Len(made) : made'[n] = made[n]
<1>1. made' = Append(made, [turn |-> rturn, kind |-> k]) /\ rturn # 0  BY DEF Makes
<1>2. [turn |-> rturn, kind |-> k] \in Outputs  BY <1>1, RelayBounds DEF Typed, RunnerOK, Outputs, Turns
<1>3. rturn \in Begun  BY <1>1, RelayBounds DEF Typed, RunnerOK, Begun, Turns
<1>4. made \in Seq(Outputs)  BY DEF Typed, RunnerOK
<1>5. QED  BY <1>1, <1>2, <1>3, <1>4, AppendPlaces

\* How the runner's steps grow the wire.
LEMMA StartsWire ==
    ASSUME Typed, NEW t \in Turns, Starts(t)
    PROVE  /\ Len(wire) \in Nat /\ Len(wire') \in Nat /\ Len(wire) <= Len(wire') /\ (~sub => wire' = wire)
           /\ \A i \in 1..Len(wire) : wire'[i] = wire[i]
           /\ sub => Len(wire') = Len(wire) + 2 /\ wire'[Len(wire) + 1] = <<"running">>
           /\ \A i \in 1..Len(wire') : i > Len(wire) =>
                \/ i = Len(wire) + 1 /\ wire'[i] = <<"running">>
                \/ i = Len(wire) + 2 /\ wire'[i] = <<"created", t>>
                \/ i = Len(wire) + 2 /\ wire'[i] = <<"failed">>
<1>e. PICK e \in {<<"created", t>>, <<"failed">>} : Says(<<<<"running">>, e>>)  BY Zenon DEF Starts
<1>1. <<"running">> \in Events /\ e \in Events  BY EventKinds
<1> DEFINE es == <<<<"running">>, e>>
<1>2. es \in Seq(Events) /\ Len(es) = 2 /\ es[1] = <<"running">> /\ es[2] = e  BY <1>1
<1>3. Says(es)  BY <1>e
<1> HIDE DEF es
<1>4. /\ Len(wire) \in Nat /\ Len(wire') \in Nat /\ Len(wire) <= Len(wire')
      /\ \A i \in 1..Len(wire) : wire'[i] = wire[i]
      /\ \A i \in 1..Len(wire') : i > Len(wire) =>
           sub /\ i - Len(wire) \in 1..Len(es) /\ wire'[i] = es[i - Len(wire)]
      /\ sub => Len(wire') = Len(wire) + Len(es) /\ \A k \in 1..Len(es) : wire'[Len(wire) + k] = es[k]
      /\ ~sub => wire' = wire
  BY <1>2, <1>3, SaysPlaces
<1>5. \A i \in 1..Len(wire') : i > Len(wire) =>
         (i = Len(wire) + 1 /\ wire'[i] = <<"running">>) \/ (i = Len(wire) + 2 /\ wire'[i] = e)
  BY <1>2, <1>4
<1>6. sub => Len(wire') = Len(wire) + 2 /\ wire'[Len(wire) + 1] = <<"running">>  BY <1>2, <1>4
<1>7. QED  BY <1>e, <1>4, <1>5, <1>6, Zenon

\* One output.
LEMMA MakesWire ==
    ASSUME Typed, NEW k \in {"text", "call"}, Makes(k)
    PROVE  /\ Len(wire) \in Nat /\ Len(wire') \in Nat /\ Len(wire) <= Len(wire') /\ (~sub => wire' = wire)
           /\ \A i \in 1..Len(wire) : wire'[i] = wire[i]
           /\ \A i \in 1..Len(wire') : i > Len(wire) => i = Len(wire) + 1 /\ wire'[i] = <<k, Len(made) + 1>>
<1>1. Len(made) + 1 \in Outs  BY RelayBounds DEF Makes, Typed, RunnerOK, Outs
<1> DEFINE es == <<<<k, Len(made) + 1>>>>
<1>2. es \in Seq(Events) /\ Len(es) = 1 /\ es[1] = <<k, Len(made) + 1>>  BY <1>1, EventKinds
<1>3. Says(es)  BY DEF Makes
<1> HIDE DEF es
<1>4. /\ Len(wire) \in Nat /\ Len(wire') \in Nat /\ Len(wire) <= Len(wire') /\ (~sub => wire' = wire)
      /\ \A i \in 1..Len(wire) : wire'[i] = wire[i]
      /\ \A i \in 1..Len(wire') : i > Len(wire) =>
           sub /\ i - Len(wire) \in 1..Len(es) /\ wire'[i] = es[i - Len(wire)]
  BY <1>2, <1>3, SaysPlaces
<1>5. \A i \in 1..Len(wire') : i > Len(wire) => i = Len(wire) + 1 /\ wire'[i] = <<k, Len(made) + 1>>
  BY <1>2, <1>4
<1>6. QED  BY <1>4, <1>5

\* A turn's end.
LEMMA EndsWire ==
    ASSUME Typed, Ends
    PROVE  /\ Len(wire) \in Nat /\ Len(wire') \in Nat /\ Len(wire) <= Len(wire') /\ (~sub => wire' = wire)
           /\ \A i \in 1..Len(wire) : wire'[i] = wire[i]
           /\ \A i \in 1..Len(wire') : i > Len(wire) => wire'[i][1] \in {"terminal", "idle", "failed"}
           /\ sub /\ ~halting /\ msg'[rturn] # "cut" =>
                Len(wire') = Len(wire) + 2 /\ wire'[Len(wire) + 1][1] = "terminal"
<1>1. /\ <<"idle">> \in Events /\ <<"failed">> \in Events /\ <<"terminal">> \in Events
  BY EventKinds
<1>2. PICK es \in {<<<<"terminal">>, <<"idle">>>>, <<<<"terminal">>, <<"failed">>>>, <<<<"idle">>>>, <<<<"failed">>>>} :
        Says(es) /\ (es \in {<<<<"idle">>>>, <<<<"failed">>>>} => halting \/ msg'[rturn] = "cut")
  BY DEF Ends
<1>3. /\ es \in Seq(Events) /\ Len(es) \in 1..2 /\ \A k \in 1..Len(es) : es[k][1] \in {"terminal", "idle", "failed"}
      /\ es \notin {<<<<"idle">>>>, <<<<"failed">>>>} => Len(es) = 2 /\ es[1][1] = "terminal"
  <2>1. CASE es = <<<<"terminal">>, <<"idle">>>>  BY <1>1, <2>1
  <2>2. CASE es = <<<<"terminal">>, <<"failed">>>>  BY <1>1, <2>2
  <2>3. CASE es = <<<<"idle">>>>  BY <1>1, <2>3
  <2>4. CASE es = <<<<"failed">>>>  BY <1>1, <2>4
  <2>5. QED  BY <1>2, <2>1, <2>2, <2>3, <2>4
<1>4. /\ Len(wire) \in Nat /\ Len(wire') \in Nat /\ Len(wire) <= Len(wire') /\ (~sub => wire' = wire)
      /\ \A i \in 1..Len(wire) : wire'[i] = wire[i]
      /\ \A i \in 1..Len(wire') : i > Len(wire) =>
           sub /\ i - Len(wire) \in 1..Len(es) /\ wire'[i] = es[i - Len(wire)]
      /\ sub => Len(wire') = Len(wire) + Len(es) /\ \A k \in 1..Len(es) : wire'[Len(wire) + k] = es[k]
  BY <1>2, <1>3, SaysPlaces
<1>5. \A i \in 1..Len(wire') : i > Len(wire) => wire'[i][1] \in {"terminal", "idle", "failed"}  BY <1>3, <1>4
<1>6. sub /\ ~halting /\ msg'[rturn] # "cut" => Len(wire') = Len(wire) + 2 /\ wire'[Len(wire) + 1][1] = "terminal"
  <2>1. ~halting /\ msg'[rturn] # "cut" => Len(es) = 2 /\ es[1][1] = "terminal"  BY <1>2, <1>3
  <2>2. SUFFICES ASSUME sub, ~halting, msg'[rturn] # "cut" PROVE Len(wire') = Len(wire) + 2 /\ wire'[Len(wire) + 1][1] = "terminal"  OBVIOUS
  <2>3. 1 \in 1..Len(es)  BY <1>3
  <2>4. QED  BY <1>4, <2>1, <2>2, <2>3
<1>7. QED  BY <1>4, <1>5, <1>6

\* Every step keeps it.
LEMMA BeginsNext == ASSUME Typed, Begins, RelayNext PROVE Begins'
<1>0. /\ Len(made) \in Nat /\ Len(made') \in Nat /\ Len(made) <= Len(made')
      /\ \A n \in 1..Len(made) : n \in 1..Len(made') /\ made'[n] = made[n]
  BY MadeGrows
<1>1. CASE Quiet
  <2>1. UNCHANGED <<made, wire, ev>> /\ Begun' = Begun /\ (relay' = relay \/ (~Busy /\ ~Busy'))  BY <1>1, Zenon DEF Quiet
  <2>2. Busy' => Busy  BY <2>1 DEF Busy
  <2>3. QED  BY <2>1, <2>2 DEF Begins, MadeByBegun, SentIsMade
<1>2. CASE Hears
  <2>1. Takes  BY <1>2 DEF Hears, HearsRunning, HearsEnd, HearsNothing, HearsCreated, HearsText, HearsBoundary
  <2>2. UNCHANGED <<msg, made>>  BY <2>1, Zenon DEF Takes, Steady
  <2>3. MadeByBegun'  BY <2>2 DEF Begins, MadeByBegun, Begun
  <2>4. \A i \in 1..Len(wire') : wire'[i][1] \in {"text", "call"} => wire'[i][2] \in 1..Len(made')
    BY <2>1, <2>2, TakesPlaces DEF Begins, SentIsMade
  <2>5. Busy' => ev' = wire[1]
    BY <1>2 DEF Hears, HearsRunning, HearsEnd, HearsNothing, HearsCreated, HearsText, HearsBoundary, Takes, Busy
  <2>6. 1 \in 1..Len(wire)  BY <2>1, TakesPlaces
  <2>7. QED  BY <2>2, <2>3, <2>4, <2>5, <2>6 DEF Begins, SentIsMade
<1>3. CASE Works
  <2>1. UNCHANGED <<msg, made, wire>> /\ Busy /\ (Busy' => ev' = ev)
    BY <1>3 DEF Works, StoresText, ClearsText, LosesFlush, StoresCall, LosesCall, ShowsEnd, Busy, Keeps, Steady
  <2>2. Begun' = Begun  BY <2>1 DEF Begun
  <2>3. QED  BY <2>1, <2>2 DEF Begins, MadeByBegun, SentIsMade
<1>4. CASE Ends
  <2>1. UNCHANGED <<made, relay, ev>> /\ Begun' = Begun  BY <1>4, Zenon DEF Ends, Apart
  <2>2. \A i \in 1..Len(wire') : wire'[i][1] \in {"text", "call"} => i \in 1..Len(wire) /\ wire'[i] = wire[i]
    BY <1>4, EndsWire
  <2>3. QED  BY <2>1, <2>2 DEF Begins, MadeByBegun, SentIsMade, Busy
<1>5. ASSUME NEW t \in Turns, Starts(t) PROVE Begins'
  <2>1. UNCHANGED <<made, relay, ev>> /\ Begun' = Begun \cup {t}  BY <1>5, Zenon DEF Starts, Apart
  <2>2. \A i \in 1..Len(wire') : wire'[i][1] \in {"text", "call"} => i \in 1..Len(wire) /\ wire'[i] = wire[i]
    BY <1>5, StartsWire
  <2>3. QED  BY <2>1, <2>2 DEF Begins, MadeByBegun, SentIsMade, Busy
<1>6. ASSUME NEW k \in {"text", "call"}, Makes(k) PROVE Begins'
  <2>1. UNCHANGED <<msg, relay, ev>>  BY <1>6, Zenon DEF Makes, Apart
  <2>2. /\ Len(made') = Len(made) + 1 /\ made'[Len(made) + 1].turn \in Begun
        /\ \A n \in 1..Len(made) : made'[n] = made[n]
    BY <1>6, MakesLast
  <2>3. Begun' = Begun  BY <2>1 DEF Begun
  <2>4. MadeByBegun'  BY <1>0, <2>2, <2>3 DEF Begins, MadeByBegun
  <2>5. \A i \in 1..Len(wire') : \/ i \in 1..Len(wire) /\ wire'[i] = wire[i]
                                 \/ wire'[i] = <<k, Len(made) + 1>>
    BY <1>6, MakesWire
  <2>6. SentIsMade'  BY <1>0, <2>1, <2>2, <2>5 DEF Begins, SentIsMade, Busy
  <2>7. QED  BY <2>4, <2>6 DEF Begins
<1>7. QED  BY <1>1, <1>2, <1>3, <1>4, <1>5, <1>6, Steps

\* Outputs come from turns that have begun.
THEOREM RelayBegins == RelaySpec => []Begins
<1>1. RelayInit => Begins  BY DEF RelayInit, Begins, MadeByBegun, SentIsMade, Busy
<1>2. Begins /\ UNCHANGED rvars => Begins'
  <2>1. UNCHANGED rvars => UNCHANGED <<msg, made, wire, relay, ev>>  BY Zenon DEF rvars, runner, tunnel, task, text
  <2>2. QED  BY <2>1 DEF Begins, MadeByBegun, SentIsMade, Busy, Begun
<1>3. Typed /\ Begins /\ [RelayNext]_rvars => Begins'  BY <1>2, BeginsNext
<1>4. QED  BY <1>1, <1>3, RelayTyped, PTL DEF RelaySpec

-----------------------------------------------------------------------------
(***************************************************************************)
(* What the fence takes.                                                   *)
(***************************************************************************)
\* The first event of a turn that the fence is not for is on its way,
RunningIsSent == fence /\ rturn \notin {0} \cup fenced \cup missed => \E k \in 1..Len(wire) : wire[k][1] = "running"
\* and is ahead of the output of such a turn.
FencedAhead == fence => \A i \in 1..Len(wire) : wire[i][1] \in {"text", "call"} =>
                            \/ made[wire[i][2]].turn \in fenced \cup missed
                            \/ \E k \in 1..(i - 1) : wire[k][1] = "running"
\* Both.
Fences == RunningIsSent /\ FencedAhead

\* Every step keeps it.
LEMMA FencesNext == ASSUME Typed, Begins, Fences, RelayNext PROVE Fences'
<1>1. CASE Quiet
  <2>1. UNCHANGED <<made, wire, rturn, missed>> /\ fenced \subseteq fenced'  BY <1>1, Zenon DEF Quiet
  <2>2. ~fence' \/ fence' = fence \/ Begun \subseteq fenced'  BY <1>1, Zenon DEF Quiet
  <2>3. CASE ~fence'  BY <2>3 DEF Fences, RunningIsSent, FencedAhead
  <2>4. CASE fence' = fence  BY <2>1, <2>4 DEF Fences, RunningIsSent, FencedAhead
  <2>5. CASE Begun \subseteq fenced'
    <3>1. rturn # 0 => rturn \in Begun  BY RelayBounds DEF Typed, RunnerOK, Begun, Turns
    <3>2. RunningIsSent'  BY <2>1, <2>5, <3>1 DEF RunningIsSent
    <3>3. \A i \in 1..Len(wire) : wire[i][1] \in {"text", "call"} => made[wire[i][2]].turn \in Begun
      BY DEF Begins, MadeByBegun, SentIsMade
    <3>4. FencedAhead'  BY <2>1, <2>5, <3>3 DEF FencedAhead
    <3>5. QED  BY <3>2, <3>4 DEF Fences
  <2>6. QED  BY <2>2, <2>3, <2>4, <2>5
<1>2. CASE Hears
  <2>1. Takes  BY <1>2 DEF Hears, HearsRunning, HearsEnd, HearsNothing, HearsCreated, HearsText, HearsBoundary
  <2>2. UNCHANGED <<rturn, made, fenced, missed>>  BY <2>1, Zenon DEF Takes, Steady
  <2>3. CASE ~fence'  BY <2>3 DEF Fences, RunningIsSent, FencedAhead
  <2>4. CASE fence' /\ fence /\ wire[1][1] # "running"
    <3>1. RunningIsSent'
      <4>1. SUFFICES ASSUME rturn \notin {0} \cup fenced \cup missed PROVE \E j \in 1..Len(wire') : wire'[j][1] = "running"
        BY <2>2 DEF RunningIsSent
      <4>2. PICK k \in 1..Len(wire) : wire[k][1] = "running"  BY <2>4, <4>1 DEF Fences, RunningIsSent
      <4>3. k - 1 \in 1..Len(wire') /\ wire'[k - 1] = wire[k]  BY <2>1, <2>4, <4>2, TakesPlaces
      <4>4. QED  BY <4>2, <4>3
    <3>2. ASSUME NEW i \in 1..Len(wire'), wire'[i][1] \in {"text", "call"}
          PROVE  \/ made[wire'[i][2]].turn \in fenced \cup missed
                 \/ \E k \in 1..(i - 1) : wire'[k][1] = "running"
      <4>1. i + 1 \in 1..Len(wire) /\ wire'[i] = wire[i + 1]  BY <2>1, TakesPlaces
      <4>2. CASE made[wire[i + 1][2]].turn \in fenced \cup missed  BY <4>1, <4>2
      <4>3. CASE \E k \in 1..((i + 1) - 1) : wire[k][1] = "running"
        <5>1. PICK k \in 1..((i + 1) - 1) : wire[k][1] = "running"  BY <4>3
        <5>2. k \in 1..Len(wire) /\ k # 1  BY <2>4, <4>1, <5>1
        <5>3. wire'[k - 1] = wire[k]  BY <2>1, <5>2, TakesPlaces
        <5>4. k - 1 \in 1..(i - 1)  BY <5>1, <5>2
        <5>5. QED  BY <5>1, <5>3, <5>4
      <4>4. QED  BY <2>4, <3>2, <4>1, <4>2, <4>3 DEF Fences, FencedAhead
    <3>3. FencedAhead'  BY <2>2, <3>2 DEF FencedAhead
    <3>4. QED  BY <3>1, <3>3 DEF Fences
  <2>5. ~fence' \/ (fence' /\ fence /\ wire[1][1] # "running")
    BY <1>2 DEF Hears, HearsRunning, HearsEnd, HearsNothing, HearsCreated, HearsText, HearsBoundary
  <2>6. QED  BY <2>3, <2>4, <2>5
<1>3. CASE Works
  <2>1. UNCHANGED <<rturn, made, fenced, missed, wire, fence>>
    BY <1>3, Zenon DEF Works, StoresText, ClearsText, LosesFlush, StoresCall, LosesCall, ShowsEnd, Keeps, Steady
  <2>2. QED  BY <2>1 DEF Fences, RunningIsSent, FencedAhead
<1>4. CASE Ends
  <2>1. UNCHANGED <<made, fence, fenced, missed>> /\ rturn' = 0  BY <1>4, Zenon DEF Ends, Apart
  <2>2. /\ \A i \in 1..Len(wire') : wire'[i][1] \in {"text", "call"} => i \in 1..Len(wire)
        /\ \A i \in 1..Len(wire) : wire'[i] = wire[i]
        /\ Len(wire) \in Nat
    BY <1>4, EndsWire
  <2>3. FencedAhead'  BY <2>1, <2>2 DEF Fences, FencedAhead
  <2>4. QED  BY <2>1, <2>3 DEF Fences, RunningIsSent
<1>5. ASSUME NEW t \in Turns, Starts(t) PROVE Fences'
  <2>1. UNCHANGED <<made, fence, fenced>> /\ missed' = (IF sub THEN missed ELSE missed \cup {t}) /\ rturn' \in {0, t}
    BY <1>5, Zenon DEF Starts, Apart
  <2>2. /\ \A i \in 1..Len(wire') : wire'[i][1] \in {"text", "call"} => i \in 1..Len(wire)
        /\ \A i \in 1..Len(wire) : wire'[i] = wire[i]
        /\ Len(wire) \in Nat
        /\ sub => Len(wire) + 1 \in 1..Len(wire') /\ wire'[Len(wire) + 1][1] = "running"
    BY <1>5, StartsWire
  <2>3. FencedAhead'  BY <2>1, <2>2 DEF Fences, FencedAhead
  <2>4. RunningIsSent'  BY <2>1, <2>2 DEF RunningIsSent
  <2>5. QED  BY <2>3, <2>4 DEF Fences
<1>6. ASSUME NEW k \in {"text", "call"}, Makes(k) PROVE Fences'
  <2>1. UNCHANGED <<rturn, fence, fenced, missed>>  BY <1>6, Zenon DEF Makes, Apart
  <2>2. /\ Len(made') = Len(made) + 1 /\ made'[Len(made) + 1].turn = rturn /\ rturn # 0
        /\ \A n \in 1..Len(made) : made'[n] = made[n]
    BY <1>6, MakesLast
  <2>3. /\ \A i \in 1..Len(wire') : i > Len(wire) => i = Len(wire) + 1 /\ wire'[i] = <<k, Len(made) + 1>>
        /\ \A i \in 1..Len(wire) : wire'[i] = wire[i]
        /\ Len(wire) \in Nat /\ Len(wire') \in Nat /\ Len(wire) <= Len(wire')
    BY <1>6, MakesWire
  <2>4. RunningIsSent'  BY <2>1, <2>3 DEF Fences, RunningIsSent
  <2>5. ASSUME fence, NEW i \in 1..Len(wire'), wire'[i][1] \in {"text", "call"}
        PROVE  \/ made'[wire'[i][2]].turn \in fenced \cup missed
               \/ \E j \in 1..(i - 1) : wire'[j][1] = "running"
    <3>1. CASE i \in 1..Len(wire)
      <4>1. wire'[i] = wire[i] /\ wire[i][2] \in 1..Len(made)  BY <2>3, <2>5, <3>1 DEF Begins, SentIsMade
      <4>2. CASE made[wire[i][2]].turn \in fenced \cup missed  BY <2>2, <4>1, <4>2
      <4>3. CASE \E j \in 1..(i - 1) : wire[j][1] = "running"  BY <2>3, <3>1, <4>3
      <4>4. QED  BY <2>5, <3>1, <4>1, <4>2, <4>3 DEF Fences, FencedAhead
    <3>2. CASE i > Len(wire)
      <4>1. i = Len(wire) + 1 /\ made'[wire'[i][2]].turn = rturn  BY <2>2, <2>3, <3>2
      <4>2. CASE rturn \in fenced \cup missed  BY <4>1, <4>2
      <4>3. CASE \E j \in 1..Len(wire) : wire[j][1] = "running"  BY <2>3, <4>1, <4>3
      <4>4. QED  BY <2>2, <2>5, <4>2, <4>3 DEF Fences, RunningIsSent
    <3>3. QED  BY <2>3, <3>1, <3>2
  <2>6. FencedAhead'  BY <2>1, <2>5 DEF FencedAhead
  <2>7. QED  BY <2>4, <2>6 DEF Fences
<1>7. QED  BY <1>1, <1>2, <1>3, <1>4, <1>5, <1>6, Steps

\* A turn that began after the stop lifts the fence before its output is read.
THEOREM RelayFences == RelaySpec => []Fences
<1>1. RelayInit => Fences  BY DEF RelayInit, Fences, RunningIsSent, FencedAhead
<1>2. Fences /\ UNCHANGED rvars => Fences'
  <2>1. UNCHANGED rvars => UNCHANGED <<rturn, made, wire, fence, fenced, missed>>  BY Zenon DEF rvars, runner, tunnel, task, text
  <2>2. QED  BY <2>1 DEF Fences, RunningIsSent, FencedAhead
<1>3. Typed /\ Begins /\ Fences /\ [RelayNext]_rvars => Fences'  BY <1>2, FencesNext
<1>4. QED  BY <1>1, <1>3, RelayTyped, RelayBegins, PTL DEF RelaySpec

\* The fence takes output only from turns that had begun when a stop was requested or reached the
\* runner, or whose start was lost, for any number of stops and any delay of the stream.
THEOREM FenceTakesTheStopped == RelaySpec => []FenceIsAimed
<1>1. Typed /\ Fences => FenceIsAimed
  <2>0. SUFFICES ASSUME Typed, Fences PROVE FenceIsAimed  OBVIOUS
  <2>1. SUFFICES ASSUME fence, wire # <<>>, Head(wire)[1] \in {"text", "call"}
                 PROVE  made[Head(wire)[2]].turn \in fenced \cup missed
    BY Zenon DEF FenceIsAimed
  <2>2. wire \in Seq(Events)  BY <2>0, Zenon DEF Typed, TaskOK
  <2>3. Head(wire) = wire[1] /\ 1 \in 1..Len(wire)  BY <2>1, <2>2, TailPlaces
  <2>4. ~\E k \in 1..(1 - 1) : wire[k][1] = "running"  OBVIOUS
  <2>5. QED  BY <2>0, <2>1, <2>3, <2>4 DEF Fences, FencedAhead
<1>2. QED  BY <1>1, RelayTyped, RelayFences, PTL

-----------------------------------------------------------------------------
(***************************************************************************)
(* The transcript.                                                         *)
(***************************************************************************)
\* The members of no sequence,
LEMMA SetOfEmpty == ToSet(<<>>) = {}
BY DEF ToSet

\* of any,
LEMMA SetOf ==
    ASSUME NEW S, NEW s \in Seq(S)
    PROVE  /\ ToSet(s) = {s[i] : i \in 1..Len(s)} /\ ToSet(s) \subseteq S
           /\ \A x : Contains(s, x) <=> x \in ToSet(s)
<1>1. DOMAIN s = 1..Len(s) /\ \A i \in 1..Len(s) : s[i] \in S  OBVIOUS
<1>2. QED  BY <1>1 DEF ToSet, Contains

\* of one with one more,
LEMMA SetOfAppend ==
    ASSUME NEW S, NEW s \in Seq(S), NEW e \in S
    PROVE  ToSet(Append(s, e)) = ToSet(s) \cup {e}
<1> DEFINE z == Append(s, e)
<1>1. /\ z \in Seq(S) /\ Len(z) = Len(s) + 1 /\ z[Len(s) + 1] = e /\ Len(s) \in Nat
      /\ \A i \in 1..Len(s) : z[i] = s[i]
  BY AppendPlaces
<1> HIDE DEF z
<1>2. ToSet(z) = {z[i] : i \in 1..Len(z)} /\ ToSet(s) = {s[i] : i \in 1..Len(s)}  BY <1>1, SetOf
<1>3. \A i \in 1..Len(z) : i \in 1..Len(s) \/ i = Len(s) + 1  BY <1>1
<1>4. \A i \in 1..Len(s) : i \in 1..Len(z)  BY <1>1
<1>5. Len(s) + 1 \in 1..Len(z)  BY <1>1
<1>6. ToSet(z) = ToSet(s) \cup {e}  BY <1>1, <1>2, <1>3, <1>4, <1>5
<1>7. QED  BY <1>6 DEF z

\* and of two joined.
LEMMA SetOfJoin ==
    ASSUME NEW S, NEW a \in Seq(S), NEW b \in Seq(S)
    PROVE  ToSet(a \o b) = ToSet(a) \cup ToSet(b)
<1> DEFINE z == a \o b
<1>1. /\ z \in Seq(S) /\ Len(z) = Len(a) + Len(b) /\ Len(a) \in Nat /\ Len(b) \in Nat
      /\ \A i \in 1..Len(a) : z[i] = a[i]
      /\ \A i \in 1..Len(b) : z[Len(a) + i] = b[i]
  BY JoinedPlaces
<1> HIDE DEF z
<1>z. ToSet(z) = {z[i] : i \in 1..Len(z)}  BY <1>1, SetOf
<1>a. ToSet(a) = {a[i] : i \in 1..Len(a)} /\ ToSet(b) = {b[i] : i \in 1..Len(b)}  BY SetOf
<1>2. ToSet(z) = {z[i] : i \in 1..Len(z)} /\ ToSet(a) = {a[i] : i \in 1..Len(a)} /\ ToSet(b) = {b[i] : i \in 1..Len(b)}
  BY <1>z, <1>a, Zenon
<1>3. \A i \in 1..Len(z) : i \in 1..Len(a) \/ (i - Len(a) \in 1..Len(b) /\ Len(a) + (i - Len(a)) = i)  BY <1>1
<1>4. \A i \in 1..Len(z) : z[i] \in ToSet(a) \cup ToSet(b)
  <2>1. SUFFICES ASSUME NEW i \in 1..Len(z) PROVE z[i] \in ToSet(a) \cup ToSet(b)  OBVIOUS
  <2>2. CASE i \in 1..Len(a)  BY <1>1, <1>2, <2>2
  <2>3. CASE i - Len(a) \in 1..Len(b) /\ Len(a) + (i - Len(a)) = i
    <3>1. z[i] = b[i - Len(a)]  BY <1>1, <2>3
    <3>2. QED  BY <1>2, <2>3, <3>1
  <2>4. QED  BY <1>3, <2>2, <2>3
<1>5. \A i \in 1..Len(a) : i \in 1..Len(z)  BY <1>1
<1>6. \A i \in 1..Len(b) : Len(a) + i \in 1..Len(z)  BY <1>1
<1>7. \A x \in ToSet(a) \cup ToSet(b) : x \in ToSet(z)  BY <1>1, <1>2, <1>5, <1>6
<1>8. ToSet(z) = ToSet(a) \cup ToSet(b)  BY <1>2, <1>4, <1>7
<1>9. QED  BY <1>8 DEF z

\* In order, and without repetition.
Rising(s)  == \A i, j \in 1..Len(s) : i < j => s[i] < s[j]
Different(s) == \A i, j \in 1..Len(s) : i < j => s[i] # s[j]

\* One more keeps a sequence so,
LEMMA RisingAppend ==
    ASSUME NEW s \in Seq(Outs), NEW e \in Outs
    PROVE  /\ Rising(s) /\ (\A m \in ToSet(s) : m < e) => Rising(Append(s, e))
           /\ Different(s) /\ e \notin ToSet(s) => Different(Append(s, e))
<1> DEFINE z == Append(s, e)
<1>1. /\ Len(z) = Len(s) + 1 /\ z[Len(s) + 1] = e /\ Len(s) \in Nat
      /\ \A i \in 1..Len(s) : z[i] = s[i]
  BY AppendPlaces
<1> HIDE DEF z
<1>2. ToSet(s) = {s[i] : i \in 1..Len(s)}  BY SetOf
<1>3. \A i, j \in 1..Len(z) : i < j => i \in 1..Len(s) /\ (j \in 1..Len(s) \/ j = Len(s) + 1)  BY <1>1
<1>4. Rising(s) /\ (\A m \in ToSet(s) : m < e) => Rising(z)  BY <1>1, <1>2, <1>3 DEF Rising
<1>5. Different(s) /\ e \notin ToSet(s) => Different(z)  BY <1>1, <1>2, <1>3 DEF Different
<1>6. QED  BY <1>4, <1>5 DEF z

\* and so does another after it.
LEMMA RisingJoin ==
    ASSUME NEW a \in Seq(Outs), NEW b \in Seq(Outs)
    PROVE  /\ Rising(a) /\ Rising(b) /\ (\A m \in ToSet(a), n \in ToSet(b) : m < n) => Rising(a \o b)
           /\ Different(a) /\ Different(b) /\ ToSet(a) \cap ToSet(b) = {} => Different(a \o b)
<1> DEFINE z == a \o b
<1>1. /\ Len(z) = Len(a) + Len(b) /\ Len(a) \in Nat /\ Len(b) \in Nat
      /\ \A i \in 1..Len(a) : z[i] = a[i]
      /\ \A i \in 1..Len(b) : z[Len(a) + i] = b[i]
  BY JoinedPlaces
<1> HIDE DEF z
<1>2. ToSet(a) = {a[i] : i \in 1..Len(a)} /\ ToSet(b) = {b[i] : i \in 1..Len(b)}  BY SetOf
<1>3. ASSUME NEW i \in 1..Len(z), NEW j \in 1..Len(z), i < j
      PROVE  /\ Rising(a) /\ Rising(b) /\ (\A m \in ToSet(a), n \in ToSet(b) : m < n) => z[i] < z[j]
             /\ Different(a) /\ Different(b) /\ ToSet(a) \cap ToSet(b) = {} => z[i] # z[j]
  <2>1. CASE i \in 1..Len(a) /\ j \in 1..Len(a)
    <3>1. z[i] = a[i] /\ z[j] = a[j]  BY <1>1, <2>1
    <3>2. QED  BY <1>3, <2>1, <3>1 DEF Rising, Different
  <2>2. CASE i \in 1..Len(a) /\ j > Len(a)
    <3>1. j - Len(a) \in 1..Len(b) /\ Len(a) + (j - Len(a)) = j  BY <1>1, <2>2
    <3>2. z[i] = a[i] /\ z[j] = b[j - Len(a)]  BY <1>1, <2>2, <3>1
    <3>3. z[i] \in ToSet(a) /\ z[j] \in ToSet(b)  BY <1>2, <2>2, <3>1, <3>2
    <3>4. QED  BY <3>3
  <2>3. CASE i > Len(a) /\ j > Len(a)
    <3>1. /\ j - Len(a) \in 1..Len(b) /\ Len(a) + (j - Len(a)) = j
          /\ i - Len(a) \in 1..Len(b) /\ Len(a) + (i - Len(a)) = i /\ i - Len(a) < j - Len(a)
      BY <1>1, <1>3, <2>3
    <3>2. z[i] = b[i - Len(a)] /\ z[j] = b[j - Len(a)]  BY <1>1, <3>1
    <3>3. QED  BY <3>1, <3>2 DEF Rising, Different
  <2>4. QED  BY <1>1, <1>3, <2>1, <2>2, <2>3
<1>4. Rising(a) /\ Rising(b) /\ (\A m \in ToSet(a), n \in ToSet(b) : m < n) => Rising(z)  BY <1>3 DEF Rising
<1>5. Different(a) /\ Different(b) /\ ToSet(a) \cap ToSet(b) = {} => Different(z)  BY <1>3 DEF Different
<1>6. QED  BY <1>4, <1>5 DEF z

\* What is in order does not repeat.
LEMMA RisingDiffers == ASSUME NEW s \in Seq(Outs), Rising(s) PROVE Different(s)
<1>0. \A i \in 1..Len(s) : s[i] \in Outs  OBVIOUS
<1>1. \A i \in 1..Len(s) : s[i] \in Int  BY <1>0 DEF Outs
<1>2. QED  BY <1>1 DEF Rising, Different

\* Everything the relay has told or stored.
Past == ToSet(store) \cup shown
\* It was made, before the call in hand,
PastIsMade == \A n \in Past : n \in 1..Len(made) /\ (Busy /\ ev[1] = "call" => n < ev[2])
\* before the outputs unread,
PastIsBehind == \A n \in Past, i \in 1..Len(wire) : wire[i][1] \in {"text", "call"} => n < wire[i][2]
\* which come in the order they were made.
SentRises == \A i \in 1..Len(wire) : wire[i][1] \in {"text", "call"} =>
                /\ Busy /\ ev[1] = "call" => ev[2] < wire[i][2]
                /\ \A j \in 1..Len(wire) : wire[j][1] \in {"text", "call"} /\ i < j => wire[i][2] < wire[j][2]
\* Both buffers hold shown text.
BuffersAreShown == ToSet(acc) \subseteq shown /\ ToSet(inflight) \subseteq shown
\* The order of the stream.
Behind == PastIsMade /\ PastIsBehind /\ SentRises /\ BuffersAreShown

\* The quiet steps keep it,
LEMMA QuietBehind == ASSUME Typed, Behind, Quiet PROVE Behind'
<1>1. UNCHANGED <<made, wire, ev, shown, store>>  BY Zenon DEF Quiet
<1>2. relay' = relay \/ (~Busy /\ ~Busy')  BY Zenon DEF Quiet
<1>3. Busy' => Busy  BY <1>2 DEF Busy
<1>4. Past' = Past  BY <1>1 DEF Past
<1>5. PastIsMade' /\ PastIsBehind' /\ SentRises'  BY <1>1, <1>3, <1>4 DEF Behind, PastIsMade, PastIsBehind, SentRises
<1>6. (acc' = acc \/ acc' = <<>>) /\ (inflight' = inflight \/ inflight' = <<>>)  BY Zenon DEF Quiet
<1>7. BuffersAreShown'  BY <1>1, <1>6, SetOfEmpty DEF Behind, BuffersAreShown
<1>8. QED  BY <1>5, <1>7 DEF Behind

\* the reads,
LEMMA HearsBehind == ASSUME Typed, Begins, Behind, Hears PROVE Behind'
<1>1. Takes  BY DEF Hears, HearsRunning, HearsEnd, HearsNothing, HearsCreated, HearsText, HearsBoundary
<1>2. UNCHANGED <<made, store>> /\ relay = "reading"  BY <1>1, Zenon DEF Takes, Steady
<1>3. /\ \A i \in 1..Len(wire') : wire'[i] = wire[i + 1] /\ i + 1 \in 1..Len(wire)
      /\ 1 \in 1..Len(wire) /\ wire[1] \in Events
  BY <1>1, TakesPlaces
<1>4. SentRises'
  <2>1. ASSUME NEW i \in 1..Len(wire'), wire'[i][1] \in {"text", "call"},
               NEW j \in 1..Len(wire'), wire'[j][1] \in {"text", "call"}, i < j
        PROVE  wire'[i][2] < wire'[j][2]
    <3>1. i + 1 < j + 1  BY <2>1
    <3>2. QED  BY <1>3, <2>1, <3>1 DEF Behind, SentRises
  <2>2. Busy' => ev' = wire[1]
    BY DEF Hears, HearsRunning, HearsEnd, HearsNothing, HearsCreated, HearsText, HearsBoundary, Takes, Busy
  <2>3. ASSUME NEW i \in 1..Len(wire'), wire'[i][1] \in {"text", "call"}, wire[1][1] \in {"text", "call"}
        PROVE  wire[1][2] < wire'[i][2]
    <3>1. 1 < i + 1  OBVIOUS
    <3>2. QED  BY <1>3, <2>3, <3>1 DEF Behind, SentRises
  <2>4. QED  BY <2>1, <2>2, <2>3 DEF SentRises
<1>5. /\ \A n \in Past : n \in 1..Len(made)
      /\ \A n \in Past : wire[1][1] \in {"text", "call"} => n < wire[1][2]
      /\ \A n \in Past, i \in 1..Len(wire') : wire'[i][1] \in {"text", "call"} => n < wire'[i][2]
  BY <1>3 DEF Behind, PastIsMade, PastIsBehind
<1>6. CASE HearsText
  <2>0. PICK w : w = wire[1][2]  OBVIOUS
  <2>1. w \in Outs /\ w \in 1..Len(made)  BY <1>3, <1>6, <2>0, EventShape DEF HearsText, Begins, SentIsMade
  <2>2. shown' = shown \cup {w} /\ acc' = Append(acc, w) /\ inflight' = Append(inflight, w) /\ relay' = "reading"
    BY <1>2, <1>6, <2>0 DEF HearsText
  <2>3. acc \in Seq(Outs) /\ inflight \in Seq(Outs)  BY Zenon DEF Typed, TextOK
  <2>4. ToSet(acc') = ToSet(acc) \cup {w} /\ ToSet(inflight') = ToSet(inflight) \cup {w}  BY <2>1, <2>2, <2>3, SetOfAppend
  <2>5. BuffersAreShown'  BY <2>2, <2>4 DEF Behind, BuffersAreShown
  <2>6. Past' = Past \cup {w}  BY <1>2, <2>2 DEF Past
  <2>7. ~Busy'  BY <2>2 DEF Busy
  <2>8. PastIsMade'  BY <1>2, <1>5, <2>1, <2>6, <2>7 DEF PastIsMade
  <2>9. \A i \in 1..Len(wire') : wire'[i][1] \in {"text", "call"} => w < wire'[i][2]
    <3>1. SUFFICES ASSUME NEW i \in 1..Len(wire'), wire'[i][1] \in {"text", "call"} PROVE w < wire'[i][2]  OBVIOUS
    <3>2. 1 < i + 1 /\ wire[1][1] \in {"text", "call"}  BY <1>6 DEF HearsText
    <3>3. QED  BY <1>3, <2>0, <3>1, <3>2 DEF Behind, SentRises
  <2>10. PastIsBehind'  BY <1>5, <2>6, <2>9 DEF PastIsBehind
  <2>11. QED  BY <1>4, <2>5, <2>8, <2>10 DEF Behind
<1>7. CASE ~HearsText
  <2>1. shown' = shown /\ (acc' = acc \/ acc' = <<>>) /\ (inflight' = inflight \/ inflight' = <<>>)
    BY <1>7, Zenon DEF Hears, HearsRunning, HearsEnd, HearsNothing, HearsCreated, HearsBoundary
  <2>2. Past' = Past  BY <1>2, <2>1 DEF Past
  <2>3. BuffersAreShown'  BY <2>1, SetOfEmpty DEF Behind, BuffersAreShown
  <2>4. PastIsBehind'  BY <1>5, <2>2 DEF PastIsBehind
  <2>5. Busy' => ev' = wire[1]
    BY DEF Hears, HearsRunning, HearsEnd, HearsNothing, HearsCreated, HearsText, HearsBoundary, Takes, Busy
  <2>6. PastIsMade'  BY <1>2, <1>5, <2>2, <2>5 DEF PastIsMade
  <2>7. QED  BY <1>4, <2>3, <2>4, <2>6 DEF Behind
<1>8. QED  BY <1>6, <1>7

\* the steps between two reads,
LEMMA WorksBehind == ASSUME Typed, Begins, Behind, Works PROVE Behind'
<1>1. UNCHANGED <<made, wire, shown>> /\ Busy /\ (Busy' => ev' = ev)
  BY DEF Works, StoresText, ClearsText, LosesFlush, StoresCall, LosesCall, ShowsEnd, Busy, Keeps, Steady
<1>2. (acc' = acc \/ acc' = <<>>) /\ (inflight' = inflight \/ inflight' = <<>>)
  BY Zenon DEF Works, StoresText, ClearsText, LosesFlush, StoresCall, LosesCall, ShowsEnd
<1>3. BuffersAreShown'  BY <1>1, <1>2, SetOfEmpty DEF Behind, BuffersAreShown
<1>4. SentRises'  BY <1>1 DEF Behind, SentRises
<1>5. acc \in Seq(Outs) /\ store \in Seq(Outs) /\ ev \in Events  BY Zenon DEF Typed, TextOK, TaskOK
<1>6. CASE Past' = Past
  <2>1. PastIsMade' /\ PastIsBehind'  BY <1>1, <1>6 DEF Behind, PastIsMade, PastIsBehind
  <2>2. QED  BY <1>3, <1>4, <2>1 DEF Behind
<1>7. CASE StoresText
  <2>1. ToSet(store') = ToSet(store) \cup ToSet(acc)  BY <1>5, <1>7, SetOfJoin DEF StoresText
  <2>2. Past' = Past  BY <1>1, <2>1 DEF Past, Behind, BuffersAreShown
  <2>3. QED  BY <1>6, <2>2
<1>8. CASE StoresCall
  <2>1. ev[1] = "call" /\ store' = Append(store, ev[2]) /\ relay' = "reading"  BY <1>8 DEF StoresCall
  <2>2. ev[2] \in Outs /\ ev[2] \in 1..Len(made)  BY <1>1, <1>5, <2>1, EventShape DEF Begins, SentIsMade
  <2>3. ToSet(store') = ToSet(store) \cup {ev[2]}  BY <1>5, <2>1, <2>2, SetOfAppend
  <2>4. Past' = Past \cup {ev[2]}  BY <1>1, <2>3 DEF Past
  <2>5. ~Busy'  BY <2>1 DEF Busy
  <2>6. PastIsMade'  BY <1>1, <2>2, <2>4, <2>5 DEF Behind, PastIsMade
  <2>7. PastIsBehind'  BY <1>1, <2>1, <2>4 DEF Behind, PastIsBehind, SentRises
  <2>8. QED  BY <1>3, <1>4, <2>6, <2>7 DEF Behind
<1>9. CASE store' = store
  <2>1. Past' = Past  BY <1>1, <1>9 DEF Past
  <2>2. QED  BY <1>6, <2>1
<1>10. QED  BY <1>7, <1>8, <1>9, Zenon DEF Works, ClearsText, LosesFlush, LosesCall, ShowsEnd

\* The runner's steps that make nothing.
LEMMA SilentBehind ==
    ASSUME Typed, Behind, Apart, made' = made,
           \A i \in 1..Len(wire') : wire'[i][1] \in {"text", "call"} => i \in 1..Len(wire) /\ wire'[i] = wire[i]
    PROVE  Behind'
<1>1. UNCHANGED <<relay, ev, acc, inflight, shown, store>>  BY Zenon DEF Apart
<1>2. Past' = Past /\ Busy' = Busy  BY <1>1 DEF Past, Busy
<1>3. PastIsMade' /\ PastIsBehind'  BY <1>1, <1>2 DEF Behind, PastIsMade, PastIsBehind
<1>4. SentRises'  BY <1>1, <1>2 DEF Behind, SentRises
<1>5. BuffersAreShown'  BY <1>1 DEF Behind, BuffersAreShown
<1>6. QED  BY <1>3, <1>4, <1>5 DEF Behind

\* So every step keeps it.
LEMMA BehindNext == ASSUME Typed, Begins, Behind, RelayNext PROVE Behind'
<1>1. CASE Quiet  BY <1>1, QuietBehind
<1>2. CASE Hears  BY <1>2, HearsBehind
<1>3. CASE Works  BY <1>3, WorksBehind
<1>4. CASE Ends
  <2>1. Apart /\ made' = made  BY <1>4, Zenon DEF Ends
  <2>2. \A i \in 1..Len(wire') : wire'[i][1] \in {"text", "call"} => i \in 1..Len(wire) /\ wire'[i] = wire[i]
    BY <1>4, EndsWire
  <2>3. QED  BY <2>1, <2>2, SilentBehind
<1>5. ASSUME NEW t \in Turns, Starts(t) PROVE Behind'
  <2>1. Apart /\ made' = made  BY <1>5, Zenon DEF Starts
  <2>2. \A i \in 1..Len(wire') : wire'[i][1] \in {"text", "call"} => i \in 1..Len(wire) /\ wire'[i] = wire[i]
    BY <1>5, StartsWire
  <2>3. QED  BY <2>1, <2>2, SilentBehind
<1>6. ASSUME NEW k \in {"text", "call"}, Makes(k) PROVE Behind'
  <2>1. UNCHANGED <<relay, ev, acc, inflight, shown, store>>  BY <1>6, Zenon DEF Makes, Apart
  <2>2. Past' = Past /\ Busy' = Busy  BY <2>1 DEF Past, Busy
  <2>3. Len(made) \in Nat /\ Len(made') = Len(made) + 1  BY <1>6, MakesLast
  <2>4. \A i \in 1..Len(wire') : \/ i \in 1..Len(wire) /\ wire'[i] = wire[i]
                                 \/ i = Len(wire) + 1 /\ wire'[i] = <<k, Len(made) + 1>>
    BY <1>6, MakesWire
  <2>5. Len(wire) \in Nat  BY <1>6, MakesWire
  <2>6. PastIsMade'  BY <2>1, <2>2, <2>3 DEF Behind, PastIsMade
  <2>7. PastIsBehind'  BY <2>2, <2>3, <2>4 DEF Behind, PastIsMade, PastIsBehind
  <2>8. SentRises'
    <3>1. ASSUME NEW i \in 1..Len(wire'), wire'[i][1] \in {"text", "call"}, Busy, ev[1] = "call" PROVE ev[2] < wire'[i][2]
      <4>1. CASE i \in 1..Len(wire) /\ wire'[i] = wire[i]  BY <3>1, <4>1 DEF Behind, SentRises
      <4>2. CASE wire'[i] = <<k, Len(made) + 1>>  BY <2>3, <3>1, <4>2 DEF Begins, SentIsMade
      <4>3. QED  BY <2>4, <4>1, <4>2
    <3>2. ASSUME NEW i \in 1..Len(wire'), wire'[i][1] \in {"text", "call"},
                 NEW j \in 1..Len(wire'), wire'[j][1] \in {"text", "call"}, i < j
          PROVE  wire'[i][2] < wire'[j][2]
      <4>1. i \in 1..Len(wire) /\ wire'[i] = wire[i]  BY <2>4, <2>5, <3>2
      <4>2. CASE j \in 1..Len(wire) /\ wire'[j] = wire[j]  BY <3>2, <4>1, <4>2 DEF Behind, SentRises
      <4>3. CASE wire'[j] = <<k, Len(made) + 1>>  BY <2>3, <3>2, <4>1, <4>3 DEF Begins, SentIsMade
      <4>4. QED  BY <2>4, <4>2, <4>3
    <3>3. QED  BY <2>1, <2>2, <3>1, <3>2 DEF SentRises
  <2>9. BuffersAreShown'  BY <2>1 DEF Behind, BuffersAreShown
  <2>10. QED  BY <2>6, <2>7, <2>8, <2>9 DEF Behind
<1>7. QED  BY <1>1, <1>2, <1>3, <1>4, <1>5, <1>6, Steps

\* The outputs reach the relay in the order they were made, and once.
THEOREM RelayBehind == RelaySpec => []Behind
<1>1. RelayInit => Behind
  BY SetOfEmpty DEF RelayInit, Behind, Past, PastIsMade, PastIsBehind, SentRises, BuffersAreShown
<1>2. Behind /\ UNCHANGED rvars => Behind'
  <2>1. UNCHANGED rvars => UNCHANGED <<made, wire, relay, ev, acc, inflight, shown, store>>
    BY Zenon DEF rvars, runner, tunnel, task, text
  <2>2. QED  BY <2>1 DEF Behind, Past, PastIsMade, PastIsBehind, SentRises, BuffersAreShown, Busy
<1>3. Typed /\ Begins /\ Behind /\ [RelayNext]_rvars => Behind'  BY <1>2, BehindNext
<1>4. QED  BY <1>1, <1>3, RelayTyped, RelayBegins, PTL DEF RelaySpec

\* The text on hand is in order and not stored yet, but between a commit and the step that clears it.
OnHand == /\ Rising(acc)
          /\ relay # "flushed" => ToSet(store) \cap (ToSet(acc) \cup ToSet(inflight)) = {}
          /\ relay = "flushed" => ToSet(acc) \subseteq ToSet(store)
          /\ relay \in {"flush", "flushed"} => acc # <<>>
\* While appends succeed it comes after all that is stored, and a flush leaves none.
OnTime == unsaved = 0 => /\ relay # "flushed" => \A m \in ToSet(store), n \in ToSet(acc) : m < n
                         /\ relay = "after" => acc = <<>>
                         /\ Rising(store)
\* What the transcript rests on.
Filed == OnHand /\ OnTime /\ Different(store)

\* Nothing is in order.
LEMMA RisingEmpty == Rising(<<>>)
BY DEF Rising

\* The quiet steps keep it,
LEMMA QuietFiled == ASSUME Typed, Filed, Quiet PROVE Filed'
<1>1. UNCHANGED <<store, unsaved>> /\ (inflight' = inflight \/ inflight' = <<>>)  BY Zenon DEF Quiet
<1>2. relay' = relay \/ (~Busy /\ ~Busy')  BY Zenon DEF Quiet
<1>3. acc' = acc \/ (acc' = <<>> /\ relay \in {"none", "dying"})  BY Zenon DEF Quiet
<1>4. (relay' = "flushed" <=> relay = "flushed") /\ (relay' = "after" <=> relay = "after") /\ (relay' = "flush" <=> relay = "flush")
  BY <1>2 DEF Busy
<1>5. ToSet(inflight') \subseteq ToSet(inflight)  BY <1>1, SetOfEmpty
<1>6. CASE acc' = acc
  <2>1. OnHand'  BY <1>1, <1>4, <1>5, <1>6 DEF Filed, OnHand
  <2>2. QED  BY <1>1, <1>4, <1>6, <2>1 DEF Filed, OnTime
<1>7. CASE acc' = <<>> /\ relay \in {"none", "dying"}
  <2>1. ToSet(acc') = {} /\ Rising(acc')  BY <1>7, SetOfEmpty, RisingEmpty
  <2>2. relay' \notin {"flush", "flushed"}  BY <1>4, <1>7
  <2>3. OnHand'  BY <1>1, <1>5, <1>7, <2>1, <2>2 DEF Filed, OnHand
  <2>4. QED  BY <1>1, <1>4, <1>7, <2>1, <2>3 DEF Filed, OnTime
<1>8. QED  BY <1>3, <1>6, <1>7

\* the reads,
LEMMA HearsFiled == ASSUME Typed, Begins, Behind, Filed, Hears PROVE Filed'
<1>1. Takes  BY DEF Hears, HearsRunning, HearsEnd, HearsNothing, HearsCreated, HearsText, HearsBoundary
<1>2. UNCHANGED <<store, unsaved>> /\ relay = "reading"  BY <1>1, Zenon DEF Takes
<1>3. CASE HearsText
  <2>0. PICK w : w = wire[1][2]  OBVIOUS
  <2>1. 1 \in 1..Len(wire) /\ wire[1] \in Events /\ wire[1][1] = "text"  BY <1>1, <1>3, TakesPlaces DEF HearsText
  <2>2. w \in Outs  BY <2>0, <2>1, EventShape
  <2>3. acc' = Append(acc, w) /\ inflight' = Append(inflight, w) /\ relay' = "reading"
    BY <1>2, <1>3, <2>0 DEF HearsText
  <2>4. acc \in Seq(Outs) /\ inflight \in Seq(Outs) /\ store \in Seq(Outs)  BY Zenon DEF Typed, TextOK
  <2>5. ToSet(acc') = ToSet(acc) \cup {w} /\ ToSet(inflight') = ToSet(inflight) \cup {w}  BY <2>2, <2>3, <2>4, SetOfAppend
  <2>6. \A n \in ToSet(store) \cup ToSet(acc) : n < w
    <3>1. ToSet(store) \cup ToSet(acc) \subseteq Past  BY DEF Behind, BuffersAreShown, Past
    <3>2. \A n \in Past : n < w  BY <2>0, <2>1 DEF Behind, PastIsBehind
    <3>3. QED  BY <3>1, <3>2
  <2>7. Rising(acc')  BY <2>2, <2>3, <2>4, <2>6, RisingAppend DEF Filed, OnHand
  <2>8. w \notin ToSet(store)
    <3>1. ~(w < w)  BY <2>2 DEF Outs
    <3>2. QED  BY <2>6, <3>1
  <2>9. OnHand'  BY <1>2, <2>3, <2>5, <2>7, <2>8 DEF Filed, OnHand
  <2>10. OnTime'  BY <1>2, <2>3, <2>5, <2>6 DEF Filed, OnTime
  <2>11. QED  BY <1>2, <2>9, <2>10 DEF Filed
<1>4. CASE ~HearsText
  <2>1. (acc' = acc \/ acc' = <<>>) /\ (inflight' = inflight \/ inflight' = <<>>)
    BY <1>4, Zenon DEF Hears, HearsRunning, HearsEnd, HearsNothing, HearsCreated, HearsBoundary
  <2>2. relay' # "flushed" /\ (relay' = "after" => acc' = <<>>) /\ (relay' = "flush" => acc' # <<>>)
    BY <1>2, <1>4 DEF Hears, HearsRunning, HearsEnd, HearsNothing, HearsCreated, HearsBoundary
  <2>3. ToSet(inflight') \subseteq ToSet(inflight) /\ ToSet(acc') \subseteq ToSet(acc) /\ Rising(acc')
    BY <2>1, SetOfEmpty, RisingEmpty DEF Filed, OnHand
  <2>4. OnHand'  BY <1>2, <2>2, <2>3 DEF Filed, OnHand
  <2>5. OnTime'  BY <1>2, <2>2, <2>3 DEF Filed, OnTime
  <2>6. QED  BY <1>2, <2>4, <2>5 DEF Filed
<1>5. QED  BY <1>3, <1>4

\* the steps between two reads,
LEMMA WorksFiled == ASSUME Typed, Begins, Behind, Filed, Works PROVE Filed'
<1>0. acc \in Seq(Outs) /\ inflight \in Seq(Outs) /\ store \in Seq(Outs) /\ ev \in Events /\ unsaved \in Nat
  BY Zenon DEF Typed, TextOK, TaskOK, CountOK
<1>1. CASE StoresText
  <2>1. relay = "flush" /\ relay' = "flushed" /\ store' = store \o acc /\ UNCHANGED <<acc, inflight, unsaved>>
    BY <1>1, Zenon DEF StoresText
  <2>2. ToSet(store') = ToSet(store) \cup ToSet(acc)  BY <1>0, <2>1, SetOfJoin
  <2>3. OnHand'  BY <2>1, <2>2 DEF Filed, OnHand
  <2>4. Different(acc)  BY <1>0, RisingDiffers DEF Filed, OnHand
  <2>5. ToSet(store) \cap ToSet(acc) = {}  BY <2>1 DEF Filed, OnHand
  <2>6. Different(store')  BY <1>0, <2>1, <2>4, <2>5, RisingJoin DEF Filed
  <2>7. unsaved = 0 => Rising(store')
    <3>1. SUFFICES ASSUME unsaved = 0 PROVE Rising(store')  OBVIOUS
    <3>2. Rising(store) /\ Rising(acc) /\ \A m \in ToSet(store), n \in ToSet(acc) : m < n
      BY <2>1, <3>1 DEF Filed, OnHand, OnTime
    <3>3. QED  BY <1>0, <2>1, <3>2, RisingJoin
  <2>8. OnTime'  BY <2>1, <2>7 DEF OnTime
  <2>9. QED  BY <2>3, <2>6, <2>8 DEF Filed
<1>2. CASE ClearsText
  <2>1. relay' = "after" /\ acc' = <<>> /\ inflight' = <<>> /\ UNCHANGED <<store, unsaved>>
    BY <1>2, Zenon DEF ClearsText
  <2>2. OnHand' /\ OnTime'  BY <2>1, SetOfEmpty, RisingEmpty DEF Filed, OnHand, OnTime
  <2>3. QED  BY <2>1, <2>2 DEF Filed
<1>3. CASE LosesFlush
  <2>1. relay = "flush" /\ relay' = "after" /\ unsaved' = unsaved + 1 /\ UNCHANGED <<acc, inflight, store>>
    BY <1>3, Zenon DEF LosesFlush
  <2>2. unsaved' # 0  BY <1>0, <2>1
  <2>3. OnHand' /\ OnTime'  BY <2>1, <2>2 DEF Filed, OnHand, OnTime
  <2>4. QED  BY <2>1, <2>3 DEF Filed
<1>4. CASE StoresCall
  <2>1. /\ relay = "after" /\ relay' = "reading" /\ ev[1] = "call" /\ store' = Append(store, ev[2])
        /\ UNCHANGED <<acc, inflight, unsaved>>
    BY <1>4, Zenon DEF StoresCall
  <2>2. PICK c : c = ev[2]  OBVIOUS
  <2>3. c \in Outs  BY <1>0, <2>1, <2>2, EventShape
  <2>4. \A n \in ToSet(store) \cup ToSet(acc) \cup ToSet(inflight) : n < c
    <3>1. ToSet(store) \cup ToSet(acc) \cup ToSet(inflight) \subseteq Past  BY DEF Behind, BuffersAreShown, Past
    <3>2. Busy  BY <2>1 DEF Busy
    <3>3. \A n \in Past : n < c  BY <2>1, <2>2, <3>2 DEF Behind, PastIsMade
    <3>4. QED  BY <3>1, <3>3
  <2>5. c \notin ToSet(store) \cup ToSet(acc) \cup ToSet(inflight)
    <3>1. ~(c < c)  BY <2>3 DEF Outs
    <3>2. QED  BY <2>4, <3>1
  <2>6. store' = Append(store, c)  BY <2>1, <2>2
  <2>7. ToSet(store') = ToSet(store) \cup {c}  BY <1>0, <2>3, <2>6, SetOfAppend
  <2>8. OnHand'  BY <2>1, <2>5, <2>7 DEF Filed, OnHand
  <2>9. Different(store')  BY <1>0, <2>3, <2>5, <2>6, RisingAppend DEF Filed
  <2>10. OnTime'
    <3>1. CASE unsaved # 0  BY <2>1, <3>1 DEF OnTime
    <3>2. CASE unsaved = 0
      <4>1. acc = <<>> /\ Rising(store)  BY <2>1, <3>2 DEF Filed, OnTime
      <4>2. Rising(store')  BY <1>0, <2>3, <2>4, <2>6, <4>1, RisingAppend
      <4>3. ToSet(acc') = {}  BY <2>1, <4>1, SetOfEmpty
      <4>4. QED  BY <2>1, <4>2, <4>3 DEF OnTime
    <3>3. QED  BY <3>1, <3>2
  <2>11. QED  BY <2>8, <2>9, <2>10 DEF Filed
<1>5. CASE LosesCall
  <2>1. relay = "after" /\ relay' = "reading" /\ unsaved' = unsaved + 1 /\ UNCHANGED <<acc, inflight, store>>
    BY <1>5, Zenon DEF LosesCall
  <2>2. unsaved' # 0  BY <1>0, <2>1
  <2>3. OnHand' /\ OnTime'  BY <2>1, <2>2 DEF Filed, OnHand, OnTime
  <2>4. QED  BY <2>1, <2>3 DEF Filed
<1>6. CASE ShowsEnd
  <2>1. relay = "after" /\ relay' = "reading" /\ inflight' = <<>> /\ UNCHANGED <<acc, store, unsaved>>
    BY <1>6, Zenon DEF ShowsEnd
  <2>2. OnHand' /\ OnTime'  BY <2>1, SetOfEmpty DEF Filed, OnHand, OnTime
  <2>3. QED  BY <2>1, <2>2 DEF Filed
<1>7. QED  BY <1>1, <1>2, <1>3, <1>4, <1>5, <1>6, Zenon DEF Works

\* and the runner, which touches none of it.
LEMMA FiledFrame == ASSUME Filed, UNCHANGED <<relay, acc, inflight, store, unsaved>> PROVE Filed'
BY DEF Filed, OnHand, OnTime

\* So every step keeps it.
LEMMA FiledNext == ASSUME Typed, Begins, Behind, Filed, RelayNext PROVE Filed'
<1>1. CASE Quiet  BY <1>1, QuietFiled
<1>2. CASE Hears  BY <1>2, HearsFiled
<1>3. CASE Works  BY <1>3, WorksFiled
<1>4. CASE Apart
  <2>1. UNCHANGED <<relay, acc, inflight, store, unsaved>>  BY <1>4, Zenon DEF Apart
  <2>2. QED  BY <2>1, FiledFrame
<1>5. QED  BY <1>1, <1>2, <1>3, <1>4, Steps, Zenon DEF Ends, Starts, Makes

\* The buffers and the transcript stay apart and in order.
THEOREM RelayFiles == RelaySpec => []Filed
<1>1. RelayInit => Filed
  <2>1. SUFFICES ASSUME RelayInit PROVE Filed  OBVIOUS
  <2>2. relay = "none" /\ acc = <<>> /\ inflight = <<>> /\ store = <<>>  BY <2>1, Zenon DEF RelayInit
  <2>3. QED  BY <2>2, SetOfEmpty, RisingEmpty DEF Filed, OnHand, OnTime, Different
<1>2. Filed /\ UNCHANGED rvars => Filed'
  <2>1. UNCHANGED rvars => UNCHANGED <<relay, acc, inflight, store, unsaved>>
    BY Zenon DEF rvars, runner, tunnel, task, text
  <2>2. QED  BY <2>1, FiledFrame
<1>3. Typed /\ Begins /\ Behind /\ Filed /\ [RelayNext]_rvars => Filed'  BY <1>2, FiledNext
<1>4. QED  BY <1>1, <1>3, RelayTyped, RelayBegins, RelayBehind, PTL DEF RelaySpec

\* The transcript never holds an output twice, and while appends succeed it is in the order the agent
\* made the outputs, for any stops, faults and delays.
THEOREM TranscriptStaysInOrder == RelaySpec => []TranscriptInOrder
<1>1. Filed => TranscriptInOrder  BY DEF Filed, OnTime, Different, Rising, TranscriptInOrder
<1>2. QED  BY <1>1, RelayFiles, PTL

\* Text is stored and replayed at once only between the commit of a flush and its next step.
THEOREM TextIsShownOnce == RelaySpec => []ShownOnce
<1>1. Typed /\ Filed => ShownOnce
  <2>1. SUFFICES ASSUME Typed, Filed, NEW i \in 1..Len(store), Contains(inflight, store[i]) PROVE relay = "flushed"
    BY DEF ShownOnce
  <2>2. inflight \in Seq(Outs) /\ store \in Seq(Outs)  BY <2>1, Zenon DEF Typed, TextOK
  <2>3. store[i] \in ToSet(inflight) /\ store[i] \in ToSet(store)  BY <2>1, <2>2, SetOf
  <2>4. QED  BY <2>1, <2>3 DEF Filed, OnHand
<1>2. QED  BY <1>1, RelayTyped, RelayFiles, PTL

-----------------------------------------------------------------------------
(***************************************************************************)
(* Turns follow each other on the wire.                                    *)
(***************************************************************************)
\* A turn has said nothing when its response.created comes,
CreatedFirst == \A i \in 1..Len(wire) : wire[i][1] = "created" =>
    /\ \A n \in shown : made[n].turn # wire[i][2]
    /\ \A j \in 1..Len(wire) : wire[j][1] \in {"text", "call"} /\ j < i => made[wire[j][2]].turn # wire[i][2]
\* nor anything before the first event it sends,
RunningFirst == \A i \in 1..Len(wire) : wire[i][1] = "running" =>
    \A j \in 1..Len(wire) : wire[j][1] \in {"text", "call"} /\ i < j =>
        /\ \A n \in shown : made[n].turn # made[wire[j][2]].turn
        /\ \A k \in 1..Len(wire) : wire[k][1] \in {"text", "call"} /\ k < i => made[wire[k][2]].turn # made[wire[j][2]].turn
\* and while its start, or the end of an earlier one, is unread nothing of the running turn was heard.
RunningAlone == \A i \in 1..Len(wire) : wire[i][1] \notin {"text", "call"} /\ rturn # 0 =>
    /\ \A n \in shown : made[n].turn # rturn
    /\ \A k \in 1..Len(wire) : wire[k][1] \in {"text", "call"} /\ k < i => made[wire[k][2]].turn # rturn
\* The three.
Turned == CreatedFirst /\ RunningFirst /\ RunningAlone

\* What was shown or sent is of turns that have begun.
LEMMA ShownByBegun ==
    ASSUME Begins, Behind
    PROVE  /\ \A n \in shown : n \in 1..Len(made) /\ made[n].turn \in Begun
           /\ \A i \in 1..Len(wire) : wire[i][1] \in {"text", "call"} =>
                wire[i][2] \in 1..Len(made) /\ made[wire[i][2]].turn \in Begun
BY DEF Begins, MadeByBegun, SentIsMade, Behind, PastIsMade, Past

\* What touches none of it keeps it.
LEMMA TurnedFrame == ASSUME Turned, UNCHANGED <<made, rturn, wire, shown>> PROVE Turned'
BY DEF Turned, CreatedFirst, RunningFirst, RunningAlone

\* The reads keep it,
LEMMA HearsTurned == ASSUME Typed, Turned, Hears PROVE Turned'
<1>1. Takes  BY DEF Hears, HearsRunning, HearsEnd, HearsNothing, HearsCreated, HearsText, HearsBoundary
<1>2. UNCHANGED <<made, rturn>>  BY <1>1, Zenon DEF Takes, Steady
<1>3. /\ \A i \in 1..Len(wire') : wire'[i] = wire[i + 1] /\ i + 1 \in 1..Len(wire) /\ 1 < i + 1
      /\ 1 \in 1..Len(wire)
  BY <1>1, TakesPlaces
<1>4. shown' = shown \/ (shown' = shown \cup {wire[1][2]} /\ wire[1][1] \in {"text", "call"})
  BY DEF Hears, HearsRunning, HearsEnd, HearsNothing, HearsCreated, HearsText, HearsBoundary
<1>5. CreatedFirst'
  <2>1. SUFFICES ASSUME NEW i \in 1..Len(wire'), wire'[i][1] = "created"
                 PROVE  /\ \A n \in shown' : made[n].turn # wire'[i][2]
                        /\ \A j \in 1..Len(wire') : wire'[j][1] \in {"text", "call"} /\ j < i =>
                             made[wire'[j][2]].turn # wire'[i][2]
    BY <1>2 DEF CreatedFirst
  <2>2. /\ \A n \in shown : made[n].turn # wire[i + 1][2]
        /\ \A j \in 1..Len(wire) : wire[j][1] \in {"text", "call"} /\ j < i + 1 => made[wire[j][2]].turn # wire[i + 1][2]
    BY <1>3, <2>1 DEF Turned, CreatedFirst
  <2>3. \A j \in 1..Len(wire') : j < i => j + 1 < i + 1  OBVIOUS
  <2>4. QED  BY <1>3, <1>4, <2>2, <2>3
<1>6. RunningFirst'
  <2>1. SUFFICES ASSUME NEW i \in 1..Len(wire'), wire'[i][1] = "running",
                        NEW j \in 1..Len(wire'), wire'[j][1] \in {"text", "call"}, i < j
                 PROVE  /\ \A n \in shown' : made[n].turn # made[wire'[j][2]].turn
                        /\ \A k \in 1..Len(wire') : wire'[k][1] \in {"text", "call"} /\ k < i =>
                             made[wire'[k][2]].turn # made[wire'[j][2]].turn
    BY <1>2 DEF RunningFirst
  <2>2. i + 1 < j + 1  BY <2>1
  <2>3. /\ \A n \in shown : made[n].turn # made[wire[j + 1][2]].turn
        /\ \A k \in 1..Len(wire) : wire[k][1] \in {"text", "call"} /\ k < i + 1 =>
             made[wire[k][2]].turn # made[wire[j + 1][2]].turn
    BY <1>3, <2>1, <2>2 DEF Turned, RunningFirst
  <2>4. \A k \in 1..Len(wire') : k < i => k + 1 < i + 1  OBVIOUS
  <2>5. wire'[j] = wire[j + 1] /\ 1 < i + 1  BY <1>3
  <2>6. \A n \in shown' : made[n].turn # made[wire[j + 1][2]].turn  BY <1>3, <1>4, <2>3, <2>5
  <2>7. \A k \in 1..Len(wire') : wire'[k][1] \in {"text", "call"} /\ k < i => made[wire'[k][2]].turn # made[wire[j + 1][2]].turn
    BY <1>3, <2>3, <2>4
  <2>8. QED  BY <2>5, <2>6, <2>7
<1>7. RunningAlone'
  <2>1. SUFFICES ASSUME NEW i \in 1..Len(wire'), wire'[i][1] \notin {"text", "call"}, rturn # 0
                 PROVE  /\ \A n \in shown' : made[n].turn # rturn
                        /\ \A k \in 1..Len(wire') : wire'[k][1] \in {"text", "call"} /\ k < i => made[wire'[k][2]].turn # rturn
    BY <1>2 DEF RunningAlone
  <2>2. /\ \A n \in shown : made[n].turn # rturn
        /\ \A k \in 1..Len(wire) : wire[k][1] \in {"text", "call"} /\ k < i + 1 => made[wire[k][2]].turn # rturn
    BY <1>3, <2>1 DEF Turned, RunningAlone
  <2>3. \A k \in 1..Len(wire') : k < i => k + 1 < i + 1  OBVIOUS
  <2>4. QED  BY <1>3, <1>4, <2>2, <2>3
<1>8. QED  BY <1>5, <1>6, <1>7 DEF Turned

\* the start of a turn,
LEMMA StartsTurned == ASSUME Typed, Begins, Behind, Turned, NEW t \in Turns, Starts(t) PROVE Turned'
<1>1. UNCHANGED <<made, shown>> /\ t \notin Begun /\ rturn' \in {0, t}  BY Zenon DEF Starts, Apart
<1>2. /\ Len(wire) \in Nat /\ \A i \in 1..Len(wire) : wire'[i] = wire[i]
      /\ \A i \in 1..Len(wire') : wire'[i][1] \in {"text", "call"} => i \in 1..Len(wire)
      /\ \A i \in 1..Len(wire') : i > Len(wire) /\ wire'[i][1] = "created" => wire'[i][2] = t
      /\ \A i \in 1..Len(wire') : i > Len(wire) \/ i \in 1..Len(wire)
  BY StartsWire
<1>3. CreatedFirst'
  <2>1. SUFFICES ASSUME NEW i \in 1..Len(wire'), wire'[i][1] = "created"
                 PROVE  /\ \A n \in shown : made[n].turn # wire'[i][2]
                        /\ \A j \in 1..Len(wire') : wire'[j][1] \in {"text", "call"} /\ j < i =>
                             made[wire'[j][2]].turn # wire'[i][2]
    BY <1>1 DEF CreatedFirst
  <2>2. CASE i \in 1..Len(wire)  BY <1>2, <2>1, <2>2 DEF Turned, CreatedFirst
  <2>3. CASE i > Len(wire)
    <3>1. wire'[i][2] = t  BY <1>2, <2>1, <2>3
    <3>2. QED  BY <1>1, <1>2, <3>1, ShownByBegun
  <2>4. QED  BY <1>2, <2>2, <2>3
<1>4. RunningFirst'
  <2>1. SUFFICES ASSUME NEW i \in 1..Len(wire'), wire'[i][1] = "running",
                        NEW j \in 1..Len(wire'), wire'[j][1] \in {"text", "call"}, i < j
                 PROVE  /\ \A n \in shown : made[n].turn # made[wire'[j][2]].turn
                        /\ \A k \in 1..Len(wire') : wire'[k][1] \in {"text", "call"} /\ k < i =>
                             made[wire'[k][2]].turn # made[wire'[j][2]].turn
    BY <1>1 DEF RunningFirst
  <2>2. i \in 1..Len(wire) /\ j \in 1..Len(wire)  BY <1>2, <2>1
  <2>3. QED  BY <1>2, <2>1, <2>2 DEF Turned, RunningFirst
<1>5. RunningAlone'
  <2>1. \A n \in shown : made[n].turn # t  BY <1>1, ShownByBegun
  <2>2. \A k \in 1..Len(wire') : wire'[k][1] \in {"text", "call"} => made[wire'[k][2]].turn # t
    BY <1>1, <1>2, ShownByBegun
  <2>3. QED  BY <1>1, <2>1, <2>2 DEF RunningAlone
<1>6. QED  BY <1>3, <1>4, <1>5 DEF Turned

\* an output,
LEMMA MakesTurned == ASSUME Typed, Begins, Behind, Turned, NEW c \in {"text", "call"}, Makes(c) PROVE Turned'
<1>1. UNCHANGED <<rturn, shown>>  BY Zenon DEF Makes, Apart
<1>2. /\ Len(made) \in Nat /\ made'[Len(made) + 1].turn = rturn /\ rturn # 0
      /\ \A n \in 1..Len(made) : made'[n] = made[n]
  BY MakesLast
<1>3. /\ Len(wire) \in Nat /\ \A i \in 1..Len(wire) : wire'[i] = wire[i]
      /\ \A i \in 1..Len(wire') : i > Len(wire) => i = Len(wire) + 1 /\ wire'[i] = <<c, Len(made) + 1>>
      /\ \A i \in 1..Len(wire') : i > Len(wire) \/ i \in 1..Len(wire)
  BY MakesWire
<1>4. /\ \A n \in shown : made'[n] = made[n]
      /\ \A i \in 1..Len(wire) : wire[i][1] \in {"text", "call"} => made'[wire[i][2]] = made[wire[i][2]]
  BY <1>2, ShownByBegun
<1>5. \A i \in 1..Len(wire') : wire'[i][1] \notin {"text", "call"} => i \in 1..Len(wire)  BY <1>3
<1>6. CreatedFirst'
  <2>1. SUFFICES ASSUME NEW i \in 1..Len(wire'), wire'[i][1] = "created"
                 PROVE  /\ \A n \in shown : made'[n].turn # wire'[i][2]
                        /\ \A j \in 1..Len(wire') : wire'[j][1] \in {"text", "call"} /\ j < i =>
                             made'[wire'[j][2]].turn # wire'[i][2]
    BY <1>1 DEF CreatedFirst
  <2>2. i \in 1..Len(wire)  BY <1>5, <2>1
  <2>3. \A j \in 1..Len(wire') : j < i => j \in 1..Len(wire)  BY <1>3, <2>2
  <2>4. wire'[i] = wire[i]  BY <1>3, <2>2
  <2>5. /\ \A n \in shown : made[n].turn # wire[i][2]
        /\ \A j \in 1..Len(wire) : wire[j][1] \in {"text", "call"} /\ j < i => made[wire[j][2]].turn # wire[i][2]
    BY <2>1, <2>2, <2>4 DEF Turned, CreatedFirst
  <2>6. QED  BY <1>3, <1>4, <2>3, <2>4, <2>5
<1>7. RunningAlone'
  <2>1. SUFFICES ASSUME NEW i \in 1..Len(wire'), wire'[i][1] \notin {"text", "call"}
                 PROVE  /\ \A n \in shown : made'[n].turn # rturn
                        /\ \A k \in 1..Len(wire') : wire'[k][1] \in {"text", "call"} /\ k < i => made'[wire'[k][2]].turn # rturn
    BY <1>1 DEF RunningAlone
  <2>2. i \in 1..Len(wire)  BY <1>5, <2>1
  <2>3. \A j \in 1..Len(wire') : j < i => j \in 1..Len(wire)  BY <1>3, <2>2
  <2>4. wire[i][1] \notin {"text", "call"}  BY <1>3, <2>1, <2>2
  <2>5. /\ \A n \in shown : made[n].turn # rturn
        /\ \A k \in 1..Len(wire) : wire[k][1] \in {"text", "call"} /\ k < i => made[wire[k][2]].turn # rturn
    BY <1>2, <2>2, <2>4 DEF Turned, RunningAlone
  <2>6. \A k \in 1..Len(wire') : wire'[k][1] \in {"text", "call"} /\ k < i => made'[wire'[k][2]].turn # rturn
    <3>1. SUFFICES ASSUME NEW k \in 1..Len(wire'), wire'[k][1] \in {"text", "call"}, k < i
                   PROVE  made'[wire'[k][2]].turn # rturn
      OBVIOUS
    <3>2. k \in 1..Len(wire) /\ wire'[k] = wire[k]  BY <1>3, <2>3, <3>1
    <3>3. QED  BY <1>4, <2>5, <3>1, <3>2
  <2>7. QED  BY <1>4, <2>5, <2>6
<1>8. RunningFirst'
  <2>1. SUFFICES ASSUME NEW i \in 1..Len(wire'), wire'[i][1] = "running",
                        NEW j \in 1..Len(wire'), wire'[j][1] \in {"text", "call"}, i < j
                 PROVE  /\ \A n \in shown : made'[n].turn # made'[wire'[j][2]].turn
                        /\ \A k \in 1..Len(wire') : wire'[k][1] \in {"text", "call"} /\ k < i =>
                             made'[wire'[k][2]].turn # made'[wire'[j][2]].turn
    BY <1>1 DEF RunningFirst
  <2>2. i \in 1..Len(wire)  BY <1>5, <2>1
  <2>3. \A k \in 1..Len(wire') : k < i => k \in 1..Len(wire)  BY <1>3, <2>2
  <2>k. \A k \in 1..Len(wire') : wire'[k][1] \in {"text", "call"} /\ k < i =>
          k \in 1..Len(wire) /\ wire[k][1] \in {"text", "call"} /\ made'[wire'[k][2]] = made[wire[k][2]]
    BY <1>3, <1>4, <2>3
  <2>r. wire[i][1] = "running"  BY <1>3, <2>1, <2>2
  <2>4. CASE j \in 1..Len(wire)
    <3>1. wire'[j] = wire[j] /\ made'[wire'[j][2]] = made[wire[j][2]]  BY <1>3, <1>4, <2>1, <2>4
    <3>2. /\ \A n \in shown : made[n].turn # made[wire[j][2]].turn
          /\ \A k \in 1..Len(wire) : wire[k][1] \in {"text", "call"} /\ k < i => made[wire[k][2]].turn # made[wire[j][2]].turn
      BY <2>1, <2>2, <2>r, <2>4, <3>1 DEF Turned, RunningFirst
    <3>3. QED  BY <1>4, <2>k, <3>1, <3>2
  <2>5. CASE j > Len(wire)
    <3>1. made'[wire'[j][2]].turn = rturn  BY <1>2, <1>3, <2>5
    <3>2. /\ \A n \in shown : made[n].turn # rturn
          /\ \A k \in 1..Len(wire) : wire[k][1] \in {"text", "call"} /\ k < i => made[wire[k][2]].turn # rturn
      BY <1>2, <2>2, <2>r DEF Turned, RunningAlone
    <3>3. QED  BY <1>4, <2>k, <3>1, <3>2
  <2>6. QED  BY <1>3, <2>4, <2>5
<1>9. QED  BY <1>6, <1>7, <1>8 DEF Turned

\* and a turn's end.
LEMMA EndsTurned == ASSUME Typed, Turned, Ends PROVE Turned'
<1>1. UNCHANGED <<made, shown>> /\ rturn' = 0  BY Zenon DEF Ends, Apart
<1>2. /\ \A i \in 1..Len(wire) : wire'[i] = wire[i]
      /\ \A i \in 1..Len(wire') : wire'[i][1] \in {"text", "call", "created", "running"} => i \in 1..Len(wire)
  BY EndsWire
<1>3. CreatedFirst'  BY <1>1, <1>2 DEF Turned, CreatedFirst
<1>4. RunningFirst'  BY <1>1, <1>2 DEF Turned, RunningFirst
<1>5. QED  BY <1>1, <1>3, <1>4 DEF Turned, RunningAlone

\* So every step keeps it.
LEMMA TurnedNext == ASSUME Typed, Begins, Behind, Turned, RelayNext PROVE Turned'
<1>1. CASE Quiet
  <2>1. UNCHANGED <<made, rturn, wire, shown>>  BY <1>1, Zenon DEF Quiet
  <2>2. QED  BY <2>1, TurnedFrame
<1>2. CASE Works
  <2>1. UNCHANGED <<made, rturn, wire, shown>>
    BY <1>2, Zenon DEF Works, StoresText, ClearsText, LosesFlush, StoresCall, LosesCall, ShowsEnd, Keeps, Steady
  <2>2. QED  BY <2>1, TurnedFrame
<1>3. QED  BY <1>1, <1>2, Steps, HearsTurned, StartsTurned, MakesTurned, EndsTurned

\* The turns follow each other on the wire.
THEOREM RelayTurned == RelaySpec => []Turned
<1>1. RelayInit => Turned  BY DEF RelayInit, Turned, CreatedFirst, RunningFirst, RunningAlone
<1>2. Turned /\ UNCHANGED rvars => Turned'
  <2>1. UNCHANGED rvars => UNCHANGED <<made, rturn, wire, shown>>  BY Zenon DEF rvars, runner, tunnel, task, text
  <2>2. QED  BY <2>1, TurnedFrame
<1>3. Typed /\ Begins /\ Behind /\ Turned /\ [RelayNext]_rvars => Turned'  BY <1>2, TurnedNext
<1>4. QED  BY <1>1, <1>3, RelayTyped, RelayBegins, RelayBehind, PTL DEF RelaySpec

-----------------------------------------------------------------------------
(***************************************************************************)
(* What is out of the transcript's reach belongs to a turn that said all.  *)
(***************************************************************************)
\* Text of the turn in flight that no flush will store: its turn has said all it had to say.
StaleIsOver == \A n \in shown : made[n].turn = header /\ n \notin ToSet(store) \cup ToSet(acc) =>
    /\ rturn # header
    /\ \A j \in 1..Len(wire) : wire[j][1] \in {"text", "call"} => made[wire[j][2]].turn # header
    /\ \A m \in ToSet(acc) : m > n /\ made[m].turn # header
\* NothingVanishes with sets.
InReach == \A n \in shown :
    made[n].turn = header /\ (\A m \in shown : m > n => made[m].turn = header) => n \in ToSet(store) \cup ToSet(inflight)
\* Both.
Vanish == StaleIsOver /\ InReach

\* Without a turn in flight there is nothing to show.
LEMMA NoHeader == ASSUME Begins', Behind', header' = 0 PROVE Vanish'
<1>1. \A n \in shown' : made'[n].turn \in Begun'  BY DEF Begins, MadeByBegun, Behind, PastIsMade, Past
<1>2. 0 \notin Begun'  BY DEF Begun, Turns
<1>3. \A n \in shown' : made'[n].turn # header'  BY <1>1, <1>2
<1>4. QED  BY <1>3 DEF Vanish, StaleIsOver, InReach

\* Storing or replaying more keeps it.
LEMMA VanishFrame ==
    ASSUME Vanish, UNCHANGED <<made, rturn, wire, shown, header, acc>>, ToSet(store) \subseteq ToSet(store)',
           ToSet(inflight) \subseteq ToSet(inflight)'
    PROVE  Vanish'
<1>1. ToSet(acc)' = ToSet(acc)  OBVIOUS
<1>2. StaleIsOver'  BY <1>1 DEF Vanish, StaleIsOver
<1>3. InReach'  BY DEF Vanish, InReach
<1>4. QED  BY <1>2, <1>3 DEF Vanish

\* The reads keep it,
LEMMA HearsVanish ==
    ASSUME Typed, Begins, Behind, Turned, Vanish, Hears, Begins', Behind'
    PROVE  Vanish'
<1>1. Takes  BY DEF Hears, HearsRunning, HearsEnd, HearsNothing, HearsCreated, HearsText, HearsBoundary
<1>2. UNCHANGED <<made, rturn, store>>  BY <1>1, Zenon DEF Takes, Steady
<1>3. /\ \A i \in 1..Len(wire') : wire'[i] = wire[i + 1] /\ i + 1 \in 1..Len(wire) /\ 1 < i + 1
      /\ 1 \in 1..Len(wire) /\ wire[1] \in Events
  BY <1>1, TakesPlaces
<1>4. ASSUME UNCHANGED <<shown, header, acc, inflight>> PROVE Vanish'
  <2>1. StaleIsOver'  BY <1>2, <1>3, <1>4 DEF Vanish, StaleIsOver
  <2>2. InReach'  BY <1>2, <1>4 DEF Vanish, InReach
  <2>3. QED  BY <2>1, <2>2 DEF Vanish
<1>5. CASE HearsRunning
  <2>1. wire[1][1] = "running" /\ acc' = <<>> /\ UNCHANGED <<inflight, header, shown>>  BY <1>5, Zenon DEF HearsRunning
  <2>2. ToSet(acc') = {}  BY <2>1, SetOfEmpty
  <2>3. \A n \in shown : made[n].turn # 0  BY ShownByBegun DEF Begun, Turns
  <2>4. \A n \in shown : made[n].turn # rturn  BY <1>3, <2>1, <2>3 DEF Turned, RunningAlone
  <2>5. \A n \in shown, j \in 1..Len(wire') : wire'[j][1] \in {"text", "call"} => made[wire'[j][2]].turn # made[n].turn
    BY <1>3, <2>1 DEF Turned, RunningFirst
  <2>6. StaleIsOver'  BY <1>2, <2>1, <2>2, <2>4, <2>5 DEF StaleIsOver
  <2>7. InReach'  BY <1>2, <2>1 DEF Vanish, InReach
  <2>8. QED  BY <2>6, <2>7 DEF Vanish
<1>6. CASE HearsEnd
  <2>1. acc' = acc /\ shown' = shown /\ (header' = 0 \/ UNCHANGED <<inflight, header>>)  BY <1>6, Zenon DEF HearsEnd
  <2>2. QED  BY <1>4, <2>1, NoHeader
<1>7. CASE HearsNothing  BY <1>4, <1>7, Zenon DEF HearsNothing
<1>8. CASE HearsCreated
  <2>1. wire[1][1] = "created" /\ header' = wire[1][2] /\ shown' = shown  BY <1>8, Zenon DEF HearsCreated
  <2>2. \A n \in shown' : made'[n].turn # header'  BY <1>2, <1>3, <2>1 DEF Turned, CreatedFirst
  <2>3. QED  BY <2>2 DEF Vanish, StaleIsOver, InReach
<1>9. CASE HearsText
  <2>0. PICK w : w = wire[1][2]  OBVIOUS
  <2>1. /\ wire[1][1] = "text" /\ shown' = shown \cup {w} /\ acc' = Append(acc, w) /\ inflight' = Append(inflight, w)
        /\ header' = header
    BY <1>9, <2>0 DEF HearsText
  <2>2. w \in Outs  BY <1>3, <2>0, <2>1, EventShape
  <2>3. acc \in Seq(Outs) /\ inflight \in Seq(Outs)  BY Zenon DEF Typed, TextOK
  <2>4. ToSet(acc') = ToSet(acc) \cup {w} /\ ToSet(inflight') = ToSet(inflight) \cup {w}  BY <2>1, <2>2, <2>3, SetOfAppend
  <2>5. \A n \in shown : n < w
    <3>1. \A n \in shown : n \in Past  BY DEF Past
    <3>2. QED  BY <1>3, <2>0, <2>1, <3>1 DEF Behind, PastIsBehind
  <2>6. \A n \in shown : w > n
    <3>1. \A n \in shown : n \in Int  BY DEF Typed, TextOK, Outs
    <3>2. w \in Int  BY <2>2 DEF Outs
    <3>3. QED  BY <2>5, <3>1, <3>2
  <2>7. StaleIsOver'
    <3>1. SUFFICES ASSUME NEW n \in shown', made[n].turn = header, n \notin ToSet(store) \cup ToSet(acc')
                   PROVE  /\ rturn # header
                          /\ \A j \in 1..Len(wire') : wire'[j][1] \in {"text", "call"} => made[wire'[j][2]].turn # header
                          /\ \A m \in ToSet(acc') : m > n /\ made[m].turn # header
      BY <1>2, <2>1 DEF StaleIsOver
    <3>2. n \in shown /\ n \notin ToSet(store) \cup ToSet(acc)  BY <2>1, <2>4, <3>1
    <3>3. /\ rturn # header
          /\ \A j \in 1..Len(wire) : wire[j][1] \in {"text", "call"} => made[wire[j][2]].turn # header
          /\ \A m \in ToSet(acc) : m > n /\ made[m].turn # header
      BY <3>1, <3>2 DEF Vanish, StaleIsOver
    <3>4. made[w].turn # header /\ w > n  BY <1>3, <2>0, <2>1, <2>6, <3>2, <3>3
    <3>5. QED  BY <1>3, <2>4, <3>3, <3>4
  <2>8. InReach'  BY <1>2, <2>1, <2>4 DEF Vanish, InReach
  <2>9. QED  BY <2>7, <2>8 DEF Vanish
<1>10. CASE HearsBoundary  BY <1>4, <1>10, Zenon DEF HearsBoundary
<1>11. QED  BY <1>5, <1>6, <1>7, <1>8, <1>9, <1>10 DEF Hears

\* the steps between two reads,
LEMMA WorksVanish ==
    ASSUME Typed, Behind, Filed, Vanish, Works, Begins', Behind'
    PROVE  Vanish'
<1>0. acc \in Seq(Outs) /\ inflight \in Seq(Outs) /\ store \in Seq(Outs) /\ ev \in Events
  BY Zenon DEF Typed, TextOK, TaskOK
<1>1. UNCHANGED <<made, rturn, wire, shown>>
  BY Zenon DEF Works, StoresText, ClearsText, LosesFlush, StoresCall, LosesCall, ShowsEnd, Keeps, Steady
<1>2. CASE StoresText
  <2>1. store' = store \o acc /\ UNCHANGED <<header, acc, inflight>>  BY <1>2, Zenon DEF StoresText
  <2>2. ToSet(store') = ToSet(store) \cup ToSet(acc)  BY <1>0, <2>1, SetOfJoin
  <2>3. QED  BY <1>1, <2>1, <2>2, VanishFrame
<1>3. CASE ClearsText
  <2>1. relay = "flushed" /\ acc' = <<>> /\ inflight' = <<>> /\ UNCHANGED <<header, store>>  BY <1>3, Zenon DEF ClearsText
  <2>2. ToSet(acc') = {}  BY <2>1, SetOfEmpty
  <2>3. ToSet(acc) \subseteq ToSet(store) /\ acc # <<>>  BY <2>1 DEF Filed, OnHand
  <2>4. StaleIsOver'  BY <1>1, <2>1, <2>2, <2>3 DEF Vanish, StaleIsOver
  <2>5. PICK m : m \in ToSet(acc)
    <3>1. 1 \in 1..Len(acc)  BY <1>0, <2>3
    <3>2. acc[1] \in ToSet(acc)  BY <1>0, <3>1, SetOf
    <3>3. QED  BY <3>2
  <2>6. m \in shown  BY <2>5 DEF Behind, BuffersAreShown
  <2>7. ASSUME NEW n \in shown, made[n].turn = header, \A x \in shown : x > n => made[x].turn = header
        PROVE  n \in ToSet(store)
    <3>1. SUFFICES ASSUME n \notin ToSet(store) PROVE FALSE  OBVIOUS
    <3>2. m > n /\ made[m].turn # header  BY <2>3, <2>5, <2>7, <3>1 DEF Vanish, StaleIsOver
    <3>3. QED  BY <2>6, <2>7, <3>2
  <2>8. InReach'  BY <1>1, <2>1, <2>7 DEF InReach
  <2>9. QED  BY <2>4, <2>8 DEF Vanish
<1>4. CASE LosesFlush \/ LosesCall
  <2>1. UNCHANGED <<header, acc, inflight, store>>  BY <1>4, Zenon DEF LosesFlush, LosesCall
  <2>2. QED  BY <1>1, <2>1, VanishFrame
<1>5. CASE StoresCall
  <2>1. store' = Append(store, ev[2]) /\ ev[1] = "call" /\ UNCHANGED <<header, acc, inflight>>  BY <1>5, Zenon DEF StoresCall
  <2>2. ev[2] \in Outs  BY <1>0, <2>1, EventShape
  <2>3. ToSet(store') = ToSet(store) \cup {ev[2]}  BY <1>0, <2>1, <2>2, SetOfAppend
  <2>4. QED  BY <1>1, <2>1, <2>3, VanishFrame
<1>6. CASE ShowsEnd
  <2>1. header' = 0  BY <1>6, Zenon DEF ShowsEnd
  <2>2. QED  BY <2>1, NoHeader
<1>7. QED  BY <1>2, <1>3, <1>4, <1>5, <1>6, Zenon DEF Works

\* and the runner.
LEMMA RunnerVanish ==
    ASSUME Typed, Begins, Behind, Vanish, Apart,
           \A n \in 1..Len(made) : made'[n] = made[n],
           rturn' = rturn \/ rturn' \notin Begun,
           \A j \in 1..Len(wire') : wire'[j][1] \in {"text", "call"} =>
               \/ j \in 1..Len(wire) /\ wire'[j] = wire[j]
               \/ made'[wire'[j][2]].turn = rturn
    PROVE  Vanish'
<1>1. UNCHANGED <<shown, header, acc, inflight, store>>  BY Zenon DEF Apart
<1>2. \A n \in shown : made'[n] = made[n] /\ made[n].turn \in Begun  BY ShownByBegun
<1>3. \A n \in ToSet(acc) : made'[n] = made[n]  BY <1>2 DEF Behind, BuffersAreShown
<1>4. \A j \in 1..Len(wire) : wire[j][1] \in {"text", "call"} => made'[wire[j][2]] = made[wire[j][2]]  BY ShownByBegun
<1>5. StaleIsOver'
  <2>1. SUFFICES ASSUME NEW n \in shown, made[n].turn = header, n \notin ToSet(store) \cup ToSet(acc)
                 PROVE  /\ rturn' # header
                        /\ \A j \in 1..Len(wire') : wire'[j][1] \in {"text", "call"} => made'[wire'[j][2]].turn # header
                        /\ \A m \in ToSet(acc) : m > n /\ made[m].turn # header
    BY <1>1, <1>2, <1>3 DEF StaleIsOver
  <2>2. /\ rturn # header
        /\ \A j \in 1..Len(wire) : wire[j][1] \in {"text", "call"} => made[wire[j][2]].turn # header
        /\ \A m \in ToSet(acc) : m > n /\ made[m].turn # header
    BY <2>1 DEF Vanish, StaleIsOver
  <2>3. header \in Begun  BY <1>2, <2>1
  <2>4. \A j \in 1..Len(wire') : wire'[j][1] \in {"text", "call"} => made'[wire'[j][2]].turn # header
    BY <1>4, <2>2
  <2>5. QED  BY <2>2, <2>3, <2>4
<1>6. InReach'  BY <1>1, <1>2 DEF Vanish, InReach
<1>7. QED  BY <1>5, <1>6 DEF Vanish

\* So every step keeps it.
LEMMA VanishNext ==
    ASSUME Typed, Link, Begins, Behind, Filed, Turned, Vanish, RelayNext, Begins', Behind'
    PROVE  Vanish'
<1>0. 0 \notin Begun  BY DEF Begun, Turns
<1>1. CASE Quiet
  <2>1. UNCHANGED <<made, rturn, wire, shown, store>>  BY <1>1, Zenon DEF Quiet
  <2>2. CASE header' = 0  BY <2>2, NoHeader
  <2>3. CASE header' # 0
    <3>1. UNCHANGED <<inflight, header>>  BY <1>1, <2>3, Zenon DEF Quiet
    <3>2. relay \notin {"none", "dying"}  BY <2>3, <3>1 DEF Link, NewIsEmpty
    <3>3. acc' = acc  BY <1>1, <3>2, Zenon DEF Quiet
    <3>4. QED  BY <2>1, <3>1, <3>3, VanishFrame
  <2>4. QED  BY <2>2, <2>3
<1>2. CASE Hears  BY <1>2, HearsVanish
<1>3. CASE Works  BY <1>3, WorksVanish
<1>4. CASE Ends
  <2>1. Apart /\ made' = made /\ rturn' = 0  BY <1>4, Zenon DEF Ends
  <2>2. \A j \in 1..Len(wire') : wire'[j][1] \in {"text", "call"} => j \in 1..Len(wire) /\ wire'[j] = wire[j]
    BY <1>4, EndsWire
  <2>3. QED  BY <1>0, <2>1, <2>2, RunnerVanish
<1>5. ASSUME NEW t \in Turns, Starts(t) PROVE Vanish'
  <2>1. Apart /\ made' = made /\ rturn' \in {0, t} /\ t \notin Begun  BY <1>5, Zenon DEF Starts
  <2>2. \A j \in 1..Len(wire') : wire'[j][1] \in {"text", "call"} => j \in 1..Len(wire) /\ wire'[j] = wire[j]
    BY <1>5, StartsWire
  <2>3. QED  BY <1>0, <2>1, <2>2, RunnerVanish
<1>6. ASSUME NEW k \in {"text", "call"}, Makes(k) PROVE Vanish'
  <2>1. Apart /\ rturn' = rturn  BY <1>6, Zenon DEF Makes
  <2>2. made'[Len(made) + 1].turn = rturn /\ \A n \in 1..Len(made) : made'[n] = made[n]  BY <1>6, MakesLast
  <2>3. \A j \in 1..Len(wire') : \/ j \in 1..Len(wire) /\ wire'[j] = wire[j]
                                 \/ wire'[j] = <<k, Len(made) + 1>>
    BY <1>6, MakesWire
  <2>4. \A j \in 1..Len(wire') : \/ j \in 1..Len(wire) /\ wire'[j] = wire[j]
                                 \/ made'[wire'[j][2]].turn = rturn
    BY <2>2, <2>3
  <2>5. QED  BY <2>1, <2>2, <2>4, RunnerVanish
<1>7. QED  BY <1>1, <1>2, <1>3, <1>4, <1>5, <1>6, Steps

\* Shown text of the turn in flight is within reach, and what no flush will store is of a turn that
\* said all.
THEOREM RelayReaches == RelaySpec => []Vanish
<1>1. RelayInit => Vanish  BY DEF RelayInit, Vanish, StaleIsOver, InReach
<1>2. Vanish /\ UNCHANGED rvars => Vanish'
  <2>1. UNCHANGED rvars => UNCHANGED <<made, rturn, wire, shown, header, acc, inflight, store>>
    BY Zenon DEF rvars, runner, tunnel, task, text
  <2>2. QED  BY <2>1, VanishFrame
<1>3. Typed /\ Link /\ Begins /\ Behind /\ Filed /\ Turned /\ Vanish /\ [RelayNext]_rvars /\ Begins' /\ Behind' => Vanish'
  BY <1>2, VanishNext
<1>4. QED  BY <1>1, <1>3, RelayTyped, RelayLinked, RelayBegins, RelayBehind, RelayFiles, RelayTurned, PTL DEF RelaySpec

-----------------------------------------------------------------------------
(***************************************************************************)
(* The text of the turn the runner runs, entry or not.                     *)
(***************************************************************************)
\* What was heard of it.
Heard == {n \in shown : made[n].turn = rturn}
\* While the tunnel has never dropped it is stored, or on hand for the next flush and for replay,
\* and the last event the relay has in hand is not of that turn.
Held == drops = 0 => /\ \A n \in Heard : n \in ToSet(store) \/ (n \in ToSet(acc) /\ n \in ToSet(inflight))
                     /\ Busy /\ ev[1] = "terminal" => Heard = {}

\* Storing more keeps it.
LEMMA HeldFrame ==
    ASSUME Held, drops' = 0 => drops = 0, Heard' = Heard, UNCHANGED <<acc, inflight>>,
           ToSet(store) \subseteq ToSet(store)', Busy' /\ ev'[1] = "terminal" => Busy /\ ev[1] = "terminal"
    PROVE  Held'
<1>1. ToSet(acc)' = ToSet(acc) /\ ToSet(inflight)' = ToSet(inflight)  OBVIOUS
<1>2. QED  BY <1>1 DEF Held

\* The posts, the requests and the hooks keep it,
LEMMA QuietHeld == ASSUME Typed, Link, Held, Quiet PROVE Held'
<1>1. UNCHANGED <<made, rturn, ev, shown, store>>  BY Zenon DEF Quiet
<1>2. Heard' = Heard  BY <1>1 DEF Heard
<1>3. CASE Heard = {}  BY <1>2, <1>3 DEF Held
<1>4. CASE Heard # {}
  <2>1. SUFFICES ASSUME drops' = 0 PROVE Held'  BY DEF Held
  <2>2. drops = 0
    <3>1. drops' = drops \/ drops' > 0  BY Zenon DEF Quiet
    <3>2. QED  BY <2>1, <3>1
  <2>3. shown # {}  BY <1>4 DEF Heard
  <2>4. relay \notin {"none", "opening", "dying"} /\ ~Torn  BY <2>2, <2>3 DEF Link, Unbroken, Torn
  <2>5. UNCHANGED <<acc, inflight>>  BY <2>4, Zenon DEF Quiet
  <2>6. Busy' => Busy
    <3>1. relay' = relay \/ ~Busy'  BY Zenon DEF Quiet
    <3>2. QED  BY <3>1 DEF Busy
  <2>7. QED  BY <1>1, <1>2, <2>2, <2>5, <2>6, HeldFrame
<1>5. QED  BY <1>3, <1>4

\* the reads,
LEMMA HearsHeld == ASSUME Typed, Begins, Behind, Turned, Held, Hears PROVE Held'
<1>1. Takes  BY DEF Hears, HearsRunning, HearsEnd, HearsNothing, HearsCreated, HearsText, HearsBoundary
<1>2. UNCHANGED <<made, rturn, store, drops>> /\ ~Busy  BY <1>1 DEF Takes, Steady, Busy
<1>3. 1 \in 1..Len(wire) /\ wire[1] \in Events  BY <1>1, TakesPlaces
<1>4. wire[1][1] \notin {"text", "call"} => Heard = {}
  <2>1. \A n \in shown : made[n].turn # 0  BY ShownByBegun DEF Begun, Turns
  <2>2. QED  BY <1>3, <2>1 DEF Heard, Turned, RunningAlone
<1>5. shown' = shown => Heard' = Heard  BY <1>2 DEF Heard
<1>6. CASE HearsRunning \/ HearsEnd \/ HearsCreated
  <2>1. shown' = shown /\ wire[1][1] \notin {"text", "call"}  BY <1>6 DEF HearsRunning, HearsEnd, HearsCreated
  <2>2. Heard' = {}  BY <1>4, <1>5, <2>1
  <2>3. QED  BY <2>2 DEF Held
<1>7. CASE HearsNothing
  <2>1. UNCHANGED <<relay, ev, acc, inflight, shown>>  BY <1>7, Zenon DEF HearsNothing
  <2>2. ~Busy'  BY <1>2, <2>1 DEF Busy
  <2>3. QED  BY <1>2, <1>5, <2>1, <2>2, HeldFrame
<1>8. CASE HearsText
  <2>0. PICK w : w = wire[1][2]  OBVIOUS
  <2>1. /\ wire[1][1] = "text" /\ shown' = shown \cup {w} /\ acc' = Append(acc, w) /\ inflight' = Append(inflight, w)
        /\ relay' = relay
    BY <1>8, <2>0 DEF HearsText
  <2>2. w \in Outs  BY <1>3, <2>0, <2>1, EventShape
  <2>3. acc \in Seq(Outs) /\ inflight \in Seq(Outs)  BY Zenon DEF Typed, TextOK
  <2>4. ToSet(acc') = ToSet(acc) \cup {w} /\ ToSet(inflight') = ToSet(inflight) \cup {w}  BY <2>1, <2>2, <2>3, SetOfAppend
  <2>5. Heard' \subseteq Heard \cup {w}  BY <1>2, <2>1 DEF Heard
  <2>6. ~Busy'  BY <1>2, <2>1 DEF Busy
  <2>7. QED  BY <1>2, <2>4, <2>5, <2>6 DEF Held
<1>9. CASE HearsBoundary
  <2>1. ev' = wire[1] /\ UNCHANGED <<acc, inflight, shown>>  BY <1>9, Zenon DEF HearsBoundary
  <2>2. CASE wire[1][1] \in {"text", "call"}  BY <1>2, <1>5, <2>1, <2>2, HeldFrame
  <2>3. CASE wire[1][1] \notin {"text", "call"}
    <3>1. Heard' = {}  BY <1>4, <1>5, <2>1, <2>3
    <3>2. QED  BY <3>1 DEF Held
  <2>4. QED  BY <2>2, <2>3
<1>10. QED  BY <1>6, <1>7, <1>8, <1>9 DEF Hears

\* and the steps between two reads.
LEMMA WorksHeld == ASSUME Typed, Filed, Held, Works PROVE Held'
<1>0. acc \in Seq(Outs) /\ inflight \in Seq(Outs) /\ store \in Seq(Outs) /\ ev \in Events
  BY Zenon DEF Typed, TextOK, TaskOK
<1>1. UNCHANGED <<made, rturn, shown, drops>>
  BY Zenon DEF Works, StoresText, ClearsText, LosesFlush, StoresCall, LosesCall, ShowsEnd, Keeps, Steady
<1>2. Heard' = Heard  BY <1>1 DEF Heard
<1>3. CASE StoresText
  <2>1. store' = store \o acc /\ UNCHANGED <<ev, acc, inflight>> /\ relay = "flush"  BY <1>3, Zenon DEF StoresText
  <2>2. ToSet(store') = ToSet(store) \cup ToSet(acc)  BY <1>0, <2>1, SetOfJoin
  <2>3. QED  BY <1>1, <1>2, <2>1, <2>2, HeldFrame DEF Busy
<1>4. CASE ClearsText
  <2>1. relay = "flushed" /\ UNCHANGED <<ev, store>>  BY <1>4, Zenon DEF ClearsText
  <2>2. ToSet(acc) \subseteq ToSet(store)  BY <2>1 DEF Filed, OnHand
  <2>3. QED  BY <1>1, <1>2, <2>1, <2>2 DEF Held, Busy
<1>5. CASE LosesFlush
  <2>1. relay = "flush" /\ UNCHANGED <<ev, acc, inflight, store>>  BY <1>5, Zenon DEF LosesFlush
  <2>2. QED  BY <1>1, <1>2, <2>1, HeldFrame DEF Busy
<1>6. CASE LosesCall
  <2>1. relay' = "reading" /\ UNCHANGED <<acc, inflight, store>>  BY <1>6, Zenon DEF LosesCall
  <2>2. QED  BY <1>1, <1>2, <2>1, HeldFrame DEF Busy
<1>7. CASE StoresCall
  <2>1. store' = Append(store, ev[2]) /\ ev[1] = "call" /\ relay' = "reading" /\ UNCHANGED <<acc, inflight>>
    BY <1>7, Zenon DEF StoresCall
  <2>2. ev[2] \in Outs  BY <1>0, <2>1, EventShape
  <2>3. ToSet(store') = ToSet(store) \cup {ev[2]}  BY <1>0, <2>1, <2>2, SetOfAppend
  <2>4. QED  BY <1>1, <1>2, <2>1, <2>3, HeldFrame DEF Busy
<1>8. CASE ShowsEnd
  <2>1. relay = "after" /\ ev[1] = "terminal"  BY <1>8, Zenon DEF ShowsEnd
  <2>2. drops = 0 => Heard = {}  BY <2>1 DEF Held, Busy
  <2>3. QED  BY <1>1, <1>2, <2>2 DEF Held
<1>9. QED  BY <1>3, <1>4, <1>5, <1>6, <1>7, <1>8, Zenon DEF Works

\* So every step keeps it: a turn that starts has said nothing.
LEMMA HeldNext == ASSUME Typed, Link, Begins, Behind, Filed, Turned, Held, RelayNext PROVE Held'
<1>1. \A n \in shown : n \in 1..Len(made) /\ made[n].turn \in Begun  BY ShownByBegun
<1>2. 0 \notin Begun  BY DEF Begun, Turns
<1>3. ASSUME Apart, \A n \in shown : made'[n] = made[n], rturn' = rturn PROVE Held'
  <2>1. UNCHANGED <<drops, relay, ev, shown, acc, inflight, store>>  BY <1>3, Zenon DEF Apart
  <2>2. Heard' = Heard  BY <1>3, <2>1 DEF Heard
  <2>3. QED  BY <2>1, <2>2, HeldFrame DEF Busy
<1>4. ASSUME Apart, made' = made, rturn' \notin Begun PROVE Held'
  <2>1. shown' = shown  BY <1>4, Zenon DEF Apart
  <2>2. Heard' = {}  BY <1>1, <1>4, <2>1 DEF Heard
  <2>3. QED  BY <2>2 DEF Held
<1>5. CASE Ends  BY <1>2, <1>4, <1>5, Zenon DEF Ends
<1>6. ASSUME NEW t \in Turns, Starts(t) PROVE Held'
  <2>1. Apart /\ made' = made /\ rturn' \in {0, t} /\ t \notin Begun  BY <1>6, Zenon DEF Starts
  <2>2. QED  BY <1>2, <1>4, <2>1
<1>7. ASSUME NEW k \in {"text", "call"}, Makes(k) PROVE Held'
  <2>1. Apart /\ rturn' = rturn  BY <1>7, Zenon DEF Makes
  <2>2. \A n \in 1..Len(made) : made'[n] = made[n]  BY <1>7, MakesLast
  <2>3. QED  BY <1>1, <1>3, <2>1, <2>2
<1>8. QED  BY <1>5, <1>6, <1>7, Steps, QuietHeld, HearsHeld, WorksHeld

\* While the tunnel has never dropped, what was heard of the running turn is stored or on hand.
THEOREM RelayHolds == RelaySpec => []Held
<1>1. RelayInit => Held  BY DEF RelayInit, Held, Heard, Busy
<1>2. Held /\ UNCHANGED rvars => Held'
  <2>1. UNCHANGED rvars => UNCHANGED <<made, rturn, drops, relay, ev, shown, acc, inflight, store>>
    BY Zenon DEF rvars, runner, tunnel, task, text
  <2>2. UNCHANGED rvars => Heard' = Heard  BY <2>1 DEF Heard
  <2>3. QED  BY <2>1, <2>2, HeldFrame DEF Busy
<1>3. Typed /\ Link /\ Begins /\ Behind /\ Filed /\ Turned /\ Held /\ [RelayNext]_rvars => Held'
  BY <1>2, HeldNext
<1>4. QED  BY <1>1, <1>3, RelayTyped, RelayLinked, RelayBegins, RelayBehind, RelayFiles, RelayTurned, PTL DEF RelaySpec

\* Text a client has been shown of the turn in flight is stored or replayed, in the middle of a flush
\* and after one that failed too: of the turn the replay's entry is for, and, while the tunnel has
\* never dropped, of the turn the runner runs, whether there is an entry or not.
THEOREM NothingShownVanishes == RelaySpec => []NothingVanishes
<1>1. Typed /\ Vanish /\ Held => NothingVanishes
  <2>1. SUFFICES ASSUME Typed, Vanish, Held PROVE NothingVanishes  OBVIOUS
  <2>2. inflight \in Seq(Outs) /\ store \in Seq(Outs)  BY <2>1, Zenon DEF Typed, TextOK
  <2>3. \A n : (Contains(store, n) <=> n \in ToSet(store)) /\ (Contains(inflight, n) <=> n \in ToSet(inflight))
    BY <2>2, SetOf
  <2>4. \A n \in shown : made[n].turn = rturn /\ drops = 0 => n \in ToSet(store) \/ n \in ToSet(inflight)
    BY <2>1 DEF Held, Heard
  <2>5. QED  BY <2>1, <2>3, <2>4 DEF Vanish, InReach, NothingVanishes
<1>2. QED  BY <1>1, RelayTyped, RelayReaches, RelayHolds, PTL

-----------------------------------------------------------------------------
(***************************************************************************)
(* What was shown is stored.                                               *)
(***************************************************************************)
\* A turn that was interrupted is fenced.
HaltIsFenced == halting => rturn \in fenced
\* The turns that were stopped or cut.
Lost == fenced \cup Cut
\* The last event of a turn that was not stopped or cut is behind its output, and no other turn between.
OutputIsClosed == \A j \in 1..Len(wire) : wire[j][1] \in {"text", "call"} /\ made[wire[j][2]].turn \notin Lost =>
    \/ rturn = made[wire[j][2]].turn
    \/ \E k \in 1..Len(wire) : /\ j < k /\ wire[k][1] = "terminal"
                               /\ \A i \in 1..Len(wire) : j < i /\ i < k => wire[i][1] # "running"
\* Shown text that is not stored waits for the flush of its turn.
ShownIsOnHand == \A n \in shown : made[n].turn \notin Lost /\ n \notin ToSet(store) =>
    /\ n \in ToSet(acc)
    /\ \/ rturn = made[n].turn \/ relay = "flush"
       \/ \E k \in 1..Len(wire) : wire[k][1] = "terminal" /\ \A i \in 1..Len(wire) : i < k => wire[i][1] # "running"
\* Neither the tunnel nor an append has failed.
Sound == drops = 0 /\ unsaved = 0
\* What ShownIsStored rests on.
Stored == HaltIsFenced /\ (Sound => OutputIsClosed /\ ShownIsOnHand)

\* The quiet steps keep it,
LEMMA QuietStored == ASSUME Typed, Link, Stored, Quiet PROVE Stored'
<1>1. UNCHANGED <<made, rturn, wire, shown, store, unsaved>> /\ fenced \subseteq fenced' /\ Lost \subseteq Lost'
  <2>1. UNCHANGED <<made, rturn, wire, shown, store, unsaved>> /\ fenced \subseteq fenced' /\ Cut' = Cut  BY Zenon DEF Quiet
  <2>2. QED  BY <2>1 DEF Lost
<1>2. ~halting' \/ halting' = halting \/ rturn \in fenced'  BY Zenon DEF Quiet
<1>3. HaltIsFenced'  BY <1>1, <1>2 DEF Stored, HaltIsFenced
<1>4. CASE ~Sound'  BY <1>3, <1>4 DEF Stored
<1>5. CASE Sound'
  <2>1. drops = 0 /\ Sound
    <3>1. drops' = drops \/ drops' > 0  BY Zenon DEF Quiet
    <3>2. QED  BY <1>1, <1>5, <3>1 DEF Sound
  <2>2. OutputIsClosed'  BY <1>1, <2>1 DEF Stored, OutputIsClosed
  <2>3. CASE shown = {}  BY <1>1, <1>3, <2>2, <2>3 DEF Stored, ShownIsOnHand
  <2>4. CASE shown # {}
    <3>1. relay \notin {"none", "dying"}  BY <2>1, <2>4 DEF Link, Unbroken
    <3>2. acc' = acc /\ (relay' = relay \/ (~Busy /\ ~Busy'))  BY <3>1, Zenon DEF Quiet
    <3>3. relay = "flush" => relay' = "flush"  BY <3>2 DEF Busy
    <3>4. ShownIsOnHand'  BY <1>1, <2>1, <3>2, <3>3 DEF Stored, ShownIsOnHand
    <3>5. QED  BY <1>3, <2>2, <3>4 DEF Stored
  <2>5. QED  BY <2>3, <2>4
<1>6. QED  BY <1>4, <1>5

\* the reads,
LEMMA HearsStored == ASSUME Typed, Behind, Turned, Begins, Stored, Hears PROVE Stored'
<1>1. Takes  BY DEF Hears, HearsRunning, HearsEnd, HearsNothing, HearsCreated, HearsText, HearsBoundary
<1>2. UNCHANGED <<made, rturn, store, unsaved, drops, fenced, halting>> /\ relay = "reading" /\ Lost' = Lost
  <2>1. UNCHANGED <<msg, made, rturn, store, unsaved, drops, fenced, halting>> /\ relay = "reading"
    BY <1>1, Zenon DEF Takes, Steady
  <2>2. QED  BY <2>1 DEF Lost, Cut
<1>3. /\ \A i \in 1..Len(wire') : wire'[i] = wire[i + 1] /\ i + 1 \in 1..Len(wire) /\ 1 < i + 1
      /\ 1 \in 1..Len(wire) /\ wire[1] \in Events
      /\ \A j \in 1..Len(wire) : j # 1 => j - 1 \in 1..Len(wire') /\ wire'[j - 1] = wire[j]
  BY <1>1, TakesPlaces
<1>4. HaltIsFenced'  BY <1>2 DEF Stored, HaltIsFenced
<1>5. SUFFICES ASSUME Sound PROVE OutputIsClosed' /\ ShownIsOnHand'
  BY <1>2, <1>4 DEF Stored, Sound
<1>6. OutputIsClosed /\ ShownIsOnHand  BY <1>5 DEF Stored
<1>7. OutputIsClosed'
  <2>1. SUFFICES ASSUME NEW j \in 1..Len(wire'), wire'[j][1] \in {"text", "call"}, made[wire'[j][2]].turn \notin Lost,
                        rturn # made[wire'[j][2]].turn
                 PROVE  \E k \in 1..Len(wire') : /\ j < k /\ wire'[k][1] = "terminal"
                                                 /\ \A i \in 1..Len(wire') : j < i /\ i < k => wire'[i][1] # "running"
    BY <1>2 DEF OutputIsClosed
  <2>2. j + 1 \in 1..Len(wire) /\ wire'[j] = wire[j + 1]  BY <1>3
  <2>3. PICK k \in 1..Len(wire) : /\ j + 1 < k /\ wire[k][1] = "terminal"
                                  /\ \A i \in 1..Len(wire) : j + 1 < i /\ i < k => wire[i][1] # "running"
    BY <1>6, <2>1, <2>2 DEF OutputIsClosed
  <2>4. k # 1 /\ j < k - 1  BY <2>3
  <2>5. k - 1 \in 1..Len(wire') /\ wire'[k - 1] = wire[k]  BY <1>3, <2>4
  <2>6. \A i \in 1..Len(wire') : j < i /\ i < k - 1 => j + 1 < i + 1 /\ i + 1 < k  OBVIOUS
  <2>7. \A i \in 1..Len(wire') : j < i /\ i < k - 1 => wire'[i][1] # "running"
    <3>1. SUFFICES ASSUME NEW i \in 1..Len(wire'), j < i, i < k - 1 PROVE wire'[i][1] # "running"  OBVIOUS
    <3>2. i + 1 \in 1..Len(wire) /\ wire'[i] = wire[i + 1] /\ j + 1 < i + 1 /\ i + 1 < k  BY <1>3, <2>6, <3>1
    <3>3. QED  BY <2>3, <3>2
  <2>8. QED  BY <2>3, <2>4, <2>5, <2>7
\* A last event that is further down the wire.
<1>8. ASSUME wire[1][1] # "terminal",
             \E k \in 1..Len(wire) : wire[k][1] = "terminal" /\ \A i \in 1..Len(wire) : 1 < i /\ i < k => wire[i][1] # "running"
      PROVE  \E k \in 1..Len(wire') : wire'[k][1] = "terminal" /\ \A i \in 1..Len(wire') : i < k => wire'[i][1] # "running"
  <2>1. PICK k \in 1..Len(wire) : wire[k][1] = "terminal" /\ \A i \in 1..Len(wire) : 1 < i /\ i < k => wire[i][1] # "running"
    BY <1>8
  <2>2. k # 1  BY <1>8, <2>1
  <2>3. k - 1 \in 1..Len(wire') /\ wire'[k - 1] = wire[k]  BY <1>3, <2>2
  <2>4. \A i \in 1..Len(wire') : i < k - 1 => i + 1 < k  OBVIOUS
  <2>5. \A i \in 1..Len(wire') : i < k - 1 => wire'[i][1] # "running"  BY <1>3, <2>1, <2>4
  <2>6. QED  BY <2>1, <2>3, <2>5
<1>9. CASE HearsRunning
  <2>1. wire[1][1] = "running" /\ shown' = shown  BY <1>9, Zenon DEF HearsRunning
  <2>2. \A n \in shown : made[n].turn # 0  BY ShownByBegun DEF Begun, Turns
  <2>3. \A n \in shown : made[n].turn # rturn  BY <1>3, <2>1, <2>2 DEF Turned, RunningAlone
  <2>4. ASSUME NEW k \in 1..Len(wire), wire[k][1] = "terminal", \A i \in 1..Len(wire) : i < k => wire[i][1] # "running" PROVE FALSE
    <3>1. k # 1  BY <2>1, <2>4
    <3>2. 1 < k  BY <3>1
    <3>3. QED  BY <1>3, <2>1, <2>4, <3>2
  <2>5. \A n \in shown : made[n].turn \in Lost \/ n \in ToSet(store)  BY <1>2, <1>6, <2>3, <2>4 DEF ShownIsOnHand
  <2>6. ShownIsOnHand'  BY <1>2, <2>1, <2>5 DEF ShownIsOnHand
  <2>7. QED  BY <1>7, <2>6
<1>10. ASSUME UNCHANGED <<shown, acc, relay>>, wire[1][1] # "terminal" PROVE ShownIsOnHand'
  <2>1. SUFFICES ASSUME NEW n \in shown, made[n].turn \notin Lost, n \notin ToSet(store)
                 PROVE  /\ n \in ToSet(acc)
                        /\ \/ rturn = made[n].turn
                           \/ \E k \in 1..Len(wire') : wire'[k][1] = "terminal" /\ \A i \in 1..Len(wire') : i < k => wire'[i][1] # "running"
    BY <1>2, <1>10 DEF ShownIsOnHand
  <2>2. n \in ToSet(acc)  BY <1>6, <2>1 DEF ShownIsOnHand
  <2>3. \/ rturn = made[n].turn
        \/ \E k \in 1..Len(wire) : wire[k][1] = "terminal" /\ \A i \in 1..Len(wire) : i < k => wire[i][1] # "running"
    BY <1>2, <1>6, <2>1 DEF ShownIsOnHand
  <2>4. QED  BY <1>8, <1>10, <2>2, <2>3
<1>11. CASE HearsEnd \/ HearsNothing \/ HearsCreated
  <2>1. UNCHANGED <<shown, acc, relay>> /\ wire[1][1] # "terminal"  BY <1>11 DEF HearsEnd, HearsNothing, HearsCreated
  <2>2. QED  BY <1>7, <1>10, <2>1
<1>12. CASE HearsText
  <2>0. PICK w : w = wire[1][2]  OBVIOUS
  <2>1. wire[1][1] = "text" /\ shown' = shown \cup {w} /\ acc' = Append(acc, w) /\ relay' = "reading"
    BY <1>2, <1>12, <2>0 DEF HearsText
  <2>2. w \in Outs  BY <1>3, <2>0, <2>1, EventShape
  <2>3. acc \in Seq(Outs)  BY Zenon DEF Typed, TextOK
  <2>4. ToSet(acc') = ToSet(acc) \cup {w}  BY <2>1, <2>2, <2>3, SetOfAppend
  <2>5. SUFFICES ASSUME NEW n \in shown', made[n].turn \notin Lost, n \notin ToSet(store)
                 PROVE  /\ n \in ToSet(acc')
                        /\ \/ rturn = made[n].turn
                           \/ \E k \in 1..Len(wire') : wire'[k][1] = "terminal" /\ \A i \in 1..Len(wire') : i < k => wire'[i][1] # "running"
    BY <1>2, <1>7, <2>1 DEF ShownIsOnHand
  <2>6. CASE n \in shown
    <3>1. n \in ToSet(acc)  BY <1>6, <2>5, <2>6 DEF ShownIsOnHand
    <3>2. \/ rturn = made[n].turn
          \/ \E k \in 1..Len(wire) : wire[k][1] = "terminal" /\ \A i \in 1..Len(wire) : i < k => wire[i][1] # "running"
      BY <1>2, <1>6, <2>5, <2>6 DEF ShownIsOnHand
    <3>3. QED  BY <1>8, <2>1, <2>4, <3>1, <3>2
  <2>7. CASE n = w
    <3>1. \/ rturn = made[n].turn
          \/ \E k \in 1..Len(wire) : wire[k][1] = "terminal" /\ \A i \in 1..Len(wire) : 1 < i /\ i < k => wire[i][1] # "running"
      BY <1>3, <1>6, <2>0, <2>1, <2>5, <2>7 DEF OutputIsClosed
    <3>2. QED  BY <1>8, <2>1, <2>4, <2>7, <3>1
  <2>8. QED  BY <2>1, <2>5, <2>6, <2>7
<1>13. CASE HearsBoundary
  <2>1. /\ UNCHANGED <<shown, acc>>
        /\ (acc # <<>> /\ relay' = "flush") \/ (acc = <<>> /\ relay' = "after")
    BY <1>13, Zenon DEF HearsBoundary
  <2>2. \A n \in shown : made[n].turn \notin Lost /\ n \notin ToSet(store) => n \in ToSet(acc) /\ relay' = "flush"
    BY <1>6, <2>1, SetOfEmpty DEF ShownIsOnHand
  <2>3. ShownIsOnHand'  BY <1>2, <2>1, <2>2 DEF ShownIsOnHand
  <2>4. QED  BY <1>7, <2>3
<1>14. QED  BY <1>9, <1>11, <1>12, <1>13 DEF Hears

\* the steps between two reads,
LEMMA WorksStored == ASSUME Typed, Behind, Filed, Stored, Works PROVE Stored'
<1>0. acc \in Seq(Outs) /\ store \in Seq(Outs) /\ ev \in Events /\ unsaved \in Nat
  BY Zenon DEF Typed, TextOK, TaskOK, CountOK
<1>1. UNCHANGED <<made, rturn, wire, shown, drops, fenced, halting, msg>>
  BY Zenon DEF Works, StoresText, ClearsText, LosesFlush, StoresCall, LosesCall, ShowsEnd, Keeps, Steady
<1>l. Lost' = Lost  BY <1>1 DEF Lost, Cut
<1>2. HaltIsFenced'  BY <1>1 DEF Stored, HaltIsFenced
<1>3. CASE LosesFlush \/ LosesCall
  <2>1. unsaved' = unsaved + 1  BY <1>3, Zenon DEF LosesFlush, LosesCall
  <2>2. ~Sound'  BY <1>0, <2>1 DEF Sound
  <2>3. QED  BY <1>2, <2>2 DEF Stored
<1>4. ASSUME unsaved' = unsaved, ToSet(store) \subseteq ToSet(store)',
             Sound => \A n \in ToSet(acc) : n \in ToSet(store)'
      PROVE  Stored'
  <2>1. SUFFICES ASSUME Sound PROVE OutputIsClosed' /\ ShownIsOnHand'  BY <1>1, <1>2, <1>4 DEF Stored, Sound
  <2>2. OutputIsClosed'  BY <1>1, <1>l, <2>1 DEF Stored, OutputIsClosed
  <2>3. \A n \in shown : made[n].turn \in Lost \/ n \in ToSet(store)'  BY <1>4, <2>1 DEF Stored, ShownIsOnHand
  <2>4. ShownIsOnHand'  BY <1>1, <1>l, <2>3 DEF ShownIsOnHand
  <2>5. QED  BY <2>2, <2>4
<1>5. CASE StoresText
  <2>1. store' = store \o acc /\ unsaved' = unsaved  BY <1>5, Zenon DEF StoresText
  <2>2. ToSet(store') = ToSet(store) \cup ToSet(acc)  BY <1>0, <2>1, SetOfJoin
  <2>3. QED  BY <1>4, <2>1, <2>2
<1>6. CASE ClearsText
  <2>1. relay = "flushed" /\ UNCHANGED <<store, unsaved>>  BY <1>6, Zenon DEF ClearsText
  <2>2. ToSet(acc) \subseteq ToSet(store)  BY <2>1 DEF Filed, OnHand
  <2>3. QED  BY <1>4, <2>1, <2>2
<1>7. CASE StoresCall
  <2>1. relay = "after" /\ store' = Append(store, ev[2]) /\ ev[1] = "call" /\ unsaved' = unsaved  BY <1>7, Zenon DEF StoresCall
  <2>2. ev[2] \in Outs  BY <1>0, <2>1, EventShape
  <2>3. ToSet(store') = ToSet(store) \cup {ev[2]}  BY <1>0, <2>1, <2>2, SetOfAppend
  <2>4. Sound => ToSet(acc) = {}  BY <2>1, SetOfEmpty DEF Filed, OnTime, Sound
  <2>5. QED  BY <1>4, <2>1, <2>3, <2>4
<1>8. CASE ShowsEnd
  <2>1. relay = "after" /\ UNCHANGED <<store, unsaved>>  BY <1>8, Zenon DEF ShowsEnd
  <2>2. Sound => ToSet(acc) = {}  BY <2>1, SetOfEmpty DEF Filed, OnTime, Sound
  <2>3. QED  BY <1>4, <2>1, <2>2
<1>9. QED  BY <1>3, <1>5, <1>6, <1>7, <1>8, Zenon DEF Works

\* A step of the runner that does not end a turn.
LEMMA RunnerStored ==
    ASSUME Typed, Begins, Behind, Stored, Apart, HaltIsFenced', Cut \subseteq Cut',
           \A n \in 1..Len(made) : made'[n] = made[n], rturn # 0 => rturn' = rturn,
           Len(wire) \in Nat, Len(wire') \in Nat, Len(wire) <= Len(wire'),
           \A i \in 1..Len(wire) : wire'[i] = wire[i],
           \A j \in 1..Len(wire') : j > Len(wire) /\ wire'[j][1] \in {"text", "call"} => made'[wire'[j][2]].turn = rturn'
    PROVE  Stored'
<1>1. UNCHANGED <<shown, acc, store, relay, drops, unsaved, fenced>> /\ Lost \subseteq Lost'
  <2>1. UNCHANGED <<shown, acc, store, relay, drops, unsaved, fenced>>  BY Zenon DEF Apart
  <2>2. QED  BY <2>1 DEF Lost
<1>2. /\ \A n \in shown : made'[n] = made[n] /\ made[n].turn # 0
      /\ \A j \in 1..Len(wire) : wire[j][1] \in {"text", "call"} =>
           made'[wire[j][2]] = made[wire[j][2]] /\ made[wire[j][2]].turn # 0
  BY ShownByBegun DEF Begun, Turns
<1>3. SUFFICES ASSUME Sound PROVE OutputIsClosed' /\ ShownIsOnHand'  BY <1>1 DEF Stored, Sound
<1>4. OutputIsClosed /\ ShownIsOnHand  BY <1>3 DEF Stored
<1>5. \A i \in 1..Len(wire) : i \in 1..Len(wire')  OBVIOUS
<1>6. OutputIsClosed'
  <2>1. SUFFICES ASSUME NEW j \in 1..Len(wire'), wire'[j][1] \in {"text", "call"}, made'[wire'[j][2]].turn \notin Lost,
                        rturn' # made'[wire'[j][2]].turn
                 PROVE  \E k \in 1..Len(wire') : /\ j < k /\ wire'[k][1] = "terminal"
                                                 /\ \A i \in 1..Len(wire') : j < i /\ i < k => wire'[i][1] # "running"
    BY <1>1 DEF OutputIsClosed
  <2>2. j \in 1..Len(wire)  BY <2>1
  <2>3. wire'[j] = wire[j] /\ made'[wire[j][2]] = made[wire[j][2]] /\ made[wire[j][2]].turn # 0  BY <1>2, <2>1, <2>2
  <2>4. rturn # made[wire[j][2]].turn  BY <2>1, <2>3
  <2>5. PICK k \in 1..Len(wire) : /\ j < k /\ wire[k][1] = "terminal"
                                  /\ \A i \in 1..Len(wire) : j < i /\ i < k => wire[i][1] # "running"
    BY <1>4, <2>1, <2>2, <2>3, <2>4 DEF OutputIsClosed
  <2>6. \A i \in 1..Len(wire') : i < k => i \in 1..Len(wire)  OBVIOUS
  <2>7. k \in 1..Len(wire') /\ j < k /\ wire'[k][1] = "terminal"  BY <1>5, <2>5
  <2>8. \A i \in 1..Len(wire') : j < i /\ i < k => wire'[i][1] # "running"  BY <2>5, <2>6
  <2>9. QED  BY <2>7, <2>8
<1>7. ShownIsOnHand'
  <2>1. SUFFICES ASSUME NEW n \in shown, made[n].turn \notin Lost, n \notin ToSet(store)
                 PROVE  /\ n \in ToSet(acc)
                        /\ \/ rturn' = made[n].turn \/ relay = "flush"
                           \/ \E k \in 1..Len(wire') : wire'[k][1] = "terminal" /\ \A i \in 1..Len(wire') : i < k => wire'[i][1] # "running"
    BY <1>1, <1>2 DEF ShownIsOnHand
  <2>2. n \in ToSet(acc)  BY <1>4, <2>1 DEF ShownIsOnHand
  <2>3. CASE rturn = made[n].turn \/ relay = "flush"  BY <1>2, <2>2, <2>3
  <2>4. CASE \E k \in 1..Len(wire) : wire[k][1] = "terminal" /\ \A i \in 1..Len(wire) : i < k => wire[i][1] # "running"
    <3>1. PICK k \in 1..Len(wire) : wire[k][1] = "terminal" /\ \A i \in 1..Len(wire) : i < k => wire[i][1] # "running"
      BY <2>4
    <3>2. \A i \in 1..Len(wire') : i < k => i \in 1..Len(wire)  OBVIOUS
    <3>3. k \in 1..Len(wire') /\ wire'[k][1] = "terminal"  BY <1>5, <3>1
    <3>4. \A i \in 1..Len(wire') : i < k => wire'[i][1] # "running"  BY <3>1, <3>2
    <3>5. QED  BY <2>2, <3>3, <3>4
  <2>5. QED  BY <1>4, <2>1, <2>3, <2>4 DEF ShownIsOnHand
<1>8. QED  BY <1>6, <1>7

\* A turn's end.
LEMMA EndsStored == ASSUME Typed, Link, Begins, Behind, Turned, Stored, Ends PROVE Stored'
<1>1. UNCHANGED <<made, shown, acc, store, relay, drops, unsaved, fenced, sub>> /\ rturn # 0 /\ ~halting'
  BY Zenon DEF Ends, Apart
<1>l. Lost \subseteq Lost' /\ (msg'[rturn] = "cut" => rturn \in Lost')
  <2>1. rturn \in Turns /\ msg[rturn] = "running"  BY <1>1, RelayBounds DEF Typed, RunnerOK, Turns
  <2>2. \A u \in Turns : u # rturn => msg'[u] = msg[u]  BY Zenon DEF Ends
  <2>3. QED  BY <1>1, <2>1, <2>2 DEF Lost, Cut
<1>2. HaltIsFenced'  BY <1>1 DEF HaltIsFenced
<1>3. SUFFICES ASSUME Sound PROVE OutputIsClosed' /\ ShownIsOnHand'  BY <1>1, <1>2 DEF Stored, Sound
<1>4. OutputIsClosed /\ ShownIsOnHand /\ HaltIsFenced  BY <1>3 DEF Stored
<1>5. /\ Len(wire) \in Nat /\ Len(wire') \in Nat /\ Len(wire) <= Len(wire')
      /\ \A i \in 1..Len(wire) : wire'[i] = wire[i]
      /\ \A i \in 1..Len(wire') : i > Len(wire) => wire'[i][1] \in {"terminal", "idle", "failed"}
      /\ sub /\ ~halting /\ msg'[rturn] # "cut" => Len(wire') = Len(wire) + 2 /\ wire'[Len(wire) + 1][1] = "terminal"
  BY EndsWire
<1>6. \A i \in 1..Len(wire) : i \in 1..Len(wire')  BY <1>5
<1>7. shown # {} \/ Len(wire) # 0 => sub
  <2>1. wire \in Seq(Events)  BY Zenon DEF Typed, TaskOK
  <2>2. shown # {} \/ wire # <<>> => relay \notin {"none", "opening"}  BY <1>3 DEF Link, NewIsEmpty, Unbroken, Sound
  <2>3. QED  BY <1>3, <2>1, <2>2 DEF Link, Unbroken, Sound
<1>8. OutputIsClosed'
  <2>1. SUFFICES ASSUME NEW j \in 1..Len(wire'), wire'[j][1] \in {"text", "call"}, made[wire'[j][2]].turn \notin Lost'
                 PROVE  \E k \in 1..Len(wire') : /\ j < k /\ wire'[k][1] = "terminal"
                                                 /\ \A i \in 1..Len(wire') : j < i /\ i < k => wire'[i][1] # "running"
    BY <1>1 DEF OutputIsClosed
  <2>2. j \in 1..Len(wire) /\ wire'[j] = wire[j]  BY <1>5, <2>1
  <2>3. CASE rturn = made[wire[j][2]].turn
    <3>1. ~halting /\ msg'[rturn] # "cut"  BY <1>1, <1>4, <1>l, <2>1, <2>2, <2>3 DEF HaltIsFenced, Lost
    <3>2. sub  BY <1>7, <2>2
    <3>3. Len(wire) + 1 \in 1..Len(wire') /\ j < Len(wire) + 1 /\ wire'[Len(wire) + 1][1] = "terminal"
      BY <1>5, <2>2, <3>1, <3>2
    <3>4. \A i \in 1..Len(wire) : j < i => wire[i][1] # "running"
      BY <1>1, <2>1, <2>2, <2>3 DEF Turned, RunningAlone
    <3>5. \A i \in 1..Len(wire') : i < Len(wire) + 1 => i \in 1..Len(wire)  BY <1>5
    <3>6. \A i \in 1..Len(wire') : j < i /\ i < Len(wire) + 1 => wire'[i][1] # "running"  BY <1>5, <3>4, <3>5
    <3>7. QED  BY <3>3, <3>6
  <2>4. CASE rturn # made[wire[j][2]].turn
    <3>1. PICK k \in 1..Len(wire) : /\ j < k /\ wire[k][1] = "terminal"
                                    /\ \A i \in 1..Len(wire) : j < i /\ i < k => wire[i][1] # "running"
      BY <1>4, <1>l, <2>1, <2>2, <2>4 DEF OutputIsClosed
    <3>2. \A i \in 1..Len(wire') : i < k => i \in 1..Len(wire)  BY <1>5
    <3>3. k \in 1..Len(wire') /\ j < k /\ wire'[k][1] = "terminal"  BY <1>5, <1>6, <3>1
    <3>4. \A i \in 1..Len(wire') : j < i /\ i < k => wire'[i][1] # "running"  BY <1>5, <3>1, <3>2
    <3>5. QED  BY <3>3, <3>4
  <2>5. QED  BY <2>3, <2>4
<1>9. ShownIsOnHand'
  <2>1. SUFFICES ASSUME NEW n \in shown, made[n].turn \notin Lost', n \notin ToSet(store), relay # "flush"
                 PROVE  \E k \in 1..Len(wire') : wire'[k][1] = "terminal" /\ \A i \in 1..Len(wire') : i < k => wire'[i][1] # "running"
    <3>1. \A n \in shown : made[n].turn \notin Lost /\ n \notin ToSet(store) => n \in ToSet(acc)
      BY <1>4 DEF ShownIsOnHand
    <3>2. QED  BY <1>1, <1>l, <3>1 DEF ShownIsOnHand
  <2>2. CASE rturn = made[n].turn
    <3>1. ~halting /\ msg'[rturn] # "cut"  BY <1>1, <1>4, <1>l, <2>1, <2>2 DEF HaltIsFenced, Lost
    <3>2. sub  BY <1>7, <2>1
    <3>3. Len(wire) + 1 \in 1..Len(wire') /\ wire'[Len(wire) + 1][1] = "terminal"  BY <1>5, <3>1, <3>2
    <3>4. \A i \in 1..Len(wire) : wire[i][1] # "running"  BY <1>1, <2>1, <2>2 DEF Turned, RunningAlone
    <3>5. \A i \in 1..Len(wire') : i < Len(wire) + 1 => i \in 1..Len(wire)  BY <1>5
    <3>6. \A i \in 1..Len(wire') : i < Len(wire) + 1 => wire'[i][1] # "running"  BY <1>5, <3>4, <3>5
    <3>7. QED  BY <3>3, <3>6
  <2>3. CASE rturn # made[n].turn
    <3>1. PICK k \in 1..Len(wire) : wire[k][1] = "terminal" /\ \A i \in 1..Len(wire) : i < k => wire[i][1] # "running"
      BY <1>4, <1>l, <2>1, <2>3 DEF ShownIsOnHand
    <3>2. \A i \in 1..Len(wire') : i < k => i \in 1..Len(wire)  BY <1>5
    <3>3. k \in 1..Len(wire') /\ wire'[k][1] = "terminal"  BY <1>5, <1>6, <3>1
    <3>4. \A i \in 1..Len(wire') : i < k => wire'[i][1] # "running"  BY <1>5, <3>1, <3>2
    <3>5. QED  BY <3>3, <3>4
  <2>4. QED  BY <2>2, <2>3
<1>10. QED  BY <1>8, <1>9

\* So every step keeps it.
LEMMA StoredNext ==
    ASSUME Typed, Link, Begins, Behind, Filed, Turned, Stored, RelayNext
    PROVE  Stored'
<1>1. ASSUME NEW t \in Turns, Starts(t) PROVE Stored'
  <2>1. Apart /\ made' = made /\ rturn = 0 /\ halting' = halting  BY <1>1, Zenon DEF Starts
  <2>2. ~halting  BY <2>1 DEF Typed, RunnerOK
  <2>3. HaltIsFenced'  BY <2>1, <2>2 DEF HaltIsFenced
  <2>4. /\ Len(wire) \in Nat /\ Len(wire') \in Nat /\ Len(wire) <= Len(wire')
        /\ \A i \in 1..Len(wire) : wire'[i] = wire[i]
        /\ \A j \in 1..Len(wire') : j > Len(wire) => wire'[j][1] \notin {"text", "call"}
    BY <1>1, StartsWire
  <2>5. Cut \subseteq Cut'
    <3>1. msg[t] = "queued" /\ \A u \in Turns : u # t => msg'[u] = msg[u]  BY <1>1, Zenon DEF Starts
    <3>2. QED  BY <3>1 DEF Cut
  <2>6. QED  BY <2>1, <2>3, <2>4, <2>5, RunnerStored
<1>2. ASSUME NEW k \in {"text", "call"}, Makes(k) PROVE Stored'
  <2>1. Apart /\ UNCHANGED <<rturn, halting>> /\ fenced' = fenced  BY <1>2, Zenon DEF Makes, Apart
  <2>2. HaltIsFenced'  BY <2>1 DEF Stored, HaltIsFenced
  <2>3. made'[Len(made) + 1].turn = rturn /\ \A n \in 1..Len(made) : made'[n] = made[n]  BY <1>2, MakesLast
  <2>4. /\ Len(wire) \in Nat /\ Len(wire') \in Nat /\ Len(wire) <= Len(wire')
        /\ \A i \in 1..Len(wire) : wire'[i] = wire[i]
        /\ \A j \in 1..Len(wire') : j > Len(wire) => wire'[j] = <<k, Len(made) + 1>>
    BY <1>2, MakesWire
  <2>5. \A j \in 1..Len(wire') : j > Len(wire) => made'[wire'[j][2]].turn = rturn'  BY <2>1, <2>3, <2>4
  <2>6. Cut' = Cut  BY <1>2 DEF Makes, Cut
  <2>7. QED  BY <2>1, <2>2, <2>3, <2>4, <2>5, <2>6, RunnerStored
<1>3. QED  BY <1>1, <1>2, Steps, QuietStored, HearsStored, WorksStored, EndsStored

\* Text that was shown is stored or waits for a flush that is bound to come.
THEOREM RelayStores == RelaySpec => []Stored
<1>1. RelayInit => Stored
  BY DEF RelayInit, Stored, HaltIsFenced, OutputIsClosed, ShownIsOnHand
<1>2. Stored /\ UNCHANGED rvars => Stored'
  <2>1. UNCHANGED rvars => UNCHANGED <<msg, made, rturn, halting, wire, shown, acc, store, relay, drops, unsaved, fenced>>
    BY Zenon DEF rvars, runner, tunnel, task, text
  <2>2. QED  BY <2>1 DEF Stored, HaltIsFenced, OutputIsClosed, ShownIsOnHand, Sound, Lost, Cut
<1>3. Typed /\ Link /\ Begins /\ Behind /\ Filed /\ Turned /\ Stored /\ [RelayNext]_rvars => Stored'
  BY <1>2, StoredNext
<1>4. QED  BY <1>1, <1>3, RelayTyped, RelayLinked, RelayBegins, RelayBehind, RelayFiles, RelayTurned, PTL DEF RelaySpec

\* Once a turn is over and all it said has been read, what clients were shown of it is in the
\* transcript, if it was not stopped or cut and neither the tunnel nor an append failed.
THEOREM WhatIsShownIsStored == RelaySpec => []ShownIsStored
<1>1. Typed /\ Begins /\ Behind /\ Stored => ShownIsStored
  <2>0. SUFFICES ASSUME Typed, Begins, Behind, Stored PROVE ShownIsStored  OBVIOUS
  <2>1. SUFFICES ASSUME NEW n \in shown, msg[made[n].turn] = "over", wire = <<>>, relay = "reading",
                        ~Contains(store, n), ~(drops > 0), ~(unsaved > 0), made[n].turn \notin fenced
                 PROVE  FALSE
    BY DEF ShownIsStored
  <2>2. Sound  BY <2>0, <2>1 DEF Typed, CountOK, Sound
  <2>3. n \notin ToSet(store)
    <3>1. store \in Seq(Outs)  BY <2>0, Zenon DEF Typed, TextOK
    <3>2. QED  BY <2>1, <3>1, SetOf
  <2>4. ~\E k \in 1..Len(wire) : TRUE  BY <2>1
  <2>l. made[n].turn \notin Lost  BY <2>1 DEF Lost, Cut
  <2>5. rturn = made[n].turn  BY <2>0, <2>1, <2>2, <2>3, <2>4, <2>l DEF Stored, ShownIsOnHand
  <2>6. rturn # 0  BY <2>0, <2>5, ShownByBegun DEF Begun, Turns
  <2>7. msg[rturn] = "running"  BY <2>0, <2>6 DEF Typed, RunnerOK
  <2>8. QED  BY <2>1, <2>5, <2>7
<1>2. QED  BY <1>1, RelayTyped, RelayBegins, RelayBehind, RelayStores, PTL
=============================================================================
