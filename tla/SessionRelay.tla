---------------------------- MODULE SessionRelay ----------------------------
(***************************************************************************)
(* The omnigent server's relay of one session: the task that reads the     *)
(* runner's event stream, keeps the text of the running turn for clients   *)
(* that reconnect (inflight_text), stores the transcript, follows the      *)
(* session's status and fences the output of a stopped turn; the posts     *)
(* that must be heard from the start; and the hooks that run when the      *)
(* runner's tunnel goes and comes back.                                    *)
(*                                                                         *)
(* The server is one asyncio loop: an action is what happens between two   *)
(* awaits, and a store call is its own step, in a thread.  The runner's    *)
(* stream has no replay: what is sent while nobody is subscribed is gone.  *)
(***************************************************************************)
EXTENDS Integers, SequencesExt

CONSTANTS
    MaxTurns,   \* bound: messages, each of which is a turn
    MaxOut,     \* bound: outputs (text deltas and tool calls) of all turns
    Stops,      \* interrupt requests
    MaxLag,     \* bound: events unread when the runner sends the next
    MaxFaults   \* bound: losses of the tunnel, failed appends, turns and stops

ASSUME RelayBounds == MaxTurns \in Nat /\ MaxOut \in Nat /\ MaxLag \in Nat /\ MaxFaults \in Nat

Turns == 1..MaxTurns
Outs  == 1..MaxOut

VARIABLES
    msg,       \* where the post of each message, and then its turn, is
    rturn,     \* the turn the runner runs, 0 when there is none
    made,      \* the outputs so far: turn and kind of each
    halting,   \* an interrupt has reached the runner's turn
    linked,    \* the runner's tunnel is registered
    down,      \* _on_runner_disconnect: "none", "due" or "list"
    hook,      \* _on_runner_connect: "none", "list", "labels", "recover" or "clear"
    saw,       \* the error label _on_runner_connect read
    drops,
    broken,    \* messages whose forward a lost tunnel left without its answer
    relay,     \* where the relay's task is, "none" when the slot is empty
    sub,       \* the relay is subscribed at the runner
    wire,      \* events sent to the relay and not read yet
    ev,        \* the event it handles across an await
    acc,       \* text_acc
    inflight,  \* the text a client that reconnects is shown
    header,    \* the turn of the in-flight entry, 0 when there is no entry
    shown,     \* text published to clients
    store,     \* the transcript
    status,    \* _session_status_cache
    label,     \* last_task_error
    fence,     \* the session is in _interrupt_fenced_sessions
    stop,      \* where each interrupt request is
    fenced,    \* turns that had begun when a stop was requested or reached the runner
    missed,    \* turns whose first event nobody was subscribed to
    unsaved,   \* appends that failed
    faults

runner  == <<msg, rturn, made, halting>>
tunnel  == <<linked, down, hook, saw, drops, broken>>
task    == <<relay, sub, wire, ev, acc>>
text    == <<inflight, header, shown, store>>
rvars   == <<runner, tunnel, task, text, status, label, fence, stop, fenced, missed, unsaved, faults>>


RelayInit ==
    /\ msg = [t \in Turns |-> "new"] /\ rturn = 0 /\ made = <<>> /\ halting = FALSE
    /\ linked = TRUE /\ down = "none" /\ hook = "none" /\ saw = "none" /\ drops = 0 /\ broken = {}
    /\ relay = "none" /\ sub = FALSE /\ wire = <<>> /\ ev = <<"none">> /\ acc = <<>>
    /\ inflight = <<>> /\ header = 0 /\ shown = {} /\ store = <<>>
    /\ status = "idle" /\ label = "none" /\ fence = FALSE
    /\ stop = [s \in Stops |-> "new"] /\ fenced = {} /\ missed = {}
    /\ unsaved = 0 /\ faults = 0

Faulty == faults < MaxFaults /\ faults' = faults + 1

-----------------------------------------------------------------------------
(***************************************************************************)
(* What a publish does to the in-flight text (inflight_text.record_publish)*)
(* and to the status.                                                      *)
(***************************************************************************)
ForgetInflight == inflight' = <<>> /\ header' = 0

\* Mutant: a turn that ends without a last event keeps its text for clients to replay.
idleKeepsReplay(s) ==
    IF s = "idle" /\ status = "failed" THEN UNCHANGED <<status, inflight, header>>
    ELSE /\ status' = s
         /\ IF s = "failed" THEN ForgetInflight ELSE UNCHANGED <<inflight, header>>

\* A failure is not downgraded by the idle that follows it: nothing is published then.
_publish_status(s) ==
    IF s = "idle" /\ status = "failed" THEN UNCHANGED <<status, inflight, header>>
    ELSE /\ status' = s
         /\ IF s \in {"idle", "failed"} THEN ForgetInflight ELSE UNCHANGED <<inflight, header>>

-----------------------------------------------------------------------------
(***************************************************************************)
(* A post of a message: it is forwarded when the relay listens.            *)
(***************************************************************************)
_ensure_runner_relay ==
    IF relay = "none" THEN relay' = "opening" /\ acc' = <<>> ELSE UNCHANGED <<relay, acc>>

\* _ensure_runner_relay_ready: wait for the ready heartbeat of a relay that has not sent it.
PostEnsures(t) ==
    /\ msg[t] = "new" /\ linked /\ \A u \in 1..(t - 1) : msg[u] # "new"
    /\ _ensure_runner_relay
    /\ msg' = [msg EXCEPT ![t] = IF relay \in {"none", "opening"} THEN "wait" ELSE "go"]
    /\ UNCHANGED <<rturn, made, halting, tunnel, sub, wire, ev, text, status, label, fence,
                   stop, fenced, missed, unsaved, faults>>

PostTimesOut(t) ==
    /\ msg[t] = "wait" /\ relay # "opening"
    /\ msg' = [msg EXCEPT ![t] = "refused"]
    /\ UNCHANGED <<rturn, made, halting, tunnel, task, text, status, label, fence, stop,
                   fenced, missed, unsaved, faults>>

\* The message goes to the runner.  One that cannot is in the store, and the session is idle.
PostForwards(t) ==
    /\ msg[t] = "go"
    /\ \/ /\ linked /\ msg' = [msg EXCEPT ![t] = "queued"] /\ UNCHANGED <<status, inflight, header>>
       \/ /\ ~linked /\ msg' = [msg EXCEPT ![t] = "refused"] /\ _publish_status("idle")
    /\ UNCHANGED <<rturn, made, halting, tunnel, task, shown, store, label, fence, stop, fenced,
                   missed, unsaved, faults>>

\* A tunnel lost before the answer ends it the same way, although the message may be with the runner.
ForwardFails(t) ==
    /\ t \in broken
    /\ broken' = broken \ {t} /\ _publish_status("idle")
    /\ \/ UNCHANGED msg
       \/ msg[t] = "queued" /\ msg' = [msg EXCEPT ![t] = "refused"]
    /\ UNCHANGED <<rturn, made, halting, linked, down, hook, saw, drops, task, shown, store, label,
                   fence, stop, fenced, missed, unsaved, faults>>

-----------------------------------------------------------------------------
(***************************************************************************)
(* The runner, as the relay sees it.                                       *)
(***************************************************************************)
Emit(events) == Len(wire) <= MaxLag /\ wire' = IF sub THEN wire \o events ELSE wire

RunnerStep == UNCHANGED <<tunnel, relay, sub, ev, acc, text, status, label, fence, stop, unsaved>>

\* A turn starts; one that fails in its set-up ends without an event of its response.
RunnerStarts(t) ==
    /\ rturn = 0 /\ msg[t] = "queued"
    /\ missed' = IF sub THEN missed ELSE missed \cup {t}
    /\ \/ /\ msg' = [msg EXCEPT ![t] = "running"] /\ rturn' = t
          /\ Emit(<<<<"running">>, <<"created", t>>>>)
          /\ UNCHANGED faults
       \/ /\ Faulty
          /\ msg' = [msg EXCEPT ![t] = "over"] /\ UNCHANGED rturn
          /\ Emit(<<<<"running">>, <<"failed">>>>)
    /\ UNCHANGED <<made, halting, fenced>> /\ RunnerStep

RunnerEmits ==
    /\ rturn # 0 /\ Len(made) < MaxOut
    /\ \E k \in {"text", "call"} :
         /\ made' = Append(made, [turn |-> rturn, kind |-> k])
         /\ Emit(<<<<k, Len(made) + 1>>>>)
    /\ UNCHANGED <<msg, rturn, halting, fenced, missed, faults>> /\ RunnerStep

TurnOver(x) == msg' = [msg EXCEPT ![rturn] = x] /\ rturn' = 0 /\ halting' = FALSE

\* A turn ends with the harness's last event and then its status.  One whose context overflowed,
\* or whose stream broke off, is cut: its status is all it ends with.
RunnerEnds ==
    /\ rturn # 0
    /\ \/ TurnOver("over") /\ Emit(<<<<"terminal">>, <<"idle">>>>) /\ UNCHANGED faults
       \/ TurnOver("over") /\ Emit(<<<<"terminal">>, <<"failed">>>>) /\ Faulty
       \/ TurnOver("cut") /\ Emit(<<<<"failed">>>>) /\ Faulty
    /\ UNCHANGED <<made, fenced, missed>> /\ RunnerStep

\* A turn that is stopped ends with the harness's last event, or is cancelled before it.
RunnerHalts ==
    /\ halting /\ TurnOver("over")
    /\ \/ Emit(<<<<"terminal">>, <<"idle">>>>)
       \/ Emit(<<<<"idle">>>>)
    /\ UNCHANGED <<made, fenced, missed, faults>> /\ RunnerStep

-----------------------------------------------------------------------------
(***************************************************************************)
(* Stop: the fence goes up before the interrupt is sent.                   *)
(***************************************************************************)
StopStep == UNCHANGED <<msg, rturn, made, tunnel, task, text, status, label, missed, unsaved>>
Begun == {t \in Turns : msg[t] \in {"running", "over", "cut"}}

StopRequested(s) ==
    /\ stop[s] = "new"
    /\ stop' = [stop EXCEPT ![s] = "post"]
    /\ fence' = TRUE /\ fenced' = fenced \cup Begun
    /\ UNCHANGED <<halting, faults>> /\ StopStep

StopLands(s) ==
    /\ stop[s] = "post" /\ linked
    /\ stop' = [stop EXCEPT ![s] = "landed"]
    /\ halting' = (rturn # 0) /\ fenced' = fenced \cup Begun
    /\ UNCHANGED <<fence, faults>> /\ StopStep

StopAnswered(s) ==
    /\ stop[s] = "landed" /\ ~halting
    /\ stop' = [stop EXCEPT ![s] = "done"]
    /\ UNCHANGED <<halting, fence, fenced, faults>> /\ StopStep

\* The interrupt is refused, or its answer does not come: the fence is lifted.
StopFails(s) ==
    /\ stop[s] \in {"post", "landed"} /\ ((~linked /\ UNCHANGED faults) \/ Faulty)
    /\ stop' = [stop EXCEPT ![s] = "done"]
    /\ fence' = FALSE
    /\ UNCHANGED <<halting, fenced>> /\ StopStep

-----------------------------------------------------------------------------
(***************************************************************************)
(* The relay's task, _relay_runner_stream.                                 *)
(***************************************************************************)
RelayStep == UNCHANGED <<rturn, made, halting, tunnel, stop, fenced, missed>>

\* Subscribed at the runner: the ready heartbeat lets the posts through.
RelayOpens ==
    /\ relay = "opening" /\ linked
    /\ relay' = "reading" /\ sub' = TRUE
    /\ msg' = [t \in Turns |-> IF msg[t] = "wait" THEN "go" ELSE msg[t]]
    /\ UNCHANGED <<wire, ev, acc, text, status, label, fence, unsaved, faults>> /\ RelayStep

Reads(k) == relay = "reading" /\ wire # <<>> /\ Head(wire)[1] = k /\ wire' = Tail(wire)

\* Mutant: a new turn does not lift the fence.
runningKeepsFence ==
    /\ \/ /\ Reads("running") /\ _publish_status("running")
          /\ UNCHANGED fence /\ label' = "none" /\ acc' = <<>>
       \/ /\ Reads("idle") /\ _publish_status("idle")
          /\ UNCHANGED <<fence, label, acc>>
       \/ /\ Reads("failed") /\ _publish_status("failed")
          /\ label' = "task" /\ UNCHANGED <<fence, acc>>
    /\ UNCHANGED <<msg, relay, sub, ev, shown, store, unsaved, faults>> /\ RelayStep

\* session.status.  A new turn lifts the fence, clears the error and starts a new text.
RelayStatus ==
    /\ \/ /\ Reads("running") /\ _publish_status("running")
          /\ fence' = FALSE /\ label' = "none" /\ acc' = <<>>
       \/ /\ Reads("idle") /\ _publish_status("idle")
          /\ UNCHANGED <<fence, label, acc>>
       \/ /\ Reads("failed") /\ _publish_status("failed")
          /\ label' = "task" /\ UNCHANGED <<fence, acc>>
    /\ UNCHANGED <<msg, relay, sub, ev, shown, store, unsaved, faults>> /\ RelayStep

\* The fence drops what a stopped turn still says.
RelayDrops ==
    /\ fence /\ \E k \in {"created", "text", "call"} : Reads(k)
    /\ UNCHANGED <<msg, relay, sub, ev, acc, text, status, label, fence, unsaved, faults>> /\ RelayStep

\* response.created: another turn's text is not carried into this one.
RelayCreated ==
    /\ ~fence /\ Reads("created")
    /\ IF header = Head(wire)[2] THEN UNCHANGED inflight ELSE inflight' = <<>>
    /\ header' = Head(wire)[2]
    /\ UNCHANGED <<msg, relay, sub, ev, acc, shown, store, status, label, fence, unsaved, faults>>
    /\ RelayStep

\* A text delta is kept for the transcript and for clients that reconnect.
RelayText ==
    /\ ~fence /\ Reads("text")
    /\ LET n == Head(wire)[2] IN
       acc' = Append(acc, n) /\ inflight' = Append(inflight, n) /\ shown' = shown \cup {n}
    /\ UNCHANGED <<msg, relay, sub, ev, header, store, status, label, fence, unsaved, faults>>
    /\ RelayStep

\* Mutant: only a tool call has the text before it stored.
terminalSkipsFlush ==
    /\ \/ ~fence /\ Reads("call") /\ UNCHANGED fence
       \/ Reads("terminal") /\ fence' = FALSE
    /\ ev' = Head(wire)
    /\ relay' = IF acc # <<>> /\ Head(wire)[1] = "call" THEN "flush" ELSE "after"
    /\ UNCHANGED <<msg, sub, acc, text, status, label, unsaved, faults>> /\ RelayStep

\* A tool call, or the turn's last event, first has the text before it stored.
RelayBoundary ==
    /\ \/ ~fence /\ Reads("call") /\ UNCHANGED fence
       \/ Reads("terminal") /\ fence' = FALSE
    /\ ev' = Head(wire)
    /\ relay' = IF acc # <<>> THEN "flush" ELSE "after"
    /\ UNCHANGED <<msg, sub, acc, text, status, label, unsaved, faults>> /\ RelayStep

\* _flush_relay_text: the append, and then the two buffers are cleared.
FlushCommits ==
    /\ relay = "flush"
    /\ store' = store \o acc
    /\ relay' = "flushed"
    /\ UNCHANGED <<msg, sub, wire, ev, acc, inflight, header, shown, status, label, fence, unsaved, faults>>
    /\ RelayStep

\* Mutant: the text of a flush stays with the relay.
flushKeepsText ==
    /\ relay = "flushed"
    /\ inflight' = <<>> /\ relay' = "after"
    /\ UNCHANGED <<msg, sub, wire, ev, acc, header, shown, store, status, label, fence, unsaved, faults>>
    /\ RelayStep

FlushResumes ==
    /\ relay = "flushed"
    /\ acc' = <<>> /\ inflight' = <<>> /\ relay' = "after"
    /\ UNCHANGED <<msg, sub, wire, ev, header, shown, store, status, label, fence, unsaved, faults>>
    /\ RelayStep

\* Mutant: the buffers are cleared although the append failed.
failDropsText ==
    /\ relay = "flush" /\ Faulty
    /\ relay' = "after" /\ unsaved' = unsaved + 1
    /\ acc' = <<>> /\ inflight' = <<>>
    /\ UNCHANGED <<msg, sub, wire, ev, header, shown, store, status, label, fence>> /\ RelayStep

\* An append that fails leaves both for the next flush.
FlushFails ==
    /\ relay = "flush" /\ Faulty
    /\ relay' = "after" /\ unsaved' = unsaved + 1
    /\ UNCHANGED <<msg, sub, wire, ev, acc, text, status, label, fence>> /\ RelayStep

\* The call is stored (_relay_persist, which swallows a failure); the last event is published.
RelayAfter ==
    /\ relay = "after"
    /\ \/ /\ ev[1] = "call" /\ store' = Append(store, ev[2]) /\ UNCHANGED <<inflight, header, unsaved, faults>>
       \/ /\ ev[1] = "call" /\ Faulty /\ unsaved' = unsaved + 1 /\ UNCHANGED <<inflight, header, store>>
       \/ /\ ev[1] = "terminal" /\ ForgetInflight /\ UNCHANGED <<store, unsaved, faults>>
    /\ relay' = "reading" /\ ev' = <<"none">>
    /\ UNCHANGED <<msg, sub, wire, acc, shown, status, label, fence>> /\ RelayStep

\* The stream breaks when what had come over the tunnel is read: failed, and then its label.
RelayLost ==
    /\ \/ relay = "reading" /\ ~sub /\ wire = <<>>
       \/ relay = "opening" /\ ~linked
    /\ relay' = "dying" /\ _publish_status("failed")
    /\ UNCHANGED <<msg, sub, wire, ev, acc, shown, store, label, fence, unsaved, faults>> /\ RelayStep

\* The label is stored; finally the in-flight text goes and the slot is free.
RelayEnds ==
    /\ relay = "dying"
    /\ relay' = "none" /\ label' = "disconnected" /\ acc' = <<>>
    /\ ForgetInflight
    /\ UNCHANGED <<msg, sub, wire, ev, shown, store, status, fence, unsaved, faults>> /\ RelayStep

-----------------------------------------------------------------------------
(***************************************************************************)
(* The tunnel, and the hooks of its handler.                               *)
(***************************************************************************)
TunnelStep == UNCHANGED <<runner, fence, stop, fenced, missed, unsaved, shown, store, wire, ev>>

\* The tunnel is lost with the answers of whichever messages had not been answered.
TunnelDrops ==
    /\ linked /\ Faulty
    /\ drops' = drops + 1 /\ linked' = FALSE /\ sub' = FALSE /\ down' = "due"
    /\ \E S \in SUBSET {t \in Turns : msg[t] \in {"queued", "running"}} : broken' = broken \cup S
    /\ UNCHANGED <<hook, saw, relay, acc, inflight, header, status, label>> /\ TunnelStep

\* The handler leaves its connect hook before it looks at the socket.  A runner that is back
\* by then is not offline.
_on_runner_disconnect ==
    /\ down = "due" /\ hook = "none"
    /\ down' = IF linked THEN "none" ELSE "list"
    /\ UNCHANGED <<linked, hook, saw, drops, broken, relay, sub, acc, inflight, header, status, label>> /\ TunnelStep /\ UNCHANGED faults

\* Mutant: a session that is idle is not marked.
offlineSparesIdle ==
    /\ down = "list"
    /\ down' = "none"
    /\ IF status = "running" THEN _publish_status("failed") ELSE UNCHANGED <<status, inflight, header>>
    /\ UNCHANGED <<linked, hook, saw, drops, broken, relay, sub, acc, label>> /\ TunnelStep /\ UNCHANGED faults

OfflineMarks ==
    /\ down = "list"
    /\ down' = "none" /\ _publish_status("failed")
    /\ UNCHANGED <<linked, hook, saw, drops, broken, relay, sub, acc, label>> /\ TunnelStep /\ UNCHANGED faults

\* The callers the loss woke run before the loop reads the runner's next handshake.
TunnelReturns ==
    /\ ~linked /\ hook = "none" /\ broken = {}
    /\ linked' = TRUE /\ hook' = "list"
    /\ UNCHANGED <<down, saw, drops, broken, relay, sub, acc, inflight, header, status, label>> /\ TunnelStep /\ UNCHANGED faults

\* The session is assigned again and gets a relay; a failed one may be recovered.
_on_runner_connect ==
    /\ hook = "list"
    /\ _ensure_runner_relay
    /\ hook' = IF status = "failed" THEN "labels" ELSE "none"
    /\ UNCHANGED <<linked, down, saw, drops, broken, sub, inflight, header, status, label>> /\ TunnelStep /\ UNCHANGED faults

\* _publish_runner_recovered_status: the label is read in a thread,
ReadLabels ==
    /\ hook = "labels"
    /\ saw' = label /\ hook' = "recover"
    /\ UNCHANGED <<linked, down, drops, broken, relay, sub, acc, inflight, header, status, label>> /\ TunnelStep /\ UNCHANGED faults

\* only a disconnect is cleared, from the status
_publish_runner_recovered_status ==
    /\ hook = "recover"
    /\ IF saw # "disconnected" THEN hook' = "none" /\ UNCHANGED <<status, inflight, header>>
       ELSE hook' = "clear" /\ status' = "idle" /\ ForgetInflight
    /\ saw' = "none"
    /\ UNCHANGED <<linked, down, drops, broken, relay, sub, acc, label>> /\ TunnelStep /\ UNCHANGED faults

\* and then from the labels.
ClearLabels ==
    /\ hook = "clear"
    /\ hook' = "none" /\ label' = "none"
    /\ UNCHANGED <<linked, down, saw, drops, broken, relay, sub, acc, inflight, header, status>> /\ TunnelStep /\ UNCHANGED faults

-----------------------------------------------------------------------------
Post(t)   == PostEnsures(t) \/ PostTimesOut(t) \/ PostForwards(t) \/ ForwardFails(t)
Stop(s)   == StopRequested(s) \/ StopLands(s) \/ StopAnswered(s) \/ StopFails(s)
Relay     == RelayOpens \/ RelayStatus \/ RelayDrops \/ RelayCreated \/ RelayText \/ RelayBoundary
             \/ FlushCommits \/ FlushResumes \/ FlushFails \/ RelayAfter \/ RelayLost \/ RelayEnds
Tunnel    == TunnelDrops \/ _on_runner_disconnect \/ OfflineMarks \/ TunnelReturns \/ _on_runner_connect
             \/ ReadLabels \/ _publish_runner_recovered_status \/ ClearLabels

RelayNext ==
    \/ \E t \in Turns : Post(t) \/ RunnerStarts(t)
    \/ RunnerEmits \/ RunnerEnds \/ RunnerHalts
    \/ \E s \in Stops : Stop(s)
    \/ Relay \/ Tunnel

RelaySpec == RelayInit /\ [][RelayNext]_rvars

-----------------------------------------------------------------------------
Events == {<<"running">>, <<"idle">>, <<"failed">>, <<"terminal">>, <<"none">>}
          \cup {<<"created", t>> : t \in Turns} \cup {<<k, n>> : k \in {"text", "call"}, n \in Outs}

\* Types.
RelayTypeOK ==
    /\ msg \in [Turns -> {"new", "wait", "go", "queued", "running", "over", "cut", "refused"}]
    /\ rturn \in 0..MaxTurns /\ (rturn # 0 => msg[rturn] = "running")
    /\ made \in Seq([turn : Turns, kind : {"text", "call"}]) /\ Len(made) <= MaxOut
    /\ halting \in BOOLEAN /\ (halting => rturn # 0)
    /\ linked \in BOOLEAN /\ drops \in 0..MaxFaults /\ broken \subseteq Turns
    /\ down \in {"none", "due", "list"} /\ hook \in {"none", "list", "labels", "recover", "clear"}
    /\ label \in {"none", "task", "disconnected"} /\ saw \in {"none", "task", "disconnected"}
    /\ relay \in {"none", "opening", "reading", "flush", "flushed", "after", "dying"}
    /\ sub \in BOOLEAN /\ (sub => linked /\ relay \notin {"none", "opening", "dying"})
    /\ wire \in Seq(Events) /\ ev \in Events
    /\ acc \in Seq(Outs) /\ inflight \in Seq(Outs) /\ store \in Seq(Outs)
    /\ header \in 0..MaxTurns /\ shown \subseteq Outs
    /\ status \in {"idle", "running", "failed"} /\ fence \in BOOLEAN
    /\ stop \in [Stops -> {"new", "post", "landed", "done"}]
    /\ fenced \subseteq Turns /\ missed \subseteq Turns
    /\ faults \in 0..MaxFaults /\ unsaved \in 0..MaxFaults

\* The transcript never holds an output twice, and while appends succeed it holds text and
\* tool calls in the order the agent made them: each text is stored before the call behind it.
TranscriptInOrder ==
    \A i, j \in 1..Len(store) : i < j =>
        store[i] # store[j] /\ (unsaved = 0 => store[i] < store[j])

\* Text a client has been shown of the turn in flight is never out of reach of one that
\* reconnects: it is stored or replayed, in the middle of a flush and after one that failed too.
\* The turn in flight is the one the replay's entry is for, and the one the runner runs too when
\* there is no such entry, unless the tunnel was lost: a forward it broke, its hooks and the
\* relay it ended publish a status of their own, which drops the entry of a turn that runs.
\* (A turn that spoke since is in flight instead, whatever turn the entry is for: the fence may
\* take its response.created.)
NothingVanishes ==
    \A n \in shown :
        /\ \/ made[n].turn = header /\ (\A m \in shown : m > n => made[m].turn = header)
           \/ made[n].turn = rturn /\ drops = 0
        => Contains(store, n) \/ Contains(inflight, n)

\* Text is not both stored and replayed, which shows it twice, but in the instant between the
\* commit of a flush and the step that clears the replay.
ShownOnce == \A i \in 1..Len(store) : Contains(inflight, store[i]) => relay = "flushed"

\* What is replayed is text of a turn that is not known to be over: only a failure that hides
\* the turn's last status keeps it until the next turn.
NoGhost == inflight # <<>> => \/ rturn # 0 \/ wire # <<>> \/ relay \in {"flush", "flushed", "after"}
                              \/ status = "failed" \/ ~sub

\* The fence takes output only from turns that had begun when a stop was requested or reached
\* the runner; a later turn lifts it with its first event, unless nobody was there to hear that.
FenceIsAimed ==
    fence /\ relay = "reading" /\ wire # <<>> /\ Head(wire)[1] \in {"text", "call"} =>
        made[Head(wire)[2]].turn \in fenced \cup missed

\* A turn is heard from its first event: only a tunnel that dropped makes the relay miss one.
HeardFromTheStart == missed # {} => drops > 0

\* A runner that is away, with nothing left to happen, is seen as failed.
OfflineShown == ~linked /\ down = "none" /\ hook = "none" /\ relay = "none" => status = "failed"

\* Once a turn is over and all it said has been read, the text clients were shown of it is in
\* the transcript, if it was not stopped or cut and neither the tunnel nor an append failed.
ShownIsStored == \A n \in shown :
    msg[made[n].turn] = "over" /\ wire = <<>> /\ relay = "reading" =>
        Contains(store, n) \/ drops > 0 \/ unsaved > 0 \/ made[n].turn \in fenced

\* What the fence's comment says of a stop: the text before it is kept, for the turn's last flush.
StoppedTextIsKept ==
    \A n \in shown : Contains(store, n) \/ Contains(acc, n) \/ drops > 0 \/ unsaved > 0 \/ msg[made[n].turn] = "cut"
=============================================================================
