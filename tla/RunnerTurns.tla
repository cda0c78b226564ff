----------------------------- MODULE RunnerTurns -----------------------------
(***************************************************************************)
(* The turns of one session on an omnigent runner: the posts of messages   *)
(* and their FIFO gate, the buffer of messages that come while a turn is   *)
(* active and their injection into the live turn, the turn task, the       *)
(* continuation after it, Stop, and the recovery paths that start a turn   *)
(* past the gate (create_session, _catch_up_scan); and the harness end of  *)
(* a turn (HarnessApp, ExecutorAdapter).                                   *)
(*                                                                         *)
(* One asyncio loop runs the runner, so an action is what happens between  *)
(* two awaits.  The harness is another process: what it sends the runner   *)
(* is in wire.                                                             *)
(***************************************************************************)
EXTENDS Integers, SequencesExt

CONSTANTS
    Msgs,       \* messages the server forwards
    Stops,      \* interrupt requests
    Recoveries, \* each a call of create_session or, after a reconnect, of _catch_up_scan
    MaxTurns,   \* bound: turns (every turn takes a message or is a recovery)
    MaxFaults   \* bound: failures of content resolution, loads, set-up and the harness

ASSUME TurnBounds == MaxTurns \in Nat /\ MaxFaults \in Nat

Turns == 1..MaxTurns
Rogue == MaxTurns + 1

VARIABLES
    native,       \* _is_native_harness, fixed for a session
    muted,        \* statuses that are left to the observer of a native harness, fixed too
    nextSeq,      \* _ingest_next_seq
    serving,      \* _ingest_now_serving
    post, slot,   \* where each message's handler is, and the slot it took
    cont, cslot,  \* the same for the continuation scheduled by each turn's end
    active,       \* _active_turns: the turn, 0 when there is none
    turn,         \* where each turn's task is
    started,      \* turns started so far
    live,         \* _live_response_id is set
    interrupted,  \* _interrupted_sessions
    buffer,       \* _session_message_buffers
    history,      \* _session_histories, its user messages
    cold,         \* the session is not in _session_histories
    stored,       \* the server's items: a message is persisted before it is forwarded
    cursor,       \* _last_server_item_id
    asked,        \* each load under way: the item it starts behind, and the last one it must have
    status,       \* the session.status published last
    parked,       \* history variable: the last turn ended with sub-agents at work
    overtaken,    \* history variable: a message started a turn beside one of create_session
    overwritten,  \* history variable: messages that create_session dropped from the history
    stop,         \* each interrupt request and the turn it is for
    rec,          \* where each recovery is
    hctx,         \* the harness's _active_turn_ctx
    hrun,         \* turns whose stream the harness still drives
    cut,          \* those of them that an interrupt has cancelled
    injq,         \* the injection queue of hctx
    wire,         \* frames of each turn the runner has yet to read
    faults

gate    == <<nextSeq, serving, post, slot, cont, cslot>>
shown   == <<status, parked, overtaken>>
task    == <<active, turn, started, live, interrupted, shown>>
session == <<task, buffer, history, cold, overwritten>>
harness == <<hctx, hrun, injq, wire, cut>>
server  == <<native, muted, stored, cursor, asked>>
uvars   == <<gate, session, server, stop, rec, harness, faults>>

Entries == [msg : Msgs, inj : BOOLEAN]
Frames  == {<<"created">>, <<"end">>} \cup {<<"consumed", m>> : m \in Msgs}
Messages(b) == [i \in 1..Len(b) |-> b[i].msg]

\* What _publish_turn_status leaves to the terminal: nothing, the end of a turn, or all but failures.
Muted == {{}, {"idle"}, {"running", "idle", "waiting"}}

NotAsked == [from |-> 0, to |-> 0]

TurnsInit ==
    /\ native \in BOOLEAN /\ cold \in BOOLEAN
    /\ muted \in IF native THEN Muted ELSE {{}}
    /\ nextSeq = 0 /\ serving = 0
    /\ post = [m \in Msgs |-> "new"] /\ slot = [m \in Msgs |-> -1]
    /\ cont = [t \in Turns |-> "none"] /\ cslot = [t \in Turns |-> -1]
    /\ active = 0 /\ turn = [t \in Turns |-> "none"] /\ started = 0
    /\ live = FALSE /\ interrupted = FALSE
    /\ buffer = <<>> /\ history = <<>> /\ stored = <<>> /\ cursor = 0
    /\ asked = [x \in Msgs \cup Recoveries |-> NotAsked]
    /\ status = "idle" /\ parked = FALSE /\ overtaken = FALSE /\ overwritten = {}
    /\ stop = [s \in Stops |-> [pc |-> "new", target |-> 0]]
    /\ rec = [r \in Recoveries |-> "new"]
    /\ hctx = 0 /\ hrun = {} /\ injq = <<>> /\ wire = [t \in Turns |-> <<>>] /\ cut = {}
    /\ faults = 0

Faulty == faults < MaxFaults /\ faults' = faults + 1

-----------------------------------------------------------------------------
(***************************************************************************)
(* Starting and ending a turn.                                             *)
(***************************************************************************)
\* _publish_turn_status: what clients see after it.
Shown(s) == IF s \in muted \cup {"none"} THEN status ELSE s

\* The slot of _active_turns is taken in the step that starts the task.
StartTurn ==
    /\ started < MaxTurns
    /\ started' = started + 1
    /\ active' = started + 1
    /\ turn' = [turn EXCEPT ![started + 1] = "created"]
    /\ status' = Shown("running") /\ parked' = FALSE
    /\ UNCHANGED <<live, interrupted>>

\* What a turn's end may publish.  Idle is not shown between a turn and its continuation, except
\* by the drain of a turn that is cancelled in its stream, which publishes it first.  A turn that
\* ends well with sub-agents at work is waiting, or running for a server that knows no waiting.
EndStatus(how) ==
    IF ~interrupted /\ how # "ok" THEN {"failed"}
    ELSE IF buffer # <<>> /\ how # "drained" THEN {"none"}
    ELSE IF interrupted THEN {"idle"} ELSE {"idle", "waiting", "running"}

Publish(s) == status' = Shown(s) /\ parked' = (s \in {"waiting", "running"}) /\ UNCHANGED overtaken

\* Mutant: a turn that failed does not look for the messages that wait.
endWithoutContinuation(t, how) ==
    /\ turn' = [turn EXCEPT ![t] = "over"]
    /\ active' = 0 /\ live' = FALSE /\ interrupted' = FALSE
    /\ \E s \in EndStatus(how) : Publish(s)
    /\ cont' = [cont EXCEPT ![t] = IF how = "ok" THEN "scheduled" ELSE "done"]
    /\ UNCHANGED <<started, buffer, history, cold, overwritten>>

\* Mutant: a turn that was stopped publishes nothing.
endSilently(t, how) ==
    /\ turn' = [turn EXCEPT ![t] = "over"]
    /\ active' = 0 /\ live' = FALSE /\ interrupted' = FALSE
    /\ IF interrupted THEN Publish("none") ELSE \E s \in EndStatus(how) : Publish(s)
    /\ cont' = [cont EXCEPT ![t] = "scheduled"]
    /\ UNCHANGED <<started, buffer, history, cold, overwritten>>

\* Mutant: the end of a turn that was stopped too late leaves the flag of the stop up.
endKeepsFlag(t, how) ==
    /\ turn' = [turn EXCEPT ![t] = "over"]
    /\ active' = 0 /\ live' = FALSE /\ interrupted' = (interrupted /\ how = "ok")
    /\ \E s \in EndStatus(how) : Publish(s)
    /\ cont' = [cont EXCEPT ![t] = "scheduled"]
    /\ UNCHANGED <<started, buffer, history, cold, overwritten>>

\* Turn-end bookkeeping.
_on_proxy_stream_end(t, how) ==
    /\ turn' = [turn EXCEPT ![t] = "over"]
    /\ active' = 0 /\ live' = FALSE /\ interrupted' = FALSE
    /\ \E s \in EndStatus(how) : Publish(s)
    /\ cont' = [cont EXCEPT ![t] = "scheduled"]
    /\ UNCHANGED <<started, buffer, history, cold, overwritten>>

-----------------------------------------------------------------------------
(***************************************************************************)
(* _load_history_as_input and the pages of _catch_up_scan.                 *)
(***************************************************************************)
\* The server has been asked for its items behind one of them.
Ask(x, from) == asked' = [asked EXCEPT ![x] = [from |-> from, to |-> Len(stored)]]

\* The answer to the n-th item: what was stored when it was asked for is in it, and what was
\* stored later may be; a load that fails has the pages that came before.
Answered(x, n) ==
    /\ n \in asked[x].from..Len(stored)
    /\ \/ n >= asked[x].to /\ UNCHANGED faults
       \/ n < asked[x].to /\ Faulty
    /\ cursor' = IF n = asked[x].from THEN cursor ELSE n
    /\ asked' = [asked EXCEPT ![x] = NotAsked]

Answer(x, n) == SubSeq(stored, asked[x].from + 1, n)

-----------------------------------------------------------------------------
(***************************************************************************)
(* post_session_events for a message.                                      *)
(***************************************************************************)
\* The server persists the message and forwards it (for a native harness it only forwards it);
\* the slot is taken on arrival.
Arrive(m) ==
    /\ post[m] = "new"
    /\ post' = [post EXCEPT ![m] = "gate"]
    /\ slot' = [slot EXCEPT ![m] = nextSeq]
    /\ nextSeq' = nextSeq + 1
    /\ stored' = IF native THEN stored ELSE Append(stored, m)
    /\ UNCHANGED <<serving, cont, cslot, session, native, muted, cursor, asked, stop, rec, harness, faults>>

\* The finally of the handler: the next slot is served.
Leave(m, how) ==
    /\ post' = [post EXCEPT ![m] = how]
    /\ serving' = slot[m] + 1
    /\ slot' = [slot EXCEPT ![m] = -1]

Served(m) == post[m] = "gate" /\ slot[m] = serving

\* An active turn keeps the message in the buffer.  It is also forwarded into a turn that
\* streams, unless the turn is parked on a human approval (which it may be at any time).
BufferMessage(m) ==
    /\ Served(m) /\ active # 0
    /\ \/ /\ buffer' = Append(buffer, [msg |-> m, inj |-> FALSE])
          /\ Leave(m, "accepted")
       \/ /\ ~native /\ live
          /\ buffer' = Append(buffer, [msg |-> m, inj |-> TRUE])
          /\ post' = [post EXCEPT ![m] = "forward"] /\ UNCHANGED <<serving, slot>>
    /\ UNCHANGED <<nextSeq, cont, cslot, task, history, cold, overwritten, server, stop, rec, harness, faults>>

\* No turn is active: the message starts one.
StartWarm(m) ==
    /\ Served(m) /\ active = 0 /\ ~cold
    /\ history' = Append(history, m)
    /\ StartTurn /\ Leave(m, "accepted")
    /\ UNCHANGED <<nextSeq, cont, cslot, overtaken, buffer, cold, overwritten, server, stop, rec, harness, faults>>

\* A cold cache is loaded from the server first: an await between the check and the start.
LoadHistory(m) ==
    /\ Served(m) /\ active = 0 /\ cold
    /\ post' = [post EXCEPT ![m] = "load"]
    /\ Ask(m, 0)
    /\ UNCHANGED <<nextSeq, serving, slot, cont, cslot, session, native, muted, stored, cursor, stop, rec, harness, faults>>

\* The loaded items, this message's own left out by its id (an item has one of its own), and
\* then the message.  Nothing looks again for a turn that create_session started meanwhile.
StartCold(m) ==
    /\ post[m] = "load"
    /\ \E n \in 0..Len(stored) :
          Answered(m, n) /\ history' = Append(RemoveFirst(Answer(m, n), m), m)
    /\ cold' = FALSE
    /\ overtaken' = (overtaken \/ active # 0)
    /\ StartTurn /\ Leave(m, "accepted")
    /\ UNCHANGED <<nextSeq, cont, cslot, buffer, overwritten, native, muted, stored, stop, rec, harness>>

\* Mutant: a handler that fails does not serve the next slot.
failKeepsSlot(m) ==
    /\ Served(m) \/ post[m] \in {"load", "forward"}
    /\ Faulty
    /\ post' = [post EXCEPT ![m] = IF post[m] = "forward" THEN "accepted" ELSE "lost"]
    /\ UNCHANGED <<nextSeq, serving, slot, cont, cslot, session, server, stop, rec, harness>>

\* The content does not resolve, or the handler is cancelled behind the gate.
HandlerFails(m) ==
    /\ Served(m) \/ post[m] \in {"load", "forward"}
    /\ Faulty
    /\ Leave(m, IF post[m] = "forward" THEN "accepted" ELSE "lost")
    /\ asked' = [asked EXCEPT ![m] = NotAsked]
    /\ UNCHANGED <<nextSeq, cont, cslot, session, native, muted, stored, cursor, stop, rec, harness>>

\* The tunnel drops and the dispatch task is cancelled where it waits for its slot.
CancelledAtGate(m) ==
    /\ post[m] = "gate" /\ slot[m] # serving
    /\ Faulty
    /\ post' = [post EXCEPT ![m] = "lost"]
    /\ UNCHANGED <<nextSeq, serving, slot, cont, cslot, session, server, stop, rec, harness>>

\* The forward reaches _start_or_inject_turn of the harness: an injection into its active
\* turn, or a turn of its own when the harness has none any more.
Forward(m) ==
    /\ post[m] = "forward"
    /\ \/ /\ hctx # 0
          /\ injq' = Append(injq, m) /\ UNCHANGED hctx
          /\ Leave(m, "accepted")
       \/ /\ hctx = 0
          /\ hctx' = Rogue /\ injq' = <<>>
          /\ post' = [post EXCEPT ![m] = "rogue"] /\ UNCHANGED <<serving, slot>>
    /\ UNCHANGED <<nextSeq, cont, cslot, session, server, stop, rec, hrun, wire, cut, faults>>

\* The answer of such a turn is read to its end, or times out, and is thrown away.
RogueEnds(m) ==
    /\ post[m] = "rogue"
    /\ Leave(m, "accepted")
    /\ hctx' = IF hctx = Rogue THEN 0 ELSE hctx
    /\ injq' = IF hctx = Rogue THEN <<>> ELSE injq
    /\ UNCHANGED <<nextSeq, cont, cslot, session, server, stop, rec, hrun, wire, cut, faults>>

-----------------------------------------------------------------------------
(***************************************************************************)
(* _check_and_start_next_turn, a task scheduled by each turn's end.        *)
(***************************************************************************)
ContinuationQueues(t) ==
    /\ cont[t] = "scheduled"
    /\ cont' = [cont EXCEPT ![t] = "gate"]
    /\ cslot' = [cslot EXCEPT ![t] = nextSeq]
    /\ nextSeq' = nextSeq + 1
    /\ UNCHANGED <<serving, post, slot, session, server, stop, rec, harness, faults>>

\* Mutant: a turn that a message or a recovery started meanwhile is not looked for.
continueOverActive(t) ==
    /\ cont[t] = "gate" /\ cslot[t] = serving
    /\ cont' = [cont EXCEPT ![t] = "done"]
    /\ serving' = cslot[t] + 1 /\ cslot' = [cslot EXCEPT ![t] = -1]
    /\ \/ /\ buffer = <<>>
          /\ UNCHANGED <<active, turn, started, live, interrupted, buffer, history, status, parked>>
       \/ /\ buffer # <<>>
          /\ buffer' = <<>> /\ history' = history \o Messages(buffer)
          /\ StartTurn
    /\ UNCHANGED <<nextSeq, post, slot, overtaken, cold, overwritten, server, stop, rec, harness, faults>>

\* A native harness takes one message for a turn, the others all of them.
_check_and_start_next_turn(t) ==
    /\ cont[t] = "gate" /\ cslot[t] = serving
    /\ cont' = [cont EXCEPT ![t] = "done"]
    /\ serving' = cslot[t] + 1 /\ cslot' = [cslot EXCEPT ![t] = -1]
    /\ \/ /\ active # 0 \/ buffer = <<>>
          /\ UNCHANGED <<active, turn, started, live, interrupted, buffer, history, status, parked>>
       \/ /\ active = 0 /\ buffer # <<>> /\ native
          /\ buffer' = Tail(buffer) /\ history' = Append(history, Head(buffer).msg)
          /\ StartTurn
       \/ /\ active = 0 /\ buffer # <<>> /\ ~native
          /\ buffer' = <<>> /\ history' = history \o Messages(buffer)
          /\ StartTurn
    /\ UNCHANGED <<nextSeq, post, slot, overtaken, cold, overwritten, server, stop, rec, harness, faults>>

-----------------------------------------------------------------------------
(***************************************************************************)
(* The turn's task: _run_turn_bg and proxy_stream.                         *)
(***************************************************************************)
TurnStep == UNCHANGED <<nextSeq, serving, post, slot, cslot, server, stop, rec>>

_run_turn_bg(t) ==
    /\ turn[t] = "created"
    /\ turn' = [turn EXCEPT ![t] = "setup"]
    /\ UNCHANGED <<cont, active, started, live, interrupted, shown, buffer, history, cold, overwritten, harness, faults>>
    /\ TurnStep

SetupFails(t) ==
    /\ turn[t] = "setup" /\ Faulty
    /\ _on_proxy_stream_end(t, "failed")
    /\ UNCHANGED harness /\ TurnStep

\* The turn's own POST: a harness that still has an active turn takes it for an injection
\* (204), and the turn fails.
StreamOpens(t) ==
    /\ turn[t] = "setup"
    /\ \/ /\ hctx = 0
          /\ turn' = [turn EXCEPT ![t] = "stream"]
          /\ hctx' = t /\ hrun' = hrun \cup {t} /\ injq' = <<>>
          /\ wire' = [wire EXCEPT ![t] = <<<<"created">>>>]
          /\ UNCHANGED <<cont, active, started, live, interrupted, shown, buffer, history, cold, overwritten, cut>>
       \/ hctx # 0 /\ _on_proxy_stream_end(t, "failed") /\ UNCHANGED harness
    /\ UNCHANGED faults /\ TurnStep

\* Mutant: a message the harness consumed stays out of the history.
consumedIsForgotten(t) ==
    /\ turn[t] = "stream" /\ wire[t] # <<>>
    /\ wire' = [wire EXCEPT ![t] = Tail(@)]
    /\ LET f == Head(wire[t]) IN
       \/ f = <<"created">> /\ live' = TRUE /\ UNCHANGED <<turn, buffer>>
       \/ f[1] = "consumed" /\ buffer' = RemoveFirst(buffer, [msg |-> f[2], inj |-> TRUE]) /\ UNCHANGED <<turn, live>>
       \/ f = <<"end">> /\ turn' = [turn EXCEPT ![t] = "tools"] /\ UNCHANGED <<live, buffer>>
    /\ UNCHANGED <<cont, active, started, interrupted, shown, history, cold, overwritten, hctx, hrun, injq, cut, faults>>
    /\ TurnStep

\* proxy_stream reads a frame.  A consumed injection, known by an id of its own, leaves the
\* buffer for the history.
proxy_stream(t) ==
    /\ turn[t] = "stream" /\ wire[t] # <<>>
    /\ wire' = [wire EXCEPT ![t] = Tail(@)]
    /\ LET f == Head(wire[t]) IN
       \/ f = <<"created">> /\ live' = TRUE /\ UNCHANGED <<turn, buffer, history>>
       \/ /\ f[1] = "consumed"
          /\ LET e == [msg |-> f[2], inj |-> TRUE] IN
             /\ buffer' = RemoveFirst(buffer, e)
             /\ history' = IF Contains(buffer, e) THEN Append(history, f[2]) ELSE history
          /\ UNCHANGED <<turn, live>>
       \/ f = <<"end">> /\ turn' = [turn EXCEPT ![t] = "tools"] /\ UNCHANGED <<live, buffer, history>>
    /\ UNCHANGED <<cont, active, started, interrupted, shown, cold, overwritten, hctx, hrun, injq, cut, faults>>
    /\ TurnStep

\* The tool calls of the turn are awaited after its stream; it may have failed in the stream.
TurnEnds(t) ==
    /\ turn[t] = "tools"
    /\ \E how \in {"ok", "failed"} : _on_proxy_stream_end(t, how)
    /\ UNCHANGED <<harness, faults>> /\ TurnStep

\* The runner gives up the stream: the context window is exceeded, or reading it raises.
DrainFails(t) ==
    /\ turn[t] = "stream" /\ Faulty
    /\ _on_proxy_stream_end(t, "failed")
    /\ wire' = [wire EXCEPT ![t] = <<>>]
    /\ UNCHANGED <<hctx, hrun, injq, cut>> /\ TurnStep

\* The harness process dies in the middle of the stream.
HarnessDies(t) ==
    /\ turn[t] = "stream" /\ Faulty
    /\ _on_proxy_stream_end(t, "failed")
    /\ hctx' = 0 /\ hrun' = {} /\ injq' = <<>> /\ cut' = {} /\ wire' = [wire EXCEPT ![t] = <<>>]
    /\ TurnStep

-----------------------------------------------------------------------------
(***************************************************************************)
(* The harness.                                                            *)
(***************************************************************************)
HarnessStep == UNCHANGED <<gate, session, server, stop, rec, faults>>

\* _watch_injections: the executor takes the message or refuses it.
_watch_injections ==
    /\ injq # <<>> /\ injq' = Tail(injq)
    /\ \/ hctx \in hrun /\ turn[hctx] = "stream" /\ wire' = [wire EXCEPT ![hctx] = Append(@, <<"consumed", Head(injq)>>)]
       \/ UNCHANGED wire
    /\ UNCHANGED <<hctx, hrun, cut>> /\ HarnessStep

\* The end of _stream_turn: the turn is no target for injections before its last event goes out.
_stream_turn(t) ==
    /\ t \in hrun /\ turn[t] = "stream"
    /\ hrun' = hrun \ {t} /\ cut' = cut \ {t}
    /\ hctx' = IF hctx = t THEN 0 ELSE hctx
    /\ injq' = IF hctx = t THEN <<>> ELSE injq
    /\ wire' = [wire EXCEPT ![t] = Append(@, <<"end">>)]
    /\ HarnessStep

\* _teardown_turn after the runner has closed the stream.
_teardown_turn(t) ==
    /\ t \in hrun /\ turn[t] = "over"
    /\ hrun' = hrun \ {t} /\ cut' = cut \ {t}
    /\ hctx' = IF hctx = t THEN 0 ELSE hctx
    /\ injq' = IF hctx = t THEN <<>> ELSE injq
    /\ UNCHANGED wire /\ HarnessStep

-----------------------------------------------------------------------------
(***************************************************************************)
(* Stop: _cancel_inprocess_turn.                                           *)
(***************************************************************************)
StopStep == UNCHANGED <<nextSeq, serving, post, slot, cslot, server, rec, faults>>

StopArrives(s) ==
    /\ stop[s].pc = "new" /\ ~native
    /\ IF active = 0 THEN stop' = [stop EXCEPT ![s] = [pc |-> "done", target |-> 0]] /\ UNCHANGED interrupted
       ELSE stop' = [stop EXCEPT ![s] = [pc |-> "post", target |-> active]] /\ interrupted' = TRUE
    /\ UNCHANGED <<cont, active, turn, started, live, shown, buffer, history, cold, overwritten, harness>>
    /\ StopStep

\* The interrupt names no turn: the harness cancels every turn it drives, and drops its active
\* one as a target of injections.  Or the POST fails.
StopPosts(s) ==
    /\ stop[s].pc = "post"
    /\ stop' = [stop EXCEPT ![s] = [pc |-> "cancel", target |-> stop[s].target]]
    /\ \/ /\ hrun # {} \/ hctx # 0
          /\ hctx' = 0 /\ injq' = <<>> /\ cut' = cut \cup hrun
       \/ UNCHANGED <<hctx, injq, cut>>
    /\ UNCHANGED <<cont, session, hrun, wire>> /\ StopStep

\* Only the turn the stop was for is cancelled; its task unwinds before anything else runs.
_cancel_active_turn(s) ==
    /\ stop[s].pc = "cancel"
    /\ stop' = [stop EXCEPT ![s] = [pc |-> "done", target |-> 0]]
    /\ IF active # stop[s].target THEN UNCHANGED <<cont, session, wire>>
       ELSE _on_proxy_stream_end(active, CASE turn[active] = "created" -> "ok"
                                           [] turn[active] = "setup" -> "failed"
                                           [] OTHER -> "drained")
            /\ wire' = [wire EXCEPT ![active] = <<>>]
    /\ UNCHANGED <<hctx, hrun, injq, cut>> /\ StopStep

-----------------------------------------------------------------------------
(***************************************************************************)
(* Recovery, which does not pass the gate.                                 *)
(***************************************************************************)
RecoveryStep == UNCHANGED <<gate, overtaken, buffer, native, muted, stored, stop, harness>>

\* A trailing user message makes the session one whose turn has to be run.
MayRecover == \/ active = 0 /\ StartTurn
              \/ UNCHANGED <<active, turn, started, live, interrupted, status, parked>>

create_session(r) ==
    /\ rec[r] = "new"
    /\ rec' = [rec EXCEPT ![r] = "load"]
    /\ Ask(r, 0)
    /\ UNCHANGED <<session, cursor, faults>> /\ RecoveryStep

\* Crash recovery: the server's items, those older than Msgs among them, replace what the
\* runner holds by now.
CreateRecovers(r) ==
    /\ rec[r] = "load"
    /\ rec' = [rec EXCEPT ![r] = "done"]
    /\ \E n \in 0..Len(stored) :
          /\ Answered(r, n)
          /\ \/ /\ native \/ n = 0
                /\ UNCHANGED <<active, turn, started, live, interrupted, status, parked, history, cold, overwritten>>
             \/ /\ ~native
                /\ history' = Answer(r, n) /\ cold' = FALSE
                /\ overwritten' = overwritten \cup
                      {m \in Msgs : Contains(history, m) /\ ~Contains(Answer(r, n), m)}
                /\ MayRecover
    /\ RecoveryStep

\* After a reconnect: the items behind the cursor are asked for, if the session is one to look at.
_catch_up_scan(r) ==
    /\ rec[r] = "new" /\ ~native /\ ~cold
    /\ rec' = [rec EXCEPT ![r] = "scan"]
    /\ Ask(r, cursor)
    /\ UNCHANGED <<session, cursor, faults>> /\ RecoveryStep

\* They are taken for new ones.  What came before a page that raised is dropped, and is behind
\* the cursor.
CatchesUp(r) ==
    /\ rec[r] = "scan"
    /\ rec' = [rec EXCEPT ![r] = "done"]
    /\ \E n \in 0..Len(stored) :
          /\ Answered(r, n)
          /\ \/ /\ n = asked[r].from \/ n < asked[r].to
                /\ UNCHANGED <<active, turn, started, live, interrupted, status, parked, history, cold>>
             \/ /\ n > asked[r].from
                /\ history' = history \o Answer(r, n) /\ cold' = FALSE
                /\ MayRecover
    /\ UNCHANGED overwritten /\ RecoveryStep

Recovery(r) == create_session(r) \/ CreateRecovers(r) \/ _catch_up_scan(r) \/ CatchesUp(r)

-----------------------------------------------------------------------------
Handler(m) == Arrive(m) \/ BufferMessage(m) \/ StartWarm(m) \/ LoadHistory(m) \/ StartCold(m)
              \/ HandlerFails(m) \/ CancelledAtGate(m) \/ Forward(m) \/ RogueEnds(m)
Task(t)    == _run_turn_bg(t) \/ SetupFails(t) \/ StreamOpens(t) \/ proxy_stream(t) \/ TurnEnds(t)
              \/ DrainFails(t) \/ HarnessDies(t) \/ _stream_turn(t) \/ _teardown_turn(t)
              \/ ContinuationQueues(t) \/ _check_and_start_next_turn(t)
Stop(s)    == StopArrives(s) \/ StopPosts(s) \/ _cancel_active_turn(s)

TurnsNext ==
    \/ \E m \in Msgs : Handler(m)
    \/ \E t \in Turns : Task(t)
    \/ _watch_injections
    \/ \E s \in Stops : Stop(s)
    \/ \E r \in Recoveries : Recovery(r)

TurnsSpec == TurnsInit /\ [][TurnsNext]_uvars

\* The loop runs what is ready, loads and forwards are bounded by timeouts, and a turn's
\* watchdogs end it.  One weak fairness condition on all of them asks for less than one for
\* each task does, and is enough.
Ready ==
    \/ \E m \in Msgs : \/ BufferMessage(m) \/ StartWarm(m) \/ LoadHistory(m) \/ StartCold(m)
                       \/ Forward(m) \/ RogueEnds(m)
    \/ \E t \in Turns : \/ _run_turn_bg(t) \/ StreamOpens(t) \/ proxy_stream(t) \/ TurnEnds(t)
                        \/ _stream_turn(t) \/ _teardown_turn(t)
                        \/ ContinuationQueues(t) \/ _check_and_start_next_turn(t)
    \/ \E r \in Recoveries : CreateRecovers(r) \/ CatchesUp(r)

FairTurnsSpec == TurnsSpec /\ WF_uvars(Ready)

-----------------------------------------------------------------------------
\* Types.
TurnsTypeOK ==
    /\ native \in BOOLEAN /\ cold \in BOOLEAN /\ live \in BOOLEAN /\ interrupted \in BOOLEAN
    /\ nextSeq \in Nat /\ serving \in Nat /\ serving <= nextSeq
    /\ post \in [Msgs -> {"new", "gate", "load", "forward", "rogue", "accepted", "lost"}]
    /\ slot \in [Msgs -> Nat \cup {-1}] /\ cslot \in [Turns -> Nat \cup {-1}]
    /\ cont \in [Turns -> {"none", "scheduled", "gate", "done"}]
    /\ turn \in [Turns -> {"none", "created", "setup", "stream", "tools", "over"}]
    /\ active \in 0..MaxTurns /\ started \in 0..MaxTurns /\ faults \in 0..MaxFaults
    /\ buffer \in Seq(Entries) /\ history \in Seq(Msgs) /\ stored \in Seq(Msgs)
    /\ cursor \in 0..Len(stored) /\ status \in {"idle", "running", "waiting", "failed"}
    /\ muted \in Muted /\ parked \in BOOLEAN /\ overtaken \in BOOLEAN /\ overwritten \subseteq Msgs
    /\ asked \in [Msgs \cup Recoveries -> [from : 0..Len(stored), to : 0..Len(stored)]]
    /\ stop \in [Stops -> [pc : {"new", "post", "cancel", "done"}, target : 0..MaxTurns]]
    /\ rec \in [Recoveries -> {"new", "load", "scan", "done"}]
    /\ cut \subseteq hrun
    /\ hctx \in 0..Rogue /\ hrun \subseteq Turns /\ injq \in Seq(Msgs)
    /\ wire \in [Turns -> Seq(Frames)]

Unfinished == {"created", "setup", "stream", "tools"}

\* Invariant I2 of the runner: the task that is not over is the one in _active_turns, until a
\* message whose history was loaded starts a turn beside one of create_session.
OneTurnAtATime == overtaken \/ \A t \in Turns : turn[t] \in Unfinished => active = t

HoldsSlot(n) == \/ \E m \in Msgs : post[m] \in {"gate", "load", "forward", "rogue"} /\ slot[m] = n
                \/ \E t \in Turns : cont[t] = "gate" /\ cslot[t] = n

Abandoned(n) == \E m \in Msgs : post[m] = "lost" /\ slot[m] = n

\* The gate stalls only at a slot whose post was cancelled while it waited for its turn: the
\* one that is served otherwise has a handler or a continuation behind it that will move on.
GateMovesOn == serving < nextSeq => HoldsSlot(serving) \/ Abandoned(serving)

\* What the finally of post_session_events says of the gate: no message that fails stalls it.
GateNeverStalls == serving < nextSeq => HoldsSlot(serving)

\* A message the runner said 202 to is in the history or waits in the buffer, unless a
\* create_session replaced the history by items it had asked for before the message was among
\* them, or by the first pages of a load that failed.
NoneLost == \A m \in Msgs : post[m] \in {"accepted", "forward", "rogue"} =>
                \/ Contains(history, m)
                \/ \E i \in 1..Len(buffer) : buffer[i].msg = m
                \/ m \in overwritten

\* The flag of a stop never outlives the turn it was for: it would taint the next one.
FlagIsClean == interrupted /\ ~overtaken =>
    \E s \in Stops : stop[s].pc \in {"post", "cancel"} /\ stop[s].target = active /\ active # 0

\* Clients are not left with a spinner: a session with no turn and nothing buffered is shown
\* running only while its sub-agents work, or if its terminal's observer has to show the end.
StatusHonest == active = 0 /\ buffer = <<>> /\ status = "running" =>
                    parked \/ "idle" \in muted \/ overtaken

\* Every message that came in time gets into a turn's history, or its handler failed.
EveryMessageRuns == \A m \in Msgs :
    post[m] = "gate" ~> Contains(history, m) \/ post[m] = "lost" \/ Abandoned(serving)

\* What post_session_events says of the forward: it is made into a live turn, and starts none.
NoRogueTurn == hctx # Rogue

\* What _catch_up_scan says: it appends what the history has not.
NeverDoubled == \A i, j \in 1..Len(history) : history[i] = history[j] => i = j

\* What _cancel_active_turn says of a stop: a continuation that replaced its turn goes on.
StopIsAimed == \A t \in cut : turn[t] \in Unfinished =>
                  overtaken \/ \E s \in Stops : stop[s].pc = "cancel" /\ stop[s].target = t
==============================================================================
