---------------------------- MODULE RunnerTunnel ----------------------------
(***************************************************************************)
(* The WebSocket tunnel between the omnigent server and one runner:        *)
(* TunnelRegistry and WSTunnelTransport on the server, the tunnel route's  *)
(* handler of each connection, serve_tunnel and the dispatch of requests   *)
(* to the runner's application on the runner.                              *)
(*                                                                         *)
(* A connection is a generation of the runner's session: Conns are used in *)
(* order.  Callers, route handlers and the runner run on different event   *)
(* loops; what one schedules on another's loop (call_soon_threadsafe) is   *)
(* a step of its own.  mail[q] is the callbacks scheduled for request q    *)
(* together with its body queue.                                           *)
(***************************************************************************)
EXTENDS Integers, Sequences, FiniteSets

CONSTANTS
    Reqs,        \* calls, each with its fresh req_id
    Waiters,     \* calls of wait_for_runner
    MaxConns,    \* bound: connections the runner makes
    MaxChunks,   \* bound: chunks of an answer
    MaxWaiters,  \* max_connect_waiters_total
    MaxFaults    \* bound: cut links, ping timeouts, failing handlers

ASSUME TunnelBounds ==
    /\ MaxConns \in Nat /\ MaxChunks \in Nat \ {0} /\ MaxWaiters \in Nat /\ MaxFaults \in Nat
ASSUME WaitersFinite == IsFiniteSet(Waiters)

Conns == 1..MaxConns

VARIABLES
    sessions,  \* the registered generation, 0 when the runner is offline
    handler,   \* where the route handler of each connection is
    link,      \* the socket of each connection
    down, up,  \* frames queued or under way on each connection
    serving,   \* the connection the runner serves, 0 between two
    inFlight,  \* in_flight of each generation
    call,      \* the caller's side of each request
    asked,     \* requests whose frame is scheduled on the session's loop
    leaving,   \* requests whose cancel frame is scheduled there
    mail,      \* callbacks and body items each caller has yet to see
    task,      \* the runner's dispatch task of each request
    waits,     \* waiters of the runner's RunnerConnectWaitState
    total,     \* _connect_waiter_total
    waiter,    \* the caller's side of wait_for_runner
    faults

server  == <<sessions, handler, inFlight, call, asked, leaving, mail>>
waiting == <<waits, total, waiter>>
tvars   == <<server, link, down, up, serving, task, waiting, faults>>

Frames == [kind : {"request", "cancel", "head", "body", "end"}, id : Reqs]
Frame(k, q) == [kind |-> k, id |-> q]

\* How a call ends for its caller; "torn" is one that was cancelled inside aclose.
Settled == {"ok", "failed", "cancelled", "torn"}

TInit ==
    /\ sessions = 0
    /\ handler = [c \in Conns |-> "none"]
    /\ link = [c \in Conns |-> "none"]
    /\ down = [c \in Conns |-> <<>>]
    /\ up = [c \in Conns |-> <<>>]
    /\ serving = 0
    /\ inFlight = [c \in Conns |-> {}]
    /\ call = [q \in Reqs |-> [pc |-> "idle", session |-> 0, got |-> 0]]
    /\ asked = {} /\ leaving = {}
    /\ mail = [q \in Reqs |-> <<>>]
    /\ task = [q \in Reqs |-> [st |-> "none", sent |-> 0]]
    /\ waits = {}
    /\ total = 0
    /\ waiter = [w \in Waiters |-> "idle"]
    /\ faults = 0

-----------------------------------------------------------------------------
(***************************************************************************)
(* The registry.                                                           *)
(***************************************************************************)
\* _abort_session_inflight, scheduled on the loop of each caller.
Aborted(c) == [q \in Reqs |-> IF q \in inFlight[c] THEN Append(mail[q], "abort") ELSE mail[q]]

\* A socket that goes down keeps what was delivered of either direction.
GoesDown(c) ==
    /\ link' = [link EXCEPT ![c] = "down"]
    /\ \E n \in 0..Len(down[c]) : down' = [down EXCEPT ![c] = SubSeq(@, 1, n)]
    /\ \E n \in 0..Len(up[c])   : up' = [up EXCEPT ![c] = SubSeq(@, 1, n)]

\* _retire_session_writer: the socket is closed behind the frames already sent.
Retire(c) == IF link[c] = "up" THEN GoesDown(c) ELSE UNCHANGED <<link, down, up>>

\* Mutant: the requests of the replaced generation are forgotten, not aborted.
registerForgetsOld(c) ==
    /\ handler[c] = "hello"
    /\ handler' = [handler EXCEPT ![c] = "serving"]
    /\ sessions' = c
    /\ IF sessions = 0 THEN UNCHANGED <<inFlight, link, down, up>>
       ELSE inFlight' = [inFlight EXCEPT ![sessions] = {}] /\ Retire(sessions)
    /\ waits' = {}
    /\ total' = total - Cardinality(waits)
    /\ waiter' = [w \in Waiters |-> IF w \in waits THEN "resolved" ELSE waiter[w]]
    /\ UNCHANGED <<mail, serving, call, asked, leaving, task, faults>>

\* Newest wins: the generation before is aborted and retired, the waiters are resolved.
register(c) ==
    /\ handler[c] = "hello"
    /\ handler' = [handler EXCEPT ![c] = "serving"]
    /\ sessions' = c
    /\ IF sessions = 0 THEN UNCHANGED <<mail, inFlight, link, down, up>>
       ELSE /\ mail' = Aborted(sessions)
            /\ inFlight' = [inFlight EXCEPT ![sessions] = {}]
            /\ Retire(sessions)
    /\ waits' = {}
    /\ total' = total - Cardinality(waits)
    /\ waiter' = [w \in Waiters |-> IF w \in waits THEN "resolved" ELSE waiter[w]]
    /\ UNCHANGED <<serving, call, asked, leaving, task, faults>>

-----------------------------------------------------------------------------
(***************************************************************************)
(* The tunnel route's handler of one connection.                           *)
(***************************************************************************)
\* The socket went before the hello: nothing was registered.
HelloNeverCame(c) ==
    /\ handler[c] = "hello" /\ link[c] = "down"
    /\ handler' = [handler EXCEPT ![c] = "done"]
    /\ UNCHANGED <<sessions, inFlight, call, asked, leaving, mail, link, down, up, serving, task, waiting, faults>>

\* A first frame that is no hello, or one of another version: the handler closes and returns.
HelloRefused(c) ==
    /\ handler[c] = "hello"
    /\ faults < MaxFaults /\ faults' = faults + 1
    /\ handler' = [handler EXCEPT ![c] = "done"]
    /\ UNCHANGED <<sessions, inFlight, call, asked, leaving, mail, link, down, up, serving, task, waiting>>

\* The handler fails before it registers (a frame that cannot be decoded): with no session
\* of its own it calls deregister(runner_id), which takes whatever session the runner has.
HelloFails(c) ==
    /\ handler[c] = "hello"
    /\ faults < MaxFaults /\ faults' = faults + 1
    /\ handler' = [handler EXCEPT ![c] = "done"]
    /\ IF sessions = 0 THEN UNCHANGED <<sessions, mail, inFlight, link, down, up>>
       ELSE /\ sessions' = 0
            /\ mail' = Aborted(sessions)
            /\ inFlight' = [inFlight EXCEPT ![sessions] = {}]
            /\ Retire(sessions)
    /\ UNCHANGED <<call, asked, leaving, serving, task, waiting>>

\* The socket of a handler that has returned is closed, by itself or by the web server.
HandlerReturned(c) ==
    /\ handler[c] = "done" /\ link[c] = "up"
    /\ GoesDown(c)
    /\ UNCHANGED <<server, serving, task, waiting, faults>>

\* _receive_loop and route_response_frame: the frames of a replaced generation are not looked at.
_receive_loop(c) ==
    /\ handler[c] = "serving" /\ up[c] # <<>>
    /\ up' = [up EXCEPT ![c] = Tail(@)]
    /\ IF sessions # c
       THEN handler' = [handler EXCEPT ![c] = "closing"] /\ UNCHANGED mail
       ELSE /\ LET f == Head(up[c]) IN
               mail' = IF f.id \in inFlight[c] THEN [mail EXCEPT ![f.id] = Append(@, f.kind)] ELSE mail
            /\ UNCHANGED handler
    /\ UNCHANGED <<sessions, inFlight, call, asked, leaving, link, down, serving, task, waiting, faults>>

\* A helper task ends: a lost socket, or a generation that is not current any more.
HelperEnds(c) ==
    /\ handler[c] = "serving"
    /\ link[c] = "down" \/ sessions # c
    /\ handler' = [handler EXCEPT ![c] = "closing"]
    /\ UNCHANGED <<sessions, inFlight, call, asked, leaving, mail, link, down, up, serving, task, waiting, faults>>

\* _ping_loop declares a silent runner dead and closes the socket.
_ping_loop(c) ==
    /\ handler[c] = "serving" /\ sessions = c /\ link[c] = "up"
    /\ faults < MaxFaults /\ faults' = faults + 1
    /\ GoesDown(c)
    /\ handler' = [handler EXCEPT ![c] = "closing"]
    /\ UNCHANGED <<sessions, inFlight, call, asked, leaving, mail, serving, task, waiting>>

\* Mutant: the handler removes whatever session the runner has.
deregisterAny(c) ==
    /\ handler[c] = "closing"
    /\ handler' = [handler EXCEPT ![c] = "done"]
    /\ IF sessions = 0 THEN UNCHANGED <<sessions, mail, inFlight, link, down, up>>
       ELSE /\ sessions' = 0
            /\ mail' = Aborted(sessions)
            /\ inFlight' = [inFlight EXCEPT ![sessions] = {}]
            /\ Retire(sessions)
    /\ UNCHANGED <<call, asked, leaving, serving, task, waiting, faults>>

\* The handler's finally: deregister(runner_id, session) removes its own generation only.
deregister(c) ==
    /\ handler[c] = "closing"
    /\ handler' = [handler EXCEPT ![c] = "done"]
    /\ IF sessions # c THEN UNCHANGED <<sessions, mail, inFlight, link, down, up>>
       ELSE /\ sessions' = 0
            /\ mail' = Aborted(c)
            /\ inFlight' = [inFlight EXCEPT ![c] = {}]
            /\ Retire(c)
    /\ UNCHANGED <<call, asked, leaving, serving, task, waiting, faults>>

-----------------------------------------------------------------------------
(***************************************************************************)
(* WSTunnelTransport: a call.                                              *)
(***************************************************************************)
CloseRequest(q) == inFlight' = [inFlight EXCEPT ![call[q].session] = @ \ {q}]

Settle(q, how) ==
    /\ call' = [call EXCEPT ![q].pc = how]
    /\ CloseRequest(q)

CallStep == UNCHANGED <<sessions, handler, link, up, serving, task, waiting, faults>>

\* open_request and the frame handed to the session's loop.
handle_async_request(q) ==
    /\ call[q].pc = "idle"
    /\ IF sessions = 0
       THEN call' = [call EXCEPT ![q].pc = "failed"] /\ UNCHANGED <<inFlight, asked>>
       ELSE /\ call' = [call EXCEPT ![q] = [pc |-> "sending", session |-> sessions, got |-> 0]]
            /\ inFlight' = [inFlight EXCEPT ![sessions] = @ \cup {q}]
            /\ asked' = asked \cup {q}
    /\ UNCHANGED <<leaving, mail, down>> /\ CallStep

\* _enqueue on the session's loop: a replaced generation refuses the frame.
\* A caller that gave up in the meantime does not stop it.
send_text(q) ==
    /\ q \in asked
    /\ asked' = asked \ {q}
    /\ LET c == call[q].session IN
       IF sessions = c
       THEN /\ down' = [down EXCEPT ![c] = IF link[c] = "up" THEN Append(@, Frame("request", q)) ELSE @]
            /\ call' = IF call[q].pc = "sending" THEN [call EXCEPT ![q].pc = "head"] ELSE call
            /\ UNCHANGED inFlight
       ELSE /\ IF call[q].pc = "sending" THEN Settle(q, "failed") ELSE UNCHANGED <<call, inFlight>>
            /\ UNCHANGED down
    /\ UNCHANGED <<leaving, mail>> /\ CallStep

\* Mutant: an abort wakes the body iterator only, never the head's future.
abortSparesTheHead(q) ==
    /\ call[q].pc = "head" /\ mail[q] # <<>> /\ Head(mail[q]) = "head"
    /\ mail' = [mail EXCEPT ![q] = Tail(@)]
    /\ call' = [call EXCEPT ![q].pc = "stream"]
    /\ UNCHANGED <<inFlight, asked, leaving, down>> /\ CallStep

\* head_future: the head if it came first, else the abort.
AwaitHead(q) ==
    /\ call[q].pc = "head" /\ mail[q] # <<>>
    /\ mail' = [mail EXCEPT ![q] = Tail(@)]
    /\ \/ Head(mail[q]) = "head" /\ call' = [call EXCEPT ![q].pc = "stream"] /\ UNCHANGED inFlight
       \/ Head(mail[q]) = "abort" /\ Settle(q, "failed")
    /\ UNCHANGED <<asked, leaving, down>> /\ CallStep

\* Mutant: an aborted stream just ends.
abortEndsTheStream(q) ==
    /\ call[q].pc = "stream" /\ mail[q] # <<>>
    /\ \/ /\ Head(mail[q]) = "body"
          /\ call' = [call EXCEPT ![q].got = @ + 1] /\ UNCHANGED inFlight
       \/ /\ Head(mail[q]) \in {"end", "abort"} /\ Settle(q, "ok")
    /\ mail' = [mail EXCEPT ![q] = Tail(@)]
    /\ UNCHANGED <<asked, leaving, down>> /\ CallStep

\* _TunneledByteStream.__aiter__: an abort that has landed is raised before any item that is left.
__aiter__(q) ==
    /\ call[q].pc = "stream" /\ mail[q] # <<>>
    /\ \/ /\ Head(mail[q]) = "body"
          /\ call' = [call EXCEPT ![q].got = @ + 1] /\ UNCHANGED inFlight
          /\ mail' = [mail EXCEPT ![q] = Tail(@)]
       \/ /\ Head(mail[q]) = "end" /\ Settle(q, "ok")
          /\ mail' = [mail EXCEPT ![q] = Tail(@)]
       \/ /\ \E i \in 1..Len(mail[q]) : mail[q][i] = "abort"
          /\ Settle(q, "failed") /\ UNCHANGED mail
    /\ UNCHANGED <<asked, leaving, down>> /\ CallStep

\* Mutant: a cancellation (no Exception in Python) skips the clean-up.
cancelSkipsCleanup(q) ==
    /\ call[q].pc \in {"sending", "head", "stream"}
    /\ call' = [call EXCEPT ![q].pc = "cancelled"]
    /\ UNCHANGED <<inFlight, asked, leaving, mail, down>> /\ CallStep

\* The caller's task is cancelled while it awaits the head or the next chunk:
\* the request is closed on the way out, and aclose finds nothing open to cancel.
CancelledInAwait(q) ==
    /\ call[q].pc \in {"sending", "head", "stream"}
    /\ Settle(q, "cancelled")
    /\ UNCHANGED <<asked, leaving, mail, down>> /\ CallStep

\* The caller leaves the response between two chunks: aclose looks whether the request is
\* open, hands request.cancel to the session's loop and awaits it.
aclose(q) ==
    /\ call[q].pc = "stream"
    /\ IF q \in inFlight[call[q].session]
       THEN /\ call' = [call EXCEPT ![q].pc = "closing"]
            /\ leaving' = leaving \cup {q}
            /\ UNCHANGED inFlight
       ELSE Settle(q, "cancelled") /\ UNCHANGED leaving
    /\ UNCHANGED <<asked, mail, down>> /\ CallStep

\* _enqueue of the cancel frame, which a replaced generation refuses.
CancelGoesOut(q) ==
    /\ q \in leaving
    /\ leaving' = leaving \ {q}
    /\ LET c == call[q].session IN
       down' = IF sessions = c /\ link[c] = "up"
               THEN [down EXCEPT ![c] = Append(@, Frame("cancel", q))] ELSE down
    /\ UNCHANGED <<inFlight, call, asked, mail>> /\ CallStep

\* The frame is accepted or refused (an Exception, dropped): aclose closes the request.
AcloseReturns(q) ==
    /\ call[q].pc = "closing" /\ q \notin leaving
    /\ Settle(q, "cancelled")
    /\ UNCHANGED <<asked, leaving, mail, down>> /\ CallStep

\* The caller is cancelled in that await: no Exception, and no finally that closes the request.
AcloseCancelled(q) ==
    /\ call[q].pc = "closing"
    /\ call' = [call EXCEPT ![q].pc = "torn"]
    /\ UNCHANGED <<inFlight, asked, leaving, mail, down>> /\ CallStep

-----------------------------------------------------------------------------
(***************************************************************************)
(* wait_for_runner.                                                        *)
(***************************************************************************)
WaitStep == UNCHANGED <<server, link, down, up, serving, task, faults>>

\* At the cap a waiter sleeps out its timeout without a place.
wait_for_runner(w) ==
    /\ waiter[w] = "idle"
    /\ \/ sessions # 0 /\ waiter' = [waiter EXCEPT ![w] = "got"] /\ UNCHANGED <<waits, total>>
       \/ /\ sessions = 0 /\ total >= MaxWaiters
          /\ waiter' = [waiter EXCEPT ![w] = "sleeping"] /\ UNCHANGED <<waits, total>>
       \/ /\ sessions = 0 /\ total < MaxWaiters
          /\ waiter' = [waiter EXCEPT ![w] = "waiting"]
          /\ waits' = waits \cup {w} /\ total' = total + 1
    /\ WaitStep

WaiterWakes(w) ==
    /\ waiter[w] = "resolved" /\ waiter' = [waiter EXCEPT ![w] = "got"]
    /\ UNCHANGED <<waits, total>> /\ WaitStep

\* The timeout also beats a resolution that is still scheduled; a place is given back once.
WaiterTimesOut(w) ==
    /\ \/ /\ waiter[w] \in {"waiting", "resolved"}
          /\ waiter' = [waiter EXCEPT ![w] = "none"]
       \/ /\ waiter[w] = "sleeping"
          /\ waiter' = [waiter EXCEPT ![w] = IF sessions = 0 THEN "none" ELSE "got"]
    /\ waits' = waits \ {w}
    /\ total' = IF w \in waits THEN total - 1 ELSE total
    /\ WaitStep

-----------------------------------------------------------------------------
(***************************************************************************)
(* The runner.                                                             *)
(***************************************************************************)
RunnerStep == UNCHANGED <<sessions, inFlight, call, asked, leaving, mail, waiting>>

Running == {"run", "body"}

\* serve_tunnel connects again when the connection before has ended for it.
serve_tunnel(c) ==
    /\ serving = 0 /\ handler[c] = "none" /\ \A d \in 1..(c - 1) : handler[d] # "none"
    /\ serving' = c
    /\ handler' = [handler EXCEPT ![c] = "hello"]
    /\ link' = [link EXCEPT ![c] = "up"]
    /\ UNCHANGED <<down, up, task, faults>> /\ RunnerStep

_handle_tunnel_frame(c) ==
    /\ serving = c /\ down[c] # <<>>
    /\ down' = [down EXCEPT ![c] = Tail(@)]
    /\ LET f == Head(down[c]) IN
       task' = CASE f.kind = "request" -> [task EXCEPT ![f.id].st = "run"]
                 [] f.kind = "cancel" /\ task[f.id].st \in Running -> [task EXCEPT ![f.id].st = "stopped"]
                 [] OTHER -> task
    /\ UNCHANGED <<handler, link, up, serving, faults>> /\ RunnerStep

\* A frame written to a socket that is down is lost.
Say(q, fs) ==
    up' = [up EXCEPT ![serving] = IF link[serving] = "up" THEN @ \o fs ELSE @]

\* dispatch_via_asgi, as the application answers: the head, a chunk, the end.
SendHead(q) ==
    /\ serving # 0 /\ task[q].st = "run"
    /\ task' = [task EXCEPT ![q].st = "body"]
    /\ Say(q, <<Frame("head", q)>>)
    /\ UNCHANGED <<handler, link, down, serving, faults>> /\ RunnerStep

SendBody(q) ==
    /\ serving # 0 /\ task[q].st = "body" /\ task[q].sent < MaxChunks
    /\ task' = [task EXCEPT ![q].sent = @ + 1]
    /\ Say(q, <<Frame("body", q)>>)
    /\ UNCHANGED <<handler, link, down, serving, faults>> /\ RunnerStep

SendEnd(q) ==
    /\ serving # 0 /\ task[q].st = "body"
    /\ task' = [task EXCEPT ![q].st = "ended"]
    /\ Say(q, <<Frame("end", q)>>)
    /\ UNCHANGED <<handler, link, down, serving, faults>> /\ RunnerStep

\* The application raises: a 500 with an error body if the head is not out; always an end.
DispatchFails(q) ==
    /\ serving # 0 /\ task[q].st \in Running
    /\ faults < MaxFaults /\ faults' = faults + 1
    /\ IF task[q].st = "run"
       THEN /\ task' = [task EXCEPT ![q] = [st |-> "ended", sent |-> 1]]
            /\ Say(q, <<Frame("head", q), Frame("body", q), Frame("end", q)>>)
       ELSE /\ task' = [task EXCEPT ![q].st = "ended"]
            /\ Say(q, <<Frame("end", q)>>)
    /\ UNCHANGED <<handler, link, down, serving>> /\ RunnerStep

\* _serve_tunnel_once ends: the dispatch tasks of the connection are cancelled.
ConnectionEnds(c) ==
    /\ serving = c /\ link[c] = "down"
    /\ serving' = 0
    /\ task' = [q \in Reqs |-> IF task[q].st \in Running THEN [task[q] EXCEPT !.st = "stopped"] ELSE task[q]]
    /\ UNCHANGED <<handler, link, down, up, faults>> /\ RunnerStep

LinkDrops(c) ==
    /\ link[c] = "up" /\ faults < MaxFaults /\ faults' = faults + 1
    /\ GoesDown(c)
    /\ UNCHANGED <<server, serving, task, waiting>>

-----------------------------------------------------------------------------
RouteStep(c) == register(c) \/ HelloNeverCame(c) \/ HelloRefused(c) \/ HelloFails(c) \/ HandlerReturned(c)
                \/ _receive_loop(c) \/ HelperEnds(c) \/ _ping_loop(c) \/ deregister(c)
Caller(q)    == handle_async_request(q) \/ send_text(q) \/ AwaitHead(q) \/ __aiter__(q)
                \/ CancelledInAwait(q) \/ aclose(q) \/ CancelGoesOut(q) \/ AcloseReturns(q) \/ AcloseCancelled(q)
Waiter(w)    == wait_for_runner(w) \/ WaiterWakes(w) \/ WaiterTimesOut(w)
Runner       == \/ \E c \in Conns : serve_tunnel(c) \/ _handle_tunnel_frame(c) \/ ConnectionEnds(c) \/ LinkDrops(c)
                \/ \E q \in Reqs : SendHead(q) \/ SendBody(q) \/ SendEnd(q) \/ DispatchFails(q)

TNext == \/ \E c \in Conns : RouteStep(c)
         \/ \E q \in Reqs : Caller(q)
         \/ \E w \in Waiters : Waiter(w)
         \/ Runner

TSpec == TInit /\ [][TNext]_tvars

\* Event loops run what is scheduled on them, a lost socket is noticed on either side
\* (pings), and the application goes on with an answer it has begun.
FairTSpec ==
    /\ TSpec
    /\ \A c \in Conns : /\ WF_tvars(_receive_loop(c)) /\ WF_tvars(HelperEnds(c)) /\ WF_tvars(deregister(c))
                        /\ WF_tvars(_handle_tunnel_frame(c))
    /\ \A q \in Reqs : /\ WF_tvars(send_text(q)) /\ WF_tvars(AwaitHead(q)) /\ WF_tvars(__aiter__(q))
                       /\ WF_tvars(CancelGoesOut(q)) /\ WF_tvars(AcloseReturns(q))
                       /\ WF_tvars(SendHead(q)) /\ WF_tvars(SendEnd(q))

-----------------------------------------------------------------------------
\* How a call stands with its caller; one that closes its response has given it up.
Standing(q) == IF call[q].pc \in {"sending", "head", "stream"} THEN "open"
               ELSE IF call[q].pc \in {"closing", "torn"} THEN "cancelled" ELSE call[q].pc

Calls == INSTANCE RunnerCalls WITH
    result   <- [q \in Reqs |-> Standing(q)],
    got      <- [q \in Reqs |-> call[q].got],
    produced <- [q \in Reqs |-> task[q].sent],
    ended    <- [q \in Reqs |-> task[q].st = "ended"]

\* A tunnelled call is a call of the runner's application: its answer comes in order and
\* is complete when it ends, whatever connections, replacements and aborts happen meanwhile.
ImplementsCalls == Calls!CSpec

\* Types.
TunnelTypeOK ==
    /\ sessions \in 0..MaxConns /\ serving \in 0..MaxConns /\ faults \in 0..MaxFaults
    /\ handler \in [Conns -> {"none", "hello", "serving", "closing", "done"}]
    /\ link \in [Conns -> {"none", "up", "down"}]
    /\ down \in [Conns -> Seq(Frames)] /\ up \in [Conns -> Seq(Frames)]
    /\ inFlight \in [Conns -> SUBSET Reqs]
    /\ call \in [Reqs -> [pc : {"idle", "sending", "head", "stream", "closing"} \cup Settled,
                          session : 0..MaxConns, got : 0..MaxChunks]]
    /\ asked \subseteq Reqs /\ leaving \subseteq Reqs
    /\ mail \in [Reqs -> Seq({"head", "body", "end", "abort"})]
    /\ task \in [Reqs -> [st : {"none", "run", "body", "ended", "stopped"}, sent : 0..MaxChunks]]
    /\ waits \subseteq Waiters /\ total \in 0..MaxWaiters
    /\ waiter \in [Waiters -> {"idle", "waiting", "sleeping", "resolved", "got", "none"}]

\* No caller is left to hang: one that awaits an answer is in flight on the registered
\* generation, or the abort of its generation is on its way to it (newest wins, deregister).
NobodyHangs ==
    \A q \in Reqs : call[q].pc \in {"sending", "head", "stream"} =>
        \/ call[q].session = sessions /\ q \in inFlight[sessions]
        \/ \E i \in 1..Len(mail[q]) : mail[q][i] = "abort"

\* A request leaves in_flight with its caller, and with its generation: what is kept is of
\* the registered generation and of a caller that still awaits or closes.  The one call that
\* is over and keeps its entry was cancelled inside aclose, in the await of its cancel frame.
NothingLeaks ==
    \A c \in Conns : \A q \in inFlight[c] :
        c = sessions /\ call[q].session = c /\ call[q].pc \in {"sending", "head", "stream", "closing", "torn"}

\* The cap counts the waiters that wait, and nobody waits for a runner that is there.
WaitersCounted == total = Cardinality(waits) /\ (waits # {} => sessions = 0)

\* A handler that has registered takes no session but its own out of the registry: a tunnel
\* goes offline by its own handler, or by one that failed before it registered (HelloFails).
StaleHandlerIsHarmless ==
    [][sessions # 0 /\ sessions' = 0 =>
         handler[sessions] = "closing" \/ \E c \in Conns : handler[c] = "hello" /\ handler'[c] = "done"]_tvars

\* Under fairness every call that was begun is settled, also when its tunnel is cut or replaced.
EveryCallSettles == \A q \in Reqs : call[q].pc = "sending" ~> call[q].pc \in Settled

\* What transport.py says of aclose: a caller that leaves a stream it was reading has the
\* runner's work on it aborted.
AbandonedIsCancelled ==
    \A q \in Reqs : LET c == call[q].session IN
        call[q].pc = "cancelled" /\ call[q].got > 0 /\ task[q].st \in Running /\ sessions = c /\ link[c] = "up"
            => \E i \in 1..Len(down[c]) : down[c][i] = Frame("cancel", q)
=============================================================================
