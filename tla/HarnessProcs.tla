---------------------------- MODULE HarnessProcs ----------------------------
(***************************************************************************)
(* HarnessProcessManager for one conversation: get_client finds or spawns  *)
(* the harness process under the conversation's spawn lock, release and    *)
(* the idle reaper take it away, and a turn streams from it between        *)
(* mark_in_flight and clear_in_flight.                                     *)
(*                                                                         *)
(* All callers are tasks of one asyncio loop; an action is what happens    *)
(* between two awaits.  The processes are the world: they bind, crash and  *)
(* die by themselves.  Every process of a conversation has the same socket *)
(* path; sock says whose listener is there.                                *)
(***************************************************************************)
EXTENDS Integers

CONSTANTS
    TurnCalls,   \* calls of get_client by turns, one turn at a time
    InitCalls,   \* calls by create_session, which only wants the process to be there
    SideCalls,   \* calls with "any": interrupts, forwarded messages, tool results
    Releasers,   \* calls of release by others than the reaper
    Kinds,       \* what a call may ask for: a harness with a model, or with none named
    Keeps,       \* pairs of an asked and a running kind: same harness, and no other model
                 \* is asked for (a call that names no model keeps the one that runs)
    Reaper,      \* the idle reaper's task
    MaxSpawns,   \* bound: processes
    MaxFaults    \* bound: crashes of a process, clients that fail to close, stops

ASSUME ProcsTasks ==
    /\ Reaper \notin TurnCalls \cup InitCalls \cup SideCalls \cup Releasers
    /\ TurnCalls \cap InitCalls = {} /\ SideCalls \cap (TurnCalls \cup InitCalls) = {}
    /\ Releasers \cap (TurnCalls \cup InitCalls \cup SideCalls) = {}
ASSUME ProcsKinds ==
    /\ "any" \notin Kinds
    /\ Keeps \subseteq Kinds \X Kinds /\ \A k \in Kinds : <<k, k>> \in Keeps
ASSUME ProcsBounds == MaxSpawns \in Nat /\ MaxFaults \in Nat

Procs == 1..MaxSpawns
Calls == TurnCalls \cup InitCalls \cup SideCalls
Tasks == Calls \cup Releasers \cup {Reaper}

VARIABLES
    proc,      \* each process: "none", "starting", "up", "term" (signalled) or "dead"
    kind,      \* what each process was spawned for
    closed,    \* processes whose client has been closed
    sock,      \* the process that listens at the socket path, 0 when the file is gone
    entry,     \* _entries: the registered process, 0 when there is none
    used,      \* last_used_at is after the cutoff of the next reaper pass
    inflight,  \* the conversation is in _in_flight_response_ids
    lock,      \* who holds the spawn lock, Reaper when nobody does
    call,      \* each get_client: where it is, what it asks for, the process it has
    shut,      \* each task's _close_entry: the process and how far it is
    reaper,    \* the reaper's pass: "sleep", "listed" or "closing"
    released,  \* calls of release made
    left,      \* processes whose spawn or release was given up half-way
    faults

pvars == <<proc, kind, closed, sock, entry, used, inflight, lock, call, shut, reaper, released, left, faults>>
world == <<proc, kind, closed, sock>>

NoClose == [p |-> 0, at |-> "none"]
Free == lock = Reaper
Live(p) == proc[p] \in {"starting", "up", "term"}

Listening == \E p \in Procs : sock = p /\ proc[p] = "up"

ProcsInit ==
    /\ proc = [p \in Procs |-> "none"] /\ kind = [p \in Procs |-> "none"]
    /\ closed = {} /\ sock = 0 /\ entry = 0 /\ used = FALSE /\ inflight = FALSE
    /\ lock = Reaper
    /\ call = [g \in Calls |-> [pc |-> "new", asks |-> "any", p |-> 0]]
    /\ shut = [t \in Tasks |-> NoClose]
    /\ reaper = "sleep" /\ released = {} /\ left = {} /\ faults = 0

Faulty == faults < MaxFaults /\ faults' = faults + 1
MoveTo(g, at, p) == call' = [call EXCEPT ![g] = [pc |-> at, asks |-> call[g].asks, p |-> p]]
Goto(g, at) == MoveTo(g, at, call[g].p)
Done(g) == MoveTo(g, "over", 0)
ShutTo(t, p, at) == shut' = [shut EXCEPT ![t] = [p |-> p, at |-> at]]

-----------------------------------------------------------------------------
(***************************************************************************)
(* get_client.                                                             *)
(***************************************************************************)
\* A session has one turn at a time; the other calls come whenever they like.
AskTurn(g, k) ==
    /\ g \in TurnCalls /\ call[g].pc = "new"
    /\ \A h \in TurnCalls : call[h].pc \in {"new", "over"}
    /\ call' = [call EXCEPT ![g] = [pc |-> "lock", asks |-> k, p |-> 0]]
    /\ UNCHANGED <<world, entry, used, inflight, lock, shut, reaper, released, left, faults>>

\* create_session, on every reconnect of the runner too: beside a turn that streams.
AskInit(g, k) ==
    /\ g \in InitCalls /\ call[g].pc = "new"
    /\ call' = [call EXCEPT ![g] = [pc |-> "lock", asks |-> k, p |-> 0]]
    /\ UNCHANGED <<world, entry, used, inflight, lock, shut, reaper, released, left, faults>>

AskAny(g) ==
    /\ g \in SideCalls /\ call[g].pc = "new"
    /\ Goto(g, "lock")
    /\ UNCHANGED <<world, entry, used, inflight, lock, shut, reaper, released, left, faults>>

\* Mutant: "any" is compared like the name of a harness.
anyMismatches(g) == entry # 0 /\ (proc[entry] = "dead" \/ <<call[g].asks, kind[entry]>> \notin Keeps)

\* The registered process has exited, or runs another harness or model than is asked for.
Unfit(g) ==
    /\ entry # 0
    /\ \/ proc[entry] = "dead"
       \/ call[g].asks # "any" /\ <<call[g].asks, kind[entry]>> \notin Keeps

\* The lock is had: the registered process is returned, or closed, or one is spawned.  The
\* entry that is closed here stays registered until the next one takes its place.
get_client(g) ==
    /\ call[g].pc = "lock" /\ Free
    /\ IF Unfit(g)
       THEN /\ Goto(g, "close") /\ lock' = g
            /\ ShutTo(g, entry, "client")
            /\ UNCHANGED used
       ELSE IF entry # 0
       THEN /\ MoveTo(g, "got", entry)
            /\ used' = TRUE /\ UNCHANGED <<lock, shut>>
       ELSE IF call[g].asks = "any"
       THEN Goto(g, "over") /\ UNCHANGED <<used, lock, shut>>
       ELSE Goto(g, "spawn") /\ lock' = g /\ UNCHANGED <<used, shut>>
    /\ UNCHANGED <<world, entry, inflight, reaper, released, left, faults>>

\* The unfit process is closed: a turn spawns another, and the others find no harness.
ClosedUnfit(g) ==
    /\ call[g].pc = "close" /\ shut[g] = NoClose
    /\ IF call[g].asks = "any" THEN Goto(g, "over") /\ lock' = Reaper
       ELSE Goto(g, "spawn") /\ UNCHANGED lock
    /\ UNCHANGED <<world, entry, used, inflight, shut, reaper, released, left, faults>>

\* _spawn_entry: whatever is at the socket path is removed, and a process started.
SpawnStarts(g, p) ==
    /\ call[g].pc = "spawn" /\ proc[p] = "none" /\ \A q \in 1..(p - 1) : proc[q] # "none"
    /\ proc' = [proc EXCEPT ![p] = "starting"]
    /\ kind' = [kind EXCEPT ![p] = call[g].asks]
    /\ sock' = 0
    /\ MoveTo(g, "bind", p)
    /\ UNCHANGED <<closed, entry, used, inflight, lock, shut, reaper, released, left, faults>>

\* _wait_for_bind connects, and waits for the probe's connection to close.
SpawnProbed(g) ==
    /\ call[g].pc = "bind" /\ Listening /\ proc[call[g].p] # "dead"
    /\ Goto(g, "probe")
    /\ UNCHANGED <<world, entry, used, inflight, lock, shut, reaper, released, left, faults>>

\* The socket's mode is set and the process registered, without another look at it.
SpawnReady(g) ==
    /\ call[g].pc = "probe" /\ sock # 0
    /\ entry' = call[g].p /\ used' = TRUE
    /\ Goto(g, "got") /\ lock' = Reaper
    /\ UNCHANGED <<world, inflight, shut, reaper, released, left, faults>>

\* An unlocked cleanup took the socket file meanwhile: chmod raises, nothing kills the process.
HardenFails(g) ==
    /\ call[g].pc = "probe" /\ sock = 0
    /\ left' = left \cup {call[g].p}
    /\ Done(g) /\ lock' = Reaper
    /\ UNCHANGED <<world, entry, used, inflight, shut, reaper, released, faults>>

\* Mutant: a call that raises keeps the lock.
failKeepsLock(g) ==
    /\ call[g].pc = "bind" /\ proc[call[g].p] = "dead"
    /\ Done(g)
    /\ UNCHANGED <<world, entry, used, inflight, lock, shut, reaper, released, left, faults>>

\* It exited, or did not listen in time and is killed: the call raises.
SpawnFails(g) ==
    /\ call[g].pc = "bind"
    /\ \/ proc[call[g].p] = "dead" /\ UNCHANGED <<proc, faults>>
       \/ /\ proc[call[g].p] # "dead" /\ sock = 0
          /\ IF proc[call[g].p] = "starting" THEN Faulty ELSE UNCHANGED faults
          /\ proc' = [proc EXCEPT ![call[g].p] = "dead"]
    /\ Done(g) /\ lock' = Reaper
    /\ UNCHANGED <<kind, closed, sock, entry, used, inflight, shut, reaper, released, left>>

\* The caller's task is cancelled, by a stop or with its connection: before a process was
\* started, or while it waits for one to listen, which nothing kills.
SpawnCancelled(g) ==
    /\ Faulty
    /\ \/ call[g].pc = "lock" /\ UNCHANGED <<left, lock>>
       \/ call[g].pc = "spawn" /\ lock' = Reaper /\ UNCHANGED left
       \/ /\ call[g].pc \in {"bind", "probe"} /\ lock' = Reaper
          /\ left' = left \cup {call[g].p}
    /\ Done(g)
    /\ UNCHANGED <<world, entry, used, inflight, shut, reaper, released>>

-----------------------------------------------------------------------------
(***************************************************************************)
(* A call that has its client: a turn streams, the others post and go.     *)
(***************************************************************************)
\* response.created: mark_in_flight.
TurnOpens(g) ==
    /\ g \in TurnCalls /\ call[g].pc = "got"
    /\ call[g].p \notin closed /\ Listening
    /\ Goto(g, "turn") /\ inflight' = TRUE
    /\ UNCHANGED <<world, entry, used, lock, shut, reaper, released, left, faults>>

\* Mutant: a turn whose process went leaves its mark.
breakKeepsMark(g) ==
    /\ g \in TurnCalls
    /\ \/ call[g].pc = "turn"
       \/ call[g].pc = "got" /\ (call[g].p \in closed \/ ~Listening)
    /\ inflight' = (inflight /\ proc[call[g].p] = "dead")
    /\ Done(g)
    /\ UNCHANGED <<world, entry, used, lock, shut, reaper, released, left, faults>>

\* The turn ends, or its stream never opens or breaks: _on_proxy_stream_end clears the mark.
clear_in_flight(g) ==
    /\ g \in TurnCalls
    /\ \/ call[g].pc = "turn"
       \/ call[g].pc = "got" /\ (call[g].p \in closed \/ ~Listening)
    /\ inflight' = FALSE
    /\ Done(g)
    /\ UNCHANGED <<world, entry, used, lock, shut, reaper, released, left, faults>>

SidePosts(g) ==
    /\ g \in InitCalls \cup SideCalls /\ call[g].pc = "got"
    /\ Done(g)
    /\ UNCHANGED <<world, entry, used, inflight, lock, shut, reaper, released, left, faults>>

-----------------------------------------------------------------------------
(***************************************************************************)
(* _close_entry, by a caller, a release or the reaper.                     *)
(***************************************************************************)
CloseStep == UNCHANGED <<entry, used, inflight, lock, call, reaper, released, left>>

\* Mutant: a client that fails to close leaves the process alone.
closeStopsAtClient(t) ==
    /\ shut[t].at = "client"
    /\ closed' = closed \cup {shut[t].p}
    /\ \/ ShutTo(t, shut[t].p, IF Live(shut[t].p) THEN "wait" ELSE "clean") /\ UNCHANGED faults
       \/ ShutTo(t, 0, "none") /\ Faulty
    /\ UNCHANGED proc
    /\ UNCHANGED <<kind, sock>> /\ CloseStep

\* The client is closed, or fails to close; then a process that has not exited is signalled.
CloseClient(t) ==
    /\ shut[t].at = "client"
    /\ closed' = closed \cup {shut[t].p}
    /\ IF Live(shut[t].p)
       THEN /\ proc' = [proc EXCEPT ![shut[t].p] = "term"]
            /\ ShutTo(t, shut[t].p, "wait")
       ELSE ShutTo(t, shut[t].p, "clean") /\ UNCHANGED proc
    /\ UNCHANGED faults \/ Faulty
    /\ UNCHANGED <<kind, sock>> /\ CloseStep

\* It has exited, or is killed when the grace is over.
CloseWaited(t) ==
    /\ shut[t].at = "wait"
    /\ proc' = [proc EXCEPT ![shut[t].p] = "dead"]
    /\ ShutTo(t, shut[t].p, "clean")
    /\ UNCHANGED <<kind, closed, sock, faults>> /\ CloseStep

\* The file at the socket path is removed, whoever's it is by now.
CloseCleans(t) ==
    /\ shut[t].at = "clean"
    /\ sock' = 0
    /\ ShutTo(t, 0, "none")
    /\ UNCHANGED <<proc, kind, closed, faults>> /\ CloseStep

\* The closer is cancelled while it waits for the process to exit: the process is not killed
\* and its socket not removed.  What get_client was closing is still registered, with its
\* client closed; what a release was closing is nobody's.
CloseCancelled(t) ==
    /\ t # Reaper /\ shut[t].at = "wait" /\ Faulty
    /\ ShutTo(t, 0, "none")
    /\ IF t \in Calls THEN Done(t) ELSE UNCHANGED call
    /\ IF t \in Calls /\ call[t].pc = "close"
       THEN lock' = Reaper /\ UNCHANGED left
       ELSE left' = left \cup {shut[t].p} /\ UNCHANGED lock
    /\ UNCHANGED <<world, entry, used, inflight, reaper, released>>

-----------------------------------------------------------------------------
(***************************************************************************)
(* release and the reaper.                                                 *)
(***************************************************************************)
\* The entry is unregistered in one step and closed afterwards, without the spawn lock.
release(r) ==
    /\ r \in Releasers \ released
    /\ released' = released \cup {r}
    /\ IF entry = 0 THEN UNCHANGED <<entry, shut>>
       ELSE entry' = 0 /\ ShutTo(r, entry, "client")
    /\ UNCHANGED <<world, used, inflight, lock, call, reaper, left, faults>>

\* A turn releases the process itself: its agent was switched, or has a newer version.
TurnReleases(g) ==
    /\ g \in TurnCalls /\ call[g].pc = "new" /\ entry # 0
    /\ \A h \in TurnCalls : call[h].pc \in {"new", "over"}
    /\ Goto(g, "release")
    /\ entry' = 0 /\ ShutTo(g, entry, "client")
    /\ UNCHANGED <<world, used, inflight, lock, reaper, released, left, faults>>

TurnReleased(g) ==
    /\ call[g].pc = "release" /\ shut[g] = NoClose
    /\ Goto(g, "new")
    /\ UNCHANGED <<world, entry, used, inflight, lock, shut, reaper, released, left, faults>>

\* The idle time passes.  It is half an hour: no turn takes that long to open its stream.
IdleTimePasses ==
    /\ reaper = "sleep" /\ used
    /\ \A g \in TurnCalls : call[g].pc # "got"
    /\ used' = FALSE
    /\ UNCHANGED <<world, entry, inflight, lock, call, shut, reaper, released, left, faults>>

\* A pass lists the conversation; others listed before it may take a while to close.
_idle_reaper_loop ==
    /\ reaper = "sleep" /\ entry # 0 /\ ~used /\ ~inflight
    /\ reaper' = "listed"
    /\ UNCHANGED <<world, entry, used, inflight, lock, call, shut, released, left, faults>>

\* Mutant: what was listed is released as it was.
reapAsListed ==
    /\ reaper = "listed"
    /\ IF entry = 0
       THEN reaper' = "sleep" /\ UNCHANGED <<entry, shut>>
       ELSE /\ entry' = 0 /\ reaper' = "closing"
            /\ ShutTo(Reaper, entry, "client")
    /\ UNCHANGED <<world, used, inflight, lock, call, released, left, faults>>

\* release with only_if_idle_cutoff: looked at again in the step that unregisters.
ReapListed ==
    /\ reaper = "listed"
    /\ IF entry = 0 \/ used \/ inflight
       THEN reaper' = "sleep" /\ UNCHANGED <<entry, shut>>
       ELSE /\ entry' = 0 /\ reaper' = "closing"
            /\ ShutTo(Reaper, entry, "client")
    /\ UNCHANGED <<world, used, inflight, lock, call, released, left, faults>>

Reaped ==
    /\ reaper = "closing" /\ shut[Reaper] = NoClose
    /\ reaper' = "sleep"
    /\ UNCHANGED <<world, entry, used, inflight, lock, call, shut, released, left, faults>>

-----------------------------------------------------------------------------
(***************************************************************************)
(* The processes.                                                          *)
(***************************************************************************)
ProcStep == UNCHANGED <<kind, closed, entry, used, inflight, lock, call, shut, reaper, released, left>>

Binds(p) ==
    /\ proc[p] = "starting"
    /\ proc' = [proc EXCEPT ![p] = "up"] /\ sock' = p
    /\ UNCHANGED faults /\ ProcStep

Crashes(p) ==
    /\ proc[p] \in {"starting", "up"} /\ Faulty
    /\ proc' = [proc EXCEPT ![p] = "dead"] /\ UNCHANGED sock
    /\ ProcStep

\* A process that was signalled exits, and takes its own socket along.
Exits(p) ==
    /\ proc[p] = "term"
    /\ proc' = [proc EXCEPT ![p] = "dead"]
    /\ sock' = IF sock = p THEN 0 ELSE sock
    /\ UNCHANGED faults /\ ProcStep

-----------------------------------------------------------------------------
ProcsNext ==
    \/ \E g \in Calls :
          \/ \E k \in Kinds : AskTurn(g, k) \/ AskInit(g, k)
          \/ AskAny(g) \/ get_client(g) \/ ClosedUnfit(g)
          \/ \E p \in Procs : SpawnStarts(g, p)
          \/ SpawnProbed(g) \/ SpawnReady(g) \/ HardenFails(g)
          \/ SpawnFails(g) \/ SpawnCancelled(g)
          \/ TurnReleases(g) \/ TurnReleased(g)
          \/ TurnOpens(g) \/ clear_in_flight(g) \/ SidePosts(g)
    \/ \E t \in Tasks : CloseClient(t) \/ CloseWaited(t) \/ CloseCleans(t) \/ CloseCancelled(t)
    \/ \E r \in Releasers : release(r)
    \/ IdleTimePasses \/ _idle_reaper_loop \/ ReapListed \/ Reaped
    \/ \E p \in Procs : Binds(p) \/ Crashes(p) \/ Exits(p)

ProcsSpec == ProcsInit /\ [][ProcsNext]_pvars

\* Tasks that can go on do, a turn ends, a process that starts listens, and time passes.
ProcsFairness ==
    /\ \A g \in Calls :
          /\ WF_pvars(get_client(g)) /\ WF_pvars(ClosedUnfit(g))
          /\ WF_pvars(\E p \in Procs : SpawnStarts(g, p))
          /\ WF_pvars(SpawnProbed(g)) /\ WF_pvars(SpawnReady(g) \/ HardenFails(g))
          /\ WF_pvars(SpawnFails(g)) /\ WF_pvars(TurnReleased(g))
          /\ WF_pvars(TurnOpens(g)) /\ WF_pvars(clear_in_flight(g)) /\ WF_pvars(SidePosts(g))
    /\ \A t \in Tasks : WF_pvars(CloseClient(t) \/ CloseWaited(t) \/ CloseCleans(t))
    /\ WF_pvars(IdleTimePasses) /\ WF_pvars(_idle_reaper_loop \/ ReapListed \/ Reaped)
    /\ \A p \in Procs : WF_pvars(Binds(p))

FairProcsSpec == ProcsSpec /\ ProcsFairness

-----------------------------------------------------------------------------
(***************************************************************************)
(* Properties.                                                             *)
(***************************************************************************)
\* Types.
ProcsTypeOK ==
    /\ proc \in [Procs -> {"none", "starting", "up", "term", "dead"}]
    /\ kind \in [Procs -> Kinds \cup {"none"}]
    /\ closed \subseteq Procs /\ sock \in 0..MaxSpawns /\ entry \in 0..MaxSpawns
    /\ used \in BOOLEAN /\ inflight \in BOOLEAN /\ lock \in Calls \cup {Reaper}
    /\ call \in [Calls -> [pc : {"new", "release", "lock", "close", "spawn", "bind", "probe",
                                 "got", "turn", "over"},
                           asks : Kinds \cup {"any"}, p : 0..MaxSpawns]]
    /\ shut \in [Tasks -> [p : 0..MaxSpawns, at : {"none", "client", "wait", "clean"}]]
    /\ reaper \in {"sleep", "listed", "closing"} /\ released \subseteq Releasers
    /\ left \subseteq Procs /\ faults \in 0..MaxFaults

\* The reaper never holds the process of a turn: one that got its client or streams keeps it,
\* though the pass that listed it as idle was under way (release with only_if_idle_cutoff).
TurnIsSpared ==
    \A g \in TurnCalls : call[g].pc \in {"got", "turn"} => shut[Reaper].p # call[g].p

\* No process is left behind: one that has not exited is registered, or a task is waiting for
\* it to listen or closing it (_close_entry, _wait_for_bind).  The exceptions, which nothing in
\* the manager knows of any more: its spawn was cancelled, or raised at the socket file that
\* another's cleanup had removed; or the release that unregistered it was cancelled.
NoStray ==
    \A p \in Procs : Live(p) => \/ entry = p
                                \/ \E t \in Tasks : shut[t].p = p
                                \/ \E g \in Calls : call[g].pc \in {"bind", "probe"} /\ call[g].p = p
                                \/ p \in left

\* A call with "any" never takes down a process that runs: what it closes has exited.
SideCallsAreHarmless ==
    \A g \in SideCalls : shut[g].p # 0 => proc[shut[g].p] = "dead"

\* A turn is only ever given a process of the harness it asked for, and of its model where it
\* named one.
RightHarness ==
    \A g \in TurnCalls :
        call[g].pc \in {"got", "turn"} => <<call[g].asks, kind[call[g].p]>> \in Keeps

\* Every get_client returns or raises: the spawn lock is never held for good.
EveryCallReturns ==
    \A g \in Calls : (call[g].pc = "lock") ~> (call[g].pc \in {"got", "turn", "over"})

\* A process is not kept for ever: with no more turns it is reaped, since no turn leaves its
\* in-flight mark behind.
IdleIsReaped == \A p \in Procs : (entry = p) ~> (entry # p)

\* What get_client's docstring says of its lock: two processes are never raced onto the same
\* socket, so the registered one, when it is up and nobody closes it, is the one that listens.
SocketIsItsOwn ==
    (entry # 0 /\ proc[entry] = "up" /\ \A t \in Tasks : shut[t].p # entry) => sock = entry
=============================================================================
