------------------------- MODULE RunnerTunnelProofs -------------------------
(***************************************************************************)
(* Proofs about the tunnel, for any number of requests, waiters,           *)
(* connections, chunks and faults: nobody is left to hang, nothing leaks,  *)
(* a stale handler is harmless, the waiters are counted, and the tunnel    *)
(* implements RunnerCalls.                                                 *)
(*                                                                         *)
(* RegistryInv is about who is in flight.  AnswersInv counts: what a       *)
(* caller has read, what waits in its mail and what is on its connection   *)
(* are together what the application produced, as long as nothing was      *)
(* lost; and when the end of an answer is there nothing was lost.          *)
(***************************************************************************)
EXTENDS RunnerTunnel, TLAPS, FiniteSetTheorems, FunctionTheorems

\* A caller in one of these places awaits its answer.
Awaiting == {"sending", "head", "stream"}

\* In one of these its request may be in flight; in one of those it is over and closed.
Holding == {"sending", "head", "stream", "closing", "torn"}
Ends    == {"ok", "failed", "cancelled"}

\* An item is in a sequence; the places it has, and how often.
Has(s, x) == \E i \in 1..Len(s) : s[i] = x
Places(s, x) == {i \in 1..Len(s) : s[i] = x}
Count(s, x) == Cardinality(Places(s, x))

Orders  == [kind : {"request", "cancel"}, id : Reqs]
Answers == [kind : {"head", "body", "end"}, id : Reqs]
Items == {"head", "body", "end", "abort"}
CallRecords == [pc : {"idle", "sending", "head", "stream", "closing"} \cup Settled, session : 0..MaxConns, got : Nat]
TaskRecords == [st : {"none", "run", "body", "ended", "stopped"}, sent : 0..MaxChunks]

\* TunnelTypeOK, but for the two bounds that are not a matter of types: got and total.
Typed ==
    /\ sessions \in 0..MaxConns /\ serving \in 0..MaxConns /\ faults \in 0..MaxFaults
    /\ handler \in [Conns -> {"none", "hello", "serving", "closing", "done"}]
    /\ link \in [Conns -> {"none", "up", "down"}]
    /\ down \in [Conns -> Seq(Orders)] /\ up \in [Conns -> Seq(Answers)]
    /\ inFlight \in [Conns -> SUBSET Reqs]
    /\ call \in [Reqs -> CallRecords]
    /\ asked \subseteq Reqs /\ leaving \subseteq Reqs
    /\ mail \in [Reqs -> Seq(Items)]
    /\ task \in [Reqs -> TaskRecords]
    /\ waits \subseteq Waiters
    /\ waiter \in [Waiters -> {"idle", "waiting", "sleeping", "resolved", "got", "none"}]

\* A caller that awaits or closes was given a session.
Sessioned == \A q \in Reqs : call[q].pc \in Holding => call[q].session # 0

\* The registered generation is one whose handler has registered it and not yet left.
Registered == sessions # 0 => handler[sessions] \in {"serving", "closing"}

\* What the registry promises, with the parts that make it inductive.
RegistryInv == Typed /\ Sessioned /\ Registered /\ NothingLeaks /\ NobodyHangs

\* A request's frame is sent once, on the request's own connection, before its task.
RequestedOnce(q) ==
    /\ q \in asked => task[q].st = "none" /\ call[q].pc # "idle"
    /\ \A c \in Conns : Has(down[c], Frame("request", q)) =>
          q \notin asked /\ task[q].st = "none" /\ call[q].pc # "idle" /\ call[q].session = c
    /\ \A c \in Conns : \A i, j \in 1..Len(down[c]) :
          down[c][i] = Frame("request", q) /\ down[c][j] = Frame("request", q) => i = j

\* A task runs on the connection its request came over, and has said nothing before its head.
TaskKnown(q) ==
    /\ task[q].st # "none" => call[q].pc # "idle" /\ call[q].session # 0
    /\ task[q].st \in Running => serving = call[q].session
    /\ task[q].st \in {"none", "run"} => task[q].sent = 0

\* The end of an answer is the last of its frames, and is sent by a task that has ended.
EndIsLast ==
    \A c \in Conns : \A i \in 1..Len(up[c]) :
        /\ task[up[c][i].id].st # "none"
        /\ up[c][i].kind = "end" =>
             /\ task[up[c][i].id].st = "ended"
             /\ \A j \in 1..Len(up[c]) : up[c][j] = Frame("body", up[c][i].id) => j < i

\* Nothing of an answer comes behind its end, and nothing before the call is begun.
MailInOrder(q) ==
    /\ call[q].pc = "idle" => mail[q] = <<>>
    /\ \A i, j \in 1..Len(mail[q]) : mail[q][i] = "end" /\ mail[q][j] = "body" => j < i

\* Chunks the caller has read or has yet to see.
Received(q) == call[q].got + Count(mail[q], "body")

\* A caller has no more than was produced, and all of it once the end is there.
ReadInBounds(q) ==
    call[q].pc \in Holding =>
        /\ Received(q) <= task[q].sent
        /\ Has(mail[q], "end") => task[q].st = "ended" /\ Received(q) = task[q].sent

\* What is in flight is received or on its way, and nothing of it was lost while the
\* socket is up or if the end of the answer got through.
Complete ==
    \A c \in Conns : \A q \in inFlight[c] :
        /\ Received(q) + Count(up[c], Frame("body", q)) <= task[q].sent
        /\ link[c] = "up" \/ Has(up[c], Frame("end", q)) =>
             Received(q) + Count(up[c], Frame("body", q)) = task[q].sent

\* The same of every request.
AllRequestedOnce == \A q \in Reqs : RequestedOnce(q)
AllTaskKnown     == \A q \in Reqs : TaskKnown(q)
AllMailInOrder   == \A q \in Reqs : MailInOrder(q)
AllReadInBounds  == \A q \in Reqs : ReadInBounds(q)

\* What holds of the answers under way.
AnswersInv == AllRequestedOnce /\ AllTaskKnown /\ EndIsLast /\ AllMailInOrder /\ AllReadInBounds /\ Complete

-----------------------------------------------------------------------------
(***************************************************************************)
(* Sequences of frames and of mail.                                        *)
(***************************************************************************)
LEMMA HasAppend ==
  ASSUME NEW S, NEW s \in Seq(S), NEW e \in S, NEW x
  PROVE  Has(Append(s, e), x) <=> Has(s, x) \/ e = x
  BY DEF Has

\* An item is the head of a sequence or in its tail.
LEMMA HasTail ==
  ASSUME NEW S, NEW s \in Seq(S), s # <<>>, NEW x
  PROVE  Has(s, x) <=> Head(s) = x \/ Has(Tail(s), x)
  BY DEF Has

\* What a cut socket keeps is a prefix.
LEMMA Prefix ==
  ASSUME NEW S, NEW s \in Seq(S), NEW n \in 0..Len(s)
  PROVE  /\ SubSeq(s, 1, n) \in Seq(S)
         /\ Len(SubSeq(s, 1, n)) = n
         /\ \A i \in 1..n : SubSeq(s, 1, n)[i] = s[i]
  OBVIOUS

\* A sequence has a number of chunks, none if there is none.
LEMMA CountFinite ==
  ASSUME NEW S, NEW s \in Seq(S), NEW x
  PROVE  /\ IsFiniteSet(Places(s, x)) /\ Count(s, x) \in Nat
         /\ Count(s, x) = 0 <=> ~Has(s, x)
  <1>1. IsFiniteSet(1..Len(s)) /\ Places(s, x) \in SUBSET (1..Len(s))
    BY FS_Interval DEF Places
  <1>2. IsFiniteSet(Places(s, x))
    BY <1>1, FS_Subset
  <1>3. Places(s, x) = {} <=> ~Has(s, x)
    BY DEF Places, Has
  <1> QED BY <1>2, <1>3, FS_CardinalityType, FS_EmptySet DEF Count

\* A frame at the end counts once.
LEMMA CountAppend ==
  ASSUME NEW S, NEW s \in Seq(S), NEW e \in S, NEW x
  PROVE  Count(Append(s, e), x) = IF e = x THEN Count(s, x) + 1 ELSE Count(s, x)
  <1>1. CASE e = x
    <2>1. Places(Append(s, e), x) = Places(s, x) \cup {Len(s) + 1}
      BY <1>1 DEF Places
    <2>2. Len(s) + 1 \notin Places(s, x)
      BY DEF Places
    <2> QED BY <1>1, <2>1, <2>2, CountFinite, FS_AddElement DEF Count
  <1>2. CASE e # x
    <2>1. Places(Append(s, e), x) = Places(s, x)
      BY <1>2 DEF Places
    <2> QED BY <1>2, <2>1 DEF Count
  <1> QED BY <1>1, <1>2

\* Taking the first frame takes one away if it is the one that is counted.
LEMMA CountTail ==
  ASSUME NEW S, NEW s \in Seq(S), s # <<>>, NEW x
  PROVE  Count(Tail(s), x) = IF Head(s) = x THEN Count(s, x) - 1 ELSE Count(s, x)
  <1> DEFINE P == Places(s, x) \ {1}
             Q == Places(Tail(s), x)
             f == [i \in P |-> i - 1]
  <1>1. \A i \in P : i \in 2..Len(s) /\ s[i] = x
    BY DEF Places
  <1>2. \A j \in 1..(Len(s) - 1) : Tail(s)[j] = s[j + 1]
    OBVIOUS
  <1>2a. Len(Tail(s)) = Len(s) - 1 /\ Len(s) \in Nat
    OBVIOUS
  <1>3. f \in [P -> Q]
    BY <1>1, <1>2, <1>2a DEF Places
  <1>4. \A i, j \in P : f[i] = f[j] => i = j
    BY <1>1
  <1>5. \A j \in Q : j + 1 \in P /\ f[j + 1] = j
    BY <1>2, <1>2a DEF Places
  <1>6. f \in Bijection(P, Q)
    <2> HIDE DEF P, Q, f
    <2>1. \A j \in Q : \E i \in P : f[i] = j
      BY <1>5
    <2>2. f \in Injection(P, Q)
      BY <1>3, <1>4 DEF Injection, IsInjective
    <2>3. f \in Surjection(P, Q)
      BY <1>3, <2>1 DEF Surjection
    <2> QED BY <2>2, <2>3 DEF Bijection
  <1>7. ExistsBijection(P, Q)
    BY <1>6 DEF ExistsBijection
  <1>8. IsFiniteSet(Places(s, x)) /\ IsFiniteSet(P)
    BY CountFinite, FS_RemoveElement
  <1>9. Cardinality(Q) = Cardinality(P)
    BY <1>7, <1>8, FS_Bijection
  <1>10. 1 \in Places(s, x) <=> Head(s) = x
    BY DEF Places
  <1> QED BY <1>8, <1>9, <1>10, FS_RemoveElement DEF Count

\* A prefix has no more, and all of them if the last is in it.
LEMMA CountPrefix ==
  ASSUME NEW S, NEW s \in Seq(S), NEW n \in 0..Len(s), NEW x
  PROVE  /\ Count(SubSeq(s, 1, n), x) <= Count(s, x)
         /\ (\A i \in 1..Len(s) : s[i] = x => i <= n) => Count(SubSeq(s, 1, n), x) = Count(s, x)
  <1>1. Places(SubSeq(s, 1, n), x) = {i \in Places(s, x) : i <= n}
    BY DEF Places
  <1>2. Places(SubSeq(s, 1, n), x) \in SUBSET Places(s, x)
    BY <1>1
  <1>3. (\A i \in 1..Len(s) : s[i] = x => i <= n) => Places(SubSeq(s, 1, n), x) = Places(s, x)
    BY <1>1 DEF Places
  <1> QED BY <1>2, <1>3, CountFinite, FS_Subset DEF Count

\* One frame behind the others.
LEMMA ConcatOne ==
  ASSUME NEW S, NEW s \in Seq(S), NEW a \in S
  PROVE  s \o <<a>> = Append(s, a)
  OBVIOUS

-----------------------------------------------------------------------------
(***************************************************************************)
(* What an update of one field makes of a record.                          *)
(***************************************************************************)
CallAt(q, p, s, n) == [call EXCEPT ![q] = [pc |-> p, session |-> s, got |-> n]]
TaskAt(q, s, n) == [task EXCEPT ![q] = [st |-> s, sent |-> n]]

\* A call whose place, or whose count of chunks, changes.
LEMMA CallFields ==
  ASSUME Typed, NEW q \in Reqs
  PROVE  /\ \A p : [call EXCEPT ![q].pc = p] = CallAt(q, p, call[q].session, call[q].got)
         /\ [call EXCEPT ![q].got = @ + 1] = CallAt(q, call[q].pc, call[q].session, call[q].got + 1)
  <1>1. call[q] \in CallRecords /\ call \in [Reqs -> CallRecords]
    BY DEF Typed
  <1>2. \A r \in CallRecords :
          \A p : [r EXCEPT !.pc = p] = [pc |-> p, session |-> r.session, got |-> r.got]
    BY DEF CallRecords
  <1>3. \A r \in CallRecords :
          \A n : [r EXCEPT !.got = n] = [pc |-> r.pc, session |-> r.session, got |-> n]
    BY DEF CallRecords
  <1>4. \A p : [call EXCEPT ![q].pc = p] = CallAt(q, p, call[q].session, call[q].got)
    BY <1>1, <1>2, Zenon DEF CallAt
  <1>5. [call EXCEPT ![q].got = @ + 1] = CallAt(q, call[q].pc, call[q].session, call[q].got + 1)
    BY <1>1, <1>3, Zenon DEF CallAt
  <1> QED BY <1>4, <1>5, Zenon

\* A task whose state, or whose count of chunks, changes.
LEMMA TaskFields ==
  ASSUME Typed, NEW q \in Reqs
  PROVE  /\ \A s : [task EXCEPT ![q].st = s] = TaskAt(q, s, task[q].sent)
         /\ [task EXCEPT ![q].sent = @ + 1] = TaskAt(q, task[q].st, task[q].sent + 1)
  <1>1. task[q] \in TaskRecords /\ task \in [Reqs -> TaskRecords]
    BY DEF Typed
  <1>2. \A r \in TaskRecords : \A s : [r EXCEPT !.st = s] = [st |-> s, sent |-> r.sent]
    BY DEF TaskRecords
  <1>3. \A r \in TaskRecords : \A n : [r EXCEPT !.sent = n] = [st |-> r.st, sent |-> n]
    BY DEF TaskRecords
  <1>4. \A s : [task EXCEPT ![q].st = s] = TaskAt(q, s, task[q].sent)
    BY <1>1, <1>2, Zenon DEF TaskAt
  <1>5. [task EXCEPT ![q].sent = @ + 1] = TaskAt(q, task[q].st, task[q].sent + 1)
    BY <1>1, <1>3, Zenon DEF TaskAt
  <1> QED BY <1>4, <1>5, Zenon

-----------------------------------------------------------------------------
(***************************************************************************)
(* The registry: who is in flight, and who is told that it is over.        *)
(***************************************************************************)
\* A socket that goes down keeps well-formed frames.
LEMMA DownTyped ==
  ASSUME Typed, NEW c \in Conns, GoesDown(c) \/ Retire(c)
  PROVE  /\ link' \in [Conns -> {"none", "up", "down"}]
         /\ down' \in [Conns -> Seq(Orders)]
         /\ up' \in [Conns -> Seq(Answers)]
  <1>1. CASE GoesDown(c)
    <2>1. PICK m \in 0..Len(down[c]) : down' = [down EXCEPT ![c] = SubSeq(down[c], 1, m)]
      BY <1>1 DEF GoesDown
    <2>2. PICK n \in 0..Len(up[c]) : up' = [up EXCEPT ![c] = SubSeq(up[c], 1, n)]
      BY <1>1 DEF GoesDown
    <2>3. SubSeq(down[c], 1, m) \in Seq(Orders) /\ SubSeq(up[c], 1, n) \in Seq(Answers)
      BY Prefix DEF Typed
    <2> QED BY <1>1, <2>1, <2>2, <2>3 DEF GoesDown, Typed
  <1>2. CASE UNCHANGED <<link, down, up>>
    BY <1>2 DEF Typed
  <1> QED BY <1>1, <1>2 DEF Retire

\* What the abort of a generation leaves in the mail.
LEMMA AbortedMail ==
  ASSUME Typed, NEW c \in Conns
  PROVE  /\ Aborted(c) \in [Reqs -> Seq(Items)]
         /\ \A q \in Reqs : Has(mail[q], "abort") => Has(Aborted(c)[q], "abort")
         /\ \A q \in inFlight[c] : Has(Aborted(c)[q], "abort")
  <1>1. \A q \in Reqs : /\ mail[q] \in Seq(Items) /\ Append(mail[q], "abort") \in Seq(Items)
                        /\ Has(Append(mail[q], "abort"), "abort")
    <2>1. ASSUME NEW q \in Reqs
          PROVE  /\ mail[q] \in Seq(Items) /\ Append(mail[q], "abort") \in Seq(Items)
                 /\ Has(Append(mail[q], "abort"), "abort")
      <3>1. mail[q] \in Seq(Items) /\ "abort" \in Items
        BY DEF Typed, Items
      <3> QED BY <3>1, HasAppend
    <2> QED BY <2>1
  <1>2. \A q \in Reqs : Aborted(c)[q] = IF q \in inFlight[c] THEN Append(mail[q], "abort") ELSE mail[q]
    BY DEF Aborted
  <1>3. inFlight[c] \subseteq Reqs
    BY DEF Typed
  <1>4. Aborted(c) \in [Reqs -> Seq(Items)]
    BY <1>1 DEF Aborted
  <1> QED BY <1>1, <1>2, <1>3, <1>4

\* What register and deregister do to the generation they end.
LEMMA EndedTyped ==
  ASSUME Typed, NEW c \in Conns, mail' = Aborted(c), inFlight' = [inFlight EXCEPT ![c] = {}], Retire(c)
  PROVE  /\ mail' \in [Reqs -> Seq(Items)] /\ inFlight' \in [Conns -> SUBSET Reqs]
         /\ link' \in [Conns -> {"none", "up", "down"}]
         /\ down' \in [Conns -> Seq(Orders)] /\ up' \in [Conns -> Seq(Answers)]
  BY AbortedMail, DownTyped DEF Typed

\* The steps of a connection's handler keep the types.
LEMMA RouteTyped ==
  ASSUME Typed, NEW c \in Conns, RouteStep(c)
  PROVE  Typed'
  <1>1. CASE register(c)
    <2>1. CASE sessions = 0
      BY <1>1, <2>1 DEF register, Typed, Conns
    <2>2. CASE sessions # 0
      <3>1. sessions \in Conns
        BY <2>2, TunnelBounds DEF Typed, Conns
      <3>2. mail' = Aborted(sessions) /\ inFlight' = [inFlight EXCEPT ![sessions] = {}] /\ Retire(sessions)
        BY <1>1, <2>2 DEF register
      <3>3. /\ mail' \in [Reqs -> Seq(Items)] /\ inFlight' \in [Conns -> SUBSET Reqs]
            /\ link' \in [Conns -> {"none", "up", "down"}]
            /\ down' \in [Conns -> Seq(Orders)] /\ up' \in [Conns -> Seq(Answers)]
        BY <3>1, <3>2, EndedTyped
      <3> QED BY <1>1, <3>3 DEF register, Typed, Conns
    <2> QED BY <2>1, <2>2
  <1>2. CASE HelloNeverCame(c) \/ HelloRefused(c)
    <2>1. /\ handler' = [handler EXCEPT ![c] = "done"]
          /\ faults' = faults \/ (faults < MaxFaults /\ faults' = faults + 1)
          /\ UNCHANGED <<sessions, inFlight, call, asked, leaving, mail, link, down, up, serving, task,
                         waits, total, waiter>>
      BY <1>2, Zenon DEF HelloNeverCame, HelloRefused, waiting
    <2>2. faults' \in 0..MaxFaults
      BY <2>1, TunnelBounds DEF Typed
    <2> QED BY <2>1, <2>2 DEF Typed
  <1>3. CASE _receive_loop(c)
    <2>1. Head(up[c]) \in Answers /\ Tail(up[c]) \in Seq(Answers)
      BY <1>3 DEF _receive_loop, Typed
    <2>2. up' \in [Conns -> Seq(Answers)]
      BY <1>3, <2>1 DEF _receive_loop, Typed
    <2>3. mail' \in [Reqs -> Seq(Items)]
      <3>1. Head(up[c]).id \in Reqs /\ Head(up[c]).kind \in Items
        BY <2>1 DEF Answers, Items
      <3>2. Append(mail[Head(up[c]).id], Head(up[c]).kind) \in Seq(Items)
        BY <3>1 DEF Typed
      <3> QED BY <1>3, <3>2 DEF _receive_loop, Typed
    <2> QED BY <1>3, <2>2, <2>3 DEF _receive_loop, waiting, Typed
  <1>4. CASE HelperEnds(c)
    BY <1>4 DEF HelperEnds, waiting, Typed
  <1>5. CASE _ping_loop(c)
    BY <1>5, DownTyped, TunnelBounds DEF _ping_loop, waiting, Typed
  <1>6. CASE deregister(c)
    <2>1. CASE sessions # c
      BY <1>6, <2>1 DEF deregister, waiting, Typed
    <2>2. CASE sessions = c
      <3>1. mail' = Aborted(c) /\ inFlight' = [inFlight EXCEPT ![c] = {}] /\ Retire(c)
        BY <1>6, <2>2 DEF deregister
      <3>2. /\ mail' \in [Reqs -> Seq(Items)] /\ inFlight' \in [Conns -> SUBSET Reqs]
            /\ link' \in [Conns -> {"none", "up", "down"}]
            /\ down' \in [Conns -> Seq(Orders)] /\ up' \in [Conns -> Seq(Answers)]
        BY <3>1, EndedTyped
      <3> QED BY <1>6, <2>2, <3>2, TunnelBounds DEF deregister, waiting, Typed
    <2> QED BY <2>1, <2>2
  <1>7. CASE HelloFails(c)
    <2>0. faults' \in 0..MaxFaults
      BY <1>7, TunnelBounds DEF HelloFails, Typed
    <2>1. CASE sessions = 0
      BY <1>7, <2>0, <2>1 DEF HelloFails, waiting, Typed
    <2>2. CASE sessions # 0
      <3>1. sessions \in Conns
        BY <2>2, TunnelBounds DEF Typed, Conns
      <3>2. mail' = Aborted(sessions) /\ inFlight' = [inFlight EXCEPT ![sessions] = {}] /\ Retire(sessions)
        BY <1>7, <2>2 DEF HelloFails
      <3>3. /\ mail' \in [Reqs -> Seq(Items)] /\ inFlight' \in [Conns -> SUBSET Reqs]
            /\ link' \in [Conns -> {"none", "up", "down"}]
            /\ down' \in [Conns -> Seq(Orders)] /\ up' \in [Conns -> Seq(Answers)]
        BY <3>1, <3>2, EndedTyped
      <3> QED BY <1>7, <2>0, <2>2, <3>3, TunnelBounds DEF HelloFails, waiting, Typed
    <2> QED BY <2>1, <2>2
  <1>8. CASE HandlerReturned(c)
    BY <1>8, DownTyped DEF HandlerReturned, server, waiting, Typed
  <1> QED BY <1>1, <1>2, <1>3, <1>4, <1>5, <1>6, <1>7, <1>8 DEF RouteStep

\* What a caller does to its own record and place, as whole records.
CallGoes(q, p) ==
    /\ call' = CallAt(q, p, call[q].session, call[q].got)
    /\ UNCHANGED inFlight
CallEnds(q, p) ==
    /\ call' = CallAt(q, p, call[q].session, call[q].got)
    /\ inFlight' = [inFlight EXCEPT ![call[q].session] = @ \ {q}]

\* Settle is the end of the call.
LEMMA SettleIs ==
  ASSUME Typed, NEW q \in Reqs, NEW p, Settle(q, p)
  PROVE  CallEnds(q, p)
  BY CallFields, Zenon DEF Settle, CloseRequest, CallEnds

\* A call that goes on or ends keeps the types.
LEMMA CallEndsTyped ==
  ASSUME Typed, NEW q \in Reqs, NEW p \in {"sending", "head", "stream", "closing"} \cup Settled,
         CallEnds(q, p) \/ CallGoes(q, p)
  PROVE  call' \in [Reqs -> CallRecords] /\ inFlight' \in [Conns -> SUBSET Reqs]
  <1>1. call[q] \in CallRecords /\ [pc |-> p, session |-> call[q].session, got |-> call[q].got] \in CallRecords
    BY DEF Typed, CallRecords
  <1>2. call' \in [Reqs -> CallRecords]
    BY <1>1 DEF Typed, CallEnds, CallGoes, CallAt
  <1>3. inFlight' \in [Conns -> SUBSET Reqs]
    <2>1. CASE call[q].session \in Conns
      <3>1. inFlight[call[q].session] \ {q} \in SUBSET Reqs
        BY <2>1 DEF Typed
      <3> QED BY <2>1, <3>1 DEF Typed, CallEnds, CallGoes
    <2>2. CASE call[q].session \notin Conns
      BY <2>2 DEF Typed, CallEnds, CallGoes
    <2> QED BY <2>1, <2>2
  <1> QED BY <1>2, <1>3

\* What a caller's action does, with whole records for the updates of a field.
LEMMA CallerIs ==
  ASSUME Typed, NEW q \in Reqs
  PROVE  /\ handle_async_request(q) /\ sessions = 0 => CallGoes(q, "failed")
         /\ send_text(q) =>
              \/ /\ sessions = call[q].session
                 /\ \/ call[q].pc = "sending" /\ CallGoes(q, "head")
                    \/ call[q].pc # "sending" /\ UNCHANGED <<call, inFlight>>
              \/ /\ sessions # call[q].session /\ UNCHANGED down
                 /\ \/ call[q].pc = "sending" /\ CallEnds(q, "failed")
                    \/ call[q].pc # "sending" /\ UNCHANGED <<call, inFlight>>
         /\ AwaitHead(q) => \/ Head(mail[q]) = "head" /\ CallGoes(q, "stream")
                            \/ Head(mail[q]) = "abort" /\ CallEnds(q, "failed")
         /\ __aiter__(q) =>
              /\ mail[q] # <<>> /\ call[q].pc = "stream"
              /\ UNCHANGED <<sessions, handler, link, up, down, serving, task, waits, total, waiter, faults, asked, leaving>>
              /\ \/ /\ Head(mail[q]) = "body" /\ mail' = [mail EXCEPT ![q] = Tail(mail[q])]
                    /\ call' = CallAt(q, "stream", call[q].session, call[q].got + 1) /\ UNCHANGED inFlight
                 \/ /\ Head(mail[q]) = "end" /\ mail' = [mail EXCEPT ![q] = Tail(mail[q])]
                    /\ CallEnds(q, "ok")
                 \/ CallEnds(q, "failed") /\ mail' = mail
         /\ CancelledInAwait(q) => CallEnds(q, "cancelled")
         /\ aclose(q) => CallGoes(q, "closing") \/ CallEnds(q, "cancelled")
         /\ AcloseReturns(q) => CallEnds(q, "cancelled")
         /\ AcloseCancelled(q) => CallGoes(q, "torn")
  <1>1. handle_async_request(q) /\ sessions = 0 => CallGoes(q, "failed")
    BY CallFields, Zenon DEF handle_async_request, CallGoes
  <1>2. send_text(q) =>
          \/ /\ sessions = call[q].session
             /\ \/ call[q].pc = "sending" /\ CallGoes(q, "head")
                \/ call[q].pc # "sending" /\ UNCHANGED <<call, inFlight>>
          \/ /\ sessions # call[q].session /\ UNCHANGED down
             /\ \/ call[q].pc = "sending" /\ CallEnds(q, "failed")
                \/ call[q].pc # "sending" /\ UNCHANGED <<call, inFlight>>
    BY CallFields, SettleIs, Zenon DEF send_text, CallGoes
  <1>3. AwaitHead(q) => \/ Head(mail[q]) = "head" /\ CallGoes(q, "stream")
                        \/ Head(mail[q]) = "abort" /\ CallEnds(q, "failed")
    BY CallFields, SettleIs, Zenon DEF AwaitHead, CallGoes
  <1>4. __aiter__(q) =>
          /\ mail[q] # <<>> /\ call[q].pc = "stream"
          /\ UNCHANGED <<sessions, handler, link, up, down, serving, task, waits, total, waiter, faults, asked, leaving>>
          /\ \/ /\ Head(mail[q]) = "body" /\ mail' = [mail EXCEPT ![q] = Tail(mail[q])]
                /\ call' = CallAt(q, "stream", call[q].session, call[q].got + 1) /\ UNCHANGED inFlight
             \/ /\ Head(mail[q]) = "end" /\ mail' = [mail EXCEPT ![q] = Tail(mail[q])]
                /\ CallEnds(q, "ok")
             \/ CallEnds(q, "failed") /\ mail' = mail
    BY CallFields, SettleIs, Zenon DEF __aiter__, CallStep, waiting
  <1>5. /\ CancelledInAwait(q) => CallEnds(q, "cancelled")
        /\ AcloseReturns(q) => CallEnds(q, "cancelled")
    BY SettleIs, Zenon DEF CancelledInAwait, AcloseReturns
  <1>6. aclose(q) => CallGoes(q, "closing") \/ CallEnds(q, "cancelled")
    BY CallFields, SettleIs, Zenon DEF aclose, CallGoes
  <1>7. AcloseCancelled(q) => CallGoes(q, "torn")
    BY CallFields, Zenon DEF AcloseCancelled, CallGoes
  <1> QED BY <1>1, <1>2, <1>3, <1>4, <1>5, <1>6, <1>7, Zenon

\* The steps of a caller keep the types.
LEMMA CallerTyped ==
  ASSUME Typed, NEW q \in Reqs, Caller(q)
  PROVE  Typed'
  <1> USE DEF CallStep, waiting
  <1>1. CASE handle_async_request(q)
    <2>1. CASE sessions = 0
      <3>1. CallGoes(q, "failed")
        BY <1>1, <2>1, CallerIs, Zenon
      <3> QED BY <1>1, <2>1, <3>1, CallEndsTyped DEF handle_async_request, Typed, Settled
    <2>2. CASE sessions # 0
      <3>1. [pc |-> "sending", session |-> sessions, got |-> 0] \in CallRecords
        BY DEF Typed, CallRecords
      <3>2. call' \in [Reqs -> CallRecords]
        BY <1>1, <2>2, <3>1 DEF handle_async_request, Typed
      <3>3. sessions \in Conns /\ inFlight[sessions] \cup {q} \in SUBSET Reqs
        BY <2>2, TunnelBounds DEF Typed, Conns
      <3>4. inFlight' \in [Conns -> SUBSET Reqs]
        <4>1. inFlight' = [inFlight EXCEPT ![sessions] = inFlight[sessions] \cup {q}]
          BY <1>1, <2>2 DEF handle_async_request
        <4> QED BY <3>3, <4>1 DEF Typed
      <3> QED BY <1>1, <2>2, <3>2, <3>4 DEF handle_async_request, Typed
    <2> QED BY <2>1, <2>2
  <1>2. CASE send_text(q)
    <2>1. /\ asked' \in SUBSET Reqs
          /\ UNCHANGED <<sessions, handler, link, up, serving, task, waits, total, waiter, faults, mail, leaving>>
      BY <1>2 DEF send_text, Typed
    <2>2. down' \in [Conns -> Seq(Orders)]
      <3>1. Frame("request", q) \in Orders
        BY DEF Frame, Orders
      <3>2. CASE call[q].session \in Conns
        <4>1. Append(down[call[q].session], Frame("request", q)) \in Seq(Orders)
          BY <3>1, <3>2 DEF Typed
        <4> QED BY <1>2, <3>2, <4>1 DEF send_text, Typed
      <3>3. CASE call[q].session \notin Conns
        BY <1>2, <3>3 DEF send_text, Typed
      <3> QED BY <3>2, <3>3
    <2>3. CallGoes(q, "head") \/ CallEnds(q, "failed") \/ UNCHANGED <<call, inFlight>>
      BY <1>2, CallerIs, Zenon
    <2>4. call' \in [Reqs -> CallRecords] /\ inFlight' \in [Conns -> SUBSET Reqs]
      BY <2>3, CallEndsTyped DEF Typed, Settled
    <2> QED BY <2>1, <2>2, <2>4 DEF Typed
  <1>3. CASE AwaitHead(q)
    <2>1. mail' \in [Reqs -> Seq(Items)]
      BY <1>3 DEF AwaitHead, Typed
    <2>2. CallGoes(q, "stream") \/ CallEnds(q, "failed")
      BY <1>3, CallerIs, Zenon
    <2>3. call' \in [Reqs -> CallRecords] /\ inFlight' \in [Conns -> SUBSET Reqs]
      BY <2>2, CallEndsTyped DEF Settled
    <2>4. UNCHANGED <<sessions, handler, link, up, down, serving, task, waits, total, waiter, faults, asked, leaving>>
      BY <1>3, Zenon DEF AwaitHead
    <2> QED BY <2>1, <2>3, <2>4 DEF Typed
  <1>4. CASE __aiter__(q)
    <2>1. /\ mail[q] # <<>>
          /\ mail' = [mail EXCEPT ![q] = Tail(mail[q])] \/ mail' = mail
      BY <1>4, CallerIs, Zenon
    <2>2. Tail(mail[q]) \in Seq(Items)
      BY <2>1 DEF Typed
    <2>3. mail' \in [Reqs -> Seq(Items)]
      BY <2>1, <2>2 DEF Typed
    <2>4. \/ /\ call' = CallAt(q, "stream", call[q].session, call[q].got + 1)
             /\ UNCHANGED inFlight
          \/ CallEnds(q, "ok") \/ CallEnds(q, "failed")
      BY <1>4, CallerIs, Zenon
    <2>5. call' \in [Reqs -> CallRecords] /\ inFlight' \in [Conns -> SUBSET Reqs]
      <3>1. [pc |-> "stream", session |-> call[q].session, got |-> call[q].got + 1] \in CallRecords
        BY DEF Typed, CallRecords
      <3> QED BY <2>4, <3>1, CallEndsTyped DEF Settled, Typed, CallAt
    <2>6. UNCHANGED <<sessions, handler, link, up, down, serving, task, waits, total, waiter, faults, asked, leaving>>
      BY <1>4, CallerIs, Zenon
    <2> QED BY <2>3, <2>5, <2>6 DEF Typed
  <1>5. CASE CancelledInAwait(q)
    <2>1. CallEnds(q, "cancelled")
      BY <1>5, CallerIs, Zenon
    <2> QED BY <1>5, <2>1, CallEndsTyped DEF CancelledInAwait, Typed, Settled
  <1>6. CASE aclose(q)
    <2>1. CallGoes(q, "closing") \/ CallEnds(q, "cancelled")
      BY <1>6, CallerIs, Zenon
    <2>2. call' \in [Reqs -> CallRecords] /\ inFlight' \in [Conns -> SUBSET Reqs]
      BY <2>1, CallEndsTyped DEF Settled
    <2>3. leaving' \in SUBSET Reqs
      BY <1>6 DEF aclose, Typed
    <2> QED BY <1>6, <2>2, <2>3 DEF aclose, Typed
  <1>7. CASE CancelGoesOut(q)
    <2>1. down' \in [Conns -> Seq(Orders)]
      <3>1. Frame("cancel", q) \in Orders
        BY DEF Frame, Orders
      <3>2. CASE call[q].session \in Conns
        <4>1. Append(down[call[q].session], Frame("cancel", q)) \in Seq(Orders)
          BY <3>1, <3>2 DEF Typed
        <4> QED BY <1>7, <3>2, <4>1 DEF CancelGoesOut, Typed
      <3>3. CASE call[q].session \notin Conns
        BY <1>7, <3>3 DEF CancelGoesOut, Typed
      <3> QED BY <3>2, <3>3
    <2> QED BY <1>7, <2>1 DEF CancelGoesOut, Typed
  <1>8. CASE AcloseReturns(q)
    <2>1. CallEnds(q, "cancelled")
      BY <1>8, CallerIs, Zenon
    <2> QED BY <1>8, <2>1, CallEndsTyped DEF AcloseReturns, Typed, Settled
  <1>9. CASE AcloseCancelled(q)
    <2>1. CallGoes(q, "torn")
      BY <1>9, CallerIs, Zenon
    <2> QED BY <1>9, <2>1, CallEndsTyped DEF AcloseCancelled, Typed, Settled
  <1> QED BY <1>1, <1>2, <1>3, <1>4, <1>5, <1>6, <1>7, <1>8, <1>9 DEF Caller

\* The steps of wait_for_runner keep the types.
LEMMA WaiterTyped ==
  ASSUME Typed, NEW w \in Waiters, Waiter(w)
  PROVE  Typed'
  BY DEF Waiter, wait_for_runner, WaiterWakes, WaiterTimesOut, WaitStep, server, Typed

\* What the runner's action does to a task, with whole records.
LEMMA RunnerIs ==
  ASSUME Typed, NEW q \in Reqs
  PROVE  /\ SendHead(q) => task' = TaskAt(q, "body", task[q].sent)
         /\ SendBody(q) => task' = TaskAt(q, task[q].st, task[q].sent + 1)
         /\ SendEnd(q)  => task' = TaskAt(q, "ended", task[q].sent)
         /\ DispatchFails(q) /\ task[q].st = "run" => task' = TaskAt(q, "ended", 1)
         /\ DispatchFails(q) /\ task[q].st # "run" => task' = TaskAt(q, "ended", task[q].sent)
  BY TaskFields, Zenon DEF SendHead, SendBody, SendEnd, DispatchFails, TaskAt

\* What a frame does to the task of its request, with whole records.
LEMMA FrameIs ==
  ASSUME Typed, NEW c \in Conns, _handle_tunnel_frame(c)
  PROVE  /\ Head(down[c]) \in Orders /\ Tail(down[c]) \in Seq(Orders)
         /\ LET f == Head(down[c]) IN
            \/ f.kind = "request" /\ task' = TaskAt(f.id, "run", task[f.id].sent)
            \/ /\ f.kind = "cancel" /\ task[f.id].st \in Running
               /\ task' = TaskAt(f.id, "stopped", task[f.id].sent)
            \/ f.kind # "request" /\ task' = task
  <1>1. Head(down[c]) \in Orders /\ Tail(down[c]) \in Seq(Orders)
    BY DEF _handle_tunnel_frame, Typed
  <1>2. Head(down[c]).id \in Reqs
    BY <1>1 DEF Orders
  <1> DEFINE f == Head(down[c])
  <1>3. \/ f.kind = "request" /\ task' = [task EXCEPT ![f.id].st = "run"]
        \/ f.kind = "cancel" /\ task[f.id].st \in Running /\ task' = [task EXCEPT ![f.id].st = "stopped"]
        \/ f.kind # "request" /\ task' = task
    BY Zenon DEF _handle_tunnel_frame
  <1> QED BY <1>1, <1>2, <1>3, TaskFields, Zenon

\* What the end of a connection does to its tasks.
LEMMA StoppedIs ==
  ASSUME Typed, NEW c \in Conns, ConnectionEnds(c)
  PROVE  task' = [q \in Reqs |-> IF task[q].st \in Running THEN [st |-> "stopped", sent |-> task[q].sent] ELSE task[q]]
  <1>1. \A r \in TaskRecords : [r EXCEPT !.st = "stopped"] = [st |-> "stopped", sent |-> r.sent]
    BY DEF TaskRecords
  <1>2. \A q \in Reqs : task[q] \in TaskRecords
    BY DEF Typed
  <1>3. \A q \in Reqs : [task[q] EXCEPT !.st = "stopped"] = [st |-> "stopped", sent |-> task[q].sent]
    BY <1>1, <1>2, Zenon
  <1>4. \A q \in Reqs : (IF task[q].st \in Running THEN [task[q] EXCEPT !.st = "stopped"] ELSE task[q])
                         = (IF task[q].st \in Running THEN [st |-> "stopped", sent |-> task[q].sent] ELSE task[q])
    BY <1>3, Zenon
  <1> QED BY <1>4, Zenon DEF ConnectionEnds

\* What is said to the runner's socket is kept or lost as a whole.
LEMMA SayIs ==
  ASSUME Typed, NEW q \in Reqs, serving # 0
  PROVE  /\ serving \in Conns
         /\ \A k \in {"head", "body", "end"} : Frame(k, q) \in Answers
         /\ \A a \in Answers : Say(q, <<a>>) =>
              up' = [up EXCEPT ![serving] = IF link[serving] = "up" THEN Append(up[serving], a) ELSE up[serving]]
         /\ \A a, b, e \in Answers : Say(q, <<a, b, e>>) =>
              up' = [up EXCEPT ![serving] = IF link[serving] = "up"
                                            THEN Append(Append(Append(up[serving], a), b), e) ELSE up[serving]]
  <1>1. serving \in Conns /\ up[serving] \in Seq(Answers)
    BY TunnelBounds DEF Typed, Conns
  <1>2. \A k \in {"head", "body", "end"} : Frame(k, q) \in Answers
    BY DEF Frame, Answers
  <1>3. \A a \in Answers : up[serving] \o <<a>> = Append(up[serving], a)
    BY <1>1, ConcatOne
  <1>4. \A a, b, e \in Answers : up[serving] \o <<a, b, e>> = Append(Append(Append(up[serving], a), b), e)
    <2>1. ASSUME NEW a \in Answers, NEW b \in Answers, NEW e \in Answers
          PROVE  up[serving] \o <<a, b, e>> = Append(Append(Append(up[serving], a), b), e)
      <3> DEFINE s == up[serving]
      <3>1. s \in Seq(Answers)
        BY <1>1
      <3> HIDE DEF s
      <3>2. s \o <<a, b, e>> = Append(Append(Append(s, a), b), e)
        BY <3>1
      <3> QED BY <3>2 DEF s
    <2> QED BY <2>1, Zenon
  <1> QED BY <1>1, <1>2, <1>3, <1>4, Zenon DEF Say

\* The steps of the runner keep the types.
LEMMA RunnerTyped ==
  ASSUME Typed, Runner
  PROVE  Typed'
  <1> USE TunnelBounds DEF RunnerStep, waiting
  <1>1. ASSUME NEW c \in Conns, serve_tunnel(c)  PROVE Typed'
    BY <1>1 DEF serve_tunnel, Typed, Conns
  <1>2. ASSUME NEW c \in Conns, _handle_tunnel_frame(c)  PROVE Typed'
    <2>1. task' \in [Reqs -> TaskRecords]
      <3>1. Head(down[c]).id \in Reqs
        BY <1>2, FrameIs DEF Orders
      <3>2. \A s \in {"run", "stopped"} : [st |-> s, sent |-> task[Head(down[c]).id].sent] \in TaskRecords
        BY <3>1 DEF Typed, TaskRecords
      <3> QED BY <1>2, <3>1, <3>2, FrameIs DEF Typed, TaskAt
    <2>2. down' \in [Conns -> Seq(Orders)]
      BY <1>2, FrameIs DEF _handle_tunnel_frame, Typed
    <2>3. UNCHANGED <<sessions, inFlight, call, asked, leaving, mail, waits, total, waiter, handler, link, up, serving, faults>>
      BY <1>2, Zenon DEF _handle_tunnel_frame
    <2> QED BY <2>1, <2>2, <2>3 DEF Typed
  <1>3. ASSUME NEW c \in Conns, ConnectionEnds(c)  PROVE Typed'
    <2>1. task' \in [Reqs -> TaskRecords]
      BY <1>3, StoppedIs DEF Typed, TaskRecords
    <2>2. serving' = 0 /\ UNCHANGED <<sessions, inFlight, call, asked, leaving, mail, waits, total, waiter, handler, link, down, up, faults>>
      BY <1>3, Zenon DEF ConnectionEnds
    <2> QED BY <2>1, <2>2 DEF Typed
  <1>4. ASSUME NEW c \in Conns, LinkDrops(c)  PROVE Typed'
    BY <1>4, DownTyped DEF LinkDrops, server, Typed
  <1>5. ASSUME NEW q \in Reqs, SendHead(q) \/ SendBody(q) \/ SendEnd(q) \/ DispatchFails(q)  PROVE Typed'
    <2>1. /\ serving # 0
          /\ UNCHANGED <<sessions, inFlight, call, asked, leaving, mail, waits, total, waiter, handler, link, down, serving>>
          /\ \/ \E k \in {"head", "body", "end"} : Say(q, <<Frame(k, q)>>)
             \/ Say(q, <<Frame("head", q), Frame("body", q), Frame("end", q)>>)
      BY <1>5, Zenon DEF SendHead, SendBody, SendEnd, DispatchFails
    <2>2. up' \in [Conns -> Seq(Answers)]
      <3>1. \A a \in Answers : Append(up[serving], a) \in Seq(Answers)
        BY <2>1, SayIs DEF Typed
      <3>2. \A a, b, e \in Answers : Append(Append(Append(up[serving], a), b), e) \in Seq(Answers)
        BY <2>1, SayIs DEF Typed
      <3>3. PICK s \in Seq(Answers) : up' = [up EXCEPT ![serving] = s]
        <4>1. up[serving] \in Seq(Answers)
          BY <2>1, SayIs DEF Typed
        <4>2. CASE \E k \in {"head", "body", "end"} : Say(q, <<Frame(k, q)>>)
          BY <2>1, <3>1, <4>1, <4>2, SayIs
        <4>3. CASE Say(q, <<Frame("head", q), Frame("body", q), Frame("end", q)>>)
          <5> DEFINE t == Append(Append(Append(up[serving], Frame("head", q)), Frame("body", q)), Frame("end", q))
          <5>1. t \in Seq(Answers)
            BY <2>1, <3>2, SayIs
          <5>2. up' = [up EXCEPT ![serving] = IF link[serving] = "up" THEN t ELSE up[serving]]
            BY <2>1, <4>3, SayIs
          <5> HIDE DEF t
          <5> QED BY <4>1, <5>1, <5>2
        <4> QED BY <2>1, <4>2, <4>3
      <3> QED BY <3>3 DEF Typed
    <2>3. task' \in [Reqs -> TaskRecords]
      <3>1. /\ [st |-> "body", sent |-> task[q].sent] \in TaskRecords
            /\ [st |-> "ended", sent |-> task[q].sent] \in TaskRecords
            /\ [st |-> "ended", sent |-> 1] \in TaskRecords
            /\ task[q].sent < MaxChunks => [st |-> task[q].st, sent |-> task[q].sent + 1] \in TaskRecords
        BY DEF Typed, TaskRecords
      <3>2. SendBody(q) => task[q].sent < MaxChunks
        BY Zenon DEF SendBody
      <3> QED BY <1>5, <3>1, <3>2, RunnerIs DEF Typed, TaskAt
    <2>4. faults' \in 0..MaxFaults
      <3>1. UNCHANGED faults \/ (faults < MaxFaults /\ faults' = faults + 1)
        BY <1>5, Zenon DEF SendHead, SendBody, SendEnd, DispatchFails
      <3> QED BY <3>1 DEF Typed
    <2> QED BY <2>1, <2>2, <2>3, <2>4 DEF Typed
  <1> QED BY <1>1, <1>2, <1>3, <1>4, <1>5, Zenon DEF Runner

\* Every step keeps the types.
LEMMA TypedStep ==
  ASSUME Typed, [TNext]_tvars
  PROVE  Typed'
  <1>1. CASE UNCHANGED tvars
    BY <1>1 DEF tvars, server, waiting, Typed
  <1> QED BY <1>1, RouteTyped, CallerTyped, WaiterTyped, RunnerTyped, Zenon DEF TNext

-----------------------------------------------------------------------------
(***************************************************************************)
(* Nobody is left to hang and nothing leaks.                               *)
(***************************************************************************)
\* A caller that goes on awaits as before; one that ends leaves in_flight.
LEMMA CallGoesKeeps ==
  ASSUME RegistryInv, NEW q \in Reqs, NEW p, call[q].pc \in Holding, UNCHANGED <<sessions, handler>>,
         p \in Awaiting => call[q].pc \in Awaiting,
         \/ p \in Holding /\ CallGoes(q, p)
         \/ p = "stream" /\ call' = CallAt(q, p, call[q].session, call[q].got + 1) /\ UNCHANGED inFlight
         \/ p \in Ends /\ CallEnds(q, p),
         \A r \in Reqs : Has(mail[r], "abort") /\ (r # q \/ p \in Awaiting) => Has(mail'[r], "abort")
  PROVE  (Sessioned /\ Registered /\ NothingLeaks /\ NobodyHangs)'
  <1> USE DEF RegistryInv, Awaiting, Holding, Ends
  <1>1. /\ \A r \in Reqs : r # q => call'[r] = call[r]
        /\ call'[q].pc = p /\ call'[q].session = call[q].session
    BY DEF Typed, CallGoes, CallEnds, CallAt, CallRecords
  <1>2. call[q].session \in Conns
    BY DEF Typed, Sessioned, CallRecords, Conns
  <1>3. /\ p \in Holding => inFlight' = inFlight
        /\ p \in Ends => inFlight' = [inFlight EXCEPT ![call[q].session] = inFlight[call[q].session] \ {q}]
    BY DEF CallGoes, CallEnds
  <1>4. p \in Holding \/ p \in Ends
    OBVIOUS
  <1>5. Sessioned' /\ Registered'
    BY <1>1 DEF Sessioned, Registered
  <1>6. NothingLeaks'
    <2>1. SUFFICES ASSUME NEW c \in Conns, NEW r \in inFlight'[c]
                   PROVE  c = sessions /\ call'[r].session = c /\ call'[r].pc \in Holding
      BY DEF NothingLeaks
    <2>2. inFlight \in [Conns -> SUBSET Reqs]
      BY DEF Typed
    <2>3. r \in inFlight[c] /\ r \in Reqs
      BY <1>2, <1>3, <1>4, <2>1, <2>2
    <2>4. c = sessions /\ call[r].session = c /\ call[r].pc \in Holding
      BY <2>3 DEF NothingLeaks
    <2>5. r = q => p \in Holding
      BY <1>2, <1>3, <1>4, <2>1, <2>2, <2>4
    <2> QED BY <1>1, <2>3, <2>4, <2>5
  <1>7. NobodyHangs'
    <2>1. SUFFICES ASSUME NEW r \in Reqs, call'[r].pc \in Awaiting
                   PROVE  (call'[r].session = sessions' /\ r \in inFlight'[sessions']) \/ Has(mail'[r], "abort")
      BY DEF NobodyHangs, Has
    <2>2. (call[r].session = sessions /\ r \in inFlight[sessions]) \/ Has(mail[r], "abort")
      BY <1>1, <2>1 DEF NobodyHangs, Has
    <2>3. r # q \/ p \in Awaiting
      BY <1>1, <2>1
    <2>4. CASE Has(mail[r], "abort")
      BY <2>3, <2>4
    <2>5. CASE call[r].session = sessions /\ r \in inFlight[sessions]
      <3>1. inFlight \in [Conns -> SUBSET Reqs]
        BY DEF Typed
      <3>2. r \in inFlight'[sessions]
        <4>1. sessions \in Conns
          <5>1. call[r].pc \in Awaiting
            BY <1>1, <2>1
          <5>2. sessions # 0
            BY <2>5, <5>1 DEF Sessioned
          <5> QED BY <5>2, TunnelBounds DEF Typed, Conns
        <4> QED BY <1>2, <1>3, <1>4, <2>3, <2>5, <3>1, <4>1
      <3> QED BY <1>1, <2>5, <3>2
    <2> QED BY <2>2, <2>4, <2>5
  <1> QED BY <1>5, <1>6, <1>7

\* A step that leaves the calls, in_flight and the registry alone and takes no abort away.
LEMMA CallsUntouched ==
  ASSUME RegistryInv, UNCHANGED <<sessions, inFlight, call>>,
         \A r \in Reqs : Has(mail[r], "abort") => Has(mail'[r], "abort"),
         sessions # 0 => handler'[sessions] \in {"serving", "closing"}
  PROVE  (Sessioned /\ Registered /\ NothingLeaks /\ NobodyHangs)'
  BY DEF RegistryInv, Sessioned, Registered, NothingLeaks, NobodyHangs, Has

\* A generation that ends, or is replaced, takes its requests along.
LEMMA GenerationEnds ==
  ASSUME RegistryInv, sessions # 0, UNCHANGED call,
         mail' = Aborted(sessions), inFlight' = [inFlight EXCEPT ![sessions] = {}]
  PROVE  (Sessioned /\ NothingLeaks /\ NobodyHangs)'
  <1>1. sessions \in Conns
    BY TunnelBounds DEF RegistryInv, Typed, Conns
  <1>2. \A c \in Conns : inFlight'[c] = {}
    BY <1>1 DEF RegistryInv, Typed, NothingLeaks
  <1>3. NobodyHangs'
    BY <1>1, AbortedMail DEF RegistryInv, NobodyHangs, Has
  <1> QED BY <1>2, <1>3 DEF RegistryInv, Sessioned, NothingLeaks

\* Every step of the system keeps what the registry promises.
LEMMA RegistryStep ==
  ASSUME RegistryInv, [TNext]_tvars
  PROVE  RegistryInv'
  <1> DEFINE Rest == Sessioned /\ Registered /\ NothingLeaks /\ NobodyHangs
  <1>0. Typed
    BY DEF RegistryInv
  <1>1. ASSUME NEW c \in Conns, register(c)  PROVE Rest'
    <2>1. Registered'
      BY <1>0, <1>1 DEF register, Registered, Typed
    <2>2. CASE sessions = 0
      <3>1. UNCHANGED <<inFlight, call, mail>> /\ sessions' = c /\ c # 0
        BY <1>1, <2>2 DEF register, Conns
      <3>2. \A d \in Conns : inFlight[d] = {}
        BY <2>2 DEF RegistryInv, NothingLeaks, Conns
      <3>3. NobodyHangs'
        BY <2>2, <3>1 DEF RegistryInv, NobodyHangs, Sessioned, Holding
      <3> QED BY <2>1, <3>1, <3>2, <3>3 DEF RegistryInv, Sessioned, NothingLeaks
    <2>3. CASE sessions # 0
      BY <1>1, <2>1, <2>3, GenerationEnds DEF register
    <2> QED BY <2>2, <2>3
  <1>2. ASSUME NEW c \in Conns,
               HelloNeverCame(c) \/ HelloRefused(c) \/ HandlerReturned(c) \/ HelperEnds(c) \/ _ping_loop(c)
        PROVE  Rest'
    <2>1. UNCHANGED <<sessions, inFlight, call, mail>>
      BY <1>2, Zenon DEF HelloNeverCame, HelloRefused, HandlerReturned, server, HelperEnds, _ping_loop
    <2>2. sessions # 0 => handler'[sessions] \in {"serving", "closing"}
      <3>1. \/ handler[c] = "hello" /\ handler' = [handler EXCEPT ![c] = "done"]
            \/ handler' = [handler EXCEPT ![c] = "closing"]
            \/ handler' = handler
        BY <1>2, Zenon DEF HelloNeverCame, HelloRefused, HandlerReturned, server, HelperEnds, _ping_loop
      <3> QED BY <1>0, <3>1, TunnelBounds DEF RegistryInv, Registered, Typed, Conns
    <2> QED BY <2>1, <2>2, CallsUntouched
  <1>3. ASSUME NEW c \in Conns, _receive_loop(c)  PROVE Rest'
    <2>1. sessions # 0 => handler'[sessions] \in {"serving", "closing"}
      <3>1. handler' = handler \/ handler' = [handler EXCEPT ![c] = "closing"]
        BY <1>3, Zenon DEF _receive_loop
      <3> QED BY <1>0, <3>1, TunnelBounds DEF RegistryInv, Registered, Typed, Conns
    <2>2. \A r \in Reqs : Has(mail[r], "abort") => Has(mail'[r], "abort")
      <3>1. Head(up[c]) \in Answers
        BY <1>0, <1>3 DEF _receive_loop, Typed
      <3>2. Head(up[c]).id \in Reqs /\ Head(up[c]).kind \in Items
        BY <3>1 DEF Answers, Items
      <3>3. mail[Head(up[c]).id] \in Seq(Items)
        BY <1>0, <3>2 DEF Typed
      <3>4. Has(mail[Head(up[c]).id], "abort") => Has(Append(mail[Head(up[c]).id], Head(up[c]).kind), "abort")
        BY <3>2, <3>3, HasAppend
      <3> QED BY <1>0, <1>3, <3>2, <3>4 DEF _receive_loop, Typed
    <2> QED BY <1>3, <2>1, <2>2, CallsUntouched DEF _receive_loop
  <1>4. ASSUME NEW c \in Conns, deregister(c)  PROVE Rest'
    <2>1. CASE sessions # c
      <3>1. sessions # 0 => handler'[sessions] \in {"serving", "closing"}
        BY <1>0, <1>4, <2>1 DEF deregister, RegistryInv, Registered, Typed, Conns
      <3> QED BY <1>4, <2>1, <3>1, CallsUntouched DEF deregister
    <2>2. CASE sessions = c
      BY <1>4, <2>2, GenerationEnds DEF deregister, Registered, Conns
    <2> QED BY <2>1, <2>2
  <1>4a. ASSUME NEW c \in Conns, HelloFails(c)  PROVE Rest'
    <2>1. CASE sessions = 0
      BY <1>4a, <2>1, CallsUntouched DEF HelloFails
    <2>2. CASE sessions # 0
      BY <1>4a, <2>2, GenerationEnds DEF HelloFails, Registered
    <2> QED BY <2>1, <2>2
  <1>5. ASSUME NEW q \in Reqs, handle_async_request(q)  PROVE Rest'
    <2>1. UNCHANGED <<sessions, handler, mail>> /\ call[q].pc = "idle"
      BY <1>5 DEF handle_async_request, CallStep
    <2>2. CASE sessions = 0
      <3>1. /\ \A r \in Reqs : r # q => call'[r] = call[r]
            /\ call'[q].pc = "failed" /\ UNCHANGED inFlight
        BY <1>0, <1>5, <2>2, CallerIs DEF CallGoes, CallAt, Typed, CallRecords
      <3>2. (Sessioned /\ Registered)'
        BY <2>1, <2>2, <3>1 DEF RegistryInv, Sessioned, Registered, Holding
      <3>3. NothingLeaks'
        BY <2>1, <2>2, <3>1 DEF RegistryInv, NothingLeaks, Conns
      <3>4. NobodyHangs'
        BY <2>1, <3>1 DEF RegistryInv, NobodyHangs
      <3> QED BY <3>2, <3>3, <3>4
    <2>3. CASE sessions # 0
      <3>1. /\ \A r \in Reqs : r # q => call'[r] = call[r]
            /\ call'[q].pc = "sending" /\ call'[q].session = sessions
            /\ inFlight' = [inFlight EXCEPT ![sessions] = inFlight[sessions] \cup {q}]
        BY <1>0, <1>5, <2>3 DEF handle_async_request, Typed
      <3>2. sessions \in Conns
        BY <1>0, <2>3, TunnelBounds DEF Typed, Conns
      <3>3. NothingLeaks'
        BY <1>0, <2>1, <2>3, <3>1, <3>2 DEF RegistryInv, NothingLeaks, Typed
      <3>4. NobodyHangs'
        BY <1>0, <2>1, <2>3, <3>1, <3>2 DEF RegistryInv, NobodyHangs, Typed
      <3> QED BY <2>1, <2>3, <3>1, <3>3, <3>4 DEF RegistryInv, Sessioned, Registered, Holding
    <2> QED BY <2>2, <2>3
  <1>6. ASSUME NEW q \in Reqs, send_text(q)  PROVE Rest'
    <2>1. UNCHANGED <<sessions, handler, mail>>
      BY <1>6, Zenon DEF send_text, CallStep
    <2>2. \/ call[q].pc = "sending" /\ CallGoes(q, "head")
          \/ call[q].pc = "sending" /\ CallEnds(q, "failed")
          \/ UNCHANGED <<call, inFlight>>
      BY <1>0, <1>6, CallerIs, Zenon
    <2>3. CASE UNCHANGED <<call, inFlight>>
      BY <2>1, <2>3 DEF RegistryInv, Sessioned, Registered, NothingLeaks, NobodyHangs
    <2> QED BY <2>1, <2>2, <2>3, CallGoesKeeps DEF Awaiting, Holding, Ends
  <1>7. ASSUME NEW q \in Reqs, AwaitHead(q)  PROVE Rest'
    <2>1. UNCHANGED <<sessions, handler>> /\ call[q].pc = "head" /\ mail[q] # <<>>
          /\ mail' = [mail EXCEPT ![q] = Tail(mail[q])]
      BY <1>7, Zenon DEF AwaitHead, CallStep
    <2>2. \/ Head(mail[q]) = "head" /\ CallGoes(q, "stream")
          \/ CallEnds(q, "failed")
      BY <1>0, <1>7, CallerIs, Zenon
    <2>3. mail[q] \in Seq(Items)
      BY <1>0 DEF Typed
    <2>4. Head(mail[q]) = "head" /\ Has(mail[q], "abort") => Has(Tail(mail[q]), "abort")
      BY <2>1, <2>3, HasTail
    <2>5. CASE Head(mail[q]) = "head" /\ CallGoes(q, "stream")
      <3>1. \A r \in Reqs : Has(mail[r], "abort") => Has(mail'[r], "abort")
        BY <1>0, <2>1, <2>4, <2>5 DEF Typed
      <3> QED BY <2>1, <2>5, <3>1, CallGoesKeeps DEF Awaiting, Holding
    <2>6. CASE CallEnds(q, "failed")
      <3>1. \A r \in Reqs : Has(mail[r], "abort") /\ r # q => Has(mail'[r], "abort")
        BY <1>0, <2>1 DEF Typed
      <3> QED BY <2>1, <2>6, <3>1, CallGoesKeeps DEF Awaiting, Holding, Ends
    <2> QED BY <2>2, <2>5, <2>6
  <1>8. ASSUME NEW q \in Reqs, __aiter__(q)  PROVE Rest'
    <2>1. UNCHANGED <<sessions, handler>> /\ call[q].pc = "stream" /\ mail[q] # <<>>
      BY <1>0, <1>8, CallerIs, Zenon
    <2>2. mail[q] \in Seq(Items)
      BY <1>0 DEF Typed
    <2>3. CASE /\ Head(mail[q]) = "body" /\ mail' = [mail EXCEPT ![q] = Tail(mail[q])]
               /\ call' = CallAt(q, "stream", call[q].session, call[q].got + 1) /\ UNCHANGED inFlight
      <3>1. Has(mail[q], "abort") => Has(Tail(mail[q]), "abort")
        BY <2>1, <2>2, <2>3, HasTail
      <3> QED BY <1>0, <2>1, <2>3, <3>1, CallGoesKeeps DEF Awaiting, Holding, Typed
    <2>4. CASE /\ mail' = [mail EXCEPT ![q] = Tail(mail[q])] \/ mail' = mail
               /\ CallEnds(q, "ok") \/ CallEnds(q, "failed")
      <3>1. \A r \in Reqs : Has(mail[r], "abort") /\ r # q => Has(mail'[r], "abort")
        BY <1>0, <2>4 DEF Typed
      <3> QED BY <2>1, <2>4, <3>1, CallGoesKeeps DEF Awaiting, Holding, Ends
    <2> QED BY <1>0, <1>8, <2>3, <2>4, CallerIs, Zenon
  <1>9. ASSUME NEW q \in Reqs, CancelledInAwait(q) \/ aclose(q) \/ AcloseReturns(q) \/ AcloseCancelled(q)
        PROVE  Rest'
    <2>1. call[q].pc \in Holding /\ UNCHANGED <<sessions, handler, mail>>
      BY <1>9, Zenon DEF CancelledInAwait, aclose, AcloseReturns, AcloseCancelled, CallStep, Holding
    <2>2. PICK p \in {"closing", "torn", "cancelled"} :
            (p \in Holding /\ CallGoes(q, p)) \/ (p \in Ends /\ CallEnds(q, p))
      <3>1. "closing" \in Holding /\ "torn" \in Holding /\ "cancelled" \in Ends
        BY DEF Holding, Ends
      <3> QED BY <1>0, <1>9, <3>1, CallerIs, Zenon
    <2>3. p \notin Awaiting
      BY DEF Awaiting
    <2> QED BY <2>1, <2>2, <2>3, CallGoesKeeps
  <1>9a. ASSUME NEW q \in Reqs, CancelGoesOut(q)  PROVE Rest'
    <2>1. UNCHANGED <<sessions, handler, inFlight, call, mail>>
      BY <1>9a, Zenon DEF CancelGoesOut, CallStep
    <2> QED BY <2>1, CallsUntouched DEF RegistryInv, Registered
  <1>10. ASSUME NEW w \in Waiters, Waiter(w)  PROVE Rest'
    <2>1. UNCHANGED <<sessions, handler, inFlight, call, mail>>
      BY <1>10, Zenon DEF Waiter, wait_for_runner, WaiterWakes, WaiterTimesOut, WaitStep, server
    <2> QED BY <2>1, CallsUntouched DEF RegistryInv, Registered
  <1>11. ASSUME Runner  PROVE Rest'
    <2>1. ASSUME NEW c \in Conns, serve_tunnel(c)  PROVE Rest'
      <3>1. UNCHANGED <<sessions, inFlight, call, mail>>
        BY <2>1 DEF serve_tunnel, RunnerStep
      <3>2. sessions # 0 => handler'[sessions] \in {"serving", "closing"}
        BY <1>0, <2>1 DEF serve_tunnel, RegistryInv, Registered, Typed
      <3> QED BY <3>1, <3>2, CallsUntouched
    <2>2. ASSUME UNCHANGED <<sessions, handler, inFlight, call, mail>>  PROVE Rest'
      BY <2>2, CallsUntouched DEF RegistryInv, Registered
    <2>3. ASSUME NEW c \in Conns, _handle_tunnel_frame(c) \/ ConnectionEnds(c) \/ LinkDrops(c)
          PROVE  UNCHANGED <<sessions, handler, inFlight, call, mail>>
      BY <2>3, Zenon DEF _handle_tunnel_frame, ConnectionEnds, LinkDrops, RunnerStep, server
    <2>4. ASSUME NEW q \in Reqs, SendHead(q) \/ SendBody(q) \/ SendEnd(q) \/ DispatchFails(q)
          PROVE  UNCHANGED <<sessions, handler, inFlight, call, mail>>
      BY <2>4, Zenon DEF SendHead, SendBody, SendEnd, DispatchFails, RunnerStep
    <2> QED BY <1>11, <2>1, <2>2, <2>3, <2>4, Zenon DEF Runner
  <1>12. ASSUME UNCHANGED tvars  PROVE Rest'
    BY <1>12 DEF tvars, server, RegistryInv, Sessioned, Registered, NothingLeaks, NobodyHangs
  <1>13. Rest'
    BY <1>1, <1>2, <1>3, <1>4, <1>4a, <1>5, <1>6, <1>7, <1>8, <1>9, <1>9a, <1>10, <1>11, <1>12, Zenon
       DEF TNext, RouteStep, Caller
  <1> QED BY <1>0, <1>13, TypedStep DEF RegistryInv

\* The registry's invariant holds throughout.
THEOREM RegistryInvariant == TSpec => []RegistryInv
  <1>1. TInit => RegistryInv
    BY TunnelBounds DEF TInit, RegistryInv, Typed, CallRecords, TaskRecords, Settled, Sessioned, Registered,
                        NothingLeaks, NobodyHangs, Holding, Items, Orders, Answers
  <1> QED BY <1>1, RegistryStep, PTL DEF TSpec

\* NobodyHangs: whatever is replaced, cut or deregistered, a caller that awaits an answer is in
\* flight on the registered generation or has its abort on the way.
THEOREM NobodyIsLeftToHang == TSpec => []NobodyHangs
  BY RegistryInvariant, PTL DEF RegistryInv

\* NothingLeaks: in_flight holds requests of the registered generation whose callers await or
\* close, or were cancelled inside aclose (transport.py has no finally around that await).
THEOREM InFlightNeverLeaks == TSpec => []NothingLeaks
  BY RegistryInvariant, PTL DEF RegistryInv

\* StaleHandlerIsHarmless: the handler of the registered generation, on its way out, takes the
\* runner offline, or one that failed before it registered; never one that was replaced.
THEOREM StaleHandlersAreHarmless == TSpec => StaleHandlerIsHarmless
  <1> DEFINE Own == handler[sessions] = "closing" \/ \E c \in Conns : handler[c] = "hello" /\ handler'[c] = "done"
  <1>1. ASSUME RegistryInv, [TNext]_tvars
        PROVE  [sessions # 0 /\ sessions' = 0 => Own]_tvars
    <2>1. SUFFICES ASSUME TNext, sessions # 0, sessions' = 0
                   PROVE  Own
      BY <1>1
    <2>2. PICK c \in Conns : RouteStep(c) /\ sessions' # sessions
      BY <2>1, Zenon DEF TNext, Caller, handle_async_request, send_text, AwaitHead, __aiter__, CancelledInAwait, aclose,
           CancelGoesOut, AcloseReturns, AcloseCancelled,
           CallStep, Waiter, wait_for_runner, WaiterWakes, WaiterTimesOut, WaitStep, server, Runner, serve_tunnel,
           _handle_tunnel_frame, ConnectionEnds, LinkDrops, SendHead, SendBody, SendEnd, DispatchFails, RunnerStep
    <2>3. \/ sessions' = c
          \/ sessions = c /\ handler[c] = "closing"
          \/ handler[c] = "hello" /\ handler' = [handler EXCEPT ![c] = "done"]
      BY <2>2, Zenon DEF RouteStep, register, HelloNeverCame, HelloRefused, HelloFails, HandlerReturned, server,
                         _receive_loop, HelperEnds, _ping_loop, deregister
    <2>4. handler' = [handler EXCEPT ![c] = "done"] => handler'[c] = "done"
      BY <1>1 DEF RegistryInv, Typed
    <2> QED BY <2>1, <2>3, <2>4 DEF Conns
  <1> QED BY <1>1, RegistryInvariant, PTL DEF TSpec, StaleHandlerIsHarmless

-----------------------------------------------------------------------------
(***************************************************************************)
(* The answers: what is received is a prefix of what was produced.         *)
(***************************************************************************)
\* A frame is what its kind and its request make it.
LEMMA FramesDiffer ==
  /\ \A k, q, l, r : Frame(k, q) = Frame(l, r) => k = l /\ q = r
  /\ \A k, q : Frame(k, q).kind = k /\ Frame(k, q).id = q
  /\ \A f \in Answers \cup Orders : f = Frame(f.kind, f.id)
  /\ \A q \in Reqs : /\ \A k \in {"head", "body", "end"} : Frame(k, q) \in Answers
                     /\ \A k \in {"request", "cancel"} : Frame(k, q) \in Orders
  BY DEF Frame, Answers, Orders

\* The frames that are left when a socket goes down.
LEMMA CutFrames ==
  ASSUME Typed, AnswersInv, NEW c \in Conns, GoesDown(c) \/ Retire(c), UNCHANGED <<call, asked, task, serving>>
  PROVE  (AllRequestedOnce /\ AllTaskKnown /\ EndIsLast)'
  <1>1. AllTaskKnown'
    BY DEF AnswersInv, AllTaskKnown, TaskKnown
  <1>2. CASE UNCHANGED <<link, down, up>>
    BY <1>1, <1>2 DEF AnswersInv, AllRequestedOnce, RequestedOnce, EndIsLast
  <1>3. CASE GoesDown(c)
    <2>1. PICK m \in 0..Len(down[c]) : down' = [down EXCEPT ![c] = SubSeq(down[c], 1, m)]
      BY <1>3 DEF GoesDown
    <2>2. PICK n \in 0..Len(up[c]) : up' = [up EXCEPT ![c] = SubSeq(up[c], 1, n)]
      BY <1>3 DEF GoesDown
    <2>3. \A d \in Conns : /\ Len(down'[d]) <= Len(down[d]) /\ Len(down'[d]) \in Nat /\ Len(down[d]) \in Nat
                           /\ \A i \in 1..Len(down'[d]) : down'[d][i] = down[d][i]
      BY <2>1, Prefix DEF Typed
    <2>4. \A d \in Conns : /\ Len(up'[d]) <= Len(up[d]) /\ Len(up'[d]) \in Nat /\ Len(up[d]) \in Nat
                           /\ \A i \in 1..Len(up'[d]) : up'[d][i] = up[d][i]
      BY <2>2, Prefix DEF Typed
    <2>5. \A d \in Conns : \A x : Has(down'[d], x) => Has(down[d], x)
      BY <2>3 DEF Has
    <2>6. AllRequestedOnce'
      <3>1. SUFFICES ASSUME NEW q \in Reqs  PROVE RequestedOnce(q)'
        BY DEF AllRequestedOnce
      <3>2. RequestedOnce(q)
        BY DEF AnswersInv, AllRequestedOnce
      <3>3. \A d \in Conns : \A i, j \in 1..Len(down'[d]) :
              down'[d][i] = Frame("request", q) /\ down'[d][j] = Frame("request", q) => i = j
        <4>1. SUFFICES ASSUME NEW d \in Conns, NEW i \in 1..Len(down'[d]), NEW j \in 1..Len(down'[d]),
                              down'[d][i] = Frame("request", q), down'[d][j] = Frame("request", q)
                       PROVE  i = j
          OBVIOUS
        <4>2. /\ i \in 1..Len(down[d]) /\ down[d][i] = Frame("request", q)
              /\ j \in 1..Len(down[d]) /\ down[d][j] = Frame("request", q)
          BY <2>3, <4>1
        <4> QED BY <3>2, <4>2 DEF RequestedOnce
      <3> QED BY <2>5, <3>2, <3>3 DEF RequestedOnce
    <2>7. EndIsLast'
      BY <2>4 DEF AnswersInv, EndIsLast
    <2> QED BY <1>1, <2>6, <2>7
  <1> QED BY <1>2, <1>3 DEF Retire

\* A cut keeps all of an answer whose end it keeps.
LEMMA CutComplete ==
  ASSUME RegistryInv, AnswersInv, NEW c \in Conns, GoesDown(c), UNCHANGED <<call, mail, task, inFlight>>
  PROVE  Complete'
  <1>1. PICK n \in 0..Len(up[c]) : up' = [up EXCEPT ![c] = SubSeq(up[c], 1, n)]
    BY DEF GoesDown
  <1>2. link' = [link EXCEPT ![c] = "down"] /\ Typed
    BY DEF GoesDown, RegistryInv
  <1>3. SUFFICES ASSUME NEW d \in Conns, NEW q \in inFlight[d]
                 PROVE  /\ Received(q) + Count(up'[d], Frame("body", q)) <= task[q].sent
                        /\ link'[d] = "up" \/ Has(up'[d], Frame("end", q)) =>
                             Received(q) + Count(up'[d], Frame("body", q)) = task[q].sent
    BY DEF Complete, Received
  <1>4. /\ Received(q) + Count(up[d], Frame("body", q)) <= task[q].sent
        /\ link[d] = "up" \/ Has(up[d], Frame("end", q)) =>
             Received(q) + Count(up[d], Frame("body", q)) = task[q].sent
    BY DEF AnswersInv, Complete
  <1>5. CASE d # c
    BY <1>1, <1>2, <1>4, <1>5 DEF Typed
  <1>6. CASE d = c
    <2>1. up[c] \in Seq(Answers) /\ q \in Reqs
      BY <1>2, <1>6 DEF Typed
    <2>2. up'[c] = SubSeq(up[c], 1, n) /\ link'[c] = "down"
      BY <1>1, <1>2 DEF Typed
    <2>3. /\ Count(up[c], Frame("body", q)) \in Nat /\ Count(up'[c], Frame("body", q)) \in Nat
          /\ Count(up'[c], Frame("body", q)) <= Count(up[c], Frame("body", q))
      BY <2>1, <2>2, Prefix, CountFinite, CountPrefix
    <2>4. Received(q) \in Nat /\ task[q].sent \in Nat
      BY <1>2, <2>1, CountFinite, TunnelBounds DEF Received, Typed, CallRecords, TaskRecords
    <2>5. ASSUME Has(up'[c], Frame("end", q))
          PROVE  /\ Has(up[c], Frame("end", q))
                 /\ Count(up'[c], Frame("body", q)) = Count(up[c], Frame("body", q))
      <3>1. PICK i \in 1..n : up[c][i] = Frame("end", q)
        BY <2>1, <2>2, <2>5, Prefix DEF Has
      <3>2. i \in 1..Len(up[c]) /\ up[c][i].kind = "end" /\ up[c][i].id = q
        BY <2>1, <3>1, FramesDiffer
      <3>3. \A j \in 1..Len(up[c]) : up[c][j] = Frame("body", q) => j <= n
        BY <3>1, <3>2 DEF AnswersInv, EndIsLast
      <3>4. Count(SubSeq(up[c], 1, n), Frame("body", q)) = Count(up[c], Frame("body", q))
        BY <2>1, <3>3, CountPrefix
      <3> QED BY <2>2, <3>1, <3>2, <3>4 DEF Has
    <2> QED BY <1>4, <1>6, <2>2, <2>3, <2>4, <2>5
  <1> QED BY <1>5, <1>6

\* An abort changes nothing of what was received.
LEMMA AbortedKeeps ==
  ASSUME RegistryInv, AnswersInv, NEW c \in Conns, mail' = Aborted(c), UNCHANGED <<call, task>>
  PROVE  (AllMailInOrder /\ AllReadInBounds)'
  <1> USE DEF RegistryInv, AnswersInv
  <1>1. SUFFICES ASSUME NEW q \in Reqs  PROVE MailInOrder(q)' /\ ReadInBounds(q)'
    BY DEF AllMailInOrder, AllReadInBounds
  <1>2. mail'[q] = (IF q \in inFlight[c] THEN Append(mail[q], "abort") ELSE mail[q]) /\ mail[q] \in Seq(Items)
    BY DEF Aborted, Typed
  <1>3. CASE q \notin inFlight[c]
    BY <1>2, <1>3 DEF AllMailInOrder, AllReadInBounds, MailInOrder, ReadInBounds, Received
  <1>4. CASE q \in inFlight[c]
    <2>1. mail'[q] = Append(mail[q], "abort") /\ call[q].pc # "idle" /\ "abort" \in Items
      BY <1>2, <1>4 DEF NothingLeaks, Items
    <2>2. MailInOrder(q)'
      BY <1>2, <2>1 DEF AllMailInOrder, MailInOrder
    <2>3. Count(mail'[q], "body") = Count(mail[q], "body") /\ (Has(mail'[q], "end") <=> Has(mail[q], "end"))
      BY <1>2, <2>1, CountAppend, HasAppend
    <2> QED BY <2>2, <2>3 DEF AllReadInBounds, ReadInBounds, Received
  <1> QED BY <1>3, <1>4

\* The steps of a connection's handler.
LEMMA RouteAnswers ==
  ASSUME RegistryInv, AnswersInv, NEW c \in Conns, RouteStep(c)
  PROVE  AnswersInv'
  <1>0. Typed
    BY DEF RegistryInv
  <1>1. CASE register(c) \/ deregister(c) \/ HelloFails(c)
    <2>1. UNCHANGED <<call, asked, task, serving>>
      BY <1>1 DEF register, deregister, HelloFails
    <2>2. CASE UNCHANGED <<mail, inFlight, link, down, up>>
      <3>1. (AllRequestedOnce /\ AllTaskKnown /\ EndIsLast)'
        BY <2>1, <2>2 DEF AnswersInv, AllRequestedOnce, RequestedOnce, AllTaskKnown, TaskKnown, EndIsLast
      <3>2. (AllMailInOrder /\ AllReadInBounds /\ Complete)'
        BY <2>1, <2>2 DEF AnswersInv, AllMailInOrder, MailInOrder, AllReadInBounds, ReadInBounds, Received, Complete
      <3> QED BY <3>1, <3>2 DEF AnswersInv
    <2>3. CASE /\ sessions # 0 /\ mail' = Aborted(sessions)
               /\ inFlight' = [inFlight EXCEPT ![sessions] = {}] /\ Retire(sessions)
      <3>1. sessions \in Conns
        BY <1>0, <2>3, TunnelBounds DEF Typed, Conns
      <3>2. (AllRequestedOnce /\ AllTaskKnown /\ EndIsLast)'
        BY <1>0, <2>1, <2>3, <3>1, CutFrames
      <3>3. (AllMailInOrder /\ AllReadInBounds)'
        BY <2>1, <2>3, <3>1, AbortedKeeps
      <3>4. \A d \in Conns : inFlight'[d] = {}
        BY <1>0, <2>3, <3>1 DEF RegistryInv, Typed, NothingLeaks
      <3>5. Complete'
        BY <3>4 DEF Complete
      <3> QED BY <3>2, <3>3, <3>5 DEF AnswersInv
    <2> QED BY <1>1, <2>2, <2>3 DEF register, deregister, HelloFails, Conns
  <1>2. CASE HelloNeverCame(c) \/ HelloRefused(c) \/ HelperEnds(c)
    <2>1. UNCHANGED <<call, asked, task, serving, mail, inFlight, link, down, up>>
      BY <1>2 DEF HelloNeverCame, HelloRefused, HelperEnds
    <2> QED BY <2>1 DEF AnswersInv, AllRequestedOnce, RequestedOnce, AllTaskKnown, TaskKnown, EndIsLast,
                        AllMailInOrder, MailInOrder, AllReadInBounds, ReadInBounds, Received, Complete
  <1>3. CASE _ping_loop(c) \/ HandlerReturned(c)
    <2>1. UNCHANGED <<call, asked, task, serving, mail, inFlight>> /\ GoesDown(c)
      BY <1>3 DEF _ping_loop, HandlerReturned, server
    <2>2. (AllMailInOrder /\ AllReadInBounds)'
      BY <2>1 DEF AnswersInv, AllMailInOrder, MailInOrder, AllReadInBounds, ReadInBounds, Received
    <2> QED BY <1>0, <2>1, <2>2, CutFrames, CutComplete DEF AnswersInv
  <1>4. CASE _receive_loop(c)
    <2> DEFINE f == Head(up[c])
    <2>1. /\ up[c] \in Seq(Answers) /\ up[c] # <<>> /\ f \in Answers /\ f = up[c][1]
          /\ up' = [up EXCEPT ![c] = Tail(up[c])] /\ up'[c] = Tail(up[c])
          /\ f.id \in Reqs /\ f.kind \in {"head", "body", "end"} /\ f = Frame(f.kind, f.id)
      <3>1. up[c] \in Seq(Answers) /\ up[c] # <<>> /\ up' = [up EXCEPT ![c] = Tail(up[c])]
        BY <1>0, <1>4 DEF _receive_loop, Typed
      <3>2. f \in Answers /\ f = up[c][1] /\ up'[c] = Tail(up[c])
        BY <1>0, <3>1 DEF Typed
      <3>3. f.id \in Reqs /\ f.kind \in {"head", "body", "end"}
        BY <3>2 DEF Answers
      <3>4. f = Frame(f.kind, f.id)
        BY <3>2, FramesDiffer
      <3> QED BY <3>1, <3>2, <3>3, <3>4
    <2> HIDE DEF f
    <2>2. /\ UNCHANGED <<call, asked, task, serving, inFlight, link, down>>
          /\ \/ sessions # c /\ UNCHANGED mail
             \/ sessions = c /\ f.id \notin inFlight[c] /\ UNCHANGED mail
             \/ sessions = c /\ f.id \in inFlight[c] /\ mail' = [mail EXCEPT ![f.id] = Append(mail[f.id], f.kind)]
      BY <1>4, Zenon DEF _receive_loop, f
    <2>3. /\ \A d \in Conns : d # c => up'[d] = up[d]
          /\ Len(up'[c]) = Len(up[c]) - 1 /\ Len(up[c]) \in Nat \ {0}
          /\ \A i \in 1..Len(up'[c]) : up'[c][i] = up[c][i + 1]
      BY <1>0, <2>1 DEF Typed
    <2>4. (AllRequestedOnce /\ AllTaskKnown)'
      BY <2>2 DEF AnswersInv, AllRequestedOnce, RequestedOnce, AllTaskKnown, TaskKnown
    <2>5. EndIsLast'
      <3>1. SUFFICES ASSUME NEW d \in Conns, NEW i \in 1..Len(up'[d])
                     PROVE  /\ task[up'[d][i].id].st # "none"
                            /\ up'[d][i].kind = "end" =>
                                 /\ task[up'[d][i].id].st = "ended"
                                 /\ \A j \in 1..Len(up'[d]) : up'[d][j] = Frame("body", up'[d][i].id) => j < i
        BY <2>2 DEF EndIsLast
      <3>2. CASE d # c
        BY <2>3, <3>1, <3>2 DEF AnswersInv, EndIsLast
      <3>3. CASE d = c
        <4>1. i + 1 \in 1..Len(up[c]) /\ up'[d][i] = up[c][i + 1]
          BY <2>3, <3>1, <3>3
        <4>2. \A j \in 1..Len(up'[c]) : j + 1 \in 1..Len(up[c]) /\ up'[c][j] = up[c][j + 1]
          BY <2>3
        <4>3. /\ task[up[c][i + 1].id].st # "none"
              /\ up[c][i + 1].kind = "end" =>
                   /\ task[up[c][i + 1].id].st = "ended"
                   /\ \A j \in 1..Len(up[c]) : up[c][j] = Frame("body", up[c][i + 1].id) => j < i + 1
          BY <4>1 DEF AnswersInv, EndIsLast
        <4> QED BY <3>3, <4>1, <4>2, <4>3
      <3> QED BY <3>2, <3>3
    <2>6. \A q \in Reqs : /\ Count(up[c], Frame("body", q)) \in Nat /\ Count(up'[c], Frame("body", q)) \in Nat
                          /\ Count(mail[q], "body") \in Nat /\ mail[q] \in Seq(Items)
                          /\ call[q].got \in Nat /\ task[q].sent \in Nat
      <3>1. Tail(up[c]) \in Seq(Answers)
        BY <2>1
      <3>2. \A q \in Reqs : mail[q] \in Seq(Items) /\ call[q].got \in Nat /\ task[q].sent \in Nat
        BY <1>0, TunnelBounds DEF Typed, CallRecords, TaskRecords
      <3> QED BY <2>1, <3>1, <3>2, CountFinite
    <2>7. /\ \A q \in Reqs : Count(up'[c], Frame("body", q)) =
               IF f = Frame("body", q) THEN Count(up[c], Frame("body", q)) - 1 ELSE Count(up[c], Frame("body", q))
          /\ \A q \in Reqs : Has(up'[c], Frame("end", q)) => Has(up[c], Frame("end", q))
      BY <2>1, CountTail, HasTail DEF f
    <2>8. CASE UNCHANGED mail
      <3>1. (AllMailInOrder /\ AllReadInBounds)'
        BY <2>2, <2>8 DEF AnswersInv, AllMailInOrder, MailInOrder, AllReadInBounds, ReadInBounds, Received
      <3>2. \A q \in inFlight[c] : q \in Reqs /\ f # Frame("body", q)
        BY <1>0, <2>1, <2>2, <2>8, FramesDiffer DEF RegistryInv, NothingLeaks, Typed
      <3>3. Complete'
        <4>1. SUFFICES ASSUME NEW d \in Conns, NEW q \in inFlight[d]
                       PROVE  /\ Received(q) + Count(up'[d], Frame("body", q)) <= task[q].sent
                              /\ link[d] = "up" \/ Has(up'[d], Frame("end", q)) =>
                                   Received(q) + Count(up'[d], Frame("body", q)) = task[q].sent
          BY <2>2, <2>8 DEF Complete, Received
        <4>2. /\ Received(q) + Count(up[d], Frame("body", q)) <= task[q].sent
              /\ link[d] = "up" \/ Has(up[d], Frame("end", q)) =>
                   Received(q) + Count(up[d], Frame("body", q)) = task[q].sent
          BY DEF AnswersInv, Complete
        <4>3. CASE d # c
          BY <2>3, <4>2, <4>3
        <4>4. CASE d = c
          BY <2>7, <3>2, <4>2, <4>4
        <4> QED BY <4>3, <4>4
      <3> QED BY <2>4, <2>5, <3>1, <3>3 DEF AnswersInv
    <2>9. CASE f.id \in inFlight[c] /\ mail' = [mail EXCEPT ![f.id] = Append(mail[f.id], f.kind)]
      <3>0. PICK g \in Reqs : g = f.id
        BY <2>1
      <3>1. /\ g \in Reqs /\ mail[g] \in Seq(Items) /\ f.kind \in Items /\ mail'[g] = Append(mail[g], f.kind)
            /\ \A q \in Reqs : q # g => mail'[q] = mail[q]
            /\ call[g].pc \in Holding /\ g \in inFlight[c]
            /\ f = Frame(f.kind, g)
        BY <1>0, <2>1, <2>6, <2>9, <3>0 DEF Typed, Items, RegistryInv, NothingLeaks, Holding
      <3>2. /\ Received(g)' + Count(up'[c], Frame("body", g)) = Received(g) + Count(up[c], Frame("body", g))
            /\ f.kind = "body" => Received(g)' = Received(g) + 1
            /\ f.kind # "body" => Received(g)' = Received(g)
        <4>1. Count(mail'[g], "body") = IF f.kind = "body" THEN Count(mail[g], "body") + 1 ELSE Count(mail[g], "body")
          BY <3>1, CountAppend
        <4>2. f = Frame("body", g) <=> f.kind = "body"
          BY <3>1, FramesDiffer
        <4>3. Count(up'[c], Frame("body", g)) =
                IF f.kind = "body" THEN Count(up[c], Frame("body", g)) - 1 ELSE Count(up[c], Frame("body", g))
          BY <2>7, <3>1, <4>2
        <4>4. Received(g)' = call[g].got + Count(mail'[g], "body") /\ Received(g) = call[g].got + Count(mail[g], "body")
          BY <2>2 DEF Received
        <4>5. /\ call[g].got \in Nat /\ Count(mail[g], "body") \in Nat
              /\ Count(up[c], Frame("body", g)) \in Nat
          BY <2>6, <3>1
        <4> QED BY <4>1, <4>3, <4>4, <4>5
      <3>3. /\ Received(g) + Count(up[c], Frame("body", g)) <= task[g].sent
            /\ link[c] = "up" \/ Has(up[c], Frame("end", g)) =>
                 Received(g) + Count(up[c], Frame("body", g)) = task[g].sent
        BY <3>1 DEF AnswersInv, Complete
      <3>4. /\ Received(g) <= task[g].sent
            /\ Has(mail[g], "end") => task[g].st = "ended" /\ Received(g) = task[g].sent
        BY <3>1 DEF AnswersInv, AllReadInBounds, ReadInBounds
      <3>5. Received(g) \in Nat /\ Received(g)' \in Nat /\ task[g].sent \in Nat
        BY <2>6, <3>1, <3>2 DEF Received
      <3>6. f.kind = "end" => /\ Has(up[c], Frame("end", g)) /\ task[g].st = "ended"
                              /\ Count(up[c], Frame("body", g)) = 0
        <4>1. SUFFICES ASSUME f.kind = "end"
                       PROVE  /\ Has(up[c], Frame("end", g)) /\ task[g].st = "ended"
                              /\ ~Has(up[c], Frame("body", g))
          BY <2>1, CountFinite
        <4>2. 1 \in 1..Len(up[c]) /\ up[c][1].kind = "end" /\ up[c][1].id = g
          BY <2>1, <2>3, <3>0, <4>1
        <4>3. task[g].st = "ended" /\ \A j \in 1..Len(up[c]) : up[c][j] = Frame("body", g) => j < 1
          BY <4>2 DEF AnswersInv, EndIsLast
        <4> QED BY <2>1, <3>1, <4>1, <4>2, <4>3 DEF Has
      <3>7. f.kind = "body" => ~Has(mail[g], "end")
        BY <2>6, <3>1, <3>2, <3>3, <3>4, <3>5
      <3>8. AllMailInOrder'
        <4>1. SUFFICES ASSUME NEW q \in Reqs  PROVE MailInOrder(q)'
          BY DEF AllMailInOrder
        <4>2. CASE q # g
          BY <2>2, <3>1, <4>2 DEF AnswersInv, AllMailInOrder, MailInOrder
        <4>3. CASE q = g
          <5>1. call'[q].pc # "idle"
            BY <2>2, <3>1, <4>3 DEF Holding
          <5>2. \A i, j \in 1..Len(mail[g]) : mail[g][i] = "end" /\ mail[g][j] = "body" => j < i
            BY <3>1 DEF AnswersInv, AllMailInOrder, MailInOrder
          <5>3. \A i, j \in 1..Len(mail'[g]) : mail'[g][i] = "end" /\ mail'[g][j] = "body" => j < i
            BY <3>1, <3>7, <5>2 DEF Has
          <5> QED BY <4>3, <5>1, <5>3 DEF MailInOrder
        <4> QED BY <4>2, <4>3
      <3>9. AllReadInBounds'
        <4>1. SUFFICES ASSUME NEW q \in Reqs  PROVE ReadInBounds(q)'
          BY DEF AllReadInBounds
        <4>2. CASE q # g
          BY <2>2, <3>1, <4>2 DEF AnswersInv, AllReadInBounds, ReadInBounds, Received
        <4>3. CASE q = g
          <5>1. Received(g)' <= task[g].sent
            BY <2>6, <3>1, <3>2, <3>3, <3>5
          <5>2. Has(mail'[g], "end") <=> Has(mail[g], "end") \/ f.kind = "end"
            BY <3>1, HasAppend
          <5>3. Has(mail'[g], "end") => task[g].st = "ended" /\ Received(g)' = task[g].sent
            BY <2>6, <3>1, <3>2, <3>3, <3>4, <3>5, <3>6, <3>7, <5>2
          <5> QED BY <2>2, <4>3, <5>1, <5>3 DEF ReadInBounds
        <4> QED BY <4>2, <4>3
      <3>10. Complete'
        <4>1. SUFFICES ASSUME NEW d \in Conns, NEW q \in inFlight[d]
                       PROVE  /\ Received(q)' + Count(up'[d], Frame("body", q)) <= task[q].sent
                              /\ link[d] = "up" \/ Has(up'[d], Frame("end", q)) =>
                                   Received(q)' + Count(up'[d], Frame("body", q)) = task[q].sent
          BY <2>2 DEF Complete
        <4>2. d = c /\ q \in Reqs
          BY <1>0, <3>1, <4>1 DEF RegistryInv, NothingLeaks, Typed
        <4>3. CASE q = g
          BY <2>7, <3>1, <3>2, <3>3, <4>2, <4>3
        <4>4. CASE q # g
          <5>1. Received(q)' = Received(q) /\ Count(up'[c], Frame("body", q)) = Count(up[c], Frame("body", q))
            BY <2>2, <2>7, <3>1, <4>2, <4>4, FramesDiffer DEF Received
          <5> QED BY <2>7, <4>1, <4>2, <5>1 DEF AnswersInv, Complete
        <4> QED BY <4>3, <4>4
      <3> QED BY <2>4, <2>5, <3>8, <3>9, <3>10 DEF AnswersInv
    <2> QED BY <2>2, <2>8, <2>9
  <1> QED BY <1>1, <1>2, <1>3, <1>4 DEF RouteStep

-----------------------------------------------------------------------------
\* The parts about tasks and frames when a caller only moves on.
LEMMA CallMoves ==
  ASSUME AnswersInv, UNCHANGED <<asked, task, serving, down, up>>,
         \A r \in Reqs : /\ call'[r].session = call[r].session
                         /\ call[r].pc # "idle" => call'[r].pc # "idle"
  PROVE  (AllRequestedOnce /\ AllTaskKnown /\ EndIsLast)'
  <1>1. AllRequestedOnce'
    BY DEF AnswersInv, AllRequestedOnce, RequestedOnce
  <1>2. AllTaskKnown' /\ EndIsLast'
    BY DEF AnswersInv, AllTaskKnown, TaskKnown, EndIsLast
  <1> QED BY <1>1, <1>2

\* The parts about what was received when no call that goes on loses or gains anything.
LEMMA CallReads ==
  ASSUME AnswersInv, NothingLeaks', inFlight' \in [Conns -> SUBSET Reqs], UNCHANGED <<task, up, link>>,
         \A c \in Conns : inFlight'[c] \subseteq inFlight[c],
         \A r \in Reqs : call'[r].pc \in Holding =>
             /\ call[r].pc \in Holding /\ Received(r)' = Received(r)
             /\ Has(mail'[r], "end") => Has(mail[r], "end")
  PROVE  (AllReadInBounds /\ Complete)'
  <1>1. AllReadInBounds'
    BY DEF AnswersInv, AllReadInBounds, ReadInBounds
  <1>2. \A c \in Conns : \A q \in inFlight'[c] : q \in Reqs /\ q \in inFlight[c] /\ Received(q)' = Received(q)
    BY DEF NothingLeaks, Holding
  <1>3. Complete'
    BY <1>2 DEF AnswersInv, Complete
  <1> QED BY <1>1, <1>3

\* A call is begun when nothing is known of it anywhere.
LEMMA BeginAnswers ==
  ASSUME RegistryInv, AnswersInv, NothingLeaks', NEW q \in Reqs, handle_async_request(q)
  PROVE  AnswersInv'
  <1>0. Typed /\ call[q].pc = "idle" /\ UNCHANGED <<mail, down, up, link, serving, task>>
    BY DEF RegistryInv, handle_async_request, CallStep
  <1>1. RequestedOnce(q) /\ TaskKnown(q) /\ MailInOrder(q)
    BY DEF AnswersInv, AllRequestedOnce, AllTaskKnown, AllMailInOrder
  <1>2. /\ q \notin asked /\ task[q].st = "none" /\ task[q].sent = 0 /\ mail[q] = <<>>
        /\ \A c \in Conns : ~Has(down[c], Frame("request", q))
    BY <1>0, <1>1 DEF RequestedOnce, TaskKnown, MailInOrder
  <1>3. CASE sessions = 0
    <2>1. /\ UNCHANGED <<inFlight, asked>> /\ call'[q].pc = "failed" /\ call'[q].session = call[q].session
          /\ \A r \in Reqs : r # q => call'[r] = call[r]
      <3>1. CallGoes(q, "failed")
        BY <1>0, <1>3, CallerIs, Zenon
      <3>2. UNCHANGED <<inFlight, asked>>
        BY <1>3, Zenon DEF handle_async_request
      <3> QED BY <1>0, <3>1, <3>2 DEF CallGoes, CallAt, Typed, CallRecords
    <2>2. (AllRequestedOnce /\ AllTaskKnown /\ EndIsLast)'
      BY <1>0, <2>1, CallMoves
    <2>3. AllMailInOrder'
      BY <1>0, <2>1 DEF AnswersInv, AllMailInOrder, MailInOrder
    <2>4. (AllReadInBounds /\ Complete)'
      BY <1>0, <2>1, CallReads DEF Typed, Received, Holding
    <2> QED BY <2>2, <2>3, <2>4 DEF AnswersInv
  <1>4. CASE sessions # 0
    <2>1. /\ call'[q].pc = "sending" /\ call'[q].session = sessions /\ call'[q].got = 0
          /\ \A r \in Reqs : r # q => call'[r] = call[r]
          /\ inFlight' = [inFlight EXCEPT ![sessions] = inFlight[sessions] \cup {q}]
          /\ asked' = asked \cup {q} /\ sessions \in Conns
      BY <1>0, <1>4, TunnelBounds DEF handle_async_request, Typed, Conns
    <2>2. AllRequestedOnce'
      <3>1. SUFFICES ASSUME NEW r \in Reqs  PROVE RequestedOnce(r)'
        BY DEF AllRequestedOnce
      <3>2. CASE r # q
        BY <1>0, <2>1, <3>2 DEF AnswersInv, AllRequestedOnce, RequestedOnce
      <3>3. CASE r = q
        BY <1>0, <1>1, <1>2, <2>1, <3>3 DEF RequestedOnce
      <3> QED BY <3>2, <3>3
    <2>3. AllTaskKnown' /\ EndIsLast'
      BY <1>0, <1>2, <2>1 DEF AnswersInv, AllTaskKnown, TaskKnown, EndIsLast, Running
    <2>4. AllMailInOrder'
      BY <1>0, <1>2, <2>1 DEF AnswersInv, AllMailInOrder, MailInOrder
    <2>5. Received(q)' = 0 /\ ~Has(mail'[q], "end")
      <3>1. Places(mail[q], "body") = {} /\ ~Has(mail[q], "end")
        BY <1>2 DEF Places, Has
      <3> QED BY <1>0, <2>1, <3>1, FS_EmptySet DEF Received, Count
    <2>6. \A r \in Reqs : r # q => Received(r)' = Received(r) /\ mail'[r] = mail[r]
      BY <1>0, <2>1 DEF Received
    <2>7. AllReadInBounds'
      BY <1>0, <1>2, <2>1, <2>5, <2>6 DEF AnswersInv, AllReadInBounds, ReadInBounds
    <2>8. Count(up[sessions], Frame("body", q)) = 0
      <3>1. up[sessions] \in Seq(Answers)
        BY <1>0, <2>1 DEF Typed
      <3>2. ~Has(up[sessions], Frame("body", q))
        BY <1>2, <2>1, FramesDiffer DEF Has, AnswersInv, EndIsLast
      <3> QED BY <3>1, <3>2, CountFinite
    <2>9. Complete'
      <3>1. SUFFICES ASSUME NEW d \in Conns, NEW r \in inFlight'[d]
                     PROVE  /\ Received(r)' + Count(up[d], Frame("body", r)) <= task[r].sent
                            /\ link[d] = "up" \/ Has(up[d], Frame("end", r)) =>
                                 Received(r)' + Count(up[d], Frame("body", r)) = task[r].sent
        BY <1>0 DEF Complete
      <3>2. r = q \/ (r \in inFlight[d] /\ r # q)
        BY <1>0, <2>1, <3>1 DEF Typed
      <3>3. CASE r = q
        <4>1. d = sessions
          BY <1>0, <2>1, <3>1, <3>3 DEF NothingLeaks, Typed
        <4> QED BY <1>2, <2>5, <2>8, <3>3, <4>1
      <3>4. CASE r \in inFlight[d] /\ r # q
        <4>1. r \in Reqs
          BY <1>0, <3>4 DEF Typed
        <4> QED BY <2>6, <3>4, <4>1 DEF AnswersInv, Complete
      <3> QED BY <3>2, <3>3, <3>4
    <2> QED BY <2>2, <2>3, <2>4, <2>7, <2>9 DEF AnswersInv
  <1> QED BY <1>3, <1>4

\* A frame handed to the runner, or lost with its socket.
LEMMA OrderSent ==
  ASSUME Typed, NEW c \in Conns, NEW f \in Orders, NEW x,
         down' = [down EXCEPT ![c] = Append(down[c], f)]
  PROVE  /\ \A d \in Conns : d # c => down'[d] = down[d]
         /\ Len(down'[c]) = Len(down[c]) + 1 /\ Len(down[c]) \in Nat
         /\ \A i \in 1..Len(down[c]) : down'[c][i] = down[c][i]
         /\ down'[c][Len(down[c]) + 1] = f
         /\ Has(down'[c], x) <=> Has(down[c], x) \/ f = x
  <1>1. down[c] \in Seq(Orders) /\ down'[c] = Append(down[c], f)
    BY DEF Typed
  <1>2. Has(down'[c], x) <=> Has(down[c], x) \/ f = x
    BY <1>1, HasAppend
  <1> QED BY <1>1, <1>2 DEF Typed

\* A caller goes on or ends: what it is about to do to its own parts.
LEMMA CallerParts ==
  ASSUME RegistryInv, AnswersInv, NothingLeaks', inFlight' \in [Conns -> SUBSET Reqs], NEW q \in Reqs, NEW p, call[q].pc \in Holding,
         UNCHANGED <<task, up, link>>,
         \/ p \in Holding /\ CallGoes(q, p) /\ (UNCHANGED mail \/ (Head(mail[q]) = "head" /\ mail[q] # <<>> /\ mail' = [mail EXCEPT ![q] = Tail(mail[q])]))
         \/ p = "stream" /\ call' = CallAt(q, p, call[q].session, call[q].got + 1) /\ UNCHANGED inFlight
              /\ (Head(mail[q]) = "body" /\ mail[q] # <<>> /\ mail' = [mail EXCEPT ![q] = Tail(mail[q])])
         \/ p \in Ends /\ CallEnds(q, p) /\ (UNCHANGED mail \/ (mail[q] # <<>> /\ mail' = [mail EXCEPT ![q] = Tail(mail[q])]))
  PROVE  /\ \A r \in Reqs : /\ call'[r].session = call[r].session
                            /\ call[r].pc # "idle" => call'[r].pc # "idle"
         /\ (AllMailInOrder /\ AllReadInBounds /\ Complete)'
  <1>0. Typed /\ mail[q] \in Seq(Items)
    BY DEF RegistryInv, Typed
  <1>1. /\ \A r \in Reqs : r # q => call'[r] = call[r]
        /\ call'[q].pc = p /\ call'[q].session = call[q].session
    BY <1>0 DEF Typed, CallGoes, CallEnds, CallAt, CallRecords
  <1>2. p # "idle" /\ (p \in Holding \/ p \in Ends) /\ (p \in Ends => p \notin Holding)
    BY DEF Holding, Ends
  <1>3. \A r \in Reqs : r # q => mail'[r] = mail[r]
    BY <1>0 DEF Typed
  <1>4. mail'[q] = mail[q] \/ (mail[q] # <<>> /\ mail'[q] = Tail(mail[q]))
    BY <1>0 DEF Typed
  <1>5. AllMailInOrder'
    <2>1. SUFFICES ASSUME NEW r \in Reqs  PROVE MailInOrder(r)'
      BY DEF AllMailInOrder
    <2>2. MailInOrder(r)
      BY DEF AnswersInv, AllMailInOrder
    <2>3. CASE r # q
      BY <1>1, <1>3, <2>2, <2>3 DEF MailInOrder
    <2>4. CASE r = q /\ mail'[q] = mail[q]
      BY <1>1, <1>2, <2>2, <2>4 DEF MailInOrder
    <2>5. CASE r = q /\ mail[q] # <<>> /\ mail'[q] = Tail(mail[q])
      <3>1. \A i \in 1..Len(Tail(mail[q])) : i + 1 \in 1..Len(mail[q]) /\ Tail(mail[q])[i] = mail[q][i + 1]
        BY <1>0, <2>5
      <3>2. \A i, j \in 1..Len(mail[q]) : mail[q][i] = "end" /\ mail[q][j] = "body" => j < i
        BY <2>2, <2>5 DEF MailInOrder
      <3>3. \A i, j \in 1..Len(Tail(mail[q])) : Tail(mail[q])[i] = "end" /\ Tail(mail[q])[j] = "body" => j < i
        <4>1. SUFFICES ASSUME NEW i \in 1..Len(Tail(mail[q])), NEW j \in 1..Len(Tail(mail[q])),
                              Tail(mail[q])[i] = "end", Tail(mail[q])[j] = "body"
                       PROVE  j < i
          OBVIOUS
        <4>2. j + 1 < i + 1
          BY <3>1, <3>2, <4>1
        <4>3. i \in Int /\ j \in Int
          OBVIOUS
        <4> QED BY <4>2, <4>3
      <3> QED BY <1>1, <1>2, <2>5, <3>3 DEF MailInOrder
    <2> QED BY <1>4, <2>3, <2>4, <2>5
  <1>6. \A c \in Conns : inFlight'[c] \subseteq inFlight[c]
    <2>1. inFlight' = inFlight \/ inFlight' = [inFlight EXCEPT ![call[q].session] = inFlight[call[q].session] \ {q}]
      BY DEF CallGoes, CallEnds
    <2>2. inFlight \in [Conns -> SUBSET Reqs]
      BY <1>0 DEF Typed
    <2>3. SUFFICES ASSUME NEW c \in Conns  PROVE inFlight'[c] \subseteq inFlight[c]
      OBVIOUS
    <2>4. CASE c = call[q].session
      BY <2>1, <2>2, <2>4
    <2>5. CASE c # call[q].session
      BY <2>1, <2>2, <2>5
    <2> QED BY <2>4, <2>5
  <1>7. p \in Holding => Received(q)' = Received(q) /\ (Has(mail'[q], "end") => Has(mail[q], "end"))
    <2>1. CASE CallGoes(q, p) /\ UNCHANGED mail
      BY <1>0, <2>1 DEF CallGoes, CallAt, Typed, CallRecords, Received
    <2>2. CASE CallGoes(q, p) /\ Head(mail[q]) = "head" /\ mail[q] # <<>> /\ mail' = [mail EXCEPT ![q] = Tail(mail[q])]
      <3>1. mail'[q] = Tail(mail[q]) /\ call'[q].got = call[q].got
        BY <1>0, <2>2 DEF CallGoes, CallAt, Typed, CallRecords
      <3>2. Count(Tail(mail[q]), "body") = Count(mail[q], "body") /\ (Has(Tail(mail[q]), "end") => Has(mail[q], "end"))
        BY <1>0, <2>2, CountTail, HasTail
      <3> QED BY <3>1, <3>2 DEF Received
    <2>3. CASE /\ call' = CallAt(q, p, call[q].session, call[q].got + 1)
               /\ Head(mail[q]) = "body" /\ mail[q] # <<>> /\ mail' = [mail EXCEPT ![q] = Tail(mail[q])]
      <3>1. mail'[q] = Tail(mail[q]) /\ call'[q].got = call[q].got + 1 /\ call[q].got \in Nat
        BY <1>0, <2>3 DEF CallAt, Typed, CallRecords
      <3>2. /\ Count(Tail(mail[q]), "body") = Count(mail[q], "body") - 1 /\ Count(mail[q], "body") \in Nat
            /\ Has(Tail(mail[q]), "end") => Has(mail[q], "end")
        BY <1>0, <2>3, CountTail, HasTail, CountFinite
      <3> QED BY <3>1, <3>2 DEF Received
    <2> QED BY <1>2, <2>1, <2>2, <2>3
  <1>8. \A r \in Reqs : call'[r].pc \in Holding =>
             /\ call[r].pc \in Holding /\ Received(r)' = Received(r)
             /\ Has(mail'[r], "end") => Has(mail[r], "end")
    BY <1>1, <1>3, <1>7 DEF Received
  <1>9. (AllReadInBounds /\ Complete)'
    BY <1>6, <1>8, CallReads
  <1> QED BY <1>1, <1>2, <1>5, <1>9

\* The steps of a caller.
LEMMA CallerAnswers ==
  ASSUME RegistryInv, RegistryInv', AnswersInv, NEW q \in Reqs, Caller(q)
  PROVE  AnswersInv'
  <1>0. /\ Typed /\ NothingLeaks' /\ inFlight' \in [Conns -> SUBSET Reqs] /\ call[q] \in CallRecords
    BY DEF RegistryInv, Typed
  <1>1. CASE handle_async_request(q)
    BY <1>0, <1>1, BeginAnswers
  <1>2. CASE send_text(q)
    <2>1. /\ q \in asked /\ asked' = asked \ {q} /\ UNCHANGED <<task, up, link, serving, mail>>
      BY <1>2, Zenon DEF send_text, CallStep
    <2>2. RequestedOnce(q) /\ TaskKnown(q)
      BY DEF AnswersInv, AllRequestedOnce, AllTaskKnown
    <2>3. call[q].pc # "idle" /\ task[q].st = "none" /\ \A c \in Conns : ~Has(down[c], Frame("request", q))
      BY <2>1, <2>2 DEF RequestedOnce
    <2>4. \/ call[q].pc = "sending" /\ CallGoes(q, "head")
          \/ call[q].pc = "sending" /\ CallEnds(q, "failed")
          \/ UNCHANGED <<call, inFlight>>
      BY <1>0, <1>2, CallerIs, Zenon
    <2>5. /\ \A r \in Reqs : /\ call'[r].session = call[r].session
                             /\ call[r].pc # "idle" => call'[r].pc # "idle"
          /\ (AllMailInOrder /\ AllReadInBounds /\ Complete)'
      <3>1. CASE UNCHANGED <<call, inFlight>>
        BY <2>1, <3>1 DEF AnswersInv, AllMailInOrder, MailInOrder, AllReadInBounds, ReadInBounds, Received, Complete
      <3>2. CASE call[q].pc = "sending" /\ CallGoes(q, "head")
        BY <1>0, <2>1, <3>2, CallerParts DEF Holding
      <3>3. CASE call[q].pc = "sending" /\ CallEnds(q, "failed")
        BY <1>0, <2>1, <3>3, CallerParts DEF Holding, Ends
      <3> QED BY <2>4, <3>1, <3>2, <3>3
    <2>6. (AllTaskKnown /\ EndIsLast)'
      BY <2>1, <2>5 DEF AnswersInv, AllTaskKnown, TaskKnown, EndIsLast
    <2>7. AllRequestedOnce'
      <3>1. CASE UNCHANGED down
        <4>1. SUFFICES ASSUME NEW r \in Reqs  PROVE RequestedOnce(r)'
          BY DEF AllRequestedOnce
        <4>2. RequestedOnce(r)
          BY DEF AnswersInv, AllRequestedOnce
        <4> QED BY <2>1, <2>5, <3>1, <4>2 DEF RequestedOnce
      <3>2. CASE ~UNCHANGED down
        <4>1. /\ sessions = call[q].session
              /\ down' = [down EXCEPT ![sessions] = Append(down[sessions], Frame("request", q))]
          BY <1>0, <1>2, <3>2 DEF send_text, Typed
        <4>2. PICK c \in Conns : c = sessions
          BY <1>0, <3>2, <4>1 DEF Typed, Conns
        <4>3. Frame("request", q) \in Orders
          BY FramesDiffer
        <4>4. SUFFICES ASSUME NEW r \in Reqs  PROVE RequestedOnce(r)'
          BY DEF AllRequestedOnce
        <4>5. RequestedOnce(r)
          BY DEF AnswersInv, AllRequestedOnce
        <4>6. /\ \A d \in Conns : d # c => down'[d] = down[d]
              /\ Len(down'[c]) = Len(down[c]) + 1 /\ Len(down[c]) \in Nat
              /\ \A i \in 1..Len(down[c]) : down'[c][i] = down[c][i]
              /\ down'[c][Len(down[c]) + 1] = Frame("request", q)
              /\ Has(down'[c], Frame("request", r)) <=> Has(down[c], Frame("request", r)) \/ q = r
          <5>1. /\ \A d \in Conns : d # c => down'[d] = down[d]
                /\ Len(down'[c]) = Len(down[c]) + 1 /\ Len(down[c]) \in Nat
                /\ \A i \in 1..Len(down[c]) : down'[c][i] = down[c][i]
                /\ down'[c][Len(down[c]) + 1] = Frame("request", q)
                /\ Has(down'[c], Frame("request", r)) <=>
                     Has(down[c], Frame("request", r)) \/ Frame("request", q) = Frame("request", r)
            <6>1. down' = [down EXCEPT ![c] = Append(down[c], Frame("request", q))]
              BY <4>1, <4>2
            <6> QED BY <1>0, <4>3, <6>1, OrderSent
          <5>2. Frame("request", q) = Frame("request", r) <=> q = r
            BY DEF Frame
          <5> QED BY <5>1, <5>2
        <4>7. \A d \in Conns : Has(down'[d], Frame("request", r)) =>
                 r \notin asked' /\ task[r].st = "none" /\ call[r].pc # "idle" /\ call[r].session = d
          <5>1. CASE r = q
            BY <2>1, <2>3, <4>1, <4>2, <4>6, <5>1
          <5>2. CASE r # q
            BY <2>1, <4>5, <4>6, <5>2 DEF RequestedOnce
          <5> QED BY <5>1, <5>2
        <4>8. \A d \in Conns : \A i, j \in 1..Len(down'[d]) :
                 down'[d][i] = Frame("request", r) /\ down'[d][j] = Frame("request", r) => i = j
          <5>1. SUFFICES ASSUME NEW i \in 1..Len(down'[c]), NEW j \in 1..Len(down'[c]),
                                down'[c][i] = Frame("request", r), down'[c][j] = Frame("request", r)
                         PROVE  i = j
            BY <4>5, <4>6 DEF RequestedOnce
          <5>2. CASE r = q
            <6>1. i = Len(down[c]) + 1 /\ j = Len(down[c]) + 1
              BY <2>3, <4>6, <5>1, <5>2 DEF Has
            <6> QED BY <6>1
          <5>3. CASE r # q
            <6>1. i \in 1..Len(down[c]) /\ j \in 1..Len(down[c])
              BY <4>6, <5>1, <5>3, FramesDiffer
            <6> QED BY <4>5, <4>6, <5>1, <6>1 DEF RequestedOnce
          <5> QED BY <5>2, <5>3
        <4> QED BY <2>1, <2>5, <4>5, <4>7, <4>8 DEF RequestedOnce
      <3> QED BY <3>1, <3>2
    <2> QED BY <2>5, <2>6, <2>7 DEF AnswersInv
  <1>3. CASE AwaitHead(q)
    <2>1. /\ UNCHANGED <<asked, task, up, link, serving, down>> /\ call[q].pc = "head" /\ mail[q] # <<>>
          /\ mail' = [mail EXCEPT ![q] = Tail(mail[q])]
          /\ \/ Head(mail[q]) = "head" /\ CallGoes(q, "stream")
             \/ CallEnds(q, "failed")
      <3>1. /\ UNCHANGED <<asked, task, up, link, serving, down>> /\ call[q].pc = "head" /\ mail[q] # <<>>
            /\ mail' = [mail EXCEPT ![q] = Tail(mail[q])]
        BY <1>3, Zenon DEF AwaitHead, CallStep
      <3> QED BY <1>0, <1>3, <3>1, CallerIs, Zenon
    <2>2. /\ \A r \in Reqs : /\ call'[r].session = call[r].session
                             /\ call[r].pc # "idle" => call'[r].pc # "idle"
          /\ (AllMailInOrder /\ AllReadInBounds /\ Complete)'
      <3>1. CASE Head(mail[q]) = "head" /\ CallGoes(q, "stream")
        BY <1>0, <2>1, <3>1, CallerParts DEF Holding
      <3>2. CASE CallEnds(q, "failed")
        <4>1. call[q].pc \in Holding /\ "failed" \in Ends
          BY <2>1 DEF Holding, Ends
        <4> QED BY <1>0, <2>1, <3>2, <4>1, CallerParts
      <3> QED BY <2>1, <3>1, <3>2
    <2> QED BY <2>1, <2>2, CallMoves DEF AnswersInv
  <1>4. CASE __aiter__(q)
    <2>1. /\ UNCHANGED <<asked, task, up, link, serving, down>> /\ call[q].pc = "stream" /\ mail[q] # <<>>
          /\ \/ /\ Head(mail[q]) = "body" /\ mail' = [mail EXCEPT ![q] = Tail(mail[q])]
                /\ call' = CallAt(q, "stream", call[q].session, call[q].got + 1) /\ UNCHANGED inFlight
             \/ /\ mail' = [mail EXCEPT ![q] = Tail(mail[q])] /\ CallEnds(q, "ok")
             \/ mail' = mail /\ CallEnds(q, "failed")
      BY <1>0, <1>4, CallerIs, Zenon
    <2>2. /\ \A r \in Reqs : /\ call'[r].session = call[r].session
                             /\ call[r].pc # "idle" => call'[r].pc # "idle"
          /\ (AllMailInOrder /\ AllReadInBounds /\ Complete)'
      <3>1. CASE /\ Head(mail[q]) = "body" /\ mail' = [mail EXCEPT ![q] = Tail(mail[q])]
                 /\ call' = CallAt(q, "stream", call[q].session, call[q].got + 1) /\ UNCHANGED inFlight
        BY <1>0, <2>1, <3>1, CallerParts DEF Holding
      <3>2. CASE mail' = [mail EXCEPT ![q] = Tail(mail[q])] /\ CallEnds(q, "ok")
        <4>1. call[q].pc \in Holding /\ "ok" \in Ends
          BY <2>1 DEF Holding, Ends
        <4> QED BY <1>0, <2>1, <3>2, <4>1, CallerParts
      <3>3. CASE mail' = mail /\ CallEnds(q, "failed")
        BY <1>0, <2>1, <3>3, CallerParts DEF Holding, Ends
      <3> QED BY <2>1, <3>1, <3>2, <3>3
    <2> QED BY <2>1, <2>2, CallMoves DEF AnswersInv
  <1>5. CASE CancelledInAwait(q) \/ AcloseReturns(q)
    <2>1. call[q].pc \in Holding /\ UNCHANGED <<asked, task, up, link, serving, down, mail>>
      BY <1>5, Zenon DEF CancelledInAwait, AcloseReturns, CallStep, Holding
    <2>2. CallEnds(q, "cancelled")
      BY <1>0, <1>5, CallerIs, Zenon
    <2> QED BY <1>0, <2>1, <2>2, CallerParts, CallMoves DEF AnswersInv, Ends
  <1>6. CASE aclose(q) \/ AcloseCancelled(q)
    <2>1. call[q].pc \in Holding /\ UNCHANGED <<asked, task, up, link, serving, down, mail>>
      BY <1>6, Zenon DEF aclose, AcloseCancelled, CallStep, Holding
    <2>2. CallGoes(q, "closing") \/ CallGoes(q, "torn") \/ CallEnds(q, "cancelled")
      BY <1>0, <1>6, CallerIs, Zenon
    <2>3. /\ \A r \in Reqs : /\ call'[r].session = call[r].session
                             /\ call[r].pc # "idle" => call'[r].pc # "idle"
          /\ (AllMailInOrder /\ AllReadInBounds /\ Complete)'
      <3>1. CASE CallGoes(q, "closing")
        BY <1>0, <2>1, <3>1, CallerParts DEF Holding
      <3>2. CASE CallGoes(q, "torn")
        BY <1>0, <2>1, <3>2, CallerParts DEF Holding
      <3>3. CASE CallEnds(q, "cancelled")
        BY <1>0, <2>1, <3>3, CallerParts DEF Ends
      <3> QED BY <2>2, <3>1, <3>2, <3>3
    <2> QED BY <2>1, <2>3, CallMoves DEF AnswersInv
  <1>7. CASE CancelGoesOut(q)
    <2>1. UNCHANGED <<asked, task, up, link, serving, mail, call, inFlight>>
      BY <1>7, Zenon DEF CancelGoesOut, CallStep
    <2>3. /\ \A r \in Reqs : /\ call'[r].session = call[r].session
                             /\ call[r].pc # "idle" => call'[r].pc # "idle"
          /\ (AllMailInOrder /\ AllReadInBounds /\ Complete)'
      BY <2>1 DEF AnswersInv, AllMailInOrder, MailInOrder, AllReadInBounds, ReadInBounds, Received, Complete
    <2>4. (AllTaskKnown /\ EndIsLast)'
      BY <2>1, <2>3 DEF AnswersInv, AllTaskKnown, TaskKnown, EndIsLast
    <2>5. AllRequestedOnce'
      <3>1. SUFFICES ASSUME NEW r \in Reqs  PROVE RequestedOnce(r)'
        BY DEF AllRequestedOnce
      <3>2. RequestedOnce(r)
        BY DEF AnswersInv, AllRequestedOnce
      <3>3. CASE UNCHANGED down
        BY <2>1, <2>3, <3>2, <3>3 DEF RequestedOnce
      <3>4. CASE ~UNCHANGED down
        <4>1. PICK c \in Conns : down' = [down EXCEPT ![c] = Append(down[c], Frame("cancel", q))]
          <5>1. down' = [down EXCEPT ![call[q].session] = Append(down[call[q].session], Frame("cancel", q))]
            BY <1>7, <3>4 DEF CancelGoesOut
          <5>2. call[q].session \in Conns
            BY <1>0, <3>4, <5>1 DEF Typed
          <5> QED BY <5>1, <5>2
        <4>2. Frame("cancel", q) \in Orders
          BY FramesDiffer
        <4>3. /\ \A d \in Conns : d # c => down'[d] = down[d]
              /\ Len(down'[c]) = Len(down[c]) + 1 /\ Len(down[c]) \in Nat
              /\ \A i \in 1..Len(down[c]) : down'[c][i] = down[c][i]
              /\ down'[c][Len(down[c]) + 1] # Frame("request", r)
              /\ Has(down'[c], Frame("request", r)) <=> Has(down[c], Frame("request", r))
          <5>1. /\ \A d \in Conns : d # c => down'[d] = down[d]
                /\ Len(down'[c]) = Len(down[c]) + 1 /\ Len(down[c]) \in Nat
                /\ \A i \in 1..Len(down[c]) : down'[c][i] = down[c][i]
                /\ down'[c][Len(down[c]) + 1] = Frame("cancel", q)
                /\ Has(down'[c], Frame("request", r)) <=>
                     Has(down[c], Frame("request", r)) \/ Frame("cancel", q) = Frame("request", r)
            BY <1>0, <4>1, <4>2, OrderSent
          <5>2. Frame("cancel", q) # Frame("request", r)
            BY DEF Frame
          <5> QED BY <5>1, <5>2
        <4>4. \A d \in Conns : \A i, j \in 1..Len(down'[d]) :
                 down'[d][i] = Frame("request", r) /\ down'[d][j] = Frame("request", r) => i = j
          <5>1. SUFFICES ASSUME NEW i \in 1..Len(down'[c]), NEW j \in 1..Len(down'[c]),
                                down'[c][i] = Frame("request", r), down'[c][j] = Frame("request", r)
                         PROVE  i = j
            BY <3>2, <4>3 DEF RequestedOnce
          <5>2. i \in 1..Len(down[c]) /\ j \in 1..Len(down[c])
            BY <4>3, <5>1
          <5> QED BY <3>2, <4>3, <5>1, <5>2 DEF RequestedOnce
        <4>5. \A d \in Conns : Has(down'[d], Frame("request", r)) => Has(down[d], Frame("request", r))
          BY <4>3
        <4> QED BY <2>1, <2>3, <3>2, <4>4, <4>5 DEF RequestedOnce
      <3> QED BY <3>3, <3>4
    <2> QED BY <2>3, <2>4, <2>5 DEF AnswersInv
  <1> QED BY <1>1, <1>2, <1>3, <1>4, <1>5, <1>6, <1>7 DEF Caller

-----------------------------------------------------------------------------
\* What a task says: whole frames behind those of its connection, its end last.
LEMMA Said ==
  ASSUME RegistryInv, AnswersInv, NEW q \in Reqs, NEW c \in Conns, NEW t \in Seq(Answers),
         NEW s \in {"body", "ended"}, NEW n \in 0..MaxChunks,
         serving = c, task[q].st \in Running, task' = TaskAt(q, s, n), n >= task[q].sent,
         up' = [up EXCEPT ![c] = t],
         UNCHANGED <<inFlight, call, asked, mail, link, down, serving>>,
         Len(t) >= Len(up[c]), \A i \in 1..Len(up[c]) : t[i] = up[c][i],
         \A i \in 1..Len(t) : i > Len(up[c]) =>
             t[i].id = q /\ (t[i].kind = "end" => i = Len(t) /\ s = "ended"),
         \A r \in Reqs : r # q => /\ Count(t, Frame("body", r)) = Count(up[c], Frame("body", r))
                                  /\ Has(t, Frame("end", r)) => Has(up[c], Frame("end", r)),
         IF link[c] = "up" THEN Count(t, Frame("body", q)) = Count(up[c], Frame("body", q)) + (n - task[q].sent)
                           ELSE t = up[c]
  PROVE  AnswersInv'
  <1>0. Typed /\ task[q] \in TaskRecords
    BY DEF RegistryInv, Typed
  <1>1. /\ \A r \in Reqs : r # q => task'[r] = task[r]
        /\ task'[q].st = s /\ task'[q].sent = n
    BY <1>0 DEF TaskAt, Typed
  <1>2. RequestedOnce(q) /\ TaskKnown(q) /\ task[q].st \notin {"none", "ended"}
    BY DEF AnswersInv, AllRequestedOnce, AllTaskKnown, Running
  <1>3. AllRequestedOnce'
    <2>1. SUFFICES ASSUME NEW r \in Reqs  PROVE RequestedOnce(r)'
      BY DEF AllRequestedOnce
    <2>2. CASE r # q
      BY <1>1, <2>2 DEF AnswersInv, AllRequestedOnce, RequestedOnce
    <2>3. CASE r = q
      BY <1>1, <1>2, <2>3 DEF RequestedOnce
    <2> QED BY <2>2, <2>3
  <1>4. AllTaskKnown'
    BY <1>1, <1>2 DEF AnswersInv, AllTaskKnown, TaskKnown
  <1>5. AllMailInOrder'
    BY DEF AnswersInv, AllMailInOrder, MailInOrder
  <1>6. /\ \A r \in Reqs : Received(r)' = Received(r)
        /\ call[q].pc \in Holding => ~Has(mail[q], "end")
    BY <1>2 DEF Received, AnswersInv, AllReadInBounds, ReadInBounds
  <1>7. Received(q) \in Nat /\ task[q].sent \in Nat /\ n \in Nat /\ Count(up[c], Frame("body", q)) \in Nat
    <2>1. up[c] \in Seq(Answers) /\ mail[q] \in Seq(Items) /\ call[q].got \in Nat /\ task[q].sent \in Nat
      BY <1>0, TunnelBounds DEF Typed, CallRecords, TaskRecords
    <2> QED BY <2>1, CountFinite, TunnelBounds DEF Received
  <1>8. AllReadInBounds'
    <2>1. SUFFICES ASSUME NEW r \in Reqs  PROVE ReadInBounds(r)'
      BY DEF AllReadInBounds
    <2>2. ReadInBounds(r)
      BY DEF AnswersInv, AllReadInBounds
    <2>3. CASE r # q
      BY <1>1, <1>6, <2>2, <2>3 DEF ReadInBounds
    <2>4. CASE r = q
      BY <1>1, <1>6, <1>7, <2>2, <2>4 DEF ReadInBounds
    <2> QED BY <2>3, <2>4
  <1>9. up'[c] = t /\ \A d \in Conns : d # c => up'[d] = up[d]
    BY <1>0 DEF Typed
  <1>10. EndIsLast'
    <2>1. SUFFICES ASSUME NEW d \in Conns, NEW i \in 1..Len(up'[d])
                   PROVE  /\ task'[up'[d][i].id].st # "none"
                          /\ up'[d][i].kind = "end" =>
                               /\ task'[up'[d][i].id].st = "ended"
                               /\ \A j \in 1..Len(up'[d]) : up'[d][j] = Frame("body", up'[d][i].id) => j < i
      BY DEF EndIsLast
    <2>2. \A e \in Conns : \A k \in 1..Len(up[e]) :
             /\ up[e][k].id \in Reqs
             /\ task[up[e][k].id].st # "none" /\ (up[e][k].kind = "end" => up[e][k].id # q)
             /\ task'[up[e][k].id].st # "none"
             /\ up[e][k].kind = "end" => task'[up[e][k].id].st = "ended"
      <3>1. \A e \in Conns : \A k \in 1..Len(up[e]) : up[e][k] \in Answers
        BY <1>0 DEF Typed
      <3>2. \A e \in Conns : \A k \in 1..Len(up[e]) : up[e][k].id \in Reqs
        BY <3>1 DEF Answers
      <3> QED BY <1>1, <1>2, <3>2 DEF AnswersInv, EndIsLast
    <2>3. CASE d # c
      BY <1>9, <2>1, <2>2, <2>3 DEF AnswersInv, EndIsLast
    <2>4. CASE d = c /\ i <= Len(up[c])
      <3>1. i \in 1..Len(up[c]) /\ up'[d][i] = up[c][i]
        BY <1>0, <1>9, <2>1, <2>4 DEF Typed
      <3>2. ASSUME up[c][i].kind = "end", NEW j \in 1..Len(t), t[j] = Frame("body", up[c][i].id)
            PROVE  j < i
        <4>1. up[c][i].id # q /\ t[j].id = up[c][i].id
          BY <2>2, <3>1, <3>2 DEF Frame
        <4>2. j \in 1..Len(up[c])
          BY <1>0, <3>2, <4>1 DEF Typed
        <4> QED BY <3>1, <3>2, <4>2 DEF AnswersInv, EndIsLast
      <3> QED BY <1>9, <2>2, <2>4, <3>1, <3>2
    <2>5. CASE d = c /\ i > Len(up[c])
      <3>1. i \in 1..Len(t) /\ up'[d] = t /\ t[i].id = q /\ (t[i].kind = "end" => i = Len(t) /\ s = "ended")
        BY <1>9, <2>1, <2>5
      <3>2. ASSUME t[i].kind = "end", NEW j \in 1..Len(t), t[j] = Frame("body", q)
            PROVE  j < i
        <4>1. j # i /\ i = Len(t)
          BY <3>1, <3>2 DEF Frame
        <4> QED BY <3>2, <4>1
      <3> QED BY <1>1, <3>1, <3>2
    <2> QED BY <1>0, <2>1, <2>3, <2>4, <2>5 DEF Typed
  <1>11. Complete'
    <2>1. SUFFICES ASSUME NEW d \in Conns, NEW r \in inFlight[d]
                   PROVE  /\ Received(r) + Count(up'[d], Frame("body", r)) <= task'[r].sent
                          /\ link[d] = "up" \/ Has(up'[d], Frame("end", r)) =>
                               Received(r) + Count(up'[d], Frame("body", r)) = task'[r].sent
      <3>1. inFlight' \in [Conns -> SUBSET Reqs]
        BY <1>0 DEF Typed
      <3> QED BY <1>6, <3>1 DEF Complete
    <2>2. /\ r \in Reqs /\ call[r].session = d
          /\ Received(r) + Count(up[d], Frame("body", r)) <= task[r].sent
          /\ link[d] = "up" \/ Has(up[d], Frame("end", r)) =>
               Received(r) + Count(up[d], Frame("body", r)) = task[r].sent
      BY <1>0 DEF AnswersInv, Complete, RegistryInv, NothingLeaks, Typed
    <2>3. CASE r # q
      BY <1>1, <1>9, <2>2, <2>3
    <2>4. CASE r = q
      <3>1. d = c
        BY <1>2, <2>2, <2>4 DEF TaskKnown
      <3>2. ~Has(up[c], Frame("end", q))
        BY <1>2 DEF Has, Frame, AnswersInv, EndIsLast
      <3>3. CASE link[c] = "up"
        <4>1. Received(q) + Count(t, Frame("body", q)) = n
          BY <1>7, <2>2, <2>4, <3>1, <3>3
        <4> QED BY <1>1, <1>7, <1>9, <2>4, <3>1, <4>1
      <3>4. CASE link[c] # "up"
        BY <1>1, <1>7, <1>9, <2>2, <2>4, <3>1, <3>2, <3>4
      <3> QED BY <3>3, <3>4
    <2> QED BY <2>3, <2>4
  <1> QED BY <1>3, <1>4, <1>5, <1>8, <1>10, <1>11 DEF AnswersInv

\* One frame behind the others, or lost.
LEMMA SaidOne ==
  ASSUME RegistryInv, AnswersInv, NEW q \in Reqs, NEW k \in {"head", "body", "end"},
         NEW s \in {"body", "ended"}, NEW n \in 0..MaxChunks,
         serving # 0, task[q].st \in Running, task' = TaskAt(q, s, n), Say(q, <<Frame(k, q)>>),
         k = "body" => n = task[q].sent + 1, k # "body" => n = task[q].sent, k = "end" => s = "ended",
         UNCHANGED <<inFlight, call, asked, mail, link, down, serving>>
  PROVE  AnswersInv'
  <1>0. Typed /\ task[q].sent \in Nat
    BY TunnelBounds DEF RegistryInv, Typed, TaskRecords
  <1> DEFINE f == Frame(k, q)
  <1>1. PICK c \in Conns : c = serving
    BY <1>0, SayIs
  <1>2. PICK t : t = IF link[c] = "up" THEN Append(up[c], f) ELSE up[c]
    OBVIOUS
  <1>3. up[c] \in Seq(Answers) /\ f \in Answers /\ f.id = q /\ f.kind = k
    BY <1>0, FramesDiffer DEF Typed
  <1>4. up' = [up EXCEPT ![c] = t]
    <2>1. up' = [up EXCEPT ![serving] = IF link[serving] = "up" THEN Append(up[serving], f) ELSE up[serving]]
      BY <1>0, <1>3, SayIs
    <2> QED BY <1>1, <1>2, <2>1
  <1>5. f = Frame("body", q) <=> k = "body"
    BY DEF Frame
  <1>6. \A r \in Reqs : r # q => f # Frame("body", r) /\ f # Frame("end", r)
    BY DEF Frame
  <1> HIDE DEF f
  <1>7. /\ t \in Seq(Answers) /\ Len(t) >= Len(up[c]) /\ \A i \in 1..Len(up[c]) : t[i] = up[c][i]
        /\ \A i \in 1..Len(t) : i > Len(up[c]) => i = Len(t) /\ t[i] = f
    BY <1>2, <1>3
  <1>8. \A r \in Reqs : r # q => /\ Count(t, Frame("body", r)) = Count(up[c], Frame("body", r))
                                 /\ Has(t, Frame("end", r)) => Has(up[c], Frame("end", r))
    <2>1. SUFFICES ASSUME NEW r \in Reqs, r # q
                   PROVE  /\ Count(t, Frame("body", r)) = Count(up[c], Frame("body", r))
                          /\ Has(t, Frame("end", r)) => Has(up[c], Frame("end", r))
      OBVIOUS
    <2>2. /\ Count(Append(up[c], f), Frame("body", r)) = Count(up[c], Frame("body", r))
          /\ Has(Append(up[c], f), Frame("end", r)) => Has(up[c], Frame("end", r))
      BY <1>3, <1>6, <2>1, CountAppend, HasAppend
    <2> QED BY <1>2, <2>2
  <1>9. IF link[c] = "up" THEN Count(t, Frame("body", q)) = Count(up[c], Frame("body", q)) + (n - task[q].sent)
                          ELSE t = up[c]
    <2>1. Count(Append(up[c], f), Frame("body", q)) =
            IF f = Frame("body", q) THEN Count(up[c], Frame("body", q)) + 1 ELSE Count(up[c], Frame("body", q))
      BY <1>3, CountAppend
    <2>2. Count(up[c], Frame("body", q)) \in Nat
      BY <1>3, CountFinite
    <2> QED BY <1>0, <1>2, <1>5, <2>1, <2>2
  <1>10. n >= task[q].sent /\ serving = c
    BY <1>0, <1>1
  <1>11. \A i \in 1..Len(t) : i > Len(up[c]) => t[i].id = q /\ (t[i].kind = "end" => i = Len(t) /\ s = "ended")
    BY <1>3, <1>7
  <1>12. t \in Seq(Answers) /\ Len(t) >= Len(up[c]) /\ \A i \in 1..Len(up[c]) : t[i] = up[c][i]
    BY <1>7, Zenon
  <1> QED BY ONLY RegistryInv, AnswersInv, q \in Reqs, c \in Conns, s \in {"body", "ended"}, n \in 0..MaxChunks,
                  task[q].st \in Running, task' = TaskAt(q, s, n),
                  UNCHANGED <<inFlight, call, asked, mail, link, down, serving>>,
                  <1>4, <1>8, <1>9, <1>10, <1>11, <1>12, Said, Zenon

\* An application that fails before its head says a whole answer.
LEMMA SaidError ==
  ASSUME RegistryInv, AnswersInv, NEW q \in Reqs, serving # 0, task[q].st = "run", task' = TaskAt(q, "ended", 1),
         Say(q, <<Frame("head", q), Frame("body", q), Frame("end", q)>>),
         UNCHANGED <<inFlight, call, asked, mail, link, down, serving>>
  PROVE  AnswersInv'
  <1>0. Typed /\ task[q].sent = 0 /\ 1 \in 0..MaxChunks /\ task[q].st \in Running
    BY TunnelBounds DEF RegistryInv, AnswersInv, AllTaskKnown, TaskKnown, Running
  <1> DEFINE h == Frame("head", q)
             b == Frame("body", q)
             e == Frame("end", q)
  <1>1. PICK c \in Conns : c = serving
    BY <1>0, SayIs
  <1>2. PICK t : t = IF link[c] = "up" THEN Append(Append(Append(up[c], h), b), e) ELSE up[c]
    OBVIOUS
  <1>3. /\ up[c] \in Seq(Answers) /\ h \in Answers /\ b \in Answers /\ e \in Answers
        /\ h.id = q /\ b.id = q /\ e.id = q /\ h.kind = "head" /\ b.kind = "body"
    BY <1>0, FramesDiffer DEF Typed
  <1>4. up' = [up EXCEPT ![c] = t]
    <2>1. up' = [up EXCEPT ![serving] = IF link[serving] = "up"
                                        THEN Append(Append(Append(up[serving], h), b), e) ELSE up[serving]]
      BY <1>0, <1>3, SayIs
    <2> QED BY <1>1, <1>2, <2>1
  <1>5. /\ h # b /\ e # b
        /\ \A r \in Reqs : r # q => /\ h # Frame("body", r) /\ b # Frame("body", r) /\ e # Frame("body", r)
                                    /\ h # Frame("end", r) /\ b # Frame("end", r) /\ e # Frame("end", r)
    BY DEF Frame
  <1>5a. b = Frame("body", q)
    OBVIOUS
  <1> HIDE DEF h, b, e
  <1>6. PICK u \in Seq(Answers) : u = Append(up[c], h)
    <2>1. Append(up[c], h) \in Seq(Answers)
      BY <1>3
    <2> QED BY <2>1, Zenon
  <1>7. PICK v \in Seq(Answers) : v = Append(u, b)
    <2>1. Append(u, b) \in Seq(Answers)
      BY <1>3
    <2> QED BY <2>1, Zenon
  <1>8. PICK w \in Seq(Answers) : w = Append(v, e)
    <2>1. Append(v, e) \in Seq(Answers)
      BY <1>3
    <2> QED BY <2>1, Zenon
  <1>9. t = IF link[c] = "up" THEN w ELSE up[c]
    BY <1>2, <1>6, <1>7, <1>8
  <1>10. /\ t \in Seq(Answers) /\ Len(t) >= Len(up[c]) /\ \A i \in 1..Len(up[c]) : t[i] = up[c][i]
         /\ \A i \in 1..Len(t) : i > Len(up[c]) => t[i] = h \/ t[i] = b \/ (t[i] = e /\ i = Len(t))
    BY <1>3, <1>6, <1>7, <1>8, <1>9
  <1>11. \A x : /\ h # x /\ e # x => Count(w, x) = IF b = x THEN Count(up[c], x) + 1 ELSE Count(up[c], x)
                /\ Has(w, x) => Has(up[c], x) \/ h = x \/ b = x \/ e = x
    <2>1. \A x : /\ h # x => Count(u, x) = Count(up[c], x)
                 /\ Has(u, x) <=> Has(up[c], x) \/ h = x
      BY <1>3, <1>6, CountAppend, HasAppend
    <2>2. \A x : /\ Count(v, x) = IF b = x THEN Count(u, x) + 1 ELSE Count(u, x)
                 /\ Has(v, x) <=> Has(u, x) \/ b = x
      BY <1>3, <1>7, CountAppend, HasAppend
    <2>3. \A x : /\ e # x => Count(w, x) = Count(v, x)
                 /\ Has(w, x) <=> Has(v, x) \/ e = x
      BY <1>3, <1>8, CountAppend, HasAppend
    <2> QED BY <2>1, <2>2, <2>3
  <1>12. \A r \in Reqs : r # q => /\ Count(t, Frame("body", r)) = Count(up[c], Frame("body", r))
                                  /\ Has(t, Frame("end", r)) => Has(up[c], Frame("end", r))
    BY <1>5, <1>9, <1>11
  <1>13. IF link[c] = "up" THEN Count(t, Frame("body", q)) = Count(up[c], Frame("body", q)) + (1 - task[q].sent)
                           ELSE t = up[c]
    <2>1. Count(up[c], Frame("body", q)) \in Nat
      BY <1>3, CountFinite
    <2> QED BY <1>0, <1>5, <1>5a, <1>9, <1>11, <2>1
  <1>14. \A i \in 1..Len(t) : i > Len(up[c]) => t[i].id = q /\ (t[i].kind = "end" => i = Len(t) /\ "ended" = "ended")
    BY <1>3, <1>10
  <1>15. 1 >= task[q].sent /\ serving = c /\ "ended" \in {"body", "ended"}
    BY <1>0, <1>1
  <1> QED BY <1>0, <1>4, <1>10, <1>12, <1>13, <1>14, <1>15, Said, Zenon


\* The runner takes a frame: a request begins its task, once, and a cancel stops a task that runs.
LEMMA FrameAnswers ==
  ASSUME RegistryInv, AnswersInv, NEW c \in Conns, _handle_tunnel_frame(c)
  PROVE  AnswersInv'
  <1>0. Typed
    BY DEF RegistryInv
  <1>1. /\ serving = c /\ down[c] # <<>> /\ down' = [down EXCEPT ![c] = Tail(down[c])]
        /\ UNCHANGED <<inFlight, call, asked, mail, link, up, serving>>
    BY Zenon DEF _handle_tunnel_frame, RunnerStep
  <1>2. PICK f \in Orders : f = Head(down[c])
    BY <1>0, FrameIs
  <1>3. PICK q \in Reqs : q = f.id
    BY <1>2 DEF Orders
  <1>4. /\ task[q] \in TaskRecords /\ f = Frame(f.kind, q)
        /\ \/ f.kind = "request" /\ task' = TaskAt(q, "run", task[q].sent)
           \/ /\ f.kind # "request" /\ task[q].st \in Running
              /\ task' = TaskAt(q, "stopped", task[q].sent)
           \/ f.kind # "request" /\ task' = task
    <2>1. task[q] \in TaskRecords
      BY <1>0 DEF Typed
    <2>2. f = Frame(f.kind, q)
      BY <1>2, <1>3, FramesDiffer
    <2>3. \/ f.kind = "request" /\ task' = TaskAt(q, "run", task[q].sent)
          \/ f.kind = "cancel" /\ task[q].st \in Running /\ task' = TaskAt(q, "stopped", task[q].sent)
          \/ f.kind # "request" /\ task' = task
      BY <1>0, <1>2, <1>3, FrameIs, Zenon
    <2> QED BY <2>1, <2>2, <2>3
  <1>5. /\ \A r \in Reqs : r # q => task'[r] = task[r]
        /\ task'[q].sent = task[q].sent
        /\ task[q].st = "ended" /\ f.kind # "request" => task'[q].st = "ended"
        /\ task'[q].st # "none" \/ task'[q] = task[q]
        /\ f.kind = "request" => task'[q].st = "run"
        /\ f.kind # "request" => task'[q].st = task[q].st \/ (task[q].st \in Running /\ task'[q].st = "stopped")
    BY <1>0, <1>4 DEF TaskAt, Typed, TaskRecords, Running
  <1>6. /\ down[c] \in Seq(Orders) /\ down'[c] = Tail(down[c]) /\ \A d \in Conns : d # c => down'[d] = down[d]
        /\ Len(down'[c]) = Len(down[c]) - 1 /\ Len(down[c]) \in Nat \ {0}
        /\ \A i \in 1..Len(down'[c]) : i + 1 \in 1..Len(down[c]) /\ down'[c][i] = down[c][i + 1]
        /\ down[c][1] = f
    BY <1>0, <1>1, <1>2 DEF Typed
  <1>7. f.kind = "request" =>
          /\ Has(down[c], Frame("request", q)) /\ ~Has(down'[c], Frame("request", q))
          /\ \A d \in Conns : d # c => ~Has(down'[d], Frame("request", q))
          /\ task[q].st = "none" /\ call[q].pc # "idle" /\ call[q].session = c /\ q \notin asked
    <2>1. SUFFICES ASSUME f.kind = "request"
                   PROVE  /\ Has(down[c], Frame("request", q)) /\ ~Has(down'[c], Frame("request", q))
                          /\ \A d \in Conns : d # c => ~Has(down'[d], Frame("request", q))
                          /\ task[q].st = "none" /\ call[q].pc # "idle" /\ call[q].session = c /\ q \notin asked
      OBVIOUS
    <2>2. RequestedOnce(q)
      BY DEF AnswersInv, AllRequestedOnce
    <2>3. Has(down[c], Frame("request", q)) /\ down[c][1] = Frame("request", q)
      BY <1>4, <1>6, <2>1 DEF Has
    <2>4. task[q].st = "none" /\ call[q].pc # "idle" /\ call[q].session = c /\ q \notin asked
      BY <2>2, <2>3 DEF RequestedOnce
    <2>5. ~Has(down'[c], Frame("request", q))
      <3>1. \A i \in 1..Len(down[c]) : down[c][i] = Frame("request", q) => i = 1
        BY <1>6, <2>2, <2>3 DEF RequestedOnce
      <3>2. \A i \in 1..Len(down'[c]) : i + 1 # 1
        BY <1>6
      <3> QED BY <1>6, <3>1, <3>2 DEF Has
    <2>6. \A d \in Conns : d # c => ~Has(down'[d], Frame("request", q))
      BY <1>6, <2>2, <2>4 DEF RequestedOnce
    <2> QED BY <2>3, <2>4, <2>5, <2>6
  <1>8. AllRequestedOnce'
    <2>1. SUFFICES ASSUME NEW r \in Reqs  PROVE RequestedOnce(r)'
      BY DEF AllRequestedOnce
    <2>2. RequestedOnce(r)
      BY DEF AnswersInv, AllRequestedOnce
    <2>3. \A d \in Conns : Has(down'[d], Frame("request", r)) => Has(down[d], Frame("request", r))
      BY <1>6 DEF Has
    <2>4. \A d \in Conns : \A i, j \in 1..Len(down'[d]) :
             down'[d][i] = Frame("request", r) /\ down'[d][j] = Frame("request", r) => i = j
      <3>1. SUFFICES ASSUME NEW d \in Conns, NEW i \in 1..Len(down'[d]), NEW j \in 1..Len(down'[d]),
                            down'[d][i] = Frame("request", r), down'[d][j] = Frame("request", r)
                     PROVE  i = j
        OBVIOUS
      <3>2. CASE d # c
        BY <1>6, <2>2, <3>1, <3>2 DEF RequestedOnce
      <3>3. CASE d = c
        <4>1. i + 1 = j + 1
          <5>1. /\ i + 1 \in 1..Len(down[c]) /\ down[c][i + 1] = Frame("request", r)
                /\ j + 1 \in 1..Len(down[c]) /\ down[c][j + 1] = Frame("request", r)
            BY <1>6, <3>1, <3>3
          <5> QED BY <2>2, <5>1 DEF RequestedOnce
        <4>2. i \in Int /\ j \in Int
          OBVIOUS
        <4> QED BY <4>1, <4>2
      <3> QED BY <3>2, <3>3
    <2>6. CASE r # q
      BY <1>1, <1>5, <2>2, <2>3, <2>4, <2>6 DEF RequestedOnce
    <2>7. CASE r = q /\ f.kind = "request"
      BY <1>1, <1>7, <2>2, <2>4, <2>7 DEF RequestedOnce
    <2>8. CASE r = q /\ f.kind # "request"
      <3>1. task[q].st = "none" => task'[q].st = "none"
        BY <1>5, <2>8 DEF Running
      <3> QED BY <1>1, <2>2, <2>3, <2>4, <2>8, <3>1 DEF RequestedOnce
    <2> QED BY <2>6, <2>7, <2>8
  <1>9. AllTaskKnown'
    <2>1. SUFFICES ASSUME NEW r \in Reqs  PROVE TaskKnown(r)'
      BY DEF AllTaskKnown
    <2>2. TaskKnown(r)
      BY DEF AnswersInv, AllTaskKnown
    <2>3. CASE r # q
      BY <1>1, <1>5, <2>2, <2>3 DEF TaskKnown
    <2>4. CASE r = q
      <3>1. c # 0
        BY DEF Conns
      <3> QED BY <1>1, <1>5, <1>7, <2>2, <2>4, <3>1 DEF TaskKnown, Running
    <2> QED BY <2>3, <2>4
  <1>10. \A r \in Reqs : /\ task'[r].sent = task[r].sent /\ (task[r].st = "ended" => task'[r].st = "ended")
                         /\ task[r].st # "none" => task'[r].st # "none"
    BY <1>5, <1>7
  <1>11. EndIsLast'
    <2>1. \A d \in Conns : \A i \in 1..Len(up[d]) : up[d][i].id \in Reqs
      <3>1. \A d \in Conns : \A i \in 1..Len(up[d]) : up[d][i] \in Answers
        BY <1>0 DEF Typed
      <3> QED BY <3>1 DEF Answers
    <2> QED BY <1>1, <1>10, <2>1 DEF AnswersInv, EndIsLast
  <1>12. (AllMailInOrder /\ AllReadInBounds)'
    BY <1>1, <1>10 DEF AnswersInv, AllMailInOrder, MailInOrder, AllReadInBounds, ReadInBounds, Received
  <1>13. \A d \in Conns : \A r \in inFlight[d] : r \in Reqs /\ Received(r)' = Received(r)
    BY <1>0, <1>1 DEF Typed, Received
  <1>14. Complete'
    BY <1>1, <1>10, <1>13 DEF AnswersInv, Complete
  <1> QED BY <1>8, <1>9, <1>11, <1>12, <1>14 DEF AnswersInv

\* The steps of the runner.
LEMMA RunnerAnswers ==
  ASSUME RegistryInv, AnswersInv, Runner
  PROVE  AnswersInv'
  <1>0. Typed
    BY DEF RegistryInv
  <1>1. ASSUME NEW c \in Conns, serve_tunnel(c)  PROVE AnswersInv'
    <2>1. /\ serving = 0 /\ serving' = c /\ handler[c] = "none" /\ link' = [link EXCEPT ![c] = "up"]
          /\ UNCHANGED <<inFlight, call, asked, mail, down, up, task>>
      BY <1>1 DEF serve_tunnel, RunnerStep
    <2>2. AllTaskKnown'
      BY <2>1 DEF AnswersInv, AllTaskKnown, TaskKnown, Running
    <2>3. (AllRequestedOnce /\ EndIsLast)'
      BY <2>1 DEF AnswersInv, AllRequestedOnce, RequestedOnce, EndIsLast
    <2>4. (AllMailInOrder /\ AllReadInBounds)'
      BY <2>1 DEF AnswersInv, AllMailInOrder, MailInOrder, AllReadInBounds, ReadInBounds, Received
    <2>5. Complete'
      <3>1. \A d \in Conns : \A q \in inFlight[d] : d # c /\ link'[d] = link[d]
        BY <1>0, <2>1 DEF RegistryInv, NothingLeaks, Registered, Typed, Conns
      <3> QED BY <2>1, <3>1 DEF AnswersInv, Complete, Received
    <2> QED BY <2>2, <2>3, <2>4, <2>5 DEF AnswersInv
  <1>2. ASSUME NEW c \in Conns, ConnectionEnds(c)  PROVE AnswersInv'
    <2>1. /\ serving' = 0 /\ UNCHANGED <<inFlight, call, asked, mail, link, down, up>>
      BY <1>2, Zenon DEF ConnectionEnds, RunnerStep
    <2>2. \A q \in Reqs : /\ task'[q].sent = task[q].sent
                          /\ task'[q].st = IF task[q].st \in Running THEN "stopped" ELSE task[q].st
      BY <1>0, <1>2, StoppedIs
    <2>3. AllRequestedOnce'
      <3>1. SUFFICES ASSUME NEW q \in Reqs  PROVE RequestedOnce(q)'
        BY DEF AllRequestedOnce
      <3>2. RequestedOnce(q)
        BY DEF AnswersInv, AllRequestedOnce
      <3>3. task[q].st = "none" => task'[q].st = "none"
        BY <2>2 DEF Running
      <3> QED BY <2>1, <3>2, <3>3 DEF RequestedOnce
    <2>4. AllTaskKnown'
      BY <2>1, <2>2 DEF AnswersInv, AllTaskKnown, TaskKnown, Running
    <2>5. EndIsLast'
      <3>1. \A d \in Conns : \A i \in 1..Len(up[d]) : up[d][i] \in Answers
        BY <1>0 DEF Typed
      <3>2. \A d \in Conns : \A i \in 1..Len(up[d]) : up[d][i].id \in Reqs
        BY <3>1 DEF Answers
      <3> QED BY <2>1, <2>2, <3>2 DEF AnswersInv, EndIsLast, Running
    <2>6. (AllMailInOrder /\ AllReadInBounds)'
      BY <2>1, <2>2 DEF AnswersInv, AllMailInOrder, MailInOrder, AllReadInBounds, ReadInBounds, Received, Running
    <2>7. Complete'
      <3>1. \A d \in Conns : \A q \in inFlight[d] : q \in Reqs
        BY <1>0 DEF Typed
      <3> QED BY <2>1, <2>2, <3>1 DEF AnswersInv, Complete, Received
    <2> QED BY <2>3, <2>4, <2>5, <2>6, <2>7 DEF AnswersInv
  <1>3. ASSUME NEW c \in Conns, LinkDrops(c)  PROVE AnswersInv'
    <2>1. UNCHANGED <<call, asked, task, serving, mail, inFlight>> /\ GoesDown(c)
      BY <1>3 DEF LinkDrops, server
    <2>2. (AllMailInOrder /\ AllReadInBounds)'
      BY <2>1 DEF AnswersInv, AllMailInOrder, MailInOrder, AllReadInBounds, ReadInBounds, Received
    <2> QED BY <1>0, <2>1, <2>2, CutFrames, CutComplete DEF AnswersInv
  <1>4. ASSUME NEW q \in Reqs, SendHead(q) \/ SendBody(q) \/ SendEnd(q) \/ DispatchFails(q)  PROVE AnswersInv'
    <2>1. serving # 0 /\ UNCHANGED <<inFlight, call, asked, mail, link, down, serving>>
      BY <1>4, Zenon DEF SendHead, SendBody, SendEnd, DispatchFails, RunnerStep
    <2>2. task[q].sent \in 0..MaxChunks
      BY <1>0 DEF Typed, TaskRecords
    <2>3. CASE SendHead(q)
      <3>1. task[q].st \in Running /\ Say(q, <<Frame("head", q)>>)
        BY <2>3 DEF SendHead, Running
      <3>2. task' = TaskAt(q, "body", task[q].sent)
        BY <1>0, <2>3, RunnerIs, Zenon
      <3> QED BY <2>1, <2>2, <3>1, <3>2, SaidOne
    <2>4. CASE SendBody(q)
      <3>1. task[q].st = "body" /\ task[q].st \in Running /\ Say(q, <<Frame("body", q)>>) /\ task[q].sent < MaxChunks
        BY <2>4, Zenon DEF SendBody, Running
      <3>2. task' = TaskAt(q, "body", task[q].sent + 1)
        BY <1>0, <2>4, <3>1, RunnerIs, Zenon
      <3>3. task[q].sent + 1 \in 0..MaxChunks
        BY <2>2, <3>1, TunnelBounds
      <3> QED BY <2>1, <3>1, <3>2, <3>3, SaidOne
    <2>5. CASE SendEnd(q) \/ (DispatchFails(q) /\ task[q].st # "run")
      <3>1. task[q].st \in Running /\ Say(q, <<Frame("end", q)>>)
        BY <2>5, Zenon DEF SendEnd, DispatchFails, Running
      <3>2. task' = TaskAt(q, "ended", task[q].sent)
        BY <1>0, <2>5, RunnerIs, Zenon
      <3> QED BY <2>1, <2>2, <3>1, <3>2, SaidOne
    <2>6. CASE DispatchFails(q) /\ task[q].st = "run"
      <3>1. Say(q, <<Frame("head", q), Frame("body", q), Frame("end", q)>>)
        BY <2>6, Zenon DEF DispatchFails
      <3>2. task' = TaskAt(q, "ended", 1)
        BY <1>0, <2>6, RunnerIs, Zenon
      <3> QED BY <2>1, <2>6, <3>1, <3>2, SaidError
    <2> QED BY <1>4, <2>3, <2>4, <2>5, <2>6
  <1> QED BY <1>1, <1>2, <1>3, <1>4, FrameAnswers, Zenon DEF Runner

\* Every step keeps the answers in order.
LEMMA AnswersStep ==
  ASSUME RegistryInv, RegistryInv', AnswersInv, [TNext]_tvars
  PROVE  AnswersInv'
  <1>1. ASSUME UNCHANGED <<call, asked, task, serving, mail, inFlight, link, down, up>>  PROVE AnswersInv'
    BY <1>1 DEF AnswersInv, AllRequestedOnce, RequestedOnce, AllTaskKnown, TaskKnown, EndIsLast,
                AllMailInOrder, MailInOrder, AllReadInBounds, ReadInBounds, Received, Complete
  <1>2. ASSUME NEW w \in Waiters, Waiter(w)
        PROVE  UNCHANGED <<call, asked, task, serving, mail, inFlight, link, down, up>>
    BY <1>2, Zenon DEF Waiter, wait_for_runner, WaiterWakes, WaiterTimesOut, WaitStep, server
  <1>3. ASSUME UNCHANGED tvars
        PROVE  UNCHANGED <<call, asked, task, serving, mail, inFlight, link, down, up>>
    BY <1>3, Zenon DEF tvars, server
  <1> QED BY <1>1, <1>2, <1>3, RouteAnswers, CallerAnswers, RunnerAnswers, Zenon DEF TNext

-----------------------------------------------------------------------------
(***************************************************************************)
(* The waiters, and the theorems.                                          *)
(***************************************************************************)
\* A chunk that is there to be read was produced, and an end that is there ends what was read.
LEMMA ReadAhead ==
  ASSUME Typed, AnswersInv, NEW q \in Reqs, call[q].pc \in Holding, mail[q] # <<>>
  PROVE  /\ Head(mail[q]) = "body" => call[q].got < task[q].sent
         /\ Head(mail[q]) = "end" => task[q].st = "ended" /\ call[q].got = task[q].sent
  <1>1. /\ mail[q] \in Seq(Items) /\ call[q].got \in Nat /\ task[q].sent \in Nat
        /\ Count(mail[q], "body") \in Nat /\ (Count(mail[q], "body") = 0 <=> ~Has(mail[q], "body"))
        /\ 1 \in 1..Len(mail[q]) /\ mail[q][1] = Head(mail[q])
    <2>1. mail[q] \in Seq(Items) /\ call[q].got \in Nat /\ task[q].sent \in Nat
      BY TunnelBounds DEF Typed, CallRecords, TaskRecords
    <2> QED BY <2>1, CountFinite
  <1>2. ReadInBounds(q) /\ MailInOrder(q)
    BY DEF AnswersInv, AllReadInBounds, AllMailInOrder
  <1>3. ASSUME Head(mail[q]) = "body"  PROVE call[q].got < task[q].sent
    <2>1. Has(mail[q], "body")
      BY <1>1, <1>3 DEF Has
    <2>2. call[q].got + Count(mail[q], "body") <= task[q].sent
      BY <1>2 DEF ReadInBounds, Received
    <2>3. Count(mail[q], "body") # 0
      BY <1>1, <2>1
    <2> QED BY <1>1, <2>2, <2>3
  <1>4. ASSUME Head(mail[q]) = "end"  PROVE task[q].st = "ended" /\ call[q].got = task[q].sent
    <2>1. Has(mail[q], "end")
      BY <1>1, <1>4 DEF Has
    <2>2. ~Has(mail[q], "body")
      <3>1. \A j \in 1..Len(mail[q]) : mail[q][j] = "body" => j < 1
        BY <1>1, <1>2, <1>4 DEF MailInOrder
      <3> QED BY <3>1 DEF Has
    <2> QED BY <1>1, <1>2, <2>1, <2>2 DEF ReadInBounds, Received
  <1> QED BY <1>3, <1>4

\* Who has a place waits, the total counts the places, and it stays below the cap.
WaitersInv ==
    /\ WaitersCounted
    /\ total <= MaxWaiters
    /\ \A w \in waits : waiter[w] = "waiting"

\* Every step keeps the count of the waiters.
LEMMA WaitersStep ==
  ASSUME Typed, WaitersInv, [TNext]_tvars
  PROVE  WaitersInv'
  <1>0. IsFiniteSet(waits) /\ Cardinality(waits) \in Nat /\ total = Cardinality(waits)
    BY WaitersFinite, FS_Subset, FS_CardinalityType DEF Typed, WaitersInv, WaitersCounted
  <1>1. ASSUME NEW c \in Conns, register(c)  PROVE WaitersInv'
    BY <1>0, <1>1, FS_EmptySet, TunnelBounds DEF register, WaitersInv, WaitersCounted
  <1>2. ASSUME NEW c \in Conns, deregister(c) \/ HelloFails(c)  PROVE WaitersInv'
    <2>1. UNCHANGED <<waits, total, waiter>> /\ (sessions' = sessions \/ sessions' = 0)
      BY <1>2 DEF deregister, HelloFails, waiting
    <2> QED BY <2>1 DEF WaitersInv, WaitersCounted
  <1>3. ASSUME NEW w \in Waiters, wait_for_runner(w)  PROVE WaitersInv'
    <2>1. w \notin waits /\ UNCHANGED sessions
      BY <1>3 DEF wait_for_runner, WaitStep, server, WaitersInv
    <2>2. CASE UNCHANGED <<waits, total>>
      BY <1>3, <2>1, <2>2 DEF wait_for_runner, WaitersInv, WaitersCounted, Typed
    <2>3. CASE /\ sessions = 0 /\ total < MaxWaiters /\ waiter' = [waiter EXCEPT ![w] = "waiting"]
               /\ waits' = waits \cup {w} /\ total' = total + 1
      <3>1. Cardinality(waits') = Cardinality(waits) + 1
        BY <1>0, <2>1, <2>3, FS_AddElement
      <3>2. \A v \in waits' : waiter'[v] = "waiting"
        BY <2>3 DEF WaitersInv, Typed
      <3> QED BY <1>0, <2>1, <2>3, <3>1, <3>2, TunnelBounds DEF WaitersInv, WaitersCounted
    <2> QED BY <1>3, <2>2, <2>3 DEF wait_for_runner
  <1>4. ASSUME NEW w \in Waiters, WaiterWakes(w)  PROVE WaitersInv'
    BY <1>4 DEF WaiterWakes, WaitStep, server, WaitersInv, WaitersCounted, Typed
  <1>5. ASSUME NEW w \in Waiters, WaiterTimesOut(w)  PROVE WaitersInv'
    <2>1. /\ waits' = waits \ {w} /\ total' = (IF w \in waits THEN total - 1 ELSE total) /\ UNCHANGED sessions
          /\ \E x : waiter' = [waiter EXCEPT ![w] = x]
      BY <1>5, Zenon DEF WaiterTimesOut, WaitStep, server
    <2>2. Cardinality(waits') = IF w \in waits THEN Cardinality(waits) - 1 ELSE Cardinality(waits)
      BY <1>0, <2>1, FS_RemoveElement
    <2>3. \A v \in waits' : waiter'[v] = "waiting"
      BY <2>1 DEF WaitersInv, Typed
    <2> QED BY <1>0, <2>1, <2>2, <2>3, TunnelBounds DEF WaitersInv, WaitersCounted
  <1>6. ASSUME UNCHANGED <<sessions, waits, total, waiter>>  PROVE WaitersInv'
    BY <1>6 DEF WaitersInv, WaitersCounted
  <1>7. ASSUME NEW c \in Conns, \/ HelloNeverCame(c) \/ HelloRefused(c) \/ HandlerReturned(c)
                                \/ _receive_loop(c) \/ HelperEnds(c) \/ _ping_loop(c)
        PROVE  UNCHANGED <<sessions, waits, total, waiter>>
    BY <1>7, Zenon DEF HelloNeverCame, HelloRefused, HandlerReturned, server, _receive_loop, HelperEnds,
                       _ping_loop, waiting
  <1>8. ASSUME NEW q \in Reqs, Caller(q)  PROVE UNCHANGED <<sessions, waits, total, waiter>>
    BY <1>8, Zenon DEF Caller, handle_async_request, send_text, AwaitHead, __aiter__, CancelledInAwait, aclose,
                       CancelGoesOut, AcloseReturns, AcloseCancelled, CallStep, waiting
  <1>9. ASSUME Runner \/ UNCHANGED tvars  PROVE UNCHANGED <<sessions, waits, total, waiter>>
    BY <1>9, Zenon DEF Runner, serve_tunnel, _handle_tunnel_frame, ConnectionEnds, LinkDrops, SendHead, SendBody,
                       SendEnd, DispatchFails, RunnerStep, server, waiting, tvars
  <1> QED BY <1>1, <1>2, <1>3, <1>4, <1>5, <1>6, <1>7, <1>8, <1>9, Zenon DEF TNext, RouteStep, Waiter

\* What a caller has read was produced, also when its call is over.
GotInv == \A q \in Reqs : call[q].got <= MaxChunks /\ (call[q].pc = "idle" => call[q].got = 0)

\* Every step keeps the bound on what was read.
LEMMA GotStep ==
  ASSUME Typed, Typed', AnswersInv, GotInv, [TNext]_tvars
  PROVE  GotInv'
  <1>1. ASSUME UNCHANGED call  PROVE GotInv'
    BY <1>1 DEF GotInv
  <1>2. ASSUME NEW q \in Reqs, NEW p, NEW s,
               p # "idle" /\ (call' = CallAt(q, p, s, call[q].got) \/ call' = CallAt(q, p, s, 0))
        PROVE  GotInv'
    <2>1. call'[q].pc = p /\ call'[q].got \in {0, call[q].got} /\ \A r \in Reqs : r # q => call'[r] = call[r]
      BY <1>2 DEF CallAt, Typed
    <2> QED BY <1>2, <2>1, TunnelBounds DEF GotInv
  <1>3. ASSUME NEW q \in Reqs, handle_async_request(q)  PROVE GotInv'
    <2>1. \/ call' = CallAt(q, "failed", call[q].session, call[q].got)
          \/ call' = CallAt(q, "sending", sessions, 0)
      BY <1>3, CallerIs, Zenon DEF handle_async_request, CallGoes, CallAt
    <2> QED BY <1>2, <2>1
  <1>4. ASSUME NEW q \in Reqs, \/ send_text(q) \/ AwaitHead(q) \/ CancelledInAwait(q) \/ aclose(q)
                               \/ CancelGoesOut(q) \/ AcloseReturns(q) \/ AcloseCancelled(q)
        PROVE  GotInv'
    <2>0. "head" \in Holding /\ "stream" \in Holding /\ "closing" \in Holding /\ "torn" \in Holding
      BY DEF Holding
    <2>1. \/ UNCHANGED call
          \/ \E p \in Holding \cup Ends : call' = CallAt(q, p, call[q].session, call[q].got)
      BY <1>4, <2>0, CallerIs, Zenon DEF CallGoes, CallEnds, Ends, CancelGoesOut
    <2>2. \A p \in Holding \cup Ends : p # "idle"
      BY DEF Holding, Ends
    <2> QED BY <1>1, <1>2, <2>1, <2>2
  <1>5. ASSUME NEW q \in Reqs, __aiter__(q)  PROVE GotInv'
    <2>1. mail[q] # <<>> /\ call[q].pc = "stream"
      BY <1>5, CallerIs, Zenon
    <2>2. \/ Head(mail[q]) = "body" /\ call' = CallAt(q, "stream", call[q].session, call[q].got + 1)
          \/ call' = CallAt(q, "ok", call[q].session, call[q].got)
          \/ call' = CallAt(q, "failed", call[q].session, call[q].got)
      BY <1>5, CallerIs, Zenon DEF CallEnds
    <2>3. CASE Head(mail[q]) = "body" /\ call' = CallAt(q, "stream", call[q].session, call[q].got + 1)
      <3>1. call[q].got < task[q].sent
        BY <2>1, <2>3, ReadAhead DEF Holding
      <3>2. task[q].sent \in 0..MaxChunks /\ call[q].got \in Nat
        BY DEF Typed, TaskRecords, CallRecords
      <3> QED BY <2>3, <3>1, <3>2, TunnelBounds DEF CallAt, GotInv, Typed
    <2> QED BY <1>2, <2>2, <2>3
  <1>6. ASSUME NEW c \in Conns, RouteStep(c)  PROVE UNCHANGED call
    BY <1>6, Zenon DEF RouteStep, register, HelloNeverCame, HelloRefused, HelloFails, HandlerReturned, server,
                       _receive_loop, HelperEnds, _ping_loop, deregister
  <1>7. ASSUME NEW w \in Waiters, Waiter(w)  PROVE UNCHANGED call
    BY <1>7, Zenon DEF Waiter, wait_for_runner, WaiterWakes, WaiterTimesOut, WaitStep, server
  <1>8. ASSUME Runner \/ UNCHANGED tvars  PROVE UNCHANGED call
    BY <1>8, Zenon DEF Runner, serve_tunnel, _handle_tunnel_frame, ConnectionEnds, LinkDrops, SendHead, SendBody,
                       SendEnd, DispatchFails, RunnerStep, server, tvars
  <1> QED BY <1>1, <1>3, <1>4, <1>5, <1>6, <1>7, <1>8, Zenon DEF TNext, Caller

\* The invariant of the tunnel.
TunnelInv == RegistryInv /\ AnswersInv /\ WaitersInv /\ GotInv

\* The invariant of the tunnel holds throughout: registry, answers, waiters.
THEOREM TunnelInvariant == TSpec => []TunnelInv
  <1>1. TInit => TunnelInv
    <2>1. SUFFICES ASSUME TInit  PROVE TunnelInv
      OBVIOUS
    <2>2. RegistryInv
      BY <2>1, TunnelBounds DEF TInit, RegistryInv, Typed, CallRecords, TaskRecords, Settled, Sessioned, Registered,
                        NothingLeaks, NobodyHangs, Holding, Items, Orders, Answers
    <2>3. AnswersInv
      BY <2>1 DEF TInit, AnswersInv, AllRequestedOnce, RequestedOnce, AllTaskKnown, TaskKnown, EndIsLast,
                AllMailInOrder, MailInOrder, AllReadInBounds, ReadInBounds, Complete, Has, Holding, Running
    <2>4. WaitersInv
      BY <2>1, FS_EmptySet, TunnelBounds DEF TInit, WaitersInv, WaitersCounted
    <2>5. GotInv
      BY <2>1, TunnelBounds DEF TInit, GotInv
    <2> QED BY <2>2, <2>3, <2>4, <2>5 DEF TunnelInv
  <1>2. TunnelInv /\ [TNext]_tvars => TunnelInv'
    <2>1. SUFFICES ASSUME TunnelInv, [TNext]_tvars  PROVE TunnelInv'
      OBVIOUS
    <2>2. RegistryInv'
      BY <2>1, RegistryStep DEF TunnelInv
    <2> QED BY <2>1, <2>2, AnswersStep, WaitersStep, GotStep DEF TunnelInv, RegistryInv
  <1> QED BY <1>1, <1>2, PTL DEF TSpec

\* Orders and Answers are Frames.
LEMMA FramesTyped ==
  ASSUME Typed
  PROVE  down \in [Conns -> Seq(Frames)] /\ up \in [Conns -> Seq(Frames)]
  <1>1. Orders \subseteq Frames /\ Answers \subseteq Frames
    BY DEF Orders, Answers, Frames
  <1>2. \A s \in Seq(Orders) \cup Seq(Answers) : s \in Seq(Frames)
    BY <1>1
  <1> QED BY <1>2 DEF Typed

\* TunnelTypeOK: the bounds on the chunks read and on the waiters are theorems, not types.
THEOREM TunnelTypesHold == TSpec => []TunnelTypeOK
  <1>1. TunnelInv => TunnelTypeOK
    <2>1. SUFFICES ASSUME TunnelInv  PROVE TunnelTypeOK
      OBVIOUS
    <2>2. Typed /\ GotInv /\ total = Cardinality(waits) /\ total <= MaxWaiters
      BY <2>1 DEF TunnelInv, RegistryInv, WaitersInv, WaitersCounted
    <2>3. total \in 0..MaxWaiters
      <3>1. Cardinality(waits) \in Nat
        BY <2>2, WaitersFinite, FS_Subset, FS_CardinalityType DEF Typed
      <3> QED BY <2>2, <3>1, TunnelBounds
    <2>4. call \in [Reqs -> [pc : {"idle", "sending", "head", "stream", "closing"} \cup Settled,
                             session : 0..MaxConns, got : 0..MaxChunks]]
      BY <2>2, TunnelBounds DEF Typed, CallRecords, GotInv
    <2> QED BY <2>2, <2>3, <2>4, FramesTyped DEF TunnelTypeOK, Typed, TaskRecords, Items
  <1> QED BY <1>1, TunnelInvariant, PTL

\* WaitersCounted: _connect_waiter_total is the number of places taken, and register resolves
\* every waiter, so that nobody waits for a runner that is there.
THEOREM WaitersAreCounted == TSpec => []WaitersCounted
  BY TunnelInvariant, PTL DEF TunnelInv, WaitersInv

-----------------------------------------------------------------------------
(***************************************************************************)
(* A tunnelled call is a call.                                             *)
(***************************************************************************)
\* The abstract state changes at one call only.
LEMMA CallMaps ==
  ASSUME NEW q \in Reqs, \A r \in Reqs : r # q => call'[r] = call[r], task' = task,
         call'[q].got = call[q].got,
         \/ Standing(q)' = Standing(q)
         \/ Standing(q) = "idle" /\ Standing(q)' \in {"open", "failed"}
         \/ Standing(q) = "open" /\ Standing(q)' \in {"failed", "cancelled"}
         \/ /\ Standing(q) = "open" /\ Standing(q)' = "ok"
            /\ task[q].st = "ended" /\ call[q].got = task[q].sent
  PROVE  [Calls!CNext]_(Calls!cvars)
  <1>1. CASE Standing(q)' = Standing(q)
    BY <1>1 DEF Calls!cvars, Standing
  <1>2. CASE Standing(q) = "idle" /\ Standing(q)' = "open"
    <2>1. Calls!Begin(q)
      BY <1>2 DEF Calls!Begin, Standing
    <2> QED BY <2>1 DEF Calls!CNext
  <1>3. CASE Standing(q) \in {"idle", "open"} /\ Standing(q)' = "failed"
    <2>1. Calls!Fail(q)
      BY <1>3 DEF Calls!Fail, Standing
    <2> QED BY <2>1 DEF Calls!CNext
  <1>4. CASE Standing(q) = "open" /\ Standing(q)' = "cancelled"
    <2>1. Calls!GiveUp(q)
      BY <1>4 DEF Calls!GiveUp, Standing
    <2> QED BY <2>1 DEF Calls!CNext
  <1>5. CASE /\ Standing(q) = "open" /\ Standing(q)' = "ok"
             /\ task[q].st = "ended" /\ call[q].got = task[q].sent
    <2>1. Calls!Return(q)
      BY <1>5 DEF Calls!Return, Standing
    <2> QED BY <2>1 DEF Calls!CNext
  <1> QED BY <1>1, <1>2, <1>3, <1>4, <1>5

\* A chunk that is read.
LEMMA ReadMaps ==
  ASSUME NEW q \in Reqs, \A r \in Reqs : r # q => call'[r] = call[r], task' = task,
         Standing(q) = "open", Standing(q)' = "open",
         call'[q].got = call[q].got + 1, call[q].got < task[q].sent
  PROVE  [Calls!CNext]_(Calls!cvars)
  <1>1. Calls!Read(q)
    BY DEF Calls!Read, Standing
  <1> QED BY <1>1 DEF Calls!CNext

\* A task that goes on produces or ends the answer of its call.
LEMMA TaskMaps ==
  ASSUME NEW q \in Reqs, \A r \in Reqs : r # q => task'[r] = task[r], call' = call,
         task[q].st # "ended", Standing(q) # "idle",
         \/ task'[q].sent = task[q].sent
         \/ task'[q].sent = task[q].sent + 1 /\ task'[q].st # "ended" /\ task[q].sent < MaxChunks
         \/ task[q].sent = 0 /\ task'[q].sent = 1 /\ task'[q].st = "ended"
  PROVE  [Calls!CNext]_(Calls!cvars)
  <1>1. CASE task'[q].sent = task[q].sent /\ task'[q].st # "ended"
    BY <1>1 DEF Calls!cvars, Standing
  <1>2. CASE task'[q].sent = task[q].sent /\ task'[q].st = "ended"
    <2>1. Calls!Finish(q)
      BY <1>2 DEF Calls!Finish, Standing
    <2> QED BY <2>1 DEF Calls!CNext
  <1>3. CASE task'[q].sent = task[q].sent + 1 /\ task'[q].st # "ended" /\ task[q].sent < MaxChunks
    <2>1. Calls!Produce(q)
      BY <1>3 DEF Calls!Produce, Standing
    <2> QED BY <2>1 DEF Calls!CNext
  <1>4. CASE task[q].sent = 0 /\ task'[q].sent = 1 /\ task'[q].st = "ended"
    <2>1. Calls!Finish(q)
      BY <1>4 DEF Calls!Finish, Standing
    <2> QED BY <2>1 DEF Calls!CNext
  <1> QED BY <1>1, <1>2, <1>3, <1>4

\* Nothing of a call changes.
LEMMA NothingMaps ==
  ASSUME call' = call, \A q \in Reqs : task'[q].sent = task[q].sent /\ (task'[q].st = "ended" <=> task[q].st = "ended")
  PROVE  [Calls!CNext]_(Calls!cvars)
  BY DEF Calls!cvars, Standing

\* A step of a caller is a step of its call.
LEMMA CallerMaps ==
  ASSUME TunnelInv, NEW q \in Reqs, Caller(q)
  PROVE  [Calls!CNext]_(Calls!cvars)
  <1>0. Typed /\ AnswersInv /\ GotInv
    BY DEF TunnelInv, RegistryInv
  <1>1. task' = task
    BY Zenon DEF Caller, handle_async_request, send_text, AwaitHead, __aiter__, CancelledInAwait, aclose,
                 CancelGoesOut, AcloseReturns, AcloseCancelled, CallStep
  <1>2. ASSUME NEW p, call' = CallAt(q, p, call[q].session, call[q].got)
        PROVE  /\ \A r \in Reqs : r # q => call'[r] = call[r]
               /\ call'[q].got = call[q].got /\ (p \in Awaiting \cup Ends => Standing(q)' = IF p \in Awaiting THEN "open" ELSE p)
               /\ p \in {"closing", "torn"} => Standing(q)' = "cancelled"
    <2>1. call'[q].pc = p /\ call'[q].got = call[q].got /\ \A r \in Reqs : r # q => call'[r] = call[r]
      BY <1>0, <1>2 DEF CallAt, Typed
    <2> QED BY <2>1 DEF Standing, Awaiting, Ends
  <1>3. CASE handle_async_request(q)
    <2>1. Standing(q) = "idle" /\ call[q].got = 0
      BY <1>0, <1>3 DEF handle_async_request, Standing, GotInv
    <2>2. \/ call' = CallAt(q, "failed", call[q].session, call[q].got)
          \/ call' = CallAt(q, "sending", sessions, 0)
      BY <1>0, <1>3, CallerIs, Zenon DEF handle_async_request, CallGoes, CallAt
    <2>3. /\ \A r \in Reqs : r # q => call'[r] = call[r]
          /\ call'[q].got = call[q].got /\ Standing(q)' \in {"open", "failed"}
      BY <1>0, <2>1, <2>2 DEF CallAt, Typed, Standing
    <2> QED BY <1>1, <2>1, <2>3, CallMaps
  <1>4. CASE send_text(q) \/ AwaitHead(q)
    <2>1. \/ UNCHANGED call
          \/ /\ call[q].pc \in Awaiting
             /\ \E p \in {"head", "stream", "failed"} : call' = CallAt(q, p, call[q].session, call[q].got)
      <3>1. AwaitHead(q) => call[q].pc = "head"
        BY Zenon DEF AwaitHead
      <3> QED BY <1>0, <1>4, <3>1, CallerIs, Zenon DEF CallGoes, CallEnds, Awaiting
    <2>2. CASE UNCHANGED call
      BY <1>1, <2>2, NothingMaps
    <2>3. CASE /\ call[q].pc \in Awaiting
               /\ \E p \in {"head", "stream", "failed"} : call' = CallAt(q, p, call[q].session, call[q].got)
      <3>1. Standing(q) = "open"
        BY <2>3 DEF Standing, Awaiting
      <3>2. /\ \A r \in Reqs : r # q => call'[r] = call[r]
            /\ call'[q].got = call[q].got /\ Standing(q)' \in {"open", "failed"}
        BY <1>2, <2>3 DEF Awaiting, Ends
      <3> QED BY <1>1, <3>1, <3>2, CallMaps
    <2> QED BY <2>1, <2>2, <2>3
  <1>5. CASE __aiter__(q)
    <2>1. /\ mail[q] # <<>> /\ call[q].pc = "stream"
          /\ \/ Head(mail[q]) = "body" /\ call' = CallAt(q, "stream", call[q].session, call[q].got + 1)
             \/ Head(mail[q]) = "end" /\ call' = CallAt(q, "ok", call[q].session, call[q].got)
             \/ call' = CallAt(q, "failed", call[q].session, call[q].got)
      BY <1>0, <1>5, CallerIs, Zenon DEF CallEnds
    <2>2. Standing(q) = "open" /\ call[q].pc \in Awaiting
      BY <2>1 DEF Standing, Awaiting
    <2>3. CASE Head(mail[q]) = "body" /\ call' = CallAt(q, "stream", call[q].session, call[q].got + 1)
      <3>1. call[q].got < task[q].sent
        BY <1>0, <2>1, <2>2, <2>3, ReadAhead DEF Awaiting, Holding
      <3>2. /\ \A r \in Reqs : r # q => call'[r] = call[r]
            /\ call'[q].got = call[q].got + 1 /\ Standing(q)' = "open"
        BY <1>0, <2>3 DEF CallAt, Typed, Standing
      <3> QED BY <1>1, <2>2, <3>1, <3>2, ReadMaps
    <2>4. CASE Head(mail[q]) = "end" /\ call' = CallAt(q, "ok", call[q].session, call[q].got)
      <3>1. task[q].st = "ended" /\ call[q].got = task[q].sent
        BY <1>0, <2>1, <2>2, <2>4, ReadAhead DEF Awaiting, Holding
      <3>2. /\ \A r \in Reqs : r # q => call'[r] = call[r]
            /\ call'[q].got = call[q].got /\ Standing(q)' = "ok"
        BY <1>2, <2>4 DEF Awaiting, Ends
      <3> QED BY <1>1, <2>2, <3>1, <3>2, CallMaps
    <2>5. CASE call' = CallAt(q, "failed", call[q].session, call[q].got)
      <3>1. /\ \A r \in Reqs : r # q => call'[r] = call[r]
            /\ call'[q].got = call[q].got /\ Standing(q)' = "failed"
        BY <1>2, <2>5 DEF Awaiting, Ends
      <3> QED BY <1>1, <2>2, <3>1, CallMaps
    <2> QED BY <2>1, <2>3, <2>4, <2>5
  <1>6. CASE CancelledInAwait(q) \/ aclose(q)
    <2>1. Standing(q) = "open"
      BY <1>6, Zenon DEF CancelledInAwait, aclose, Standing
    <2>2. \E p \in {"closing", "cancelled"} : call' = CallAt(q, p, call[q].session, call[q].got)
      BY <1>0, <1>6, CallerIs, Zenon DEF CallGoes, CallEnds
    <2>3. /\ \A r \in Reqs : r # q => call'[r] = call[r]
          /\ call'[q].got = call[q].got /\ Standing(q)' = "cancelled"
      BY <1>2, <2>2 DEF Awaiting, Ends
    <2> QED BY <1>1, <2>1, <2>3, CallMaps
  <1>7. CASE AcloseReturns(q) \/ AcloseCancelled(q)
    <2>1. Standing(q) = "cancelled"
      <3>1. call[q].pc = "closing"
        BY <1>7, Zenon DEF AcloseReturns, AcloseCancelled
      <3> QED BY <3>1 DEF Standing
    <2>2. \E p \in {"torn", "cancelled"} : call' = CallAt(q, p, call[q].session, call[q].got)
      BY <1>0, <1>7, CallerIs, Zenon DEF CallGoes, CallEnds
    <2>3. /\ \A r \in Reqs : r # q => call'[r] = call[r]
          /\ call'[q].got = call[q].got /\ Standing(q)' = "cancelled"
      BY <1>2, <2>2 DEF Awaiting, Ends
    <2> QED BY <1>1, <2>1, <2>3, CallMaps
  <1>8. CASE CancelGoesOut(q)
    <2>1. UNCHANGED call
      BY <1>8, Zenon DEF CancelGoesOut
    <2> QED BY <1>1, <2>1, NothingMaps
  <1> QED BY <1>3, <1>4, <1>5, <1>6, <1>7, <1>8 DEF Caller

\* A step of the runner is a step of the application's answer, or of none.
LEMMA RunnerMaps ==
  ASSUME TunnelInv, Runner
  PROVE  [Calls!CNext]_(Calls!cvars)
  <1>0. Typed /\ AnswersInv
    BY DEF TunnelInv, RegistryInv
  <1>1. call' = call
    BY Zenon DEF Runner, serve_tunnel, _handle_tunnel_frame, ConnectionEnds, LinkDrops, SendHead, SendBody,
                       SendEnd, DispatchFails, RunnerStep, server
  <1>2. ASSUME NEW c \in Conns, serve_tunnel(c) \/ LinkDrops(c)  PROVE [Calls!CNext]_(Calls!cvars)
    <2>1. task' = task
      BY <1>2 DEF serve_tunnel, LinkDrops
    <2> QED BY <1>1, <2>1, NothingMaps
  <1>3. ASSUME NEW c \in Conns, ConnectionEnds(c)  PROVE [Calls!CNext]_(Calls!cvars)
    <2>1. \A q \in Reqs : /\ task'[q].sent = task[q].sent
                          /\ task'[q].st = IF task[q].st \in Running THEN "stopped" ELSE task[q].st
      BY <1>0, <1>3, StoppedIs
    <2> QED BY <1>1, <2>1, NothingMaps DEF Running
  <1>4. ASSUME NEW c \in Conns, _handle_tunnel_frame(c)  PROVE [Calls!CNext]_(Calls!cvars)
    <2>1. Head(down[c]).id \in Reqs /\ down[c] # <<>> /\ down[c] \in Seq(Orders)
      <3>1. Head(down[c]) \in Orders
        BY <1>0, <1>4, FrameIs
      <3> QED BY <1>0, <1>4, <3>1 DEF Orders, _handle_tunnel_frame, Typed
    <2>2. PICK q \in Reqs : q = Head(down[c]).id
      BY <2>1
    <2>3. \/ Head(down[c]).kind = "request" /\ task' = TaskAt(q, "run", task[q].sent)
          \/ task[q].st \in Running /\ task' = TaskAt(q, "stopped", task[q].sent)
          \/ task' = task
      BY <1>0, <1>4, <2>2, FrameIs, Zenon
    <2>4. Head(down[c]).kind = "request" => task[q].st = "none"
      <3>1. SUFFICES ASSUME Head(down[c]).kind = "request"  PROVE task[q].st = "none"
        OBVIOUS
      <3>2. Head(down[c]) \in Orders /\ 1 \in 1..Len(down[c]) /\ down[c][1] = Head(down[c])
        BY <2>1
      <3>3. down[c][1] = Frame("request", q)
        BY <2>2, <3>1, <3>2, FramesDiffer
      <3>4. Has(down[c], Frame("request", q))
        BY <3>2, <3>3 DEF Has
      <3> QED BY <1>0, <3>4 DEF AnswersInv, AllRequestedOnce, RequestedOnce
    <2>5. \A r \in Reqs : task'[r].sent = task[r].sent /\ (task'[r].st = "ended" <=> task[r].st = "ended")
      <3>1. CASE task' = task
        BY <3>1
      <3>2. CASE \E s \in {"run", "stopped"} : task' = TaskAt(q, s, task[q].sent) /\ task[q].st # "ended"
        BY <1>0, <3>2 DEF TaskAt, Typed
      <3> QED BY <2>3, <2>4, <3>1, <3>2 DEF Running
    <2> QED BY <1>1, <2>5, NothingMaps
  <1>5. ASSUME NEW q \in Reqs, SendHead(q) \/ SendBody(q) \/ SendEnd(q) \/ DispatchFails(q)
        PROVE  [Calls!CNext]_(Calls!cvars)
    <2>1. task[q].st \in Running
      BY <1>5, Zenon DEF SendHead, SendBody, SendEnd, DispatchFails, Running
    <2>2. TaskKnown(q) /\ task[q].st # "ended" /\ task[q].st # "none"
      BY <1>0, <2>1 DEF AnswersInv, AllTaskKnown, Running
    <2>3. Standing(q) # "idle"
      BY <2>2 DEF TaskKnown, Standing
    <2>4. \/ task' = TaskAt(q, "body", task[q].sent)
          \/ task' = TaskAt(q, "body", task[q].sent + 1) /\ task[q].sent < MaxChunks
          \/ task' = TaskAt(q, "ended", task[q].sent)
          \/ task' = TaskAt(q, "ended", 1) /\ task[q].st = "run"
      <3>1. SendBody(q) => task[q].st = "body" /\ task[q].sent < MaxChunks
        BY Zenon DEF SendBody
      <3> QED BY <1>0, <1>5, <3>1, RunnerIs, Zenon
    <2>5. task[q].st = "run" => task[q].sent = 0
      BY <2>2 DEF TaskKnown
    <2>6. /\ \A r \in Reqs : r # q => task'[r] = task[r]
          /\ \/ task'[q].sent = task[q].sent
             \/ task'[q].sent = task[q].sent + 1 /\ task'[q].st # "ended" /\ task[q].sent < MaxChunks
             \/ task[q].sent = 0 /\ task'[q].sent = 1 /\ task'[q].st = "ended"
      BY <1>0, <2>4, <2>5 DEF TaskAt, Typed
    <2> QED BY <1>1, <2>2, <2>3, <2>6, TaskMaps
  <1> QED BY <1>2, <1>3, <1>4, <1>5, Zenon DEF Runner

\* ImplementsCalls: the tunnel refines RunnerCalls.  A caller reads the application's chunks in
\* order and sees its answer end only where the application ended it, over any number of
\* connections, whatever is cut, replaced, aborted or given up on the way.
THEOREM TunnelImplementsCalls == TSpec => ImplementsCalls
  <1>1. TInit => Calls!CInit
    <2>1. SUFFICES ASSUME TInit  PROVE Calls!CInit
      OBVIOUS
    <2>2. \A q \in Reqs : /\ call[q] = [pc |-> "idle", session |-> 0, got |-> 0]
                          /\ task[q] = [st |-> "none", sent |-> 0]
      BY <2>1 DEF TInit
    <2>3. \A q \in Reqs : /\ call[q].pc = "idle" /\ call[q].got = 0
                          /\ task[q].st = "none" /\ task[q].sent = 0
      BY <2>2
    <2>4. \A q \in Reqs : (task[q].st = "ended") = FALSE
      BY <2>3
    <2>5. [q \in Reqs |-> task[q].st = "ended"] = [q \in Reqs |-> FALSE]
      BY <2>4, Zenon
    <2> QED BY <2>3, <2>5 DEF Calls!CInit, Standing
  <1>2. ASSUME TunnelInv, [TNext]_tvars  PROVE [Calls!CNext]_(Calls!cvars)
    <2>1. ASSUME NEW c \in Conns, RouteStep(c)  PROVE call' = call /\ task' = task
      BY <2>1, Zenon DEF RouteStep, register, HelloNeverCame, HelloRefused, HelloFails, HandlerReturned, server,
                       _receive_loop, HelperEnds, _ping_loop, deregister
    <2>2. ASSUME NEW w \in Waiters, Waiter(w)  PROVE call' = call /\ task' = task
      BY <2>2, Zenon DEF Waiter, wait_for_runner, WaiterWakes, WaiterTimesOut, WaitStep, server
    <2>3. ASSUME UNCHANGED tvars  PROVE call' = call /\ task' = task
      BY <2>3, Zenon DEF tvars, server
    <2>4. ASSUME call' = call /\ task' = task  PROVE [Calls!CNext]_(Calls!cvars)
      BY <2>4, NothingMaps
    <2> QED BY <1>2, <2>1, <2>2, <2>3, <2>4, CallerMaps, RunnerMaps, Zenon DEF TNext
  <1> QED BY <1>1, <1>2, TunnelInvariant, PTL DEF TSpec, ImplementsCalls, Calls!CSpec
=============================================================================
