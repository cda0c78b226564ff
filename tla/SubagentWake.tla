---------------------------- MODULE SubagentWake ----------------------------
(***************************************************************************)
(* How the results of sub-agents reach their parent on an omnigent runner: *)
(* the work registry, the parent's inbox, the debounced wake notice and    *)
(* its bounded retries, the parent's turns as far as they meet the wake,   *)
(* and sys_read_inbox.                                                     *)
(*                                                                         *)
(* One asyncio loop runs all of it: an action is what happens between two  *)
(* awaits.                                                                 *)
(***************************************************************************)
EXTENDS Integers, SequencesExt

CONSTANTS
    Children,     \* sub-agent sessions of one parent
    Reports,      \* reports of a child's end, duplicates included
    Readers,      \* calls of sys_read_inbox that can run at a time
    MaxAttempts,  \* _WAKE_POST_MAX_ATTEMPTS
    MaxWorks,     \* bound: registrations of work
    MaxMsgs,      \* bound: messages of the user
    MaxFaults     \* bound: failed or swallowed posts, failed evaluations and lookups, broken turns

ASSUME WakeBounds == MaxWorks \in Nat /\ MaxMsgs \in Nat /\ MaxFaults \in Nat
ASSUME WakeAttempts == MaxAttempts \in Nat \ {0}

Works == 1..MaxWorks
NoWork == [work |-> 0, delivered |-> FALSE]

VARIABLES
    home,     \* the parent's session has its inbox on this runner
    entry,    \* _subagent_work_by_child
    ended,    \* children whose entry is terminal and not delivered
    drained,  \* _drained_delivered_subagent_children
    works,    \* work ids given
    ran,      \* children that have been started
    sending,  \* how many messages to each child are being posted
    rep,      \* where each report is, and its child
    inbox,    \* the parent's inbox
    reader,   \* what each sys_read_inbox holds: hand, and the results it will put back
    read,     \* results evaluated and handed to the model
    dropped,  \* results a cancelled sys_read_inbox held
    pending,  \* _subagent_wake_pending
    posts,    \* wake posts under way, by attempt
    turn,     \* the parent's turn: "none", "created" or "active"
    carries,  \* the turn was started with a notice among its messages
    buf,      \* the parent's message buffer
    checks,   \* _check_and_start_next_turn tasks under way
    msgs,     \* messages of the user so far
    untold,   \* results delivered since the parent last took a notice, and not read
    excused,  \* those of them a failed post, a stop or a turn for another message took the wake of
    lost,     \* the flag is that of a post that was answered and never reached the parent
    owed,     \* starts of each child less the ends of it that were delivered
    again,    \* children whose end may come twice: see TwiceBy
    faults

registry == <<home, entry, ended, drained, works, ran, sending, rep>>
results  == <<inbox, reader, read, dropped>>
parent   == <<turn, carries, buf, checks, msgs>>
ghosts   == <<untold, excused>>
counts   == <<owed, again>>
wvars    == <<registry, results, pending, posts, parent, ghosts, lost, counts, faults>>

Idle == [hand |-> 0, back |-> <<>>]

\* The runner may have restarted: children ran, nothing of them is known, and the parent's
\* session is not here yet.
WakeInit ==
    /\ home \in BOOLEAN /\ ran \in SUBSET Children /\ (home => ran = {})
    /\ entry = [c \in Children |-> NoWork] /\ ended = {} /\ drained = {} /\ works = 0
    /\ sending = [c \in Children |-> 0] /\ rep = [r \in Reports |-> <<"new">>]
    /\ inbox = <<>> /\ reader = [d \in Readers |-> Idle] /\ read = {} /\ dropped = {}
    /\ pending = FALSE /\ posts = [a \in 1..MaxAttempts |-> 0]
    /\ turn = "none" /\ carries = FALSE /\ buf = <<>> /\ checks = 0 /\ msgs = 0
    /\ untold = {} /\ excused = {} /\ lost = FALSE /\ again = {} /\ faults = 0
    /\ owed = [c \in Children |-> IF c \in ran THEN 1 ELSE 0]

Holds(d) == ({reader[d].hand} \ {0}) \cup ToSet(reader[d].back)
Told(ws) == untold' = untold \ ws /\ excused' = excused \ ws
Faulty == faults < MaxFaults /\ faults' = faults + 1
Outstanding == \E a \in 1..MaxAttempts : posts[a] > 0
Notified == \E i \in 1..Len(buf) : buf[i] = "notice"

-----------------------------------------------------------------------------
(***************************************************************************)
(* The registry: sys_session_send and the reports of a child's end.        *)
(***************************************************************************)
\* create_session makes the inbox.
ParentReturns ==
    /\ ~home /\ home' = TRUE
    /\ UNCHANGED <<entry, ended, drained, works, ran, sending, rep, results, pending, posts, parent, ghosts,
                   lost, counts, faults>>

register_subagent_work(c, delivered) ==
    /\ works < MaxWorks
    /\ works' = works + 1
    /\ entry' = [entry EXCEPT ![c] = [work |-> works + 1, delivered |-> delivered]]
    /\ drained' = drained \ {c}

Started(c) == owed' = [owed EXCEPT ![c] = @ + 1]

\* A child that still works takes no second message; one whose work is terminal does, though an
\* earlier message to it may still be on its way.
Send(c) ==
    /\ turn = "active"
    /\ entry[c].work # 0 => entry[c].delivered \/ c \in ended
    /\ register_subagent_work(c, FALSE) /\ ended' = ended \ {c}
    /\ ran' = ran \cup {c} /\ sending' = [sending EXCEPT ![c] = @ + 1] /\ Started(c)
    /\ UNCHANGED <<home, rep, results, pending, posts, parent, ghosts, lost, again, faults>>

\* A message that cannot be posted takes the child's registration back, whatever has become of it
\* and whichever message it is of: no work id is given.  A delivery goes unremembered with it.
SendReturns(c) ==
    /\ sending[c] > 0
    /\ sending' = [sending EXCEPT ![c] = @ - 1]
    /\ \/ UNCHANGED <<entry, ended, excused, again, faults>>
       \/ /\ entry' = [entry EXCEPT ![c] = NoWork] /\ ended' = ended \ {c} /\ excused' = untold /\ Faulty
          /\ again' = IF entry[c].delivered THEN again \cup {c} ELSE again
    /\ UNCHANGED <<home, drained, works, ran, rep, results, pending, posts, parent, untold, lost, owed>>

\* sys_session_create starts a child that no work is registered for.
Create(c) ==
    /\ turn = "active" /\ c \notin ran
    /\ ran' = ran \cup {c} /\ Started(c)
    /\ UNCHANGED <<home, entry, ended, drained, works, sending, rep, results, pending, posts, parent, ghosts,
                   lost, again, faults>>

\* One wake at a time: a result that comes while one is under way is left to it.
_schedule_subagent_wake ==
    IF pending THEN UNCHANGED <<pending, posts>>
    ELSE pending' = TRUE /\ posts' = [posts EXCEPT ![1] = @ + 1]

Delivers(c, w) ==
    /\ inbox' = Append(inbox, w)
    /\ untold' = untold \cup {w} /\ owed' = [owed EXCEPT ![c] = @ - 1]
    /\ _schedule_subagent_wake

\* Mutant: a report delivers whatever the entry says.
deliverAgain(c, w, delivered) == Delivers(c, w)

\* A result not delivered yet goes to the inbox, and the parent is woken.
_deliver_subagent_completion(c, w, delivered) ==
    IF delivered THEN UNCHANGED <<inbox, untold, owed, pending, posts>> ELSE Delivers(c, w)

\* A report for a child that is tracked: its turn ended, or its terminal told the server.
_mark_subagent_terminal_and_wake(r, c) ==
    /\ rep[r] = <<"new">> /\ c \in ran /\ entry[c].work # 0 /\ home
    /\ rep' = [rep EXCEPT ![r] = <<"over">>]
    /\ entry' = [entry EXCEPT ![c] = [work |-> entry[c].work, delivered |-> TRUE]] /\ ended' = ended \ {c}
    /\ _deliver_subagent_completion(c, entry[c].work, entry[c].delivered)
    /\ UNCHANGED <<home, drained, works, ran, sending, reader, read, dropped, parent, excused, lost, again, faults>>

\* With no inbox for the parent the entry is terminal and nothing is delivered; a report from a
\* terminal is refused and comes again.
MissingParentInbox(r, c) ==
    /\ rep[r] = <<"new">> /\ c \in ran /\ entry[c].work # 0 /\ ~home
    /\ rep' = rep \/ rep' = [rep EXCEPT ![r] = <<"over">>]
    /\ ended' = IF entry[c].delivered THEN ended ELSE ended \cup {c}
    /\ UNCHANGED <<home, entry, drained, works, ran, sending, results, pending, posts, parent, ghosts,
                   lost, counts, faults>>

\* One that is not tracked: of a result already read it is a duplicate, and from the child's
\* turn on this runner it is ignored; from a terminal, the entry is looked for on the server.
ReportUntracked(r, c) ==
    /\ rep[r] = <<"new">> /\ c \in ran /\ entry[c].work = 0
    /\ \/ rep' = [rep EXCEPT ![r] = <<"over">>]
       \/ c \notin drained /\ rep' = [rep EXCEPT ![r] = <<"lookup", c>>]
    /\ UNCHANGED <<home, entry, ended, drained, works, ran, sending, results, pending, posts, parent, ghosts,
                   lost, counts, faults>>

\* The end of c was delivered while the server was asked.
TwiceBy(c) == entry[c].delivered \/ (entry[c].work = 0 /\ c \in drained)

\* The snapshot names the parent: the entry is rebuilt, over any that came meanwhile and though
\* the end was delivered meanwhile, and the report delivered (or refused, with no inbox); or
\* there is no snapshot, and the report meets what is there.
_ensure_subagent_work_entry(r) ==
    /\ rep[r][1] = "lookup"
    /\ LET c == rep[r][2] IN
       \/ /\ home /\ rep' = [rep EXCEPT ![r] = <<"over">>]
          /\ register_subagent_work(c, TRUE) /\ ended' = ended \ {c}
          /\ again' = IF TwiceBy(c) THEN again \cup {c} ELSE again
          /\ Delivers(c, works + 1) /\ UNCHANGED faults
       \/ /\ ~home /\ rep' = [rep EXCEPT ![r] = <<"new">>]
          /\ register_subagent_work(c, FALSE) /\ ended' = ended \cup {c}
          /\ again' = IF TwiceBy(c) THEN again \cup {c} ELSE again
          /\ UNCHANGED <<inbox, untold, owed, pending, posts, faults>>
       \/ /\ home /\ Faulty /\ rep' = [rep EXCEPT ![r] = <<"over">>]
          /\ UNCHANGED <<drained, works, again>> /\ ended' = ended \ {c}
          /\ entry' = IF entry[c].work = 0 THEN entry
                       ELSE [entry EXCEPT ![c] = [work |-> entry[c].work, delivered |-> TRUE]]
          /\ _deliver_subagent_completion(c, entry[c].work, entry[c].work = 0 \/ entry[c].delivered)
       \/ /\ ~home /\ Faulty
          /\ rep' = [rep EXCEPT ![r] = <<"new">>] \/ rep' = [rep EXCEPT ![r] = <<"over">>]
          /\ UNCHANGED <<entry, ended, drained, works, again, inbox, untold, owed, pending, posts>>
    /\ UNCHANGED <<home, ran, sending, reader, read, dropped, parent, excused, lost>>

-----------------------------------------------------------------------------
(***************************************************************************)
(* The parent takes a message: it starts a turn, or waits for the turn to  *)
(* take it or to end.                                                      *)
(***************************************************************************)
Ingest(kind) ==
    IF turn = "none"
    THEN turn' = "created" /\ carries' = (kind = "notice") /\ UNCHANGED <<buf, checks>>
    ELSE buf' = Append(buf, kind) /\ UNCHANGED <<turn, carries, checks>>

UserMessage ==
    /\ home /\ msgs < MaxMsgs /\ msgs' = msgs + 1
    /\ Ingest("user")
    /\ UNCHANGED <<registry, results, pending, posts, ghosts, lost, counts, faults>>

\* A post is taken by the parent; its answer may be lost, and then it is tried again.
PostArrives(a) ==
    /\ posts[a] > 0
    /\ \/ posts' = [posts EXCEPT ![a] = @ - 1] /\ UNCHANGED faults
       \/ a < MaxAttempts /\ Faulty /\ posts' = [posts EXCEPT ![a] = @ - 1, ![a + 1] = @ + 1]
    /\ Ingest("notice")
    /\ UNCHANGED <<registry, results, pending, msgs, ghosts, lost, counts>>

PostRetries(a) ==
    /\ posts[a] > 0 /\ a < MaxAttempts /\ Faulty
    /\ posts' = [posts EXCEPT ![a] = @ - 1, ![a + 1] = @ + 1]
    /\ UNCHANGED <<registry, results, pending, parent, ghosts, lost, counts>>

\* The server answers a notice it denied, or could not forward, like one that was taken: the
\* flag stays, and nothing under way will clear it.
PostSwallowed(a) ==
    /\ posts[a] > 0 /\ Faulty
    /\ posts' = [posts EXCEPT ![a] = @ - 1]
    /\ lost' = pending /\ excused' = untold
    /\ UNCHANGED <<registry, results, pending, parent, untold, counts>>

\* Refused for good, or the last attempt: a later result may wake the parent again.
_post_subagent_wake_notice(a) ==
    /\ posts[a] > 0 /\ Faulty
    /\ posts' = [posts EXCEPT ![a] = @ - 1]
    /\ pending' = FALSE /\ lost' = FALSE
    /\ excused' = untold
    /\ UNCHANGED <<registry, results, parent, untold, counts>>

-----------------------------------------------------------------------------
(***************************************************************************)
(* The parent's turns.                                                     *)
(***************************************************************************)
\* The turn's first step clears the flag, whatever message the turn is for.
_run_turn_bg ==
    /\ turn = "created" /\ turn' = "active"
    /\ pending' = FALSE /\ lost' = FALSE
    /\ carries' = FALSE
    /\ IF carries THEN Told(Works)
       ELSE /\ excused' = IF Outstanding \/ Notified THEN excused ELSE untold
            /\ UNCHANGED untold
    /\ UNCHANGED <<registry, results, posts, buf, checks, msgs, counts, faults>>

\* The live turn takes a message of the buffer: the flag stays.
Inject(i) ==
    /\ turn = "active" /\ i \in 1..Len(buf)
    /\ buf' = RemoveAt(buf, i)
    /\ IF buf[i] = "notice" THEN Told(Works) ELSE UNCHANGED ghosts
    /\ UNCHANGED <<registry, results, pending, posts, turn, carries, checks, msgs, lost, counts, faults>>

\* A turn waits for its tool calls before it ends.
TurnEnds ==
    /\ turn = "active" /\ \A d \in Readers : reader[d] = Idle
    /\ turn' = "none" /\ checks' = checks + 1
    /\ UNCHANGED <<registry, results, pending, posts, carries, buf, msgs, ghosts, lost, counts, faults>>

\* A turn that is stopped or whose harness goes leaves its tool calls running, except that a
\* stop takes with it the calls the turn waits for.  A turn may be stopped before it begins.
TurnBreaks ==
    /\ turn # "none" /\ Faulty
    /\ turn' = "none" /\ carries' = FALSE /\ checks' = checks + 1
    /\ \/ UNCHANGED <<reader, dropped>>
       \/ /\ turn = "active"
          /\ dropped' = dropped \cup UNION {Holds(d) : d \in Readers}
          /\ reader' = [d \in Readers |-> Idle]
    /\ excused' = IF turn = "created" THEN untold ELSE excused
    /\ UNCHANGED <<registry, inbox, read, pending, posts, buf, msgs, untold, lost, counts>>

\* Mutant: results that came under the flag are not looked for.
rewakeOnlyClears == pending' = FALSE /\ lost' = FALSE /\ UNCHANGED posts

\* The parent rests: the flag of a notice taken by a live turn is dropped, and if results
\* came under it (and a child is still registered) the parent is woken again.
_rewake_parent_if_inbox_stranded ==
    IF pending /\ (inbox = <<>> \/ \A c \in Children : entry[c].work = 0)
    THEN pending' = FALSE /\ lost' = FALSE /\ UNCHANGED posts
    ELSE IF pending THEN pending' = TRUE /\ lost' = FALSE /\ posts' = [posts EXCEPT ![1] = @ + 1]
    ELSE UNCHANGED <<pending, lost, posts>>

\* The next turn takes one waiting message (a terminal's harness) or all of them.
_check_and_start_next_turn ==
    /\ checks > 0 /\ checks' = checks - 1
    /\ \/ turn # "none" /\ UNCHANGED <<turn, carries, buf, pending, posts, lost>>
       \/ /\ turn = "none" /\ buf = <<>>
          /\ _rewake_parent_if_inbox_stranded /\ UNCHANGED <<turn, carries, buf>>
       \/ /\ turn = "none" /\ buf # <<>> /\ turn' = "created"
          /\ \/ carries' = (Head(buf) = "notice") /\ buf' = Tail(buf)
             \/ carries' = Notified /\ buf' = <<>>
          /\ UNCHANGED <<pending, posts, lost>>
    /\ UNCHANGED <<registry, results, msgs, ghosts, counts, faults>>

-----------------------------------------------------------------------------
(***************************************************************************)
(* sys_read_inbox.                                                         *)
(***************************************************************************)
\* The loop takes the next result, or ends and puts back what could not be judged.
_drain_inbox(d, back) ==
    \/ /\ inbox # <<>>
       /\ inbox' = Tail(inbox) /\ Told({Head(inbox)})
       /\ reader' = [reader EXCEPT ![d] = [hand |-> Head(inbox), back |-> back]]
    \/ /\ inbox = <<>>
       /\ inbox' = back /\ reader' = [reader EXCEPT ![d] = Idle] /\ UNCHANGED ghosts

ReadBegins(d) ==
    /\ turn = "active" /\ reader[d] = Idle /\ inbox # <<>>
    /\ _drain_inbox(d, <<>>)
    /\ UNCHANGED <<registry, read, dropped, pending, posts, parent, lost, counts, faults>>

\* Mutant: the entry is dropped whatever dispatch it belongs to.
cleanupAny(c, w) == entry[c].work # 0

\* The entry goes only if it is still the one of the result that was read.
_cleanup_drained_subagent_work(c, w) == entry[c].work = w

\* The policy has judged the result in hand: it is read, and its entry dropped; or the
\* judgement failed, and it will be put back when the inbox has been gone through.
Evaluated(d, ok) ==
    /\ reader[d].hand # 0
    /\ LET w == reader[d].hand
           gone == {c \in Children : _cleanup_drained_subagent_work(c, w)} IN
       /\ IF ok
          THEN /\ read' = read \cup {w}
               /\ entry' = [c \in Children |-> IF c \in gone THEN NoWork ELSE entry[c]]
               /\ drained' = drained \cup {c \in gone : entry[c].delivered}
               /\ UNCHANGED faults
          ELSE Faulty /\ UNCHANGED <<read, entry, drained>>
       /\ _drain_inbox(d, IF ok THEN reader[d].back ELSE Append(reader[d].back, w))
    /\ UNCHANGED <<home, ended, works, ran, sending, rep, dropped, pending, posts, parent, lost, counts>>

-----------------------------------------------------------------------------
WakeNext ==
    \/ \E c \in Children : Send(c) \/ SendReturns(c) \/ Create(c)
    \/ \E r \in Reports, c \in Children :
         _mark_subagent_terminal_and_wake(r, c) \/ MissingParentInbox(r, c) \/ ReportUntracked(r, c)
    \/ ParentReturns
    \/ \E r \in Reports : _ensure_subagent_work_entry(r)
    \/ UserMessage
    \/ \E a \in 1..MaxAttempts :
         PostArrives(a) \/ PostRetries(a) \/ PostSwallowed(a) \/ _post_subagent_wake_notice(a)
    \/ _run_turn_bg \/ TurnEnds \/ TurnBreaks \/ _check_and_start_next_turn
    \/ \E i \in 1..Len(buf) : Inject(i)
    \/ \E d \in Readers : ReadBegins(d) \/ Evaluated(d, TRUE) \/ Evaluated(d, FALSE)

WakeSpec == WakeInit /\ [][WakeNext]_wvars

\* The runner's tasks go on: a post is answered, a turn runs and ends, its continuation runs,
\* and a tool call that reads the inbox is done with it.
WakeFairness ==
    /\ WF_wvars(\E a \in 1..MaxAttempts : PostArrives(a))
    /\ WF_wvars(_run_turn_bg) /\ WF_wvars(TurnEnds) /\ WF_wvars(_check_and_start_next_turn)
    /\ \A d \in Readers : WF_wvars(Evaluated(d, TRUE))

FairWakeSpec == WakeSpec /\ WakeFairness

-----------------------------------------------------------------------------
(***************************************************************************)
(* Properties.                                                             *)
(***************************************************************************)
Places(d) == IF reader[d].hand = 0 THEN reader[d].back ELSE Append(reader[d].back, reader[d].hand)
Once(q) == \A i, j \in 1..Len(q) : q[i] = q[j] => i = j

\* Types.
WakeTypeOK ==
    /\ entry \in [Children -> [work : 0..MaxWorks, delivered : BOOLEAN]]
    /\ drained \subseteq Children /\ ran \subseteq Children /\ sending \in [Children -> Nat]
    /\ home \in BOOLEAN /\ ended \subseteq Children /\ works \in 0..MaxWorks
    /\ rep \in [Reports -> {<<"new">>, <<"over">>} \cup {<<"lookup", c>> : c \in Children}]
    /\ inbox \in Seq(Works) /\ reader \in [Readers -> [hand : 0..MaxWorks, back : Seq(Works)]]
    /\ read \subseteq Works /\ dropped \subseteq Works /\ pending \in BOOLEAN
    /\ posts \in [1..MaxAttempts -> Nat]
    /\ turn \in {"none", "created", "active"} /\ carries \in BOOLEAN
    /\ buf \in Seq({"notice", "user"}) /\ checks \in Nat /\ msgs \in 0..MaxMsgs
    /\ untold \subseteq Works /\ excused \subseteq Works /\ lost \in BOOLEAN
    /\ owed \in [Children -> Int] /\ again \subseteq Children
    /\ faults \in 0..MaxFaults

\* A notice is on its way to the parent, or the end of its turn will send one.
WakeDue ==
    \/ Outstanding \/ Notified
    \/ turn = "created" /\ carries
    \/ pending /\ (turn # "none" \/ checks > 0)

\* A result the parent does not know of never lies in its inbox with nothing to wake it,
\* unless the posts for it failed or were swallowed, a turn for another message took the flag,
\* or it came under the flag of a post that was swallowed (which nothing clears before the
\* parent's next turn): neither the debounce nor the loss of a flag strands it
\* (_schedule_subagent_wake, _rewake_parent_if_inbox_stranded).
Announced == untold \subseteq excused \/ WakeDue \/ lost

\* The flag never outlives what would clear it, but for a post that was swallowed: were it set
\* with no post, notice or turn left, every later result would be debounced and none announced.
FlagIsLive == pending => WakeDue \/ lost

\* A child's end is delivered at most once for each time it was started, however often it is
\* reported, unless a report looked for the entry while it was delivered (TwiceBy) or a message
\* failed after the end of the work was delivered (SendReturns); and what is delivered is in
\* one place only, whatever reads of the inbox fail or are cancelled.
DeliveredOnce ==
    /\ \A c \in Children \ again : owed[c] >= 0
    /\ Once(inbox) /\ ToSet(inbox) \cap (read \cup dropped) = {}
    /\ \A d \in Readers : Once(Places(d) \o inbox)

\* Work whose result is still to come keeps its entry, or a report would find nothing to
\* deliver to: reading the result of an earlier dispatch to the same child leaves it alone, and
\* only a message to that child that fails takes it back, be it an earlier one
\* (unregister_subagent_work).
OpenWorkStays ==
    [][\A c \in Children :
         entry[c].work # 0 /\ ~entry[c].delivered /\ entry'[c].work = 0 => sending'[c] < sending[c]]_wvars

\* A result is announced or read in the end, or its wake failed for good, or the flag it came
\* under is that of a post that was swallowed.
EveryResultAnnounced ==
    \A w \in Works : (w \in untold) ~> (w \notin untold \/ w \in excused \/ lost)

\* What the comment in _run_turn_bg says the flag's handling prevents: a result stranded
\* until somebody nudges the parent although no post failed.
NoneStranded == turn = "none" => untold = {} \/ WakeDue
=============================================================================
