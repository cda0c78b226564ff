------------------------- MODULE SubagentWakeProofs -------------------------
(***************************************************************************)
(* Proofs about the wake of a parent, for any number of children, reports, *)
(* readers, attempts and faults: an end is delivered once, open work keeps *)
(* its entry, no result goes unannounced, and the flag of a wake under way *)
(* does not outlive it, each but for the cases the properties name.        *)
(*                                                                         *)
(* Four invariants: the types; where the results are; how many ends are    *)
(* owed (Owing), which needs that the entry of a result was delivered; and *)
(* what wakes the parent, which needs that an entry the rewake looks for   *)
(* is there as long as a result waits (Covered).                           *)
(***************************************************************************)
EXTENDS SubagentWake, TLAPS

\* What the registry and a read of the inbox hold.
Entries == [work : 0..MaxWorks, delivered : BOOLEAN]
ReaderRecords == [hand : 0..MaxWorks, back : Seq(Works)]

\* What appending does to a sequence.
LEMMA SeqAppend ==
    ASSUME NEW S, NEW s \in Seq(S), NEW e \in S
    PROVE  /\ Append(s, e) \in Seq(S) /\ ToSet(Append(s, e)) = ToSet(s) \cup {e}
           /\ Once(s) /\ e \notin ToSet(s) => Once(Append(s, e))
<1>1. /\ Append(s, e) \in Seq(S) /\ Len(Append(s, e)) = Len(s) + 1
      /\ \A i \in 1..Len(s) : Append(s, e)[i] = s[i]
      /\ Append(s, e)[Len(s) + 1] = e
  OBVIOUS
<1>2. ToSet(Append(s, e)) = ToSet(s) \cup {e}
  <2>1. DOMAIN s = 1..Len(s) /\ DOMAIN Append(s, e) = 1..(Len(s) + 1)  BY <1>1
  <2>2. \A i \in 1..(Len(s) + 1) : i \in 1..Len(s) \/ i = Len(s) + 1  OBVIOUS
  <2>3. QED  BY <1>1, <2>1, <2>2 DEF ToSet
<1>3. ASSUME Once(s), e \notin ToSet(s) PROVE Once(Append(s, e))
  <2>1. \A i \in 1..Len(s) : s[i] # e  BY <1>3 DEF ToSet
  <2>2. QED  BY <1>1, <1>3, <2>1 DEF Once
<1>4. QED  BY <1>1, <1>2, <1>3

\* What taking the head does to a sequence.
LEMMA SeqTail ==
    ASSUME NEW S, NEW s \in Seq(S), s # <<>>
    PROVE  /\ Tail(s) \in Seq(S) /\ Head(s) \in S /\ ToSet(s) = ToSet(Tail(s)) \cup {Head(s)}
           /\ Once(s) => Once(Tail(s)) /\ Head(s) \notin ToSet(Tail(s))
<1>1. /\ Tail(s) \in Seq(S) /\ Head(s) \in S /\ Head(s) = s[1] /\ Len(s) \in Nat /\ Len(s) >= 1
      /\ Len(Tail(s)) = Len(s) - 1
      /\ \A i \in 1..(Len(s) - 1) : Tail(s)[i] = s[i + 1]
  OBVIOUS
<1>2. DOMAIN s = 1..Len(s) /\ DOMAIN Tail(s) = 1..(Len(s) - 1)  BY <1>1
<1>3. ToSet(s) = ToSet(Tail(s)) \cup {Head(s)}
  <2>1. ASSUME NEW x \in ToSet(s) PROVE x \in ToSet(Tail(s)) \cup {Head(s)}
    <3>1. PICK i \in 1..Len(s) : s[i] = x  BY <1>2, <2>1 DEF ToSet
    <3>2. CASE i = 1  BY <1>1, <3>1, <3>2
    <3>3. CASE i # 1
      <4>1. i - 1 \in 1..(Len(s) - 1) /\ Tail(s)[i - 1] = x  BY <1>1, <3>1, <3>3
      <4>2. QED  BY <1>2, <4>1 DEF ToSet
    <3>4. QED  BY <3>2, <3>3
  <2>2. ASSUME NEW x \in ToSet(Tail(s)) PROVE x \in ToSet(s)
    <3>1. PICK i \in 1..(Len(s) - 1) : Tail(s)[i] = x  BY <1>2, <2>2 DEF ToSet
    <3>2. i + 1 \in 1..Len(s) /\ s[i + 1] = x  BY <1>1, <3>1
    <3>3. QED  BY <1>2, <3>2 DEF ToSet
  <2>3. Head(s) \in ToSet(s)  BY <1>1, <1>2 DEF ToSet
  <2>4. QED  BY <2>1, <2>2, <2>3
<1>4. ASSUME Once(s) PROVE Once(Tail(s)) /\ Head(s) \notin ToSet(Tail(s))
  <2>1. ASSUME NEW i \in 1..(Len(s) - 1), NEW j \in 1..(Len(s) - 1), Tail(s)[i] = Tail(s)[j] PROVE i = j
    <3>1. i + 1 \in 1..Len(s) /\ j + 1 \in 1..Len(s) /\ s[i + 1] = s[j + 1]  BY <1>1, <2>1
    <3>2. i + 1 = j + 1  BY <1>4, <3>1 DEF Once
    <3>3. QED  BY <3>2
  <2>2. Once(Tail(s))  BY <1>1, <2>1 DEF Once
  <2>3. ASSUME NEW i \in 1..(Len(s) - 1) PROVE Tail(s)[i] # Head(s)
    <3>1. i + 1 \in 1..Len(s) /\ 1 \in 1..Len(s) /\ i + 1 # 1  BY <1>1
    <3>2. s[i + 1] # s[1]  BY <1>4, <3>1 DEF Once
    <3>3. QED  BY <1>1, <3>2
  <2>4. QED  BY <1>2, <2>2, <2>3 DEF ToSet
<1>5. QED  BY <1>1, <1>3, <1>4

\* The empty sequence.
LEMMA SeqEmpty == /\ \A S : <<>> \in Seq(S)
                  /\ ToSet(<<>>) = {} /\ Once(<<>>)
BY DEF ToSet, Once

\* The members of a sequence.
LEMMA SetInSeq == ASSUME NEW S, NEW s \in Seq(S) PROVE ToSet(s) \subseteq S
BY DEF ToSet

-----------------------------------------------------------------------------
(***************************************************************************)
(* Types.                                                                  *)
(***************************************************************************)
\* Taking a message keeps the types.
LEMMA IngestTyped ==
    ASSUME WakeTypeOK, NEW kind \in {"notice", "user"}, Ingest(kind)
    PROVE  /\ turn' \in {"none", "created", "active"} /\ carries' \in BOOLEAN
           /\ buf' \in Seq({"notice", "user"}) /\ checks' \in Nat
<1>1. /\ turn \in {"none", "created", "active"} /\ carries \in BOOLEAN
      /\ buf \in Seq({"notice", "user"}) /\ checks \in Nat
  BY Zenon DEF WakeTypeOK
<1>2. CASE turn = "none"
  <2>1. turn' = "created" /\ carries' = (kind = "notice") /\ buf' = buf /\ checks' = checks
    BY <1>2 DEF Ingest
  <2>2. QED  BY <1>1, <2>1
<1>3. CASE turn # "none"
  <2>1. buf' = Append(buf, kind) /\ turn' = turn /\ carries' = carries /\ checks' = checks
    BY <1>3 DEF Ingest
  <2>2. buf' \in Seq({"notice", "user"})  BY <1>1, <2>1
  <2>3. QED  BY <1>1, <2>1, <2>2, Zenon
<1>4. QED  BY <1>2, <1>3

\* Scheduling a wake keeps the types.
LEMMA ScheduleTyped ==
    ASSUME WakeTypeOK, _schedule_subagent_wake
    PROVE  pending' \in BOOLEAN /\ posts' \in [1..MaxAttempts -> Nat]
<1>1. pending \in BOOLEAN  BY Zenon DEF WakeTypeOK
<1>2. posts \in [1..MaxAttempts -> Nat]  BY Zenon DEF WakeTypeOK
<1>3. pending' \in BOOLEAN  BY <1>1, Zenon DEF _schedule_subagent_wake
<1>4. posts' = posts \/ posts' = [posts EXCEPT ![1] = posts[1] + 1]  BY DEF _schedule_subagent_wake
<1>5. posts' \in [1..MaxAttempts -> Nat]  BY <1>2, <1>4
<1>6. QED  BY <1>3, <1>5

\* Delivering a result keeps the types.
LEMMA DeliverTyped ==
    ASSUME WakeTypeOK, NEW c \in Children, NEW w \in Nat, NEW delivered, ~delivered => w \in Works,
           _deliver_subagent_completion(c, w, delivered)
    PROVE  /\ inbox' \in Seq(Works) /\ untold' \subseteq Works /\ owed' \in [Children -> Int]
           /\ pending' \in BOOLEAN /\ posts' \in [1..MaxAttempts -> Nat]
<1>t. /\ inbox \in Seq(Works) /\ untold \subseteq Works /\ owed \in [Children -> Int]
      /\ pending \in BOOLEAN /\ posts \in [1..MaxAttempts -> Nat]
  BY Zenon DEF WakeTypeOK
<1>1. CASE delivered  BY <1>1, <1>t, Zenon DEF _deliver_subagent_completion
<1>2. CASE ~delivered
  <2>1. /\ inbox' = Append(inbox, w) /\ untold' = untold \cup {w} /\ _schedule_subagent_wake
        /\ owed' = [owed EXCEPT ![c] = owed[c] - 1]
    BY <1>2 DEF _deliver_subagent_completion, Delivers
  <2>2. inbox' \in Seq(Works) /\ untold' \subseteq Works  BY <1>2, <1>t, <2>1, SeqAppend
  <2>4. owed' \in [Children -> Int]  BY <1>t, <2>1
  <2>3. QED  BY <2>1, <2>2, <2>4, ScheduleTyped
<1>3. QED  BY <1>1, <1>2

\* A fault keeps the bound.
LEMMA FaultyTyped == ASSUME WakeTypeOK, Faulty PROVE faults' \in 0..MaxFaults
BY WakeBounds DEF WakeTypeOK, Faulty

\* Types of an entry.
LEMMA EntryTyped ==
    ASSUME WakeTypeOK, NEW c \in Children
    PROVE  /\ entry \in [Children -> Entries]
           /\ entry[c].work \in 0..MaxWorks /\ entry[c].delivered \in BOOLEAN
           /\ NoWork \in Entries
BY WakeBounds DEF WakeTypeOK, Entries, NoWork

\* Registering keeps the types.
LEMMA RegisterTyped ==
    ASSUME WakeTypeOK, NEW c \in Children, NEW b \in BOOLEAN, register_subagent_work(c, b)
    PROVE  /\ entry' \in [Children -> Entries] /\ drained' \subseteq Children
           /\ works' \in 0..MaxWorks /\ works + 1 \in Works
<1>1. works + 1 \in Works /\ works + 1 \in 0..MaxWorks
  BY WakeBounds DEF register_subagent_work, WakeTypeOK, Works
<1>2. [work |-> works + 1, delivered |-> b] \in Entries  BY <1>1 DEF Entries
<1>3. entry \in [Children -> Entries]  BY DEF WakeTypeOK, Entries
<1>4. entry' \in [Children -> Entries]  BY <1>2, <1>3 DEF register_subagent_work
<1>5. QED  BY <1>1, <1>4 DEF register_subagent_work, WakeTypeOK

\* Types of a report.
LEMMA RepTyped ==
    ASSUME WakeTypeOK, NEW r \in Reports
    PROVE  /\ [rep EXCEPT ![r] = <<"new">>] \in
                 [Reports -> {<<"new">>, <<"over">>} \cup {<<"lookup", c>> : c \in Children}]
           /\ [rep EXCEPT ![r] = <<"over">>] \in
                 [Reports -> {<<"new">>, <<"over">>} \cup {<<"lookup", c>> : c \in Children}]
           /\ \A c \in Children : [rep EXCEPT ![r] = <<"lookup", c>>] \in
                 [Reports -> {<<"new">>, <<"over">>} \cup {<<"lookup", b>> : b \in Children}]
           /\ rep[r][1] = "lookup" => rep[r][2] \in Children
<1> DEFINE R == {<<"new">>, <<"over">>} \cup {<<"lookup", c>> : c \in Children}
<1>1. <<"over">> \in R /\ <<"new">> \in R /\ \A c \in Children : <<"lookup", c>> \in R  OBVIOUS
<1>2. rep \in [Reports -> R]  BY DEF WakeTypeOK
<1>3. ASSUME NEW x \in R, x[1] = "lookup" PROVE x[2] \in Children  BY <1>3
<1>4. rep[r] \in R  BY <1>2
<1>5. ASSUME NEW x \in R PROVE [rep EXCEPT ![r] = x] \in [Reports -> R]  BY <1>2, <1>5
<1> HIDE DEF R
<1>6. rep[r][1] = "lookup" => rep[r][2] \in Children  BY <1>3, <1>4
<1>7. QED  BY <1>1, <1>5, <1>6 DEF R

\* The states of a report.
RepStates == {<<"new">>, <<"over">>} \cup {<<"lookup", c>> : c \in Children}

\* The parts of the type invariant.
RegistryOK ==
    /\ entry \in [Children -> Entries]
    /\ drained \subseteq Children /\ ran \subseteq Children /\ sending \in [Children -> Nat]
    /\ home \in BOOLEAN /\ ended \subseteq Children /\ works \in 0..MaxWorks
    /\ rep \in [Reports -> RepStates]
ResultsOK ==
    /\ inbox \in Seq(Works) /\ reader \in [Readers -> ReaderRecords]
    /\ read \subseteq Works /\ dropped \subseteq Works
FlagOK == pending \in BOOLEAN /\ posts \in [1..MaxAttempts -> Nat] /\ lost \in BOOLEAN
ParentOK ==
    /\ turn \in {"none", "created", "active"} /\ carries \in BOOLEAN
    /\ buf \in Seq({"notice", "user"}) /\ checks \in Nat /\ msgs \in 0..MaxMsgs
GhostsOK == untold \subseteq Works /\ excused \subseteq Works
CountsOK == owed \in [Children -> Int] /\ again \subseteq Children
FaultsOK == faults \in 0..MaxFaults

\* The type invariant is its parts.
LEMMA TypeParts == WakeTypeOK <=> RegistryOK /\ ResultsOK /\ FlagOK /\ ParentOK /\ GhostsOK /\ CountsOK /\ FaultsOK
BY Zenon DEF WakeTypeOK, RegistryOK, ResultsOK, FlagOK, ParentOK, GhostsOK, CountsOK, FaultsOK, Entries,
   ReaderRecords, RepStates

\* And so is its next value.
LEMMA TypePartsNext ==
    RegistryOK' /\ ResultsOK' /\ FlagOK' /\ ParentOK' /\ GhostsOK' /\ CountsOK' /\ FaultsOK' => WakeTypeOK'
BY Zenon DEF WakeTypeOK, RegistryOK, ResultsOK, FlagOK, ParentOK, GhostsOK, CountsOK, FaultsOK, Entries,
   ReaderRecords, RepStates

\* A part that does not change keeps its type.
LEMMA TypeFrames ==
    ASSUME WakeTypeOK
    PROVE  /\ UNCHANGED registry => RegistryOK'
           /\ UNCHANGED results => ResultsOK'
           /\ UNCHANGED <<pending, posts, lost>> => FlagOK'
           /\ UNCHANGED counts => CountsOK'
           /\ UNCHANGED parent => ParentOK'
           /\ UNCHANGED ghosts => GhostsOK'
           /\ UNCHANGED faults => FaultsOK'
           /\ Faulty => FaultsOK'
<1>1. RegistryOK /\ ResultsOK /\ FlagOK /\ ParentOK /\ GhostsOK /\ CountsOK /\ FaultsOK  BY TypeParts
<1>2. UNCHANGED registry => RegistryOK'  BY <1>1, Zenon DEF registry, RegistryOK
<1>3. UNCHANGED results => ResultsOK'  BY <1>1, Zenon DEF results, ResultsOK
<1>4. UNCHANGED <<pending, posts, lost>> => FlagOK'  BY <1>1, Zenon DEF FlagOK
<1>c. UNCHANGED counts => CountsOK'  BY <1>1, Zenon DEF counts, CountsOK
<1>5. UNCHANGED parent => ParentOK'  BY <1>1, Zenon DEF parent, ParentOK
<1>6. UNCHANGED ghosts => GhostsOK'  BY <1>1, Zenon DEF ghosts, GhostsOK
<1>7. UNCHANGED faults => FaultsOK'  BY <1>1, Zenon DEF FaultsOK
<1>8. Faulty => FaultsOK'  BY FaultyTyped DEF FaultsOK
<1>9. QED  BY <1>2, <1>3, <1>4, <1>c, <1>5, <1>6, <1>7, <1>8

\* A start counts.
LEMMA StartedTyped == ASSUME WakeTypeOK, NEW c \in Children, Started(c), again' = again PROVE CountsOK'
<1>1. owed \in [Children -> Int] /\ again \subseteq Children  BY TypeParts DEF CountsOK
<1>2. QED  BY <1>1 DEF Started, CountsOK

\* Each action keeps the types.
LEMMA SendTyped == ASSUME WakeTypeOK, NEW c \in Children, Send(c) PROVE WakeTypeOK'
<1>1. RegistryOK  BY TypeParts
<1>2. register_subagent_work(c, FALSE) /\ Started(c) /\ again' = again  BY Zenon DEF Send
<1>3. /\ ran' = ran \cup {c} /\ sending' = [sending EXCEPT ![c] = sending[c] + 1] /\ rep' = rep
      /\ home' = home /\ ended' = ended \ {c}
  BY DEF Send
<1>7. sending' \in [Children -> Nat]  BY <1>1, <1>3 DEF RegistryOK
<1>4. RegistryOK'  BY <1>1, <1>2, <1>3, <1>7, RegisterTyped DEF RegistryOK
<1>5. ResultsOK' /\ FlagOK' /\ ParentOK' /\ GhostsOK' /\ FaultsOK'  BY TypeFrames, Zenon DEF Send
<1>8. CountsOK'  BY <1>2, StartedTyped
<1>6. QED  BY <1>4, <1>5, <1>8, TypePartsNext

\* SendReturns.
LEMMA SendReturnsTyped == ASSUME WakeTypeOK, NEW c \in Children, SendReturns(c) PROVE WakeTypeOK'
<1>1. RegistryOK /\ GhostsOK /\ CountsOK  BY TypeParts
<1>2. ResultsOK' /\ FlagOK' /\ ParentOK'  BY TypeFrames, Zenon DEF SendReturns
<1>3. FaultsOK'  BY TypeFrames, Zenon DEF SendReturns
<1>4. /\ sending[c] > 0 /\ sending' = [sending EXCEPT ![c] = sending[c] - 1]
      /\ UNCHANGED <<home, drained, works, ran, rep, untold, owed>>
  BY DEF SendReturns
<1>5. \/ entry' = entry /\ excused' = excused /\ ended' = ended /\ again' = again
      \/ /\ entry' = [entry EXCEPT ![c] = NoWork] /\ excused' = untold /\ ended' = ended \ {c}
         /\ again' \in {again, again \cup {c}}
  BY DEF SendReturns
<1>6. NoWork \in Entries  BY EntryTyped
<1>7. entry' \in [Children -> Entries]  BY <1>1, <1>5, <1>6 DEF RegistryOK
<1>11. sending' \in [Children -> Nat]  BY <1>1, <1>4 DEF RegistryOK
<1>12. ended' \subseteq Children  BY <1>1, <1>5 DEF RegistryOK
<1>8. RegistryOK'  BY <1>1, <1>4, <1>7, <1>11, <1>12 DEF RegistryOK
<1>9. GhostsOK' /\ CountsOK'  BY <1>1, <1>4, <1>5 DEF GhostsOK, CountsOK
<1>10. QED  BY <1>2, <1>3, <1>8, <1>9, TypePartsNext

\* Create.
LEMMA CreateTyped == ASSUME WakeTypeOK, NEW c \in Children, Create(c) PROVE WakeTypeOK'
<1>1. RegistryOK  BY TypeParts
<1>2. ResultsOK' /\ FlagOK' /\ ParentOK' /\ GhostsOK' /\ FaultsOK'  BY TypeFrames, Zenon DEF Create
<1>3. ran' = ran \cup {c} /\ UNCHANGED <<home, entry, ended, drained, works, sending, rep>>  BY Zenon DEF Create
<1>4. RegistryOK'  BY <1>1, <1>3 DEF RegistryOK
<1>6. CountsOK'  BY StartedTyped, Zenon DEF Create
<1>5. QED  BY <1>2, <1>4, <1>6, TypePartsNext

\* ParentReturns.
LEMMA ReturnsTyped == ASSUME WakeTypeOK, ParentReturns PROVE WakeTypeOK'
<1>1. RegistryOK  BY TypeParts
<1>2. ResultsOK' /\ FlagOK' /\ ParentOK' /\ GhostsOK' /\ CountsOK' /\ FaultsOK'
  BY TypeFrames, Zenon DEF ParentReturns
<1>3. home' = TRUE /\ UNCHANGED <<entry, ended, drained, works, ran, sending, rep>>  BY Zenon DEF ParentReturns
<1>4. RegistryOK'  BY <1>1, <1>3 DEF RegistryOK
<1>5. QED  BY <1>2, <1>4, TypePartsNext

\* _mark_subagent_terminal_and_wake.
LEMMA MarkTyped ==
    ASSUME WakeTypeOK, NEW r \in Reports, NEW c \in Children, _mark_subagent_terminal_and_wake(r, c)
    PROVE  WakeTypeOK'
<1>1. RegistryOK /\ ResultsOK /\ GhostsOK /\ CountsOK /\ FlagOK  BY TypeParts
<1>2. ParentOK' /\ FaultsOK'  BY TypeFrames, Zenon DEF _mark_subagent_terminal_and_wake
<1>3. /\ rep' = [rep EXCEPT ![r] = <<"over">>]
      /\ entry' = [entry EXCEPT ![c] = [work |-> entry[c].work, delivered |-> TRUE]]
      /\ _deliver_subagent_completion(c, entry[c].work, entry[c].delivered) /\ entry[c].work # 0
      /\ ended' = ended \ {c}
      /\ UNCHANGED <<home, drained, works, ran, sending, reader, read, dropped, excused, lost, again>>
  BY Zenon DEF _mark_subagent_terminal_and_wake
<1>4. entry[c].work \in 0..MaxWorks  BY EntryTyped
<1>5. entry[c].work \in Works /\ entry[c].work \in Nat  BY <1>3, <1>4, WakeBounds DEF Works
<1>6. /\ inbox' \in Seq(Works) /\ untold' \subseteq Works /\ owed' \in [Children -> Int]
      /\ pending' \in BOOLEAN /\ posts' \in [1..MaxAttempts -> Nat]
  BY <1>3, <1>5, DeliverTyped
<1>7. FlagOK'  BY <1>1, <1>3, <1>6, Zenon DEF FlagOK
<1>8. [work |-> entry[c].work, delivered |-> TRUE] \in Entries  BY <1>4 DEF Entries
<1>9. entry' \in [Children -> Entries]  BY <1>1, <1>3, <1>8 DEF RegistryOK
<1>10. rep' \in [Reports -> RepStates]  BY <1>3, RepTyped DEF RepStates
<1>11. RegistryOK' /\ ResultsOK' /\ GhostsOK' /\ CountsOK'
  BY <1>1, <1>3, <1>6, <1>9, <1>10 DEF RegistryOK, ResultsOK, GhostsOK, CountsOK
<1>12. QED  BY <1>2, <1>7, <1>11, TypePartsNext

\* ReportUntracked.
LEMMA UntrackedTyped ==
    ASSUME WakeTypeOK, NEW r \in Reports, NEW c \in Children, ReportUntracked(r, c) PROVE WakeTypeOK'
<1>1. RegistryOK  BY TypeParts
<1>2. ResultsOK' /\ FlagOK' /\ ParentOK' /\ GhostsOK' /\ CountsOK' /\ FaultsOK'
  BY TypeFrames, Zenon DEF ReportUntracked
<1>3. /\ rep' = [rep EXCEPT ![r] = <<"over">>] \/ rep' = [rep EXCEPT ![r] = <<"lookup", c>>]
      /\ UNCHANGED <<home, entry, ended, drained, works, ran, sending>>
  BY Zenon DEF ReportUntracked
<1>4. rep' \in [Reports -> RepStates]  BY <1>3, RepTyped DEF RepStates
<1>5. RegistryOK'  BY <1>1, <1>3, <1>4 DEF RegistryOK
<1>6. QED  BY <1>2, <1>5, TypePartsNext

\* MissingParentInbox.
LEMMA MissingTyped ==
    ASSUME WakeTypeOK, NEW r \in Reports, NEW c \in Children, MissingParentInbox(r, c) PROVE WakeTypeOK'
<1>1. RegistryOK  BY TypeParts
<1>2. ResultsOK' /\ FlagOK' /\ ParentOK' /\ GhostsOK' /\ CountsOK' /\ FaultsOK'
  BY TypeFrames, Zenon DEF MissingParentInbox
<1>3. /\ rep' = rep \/ rep' = [rep EXCEPT ![r] = <<"over">>]
      /\ ended' \in {ended, ended \cup {c}} /\ UNCHANGED <<home, entry, drained, works, ran, sending>>
  BY DEF MissingParentInbox
<1>4. rep' \in [Reports -> RepStates]  BY <1>1, <1>3, RepTyped DEF RepStates, RegistryOK
<1>5. RegistryOK'  BY <1>1, <1>3, <1>4 DEF RegistryOK
<1>6. QED  BY <1>2, <1>5, TypePartsNext

\* What _ensure_subagent_work_entry does, for the child its report names.
Ensures(c) ==
    \/ /\ register_subagent_work(c, TRUE) /\ ended' = ended \ {c}
       /\ again' = IF TwiceBy(c) THEN again \cup {c} ELSE again
       /\ Delivers(c, works + 1) /\ UNCHANGED faults
    \/ /\ register_subagent_work(c, FALSE) /\ ended' = ended \cup {c}
       /\ again' = IF TwiceBy(c) THEN again \cup {c} ELSE again
       /\ UNCHANGED <<inbox, untold, owed, pending, posts, faults>>
    \/ /\ Faulty /\ UNCHANGED <<drained, works, again>> /\ ended' = ended \ {c}
       /\ entry' = IF entry[c].work = 0 THEN entry
                   ELSE [entry EXCEPT ![c] = [work |-> entry[c].work, delivered |-> TRUE]]
       /\ _deliver_subagent_completion(c, entry[c].work, entry[c].work = 0 \/ entry[c].delivered)
    \/ Faulty /\ UNCHANGED <<entry, ended, drained, works, again, inbox, untold, owed, pending, posts>>

\* _ensure_subagent_work_entry is that, and the end of its report.
LEMMA EnsureIs ==
    ASSUME WakeTypeOK, NEW r \in Reports, _ensure_subagent_work_entry(r)
    PROVE  /\ rep[r][1] = "lookup" /\ \E c \in Children : c = rep[r][2] /\ Ensures(c)
           /\ rep' = [rep EXCEPT ![r] = <<"over">>] \/ rep' = [rep EXCEPT ![r] = <<"new">>]
           /\ UNCHANGED <<home, ran, sending, reader, read, dropped, parent, excused, lost>>
<1>1. rep[r][1] = "lookup"  BY Zenon DEF _ensure_subagent_work_entry
<1>2. PICK c \in Children : c = rep[r][2]  BY <1>1, RepTyped
<1>3. Ensures(c)  BY <1>2, Zenon DEF _ensure_subagent_work_entry, Ensures
<1>4. rep' = [rep EXCEPT ![r] = <<"over">>] \/ rep' = [rep EXCEPT ![r] = <<"new">>]
  BY Zenon DEF _ensure_subagent_work_entry
<1>5. QED  BY <1>1, <1>2, <1>3, <1>4, Zenon DEF _ensure_subagent_work_entry

\* _ensure_subagent_work_entry.
LEMMA EnsureTyped ==
    ASSUME WakeTypeOK, NEW r \in Reports, _ensure_subagent_work_entry(r)
    PROVE  WakeTypeOK'
<1>1. RegistryOK /\ ResultsOK /\ GhostsOK /\ CountsOK /\ FlagOK  BY TypeParts
<1>2. PICK c \in Children : Ensures(c)  BY EnsureIs
<1>3. /\ rep' = [rep EXCEPT ![r] = <<"over">>] \/ rep' = [rep EXCEPT ![r] = <<"new">>]
      /\ UNCHANGED <<home, ran, sending, reader, read, dropped, parent, excused, lost>>
  BY EnsureIs
<1>4. ParentOK'  BY <1>3, TypeFrames
<1>5. rep' \in [Reports -> RepStates]  BY <1>3, RepTyped DEF RepStates
<1>6. FaultsOK'  BY <1>2, TypeFrames, Zenon DEF Ensures
<1>11. ended' \subseteq Children /\ again' \subseteq Children
  <2>1. ended' \in {ended, ended \ {c}, ended \cup {c}} /\ again' \in {again, again \cup {c}}
    BY <1>2 DEF Ensures
  <2>2. QED  BY <1>1, <2>1 DEF RegistryOK, CountsOK
<1>7. ASSUME entry' \in [Children -> Entries], drained' \subseteq Children, works' \in 0..MaxWorks,
             inbox' \in Seq(Works), untold' \subseteq Works, owed' \in [Children -> Int],
             pending' \in BOOLEAN, posts' \in [1..MaxAttempts -> Nat]
      PROVE  WakeTypeOK'
  <2>1. FlagOK'  BY <1>1, <1>3, <1>7, Zenon DEF FlagOK
  <2>2. RegistryOK' /\ ResultsOK' /\ GhostsOK' /\ CountsOK'
    BY <1>1, <1>3, <1>5, <1>7, <1>11 DEF RegistryOK, ResultsOK, GhostsOK, CountsOK
  <2>3. QED  BY <1>4, <1>6, <2>1, <2>2, TypePartsNext
<1>8. CASE register_subagent_work(c, TRUE) /\ Delivers(c, works + 1)
  <2>1. /\ entry' \in [Children -> Entries] /\ drained' \subseteq Children
        /\ works' \in 0..MaxWorks /\ works + 1 \in Works
    BY <1>8, RegisterTyped
  <2>2. works + 1 \in Nat  BY <2>1, WakeBounds DEF Works
  <2>5. _deliver_subagent_completion(c, works + 1, FALSE)  BY <1>8, Zenon DEF _deliver_subagent_completion
  <2>3. /\ inbox' \in Seq(Works) /\ untold' \subseteq Works /\ owed' \in [Children -> Int]
        /\ pending' \in BOOLEAN /\ posts' \in [1..MaxAttempts -> Nat]
    BY <2>1, <2>2, <2>5, DeliverTyped
  <2>4. QED  BY <1>7, <2>1, <2>3
<1>12. ASSUME UNCHANGED <<inbox, untold, owed, pending, posts>>
       PROVE  /\ inbox' \in Seq(Works) /\ untold' \subseteq Works /\ owed' \in [Children -> Int]
              /\ pending' \in BOOLEAN /\ posts' \in [1..MaxAttempts -> Nat]
  BY <1>1, <1>12, Zenon DEF ResultsOK, GhostsOK, CountsOK, FlagOK
<1>13. CASE register_subagent_work(c, FALSE) /\ UNCHANGED <<inbox, untold, owed, pending, posts>>
  <2>1. /\ entry' \in [Children -> Entries] /\ drained' \subseteq Children /\ works' \in 0..MaxWorks
    BY <1>13, RegisterTyped
  <2>2. QED  BY <1>7, <1>12, <1>13, <2>1
<1>14. CASE UNCHANGED <<entry, drained, works, inbox, untold, owed, pending, posts>>
  <2>1. entry' \in [Children -> Entries] /\ drained' \subseteq Children /\ works' \in 0..MaxWorks
    BY <1>1, <1>14 DEF RegistryOK
  <2>2. QED  BY <1>7, <1>12, <1>14, <2>1
<1>9. CASE /\ UNCHANGED <<drained, works>>
           /\ entry' = IF entry[c].work = 0 THEN entry
                       ELSE [entry EXCEPT ![c] = [work |-> entry[c].work, delivered |-> TRUE]]
           /\ _deliver_subagent_completion(c, entry[c].work, entry[c].work = 0 \/ entry[c].delivered)
  <2>1. entry[c].work \in 0..MaxWorks  BY EntryTyped
  <2>2. entry[c].work \in Nat /\ (entry[c].work # 0 => entry[c].work \in Works)
    BY <2>1, WakeBounds DEF Works
  <2>3. /\ inbox' \in Seq(Works) /\ untold' \subseteq Works /\ owed' \in [Children -> Int]
        /\ pending' \in BOOLEAN /\ posts' \in [1..MaxAttempts -> Nat]
    BY <1>9, <2>2, DeliverTyped
  <2>4. [work |-> entry[c].work, delivered |-> TRUE] \in Entries  BY <2>1 DEF Entries
  <2>5. entry' \in [Children -> Entries]  BY <1>1, <1>9, <2>4 DEF RegistryOK
  <2>6. drained' \subseteq Children /\ works' \in 0..MaxWorks  BY <1>1, <1>9 DEF RegistryOK
  <2>7. QED  BY <1>7, <2>3, <2>5, <2>6
<1>10. QED  BY <1>2, <1>8, <1>9, <1>13, <1>14, Zenon DEF Ensures

\* UserMessage.
LEMMA MessageTyped == ASSUME WakeTypeOK, UserMessage PROVE WakeTypeOK'
<1>1. RegistryOK' /\ ResultsOK' /\ FlagOK' /\ GhostsOK' /\ CountsOK' /\ FaultsOK'
  BY TypeFrames, Zenon DEF UserMessage
<1>2. msgs \in 0..MaxMsgs /\ msgs < MaxMsgs /\ msgs' = msgs + 1  BY Zenon DEF UserMessage, WakeTypeOK
<1>3. msgs' \in 0..MaxMsgs  BY <1>2, WakeBounds
<1>4. Ingest("user")  BY Zenon DEF UserMessage
<1>5. ParentOK'  BY <1>3, <1>4, IngestTyped DEF ParentOK
<1>6. QED  BY <1>1, <1>5, TypePartsNext

\* Posts that end or go on to the next attempt.
LEMMA PostsMove ==
    ASSUME posts \in [1..MaxAttempts -> Nat], NEW a \in 1..MaxAttempts, posts[a] > 0
    PROVE  /\ [posts EXCEPT ![a] = @ - 1] \in [1..MaxAttempts -> Nat]
           /\ a < MaxAttempts =>
                /\ a + 1 \in 1..MaxAttempts
                /\ [posts EXCEPT ![a] = @ - 1, ![a + 1] = @ + 1] \in [1..MaxAttempts -> Nat]
                /\ [posts EXCEPT ![a] = @ - 1, ![a + 1] = @ + 1][a + 1] > 0
<1>1. [posts EXCEPT ![a] = @ - 1] \in [1..MaxAttempts -> Nat]  OBVIOUS
<1>2. ASSUME a < MaxAttempts
      PROVE  /\ a + 1 \in 1..MaxAttempts
             /\ [posts EXCEPT ![a] = @ - 1, ![a + 1] = @ + 1] \in [1..MaxAttempts -> Nat]
             /\ [posts EXCEPT ![a] = @ - 1, ![a + 1] = @ + 1][a + 1] > 0
  <2>1. a + 1 \in 1..MaxAttempts  BY <1>2, WakeAttempts
  <2>2. QED  BY <2>1
<1>3. QED  BY <1>1, <1>2

\* PostArrives.
LEMMA PostArrivesTyped == ASSUME WakeTypeOK, NEW a \in 1..MaxAttempts, PostArrives(a) PROVE WakeTypeOK'
<1>1. RegistryOK' /\ ResultsOK' /\ GhostsOK' /\ CountsOK'  BY TypeFrames, Zenon DEF PostArrives
<1>2. FaultsOK'  BY TypeFrames, Zenon DEF PostArrives
<1>3. FlagOK /\ ParentOK  BY TypeParts
<1>4. ParentOK'
  <2>1. msgs' = msgs /\ Ingest("notice")  BY Zenon DEF PostArrives
  <2>2. /\ turn' \in {"none", "created", "active"} /\ carries' \in BOOLEAN
        /\ buf' \in Seq({"notice", "user"}) /\ checks' \in Nat
    BY <2>1, IngestTyped
  <2>3. QED  BY <1>3, <2>1, <2>2, Zenon DEF ParentOK
<1>5. FlagOK'
  <2>1. /\ posts[a] > 0 /\ pending' = pending /\ lost' = lost
        /\ \/ posts' = [posts EXCEPT ![a] = @ - 1]
           \/ a < MaxAttempts /\ posts' = [posts EXCEPT ![a] = @ - 1, ![a + 1] = @ + 1]
    BY Zenon DEF PostArrives
  <2>2. posts' \in [1..MaxAttempts -> Nat]  BY <1>3, <2>1, PostsMove DEF FlagOK
  <2>3. QED  BY <1>3, <2>1, <2>2, Zenon DEF FlagOK
<1>6. QED  BY <1>1, <1>2, <1>4, <1>5, TypePartsNext

\* PostRetries.
LEMMA PostRetriesTyped == ASSUME WakeTypeOK, NEW a \in 1..MaxAttempts, PostRetries(a) PROVE WakeTypeOK'
<1>1. RegistryOK' /\ ResultsOK' /\ ParentOK' /\ GhostsOK' /\ CountsOK' /\ FaultsOK'
  BY TypeFrames, Zenon DEF PostRetries
<1>2. FlagOK  BY TypeParts
<1>3. /\ posts[a] > 0 /\ pending' = pending /\ lost' = lost /\ a < MaxAttempts
      /\ posts' = [posts EXCEPT ![a] = @ - 1, ![a + 1] = @ + 1]
  BY Zenon DEF PostRetries
<1>4. posts' \in [1..MaxAttempts -> Nat]  BY <1>2, <1>3, PostsMove DEF FlagOK
<1>5. FlagOK'  BY <1>2, <1>3, <1>4, Zenon DEF FlagOK
<1>6. QED  BY <1>1, <1>5, TypePartsNext

\* _post_subagent_wake_notice.
LEMMA NoticeFailsTyped ==
    ASSUME WakeTypeOK, NEW a \in 1..MaxAttempts, _post_subagent_wake_notice(a) PROVE WakeTypeOK'
<1>1. RegistryOK' /\ ResultsOK' /\ ParentOK' /\ CountsOK' /\ FaultsOK'
  BY TypeFrames, Zenon DEF _post_subagent_wake_notice
<1>2. FlagOK /\ GhostsOK  BY TypeParts
<1>3. /\ posts[a] > 0 /\ pending' = FALSE /\ lost' = FALSE /\ posts' = [posts EXCEPT ![a] = @ - 1]
      /\ excused' = untold /\ untold' = untold
  BY Zenon DEF _post_subagent_wake_notice
<1>4. posts' \in [1..MaxAttempts -> Nat]  BY <1>2, <1>3, PostsMove DEF FlagOK
<1>5. FlagOK' /\ GhostsOK'  BY <1>2, <1>3, <1>4, Zenon DEF FlagOK, GhostsOK
<1>6. QED  BY <1>1, <1>5, TypePartsNext

\* PostSwallowed.
LEMMA SwallowedTyped == ASSUME WakeTypeOK, NEW a \in 1..MaxAttempts, PostSwallowed(a) PROVE WakeTypeOK'
<1>1. RegistryOK' /\ ResultsOK' /\ ParentOK' /\ CountsOK' /\ FaultsOK'  BY TypeFrames, Zenon DEF PostSwallowed
<1>2. FlagOK /\ GhostsOK  BY TypeParts
<1>3. /\ posts[a] > 0 /\ pending' = pending /\ lost' = pending /\ posts' = [posts EXCEPT ![a] = @ - 1]
      /\ excused' = untold /\ untold' = untold
  BY Zenon DEF PostSwallowed
<1>4. posts' \in [1..MaxAttempts -> Nat]  BY <1>2, <1>3, PostsMove DEF FlagOK
<1>5. FlagOK' /\ GhostsOK'  BY <1>2, <1>3, <1>4, Zenon DEF FlagOK, GhostsOK
<1>6. QED  BY <1>1, <1>5, TypePartsNext

\* _run_turn_bg.
LEMMA RunTyped == ASSUME WakeTypeOK, _run_turn_bg PROVE WakeTypeOK'
<1>1. RegistryOK' /\ ResultsOK' /\ CountsOK' /\ FaultsOK'  BY TypeFrames, Zenon DEF _run_turn_bg
<1>2. FlagOK /\ ParentOK /\ GhostsOK  BY TypeParts
<1>3. /\ turn' = "active" /\ pending' = FALSE /\ lost' = FALSE /\ carries' = FALSE
      /\ UNCHANGED <<posts, buf, checks, msgs>>
  BY Zenon DEF _run_turn_bg
<1>4. FlagOK' /\ ParentOK'  BY <1>2, <1>3, Zenon DEF FlagOK, ParentOK
<1>5. GhostsOK'
  <2>1. CASE carries
    <3>1. Told(Works)  BY <2>1, Zenon DEF _run_turn_bg
    <3>2. QED  BY <1>2, <3>1 DEF Told, GhostsOK
  <2>2. CASE ~carries
    <3>1. untold' = untold /\ excused' \in {excused, untold}  BY <2>2 DEF _run_turn_bg
    <3>2. QED  BY <1>2, <3>1 DEF GhostsOK
  <2>3. QED  BY <2>1, <2>2
<1>6. QED  BY <1>1, <1>4, <1>5, TypePartsNext

\* The places of two sequences joined.
LEMMA JoinedPlaces ==
    ASSUME NEW S, NEW a \in Seq(S), NEW z \in Seq(S)
    PROVE  /\ Len(a \o z) = Len(a) + Len(z)
           /\ \A k \in 1..Len(a) : (a \o z)[k] = a[k]
           /\ \A k \in 1..Len(z) : (a \o z)[Len(a) + k] = z[k]
OBVIOUS

\* A message taken from the buffer leaves the others there.
LEMMA BufferRemove ==
    ASSUME NEW S, NEW s \in Seq(S), NEW i \in 1..Len(s)
    PROVE  /\ RemoveAt(s, i) \in Seq(S)
           /\ \A j \in 1..Len(s) : j # i => \E k \in 1..Len(RemoveAt(s, i)) : RemoveAt(s, i)[k] = s[j]
<1> DEFINE r == RemoveAt(s, i)
           a == SubSeq(s, 1, i - 1)
           z == SubSeq(s, i + 1, Len(s))
<1>a. a \in Seq(S) /\ Len(a) = i - 1 /\ \A k \in 1..(i - 1) : a[k] = s[k]
  OBVIOUS
<1>z. z \in Seq(S) /\ Len(z) = Len(s) - i /\ \A k \in 1..(Len(s) - i) : z[k] = s[i + k]
  OBVIOUS
<1>r. r = a \o z  BY DEF RemoveAt
<1>s. a \in Seq(S) /\ z \in Seq(S)  BY <1>a, <1>z
<1> HIDE DEF r, a, z
<1>1. r \in Seq(S)  BY <1>s, <1>r
<1>2. Len(r) = Len(s) - 1
  <2>1. Len(r) = Len(a) + Len(z)  BY <1>s, <1>r, JoinedPlaces
  <2>2. QED  BY <1>a, <1>z, <2>1
<1>3. ASSUME NEW j \in 1..Len(s), j < i PROVE j \in 1..Len(r) /\ r[j] = s[j]
  <2>1. j \in 1..Len(a)  BY <1>a, <1>3
  <2>2. r[j] = a[j]  BY <1>s, <1>r, <2>1, JoinedPlaces
  <2>3. QED  BY <1>2, <1>3, <1>a, <2>1, <2>2
<1>4. ASSUME NEW j \in 1..Len(s), j > i PROVE j - 1 \in 1..Len(r) /\ r[j - 1] = s[j]
  <2>1. j - i \in 1..Len(z) /\ Len(a) + (j - i) = j - 1  BY <1>a, <1>z, <1>4
  <2>2. r[Len(a) + (j - i)] = z[j - i]  BY <1>s, <1>r, <2>1, JoinedPlaces
  <2>3. z[j - i] = s[j]  BY <1>z, <2>1
  <2>4. QED  BY <1>2, <1>4, <2>1, <2>2, <2>3
<1>5. ASSUME NEW j \in 1..Len(s), j # i PROVE \E k \in 1..Len(r) : r[k] = s[j]
  BY <1>3, <1>4, <1>5
<1>6. QED  BY <1>1, <1>5 DEF r

\* Inject.
LEMMA InjectTyped == ASSUME WakeTypeOK, NEW i \in 1..Len(buf), Inject(i) PROVE WakeTypeOK'
<1>1. RegistryOK' /\ ResultsOK' /\ FlagOK' /\ CountsOK' /\ FaultsOK'  BY TypeFrames, Zenon DEF Inject
<1>2. ParentOK /\ GhostsOK  BY TypeParts
<1>3. buf' = RemoveAt(buf, i) /\ UNCHANGED <<turn, carries, checks, msgs>>  BY Zenon DEF Inject
<1>4. buf' \in Seq({"notice", "user"})  BY <1>2, <1>3, BufferRemove DEF ParentOK
<1>5. ParentOK'  BY <1>2, <1>3, <1>4, Zenon DEF ParentOK
<1>6. Told(Works) \/ UNCHANGED ghosts  BY Zenon DEF Inject
<1>7. GhostsOK'  BY <1>2, <1>6 DEF Told, ghosts, GhostsOK
<1>8. QED  BY <1>1, <1>5, <1>7, TypePartsNext

\* TurnEnds.
LEMMA TurnEndsTyped == ASSUME WakeTypeOK, TurnEnds PROVE WakeTypeOK'
<1>1. RegistryOK' /\ ResultsOK' /\ FlagOK' /\ GhostsOK' /\ CountsOK' /\ FaultsOK'
  BY TypeFrames, Zenon DEF TurnEnds
<1>2. ParentOK  BY TypeParts
<1>3. turn' = "none" /\ checks' = checks + 1 /\ UNCHANGED <<carries, buf, msgs>>  BY Zenon DEF TurnEnds
<1>4. checks' \in Nat  BY <1>2, <1>3 DEF ParentOK
<1>5. ParentOK'  BY <1>2, <1>3, <1>4, Zenon DEF ParentOK
<1>6. QED  BY <1>1, <1>5, TypePartsNext

\* A reader that holds nothing.
LEMMA IdleTyped == Idle \in ReaderRecords
BY WakeBounds DEF Idle, ReaderRecords

\* Types of a reader.
LEMMA HoldsTyped == ASSUME WakeTypeOK, NEW d \in Readers
                    PROVE  reader[d] \in ReaderRecords /\ reader[d].hand \in 0..MaxWorks
                           /\ reader[d].back \in Seq(Works) /\ Holds(d) \subseteq Works
<1>1. reader[d] \in ReaderRecords  BY TypeParts DEF ResultsOK
<1>2. reader[d].hand \in 0..MaxWorks /\ reader[d].back \in Seq(Works)  BY <1>1 DEF ReaderRecords
<1>3. ToSet(reader[d].back) \subseteq Works  BY <1>2, SetInSeq
<1>4. Holds(d) \subseteq Works  BY <1>2, <1>3, WakeBounds DEF Holds, Works
<1>5. QED  BY <1>1, <1>2, <1>4

\* TurnBreaks.
LEMMA TurnBreaksTyped == ASSUME WakeTypeOK, TurnBreaks PROVE WakeTypeOK'
<1>1. RegistryOK' /\ FlagOK' /\ CountsOK' /\ FaultsOK'  BY TypeFrames, Zenon DEF TurnBreaks
<1>2. ParentOK /\ GhostsOK /\ ResultsOK  BY TypeParts
<1>3. /\ turn' = "none" /\ carries' = FALSE /\ checks' = checks + 1
      /\ UNCHANGED <<inbox, read, buf, msgs, untold>>
  BY Zenon DEF TurnBreaks
<1>4. checks' \in Nat  BY <1>2, <1>3 DEF ParentOK
<1>5. ParentOK'  BY <1>2, <1>3, <1>4, Zenon DEF ParentOK
<1>6. GhostsOK'  BY <1>2, <1>3 DEF TurnBreaks, GhostsOK
<1>7. ResultsOK'
  <2>1. CASE UNCHANGED <<reader, dropped>>  BY <1>2, <1>3, <2>1, Zenon DEF ResultsOK
  <2>2. CASE /\ dropped' = dropped \cup UNION {Holds(d) : d \in Readers}
             /\ reader' = [d \in Readers |-> Idle]
    <3>1. UNION {Holds(d) : d \in Readers} \subseteq Works  BY HoldsTyped
    <3>2. QED  BY <1>2, <1>3, <2>2, <3>1, IdleTyped DEF ResultsOK
  <2>3. QED  BY <2>1, <2>2, Zenon DEF TurnBreaks
<1>8. QED  BY <1>1, <1>5, <1>6, <1>7, TypePartsNext

\* _check_and_start_next_turn.
LEMMA CheckTyped == ASSUME WakeTypeOK, _check_and_start_next_turn PROVE WakeTypeOK'
<1>1. RegistryOK' /\ ResultsOK' /\ GhostsOK' /\ CountsOK' /\ FaultsOK'
  BY TypeFrames, Zenon DEF _check_and_start_next_turn
<1>2. FlagOK /\ ParentOK  BY TypeParts
<1>3. checks > 0 /\ checks' = checks - 1 /\ msgs' = msgs  BY Zenon DEF _check_and_start_next_turn
<1>4. checks' \in Nat  BY <1>2, <1>3 DEF ParentOK
<1>5. FlagOK'
  <2>1. CASE UNCHANGED <<pending, posts, lost>>  BY <2>1, TypeFrames
  <2>2. CASE _rewake_parent_if_inbox_stranded
    <3>1. pending' \in BOOLEAN /\ lost' \in BOOLEAN
      BY <1>2, <2>2, Zenon DEF _rewake_parent_if_inbox_stranded, FlagOK
    <3>2. posts' = posts \/ posts' = [posts EXCEPT ![1] = posts[1] + 1]
      BY <2>2 DEF _rewake_parent_if_inbox_stranded
    <3>3. posts' \in [1..MaxAttempts -> Nat]  BY <1>2, <3>2 DEF FlagOK
    <3>4. QED  BY <3>1, <3>3 DEF FlagOK
  <2>3. QED  BY <2>1, <2>2, Zenon DEF _check_and_start_next_turn
<1>6. ASSUME turn' \in {"none", "created", "active"}, carries' \in BOOLEAN, buf' \in Seq({"notice", "user"})
      PROVE  ParentOK'
  BY <1>2, <1>3, <1>4, <1>6, Zenon DEF ParentOK
<1>7. CASE UNCHANGED <<turn, carries, buf>>
  <2>1. ParentOK'  BY <1>2, <1>6, <1>7, Zenon DEF ParentOK
  <2>2. QED  BY <1>1, <1>5, <2>1, TypePartsNext
<1>8. CASE /\ buf # <<>> /\ turn' = "created"
           /\ \/ carries' = (Head(buf) = "notice") /\ buf' = Tail(buf)
              \/ carries' = Notified /\ buf' = <<>>
  <2>1. buf' \in Seq({"notice", "user"})
    <3>1. CASE buf' = Tail(buf)  BY <1>2, <1>8, <3>1, SeqTail DEF ParentOK
    <3>2. CASE buf' = <<>>  BY <3>2, SeqEmpty
    <3>3. QED  BY <1>8, <3>1, <3>2
  <2>2. carries' \in BOOLEAN  BY <1>8, Zenon DEF Notified
  <2>3. ParentOK'  BY <1>6, <1>8, <2>1, <2>2
  <2>4. QED  BY <1>1, <1>5, <2>3, TypePartsNext
<1>9. QED  BY <1>7, <1>8, Zenon DEF _check_and_start_next_turn

\* A step of the drain keeps the types.
LEMMA DrainTyped ==
    ASSUME WakeTypeOK, NEW d \in Readers, NEW back \in Seq(Works), _drain_inbox(d, back)
    PROVE  inbox' \in Seq(Works) /\ reader' \in [Readers -> ReaderRecords] /\ GhostsOK'
<1>1. ResultsOK /\ GhostsOK  BY TypeParts
<1>2. CASE /\ inbox # <<>> /\ inbox' = Tail(inbox) /\ Told({Head(inbox)})
           /\ reader' = [reader EXCEPT ![d] = [hand |-> Head(inbox), back |-> back]]
  <2>1. inbox' \in Seq(Works) /\ Head(inbox) \in Works  BY <1>1, <1>2, SeqTail DEF ResultsOK
  <2>2. Head(inbox) \in 0..MaxWorks  BY <2>1, WakeBounds DEF Works
  <2>3. [hand |-> Head(inbox), back |-> back] \in ReaderRecords  BY <2>2 DEF ReaderRecords
  <2>4. reader' \in [Readers -> ReaderRecords]  BY <1>1, <1>2, <2>3 DEF ResultsOK
  <2>5. GhostsOK'  BY <1>1, <1>2 DEF Told, GhostsOK
  <2>6. QED  BY <2>1, <2>4, <2>5
<1>3. CASE inbox' = back /\ reader' = [reader EXCEPT ![d] = Idle] /\ UNCHANGED ghosts
  <2>1. GhostsOK'  BY <1>3, TypeFrames
  <2>2. QED  BY <1>1, <1>3, <2>1, IdleTyped DEF ResultsOK
<1>4. QED  BY <1>2, <1>3, Zenon DEF _drain_inbox

\* ReadBegins.
LEMMA ReadTyped == ASSUME WakeTypeOK, NEW d \in Readers, ReadBegins(d) PROVE WakeTypeOK'
<1>1. RegistryOK' /\ FlagOK' /\ ParentOK' /\ CountsOK' /\ FaultsOK'  BY TypeFrames, Zenon DEF ReadBegins
<1>2. ResultsOK  BY TypeParts
<1>3. _drain_inbox(d, <<>>) /\ UNCHANGED <<read, dropped>>  BY Zenon DEF ReadBegins
<1>4. inbox' \in Seq(Works) /\ reader' \in [Readers -> ReaderRecords] /\ GhostsOK'
  BY <1>3, SeqEmpty, DrainTyped
<1>5. ResultsOK'  BY <1>2, <1>3, <1>4 DEF ResultsOK
<1>6. QED  BY <1>1, <1>4, <1>5, TypePartsNext

\* What Evaluated does with the result in hand.
LEMMA EvaluatedIs ==
    ASSUME WakeTypeOK, NEW d \in Readers, NEW ok \in BOOLEAN, Evaluated(d, ok)
    PROVE  LET w == reader[d].hand
               b == reader[d].back
           IN  /\ w # 0 /\ w \in Works /\ b \in Seq(Works)
               /\ \/ /\ ok /\ read' = read \cup {w} /\ UNCHANGED faults
                     /\ entry' = [c \in Children |-> IF entry[c].work = w THEN NoWork ELSE entry[c]]
                     /\ drained' = drained \cup {c \in Children : entry[c].work = w /\ entry[c].delivered}
                     /\ _drain_inbox(d, b)
                  \/ /\ ~ok /\ Faulty /\ UNCHANGED <<read, entry, drained>>
                     /\ _drain_inbox(d, Append(b, w))
               /\ UNCHANGED <<home, ended, works, ran, sending, rep, dropped, pending, posts, parent, lost, counts>>
<1> DEFINE w == reader[d].hand
           gone == {c \in Children : entry[c].work = w}
<1>1. w # 0 /\ UNCHANGED <<home, ended, works, ran, sending, rep, dropped, pending, posts, parent, lost, counts>>
  BY Zenon DEF Evaluated
<1>2. w \in Works /\ reader[d].back \in Seq(Works)  BY <1>1, HoldsTyped, WakeBounds DEF Works
<1>3. ASSUME ok
      PROVE  /\ read' = read \cup {w} /\ UNCHANGED faults
             /\ entry' = [c \in Children |-> IF c \in gone THEN NoWork ELSE entry[c]]
             /\ drained' = drained \cup {c \in gone : entry[c].delivered}
             /\ _drain_inbox(d, reader[d].back)
  BY <1>3 DEF Evaluated, _cleanup_drained_subagent_work
<1>4. ASSUME ok PROVE entry' = [c \in Children |-> IF entry[c].work = w THEN NoWork ELSE entry[c]]
  BY <1>3, <1>4
<1>5. ASSUME ok PROVE drained' = drained \cup {c \in Children : entry[c].work = w /\ entry[c].delivered}
  BY <1>3, <1>5
<1>6. ASSUME ~ok PROVE Faulty /\ UNCHANGED <<read, entry, drained>> /\ _drain_inbox(d, Append(reader[d].back, w))
  BY <1>6 DEF Evaluated
<1>7. QED  BY <1>1, <1>2, <1>3, <1>4, <1>5, <1>6, Zenon

\* Evaluated.
LEMMA EvaluatedTyped == ASSUME WakeTypeOK, NEW d \in Readers, NEW ok \in BOOLEAN, Evaluated(d, ok)
                        PROVE  WakeTypeOK'
<1>1. RegistryOK /\ ResultsOK  BY TypeParts
<1>2. PICK w \in Works : w = reader[d].hand  BY EvaluatedIs
<1>3. PICK b \in Seq(Works) : b = reader[d].back  BY EvaluatedIs
<1>4. UNCHANGED <<home, ended, works, ran, sending, rep, dropped, pending, posts, parent, lost, counts>>  BY EvaluatedIs
<1>5. FlagOK' /\ ParentOK' /\ CountsOK'  BY <1>4, TypeFrames
<1>6. CASE /\ read' = read \cup {w} /\ UNCHANGED faults
           /\ entry' = [c \in Children |-> IF entry[c].work = w THEN NoWork ELSE entry[c]]
           /\ drained' = drained \cup {c \in Children : entry[c].work = w /\ entry[c].delivered}
           /\ _drain_inbox(d, b)
  <2>1. inbox' \in Seq(Works) /\ reader' \in [Readers -> ReaderRecords] /\ GhostsOK'  BY <1>6, DrainTyped
  <2>2. ResultsOK'  BY <1>1, <1>4, <1>6, <2>1 DEF ResultsOK
  <2>3. \A c \in Children : NoWork \in Entries  BY EntryTyped
  <2>4. entry' \in [Children -> Entries]  BY <1>1, <1>6, <2>3 DEF RegistryOK
  <2>5. RegistryOK'  BY <1>1, <1>4, <1>6, <2>4 DEF RegistryOK
  <2>6. FaultsOK'  BY <1>6, TypeFrames
  <2>7. QED  BY <1>5, <2>1, <2>2, <2>5, <2>6, TypePartsNext
<1>7. CASE Faulty /\ UNCHANGED <<read, entry, drained>> /\ _drain_inbox(d, Append(b, w))
  <2>1. Append(b, w) \in Seq(Works)  BY SeqAppend
  <2>2. inbox' \in Seq(Works) /\ reader' \in [Readers -> ReaderRecords] /\ GhostsOK'  BY <1>7, <2>1, DrainTyped
  <2>3. ResultsOK'  BY <1>1, <1>4, <1>7, <2>2 DEF ResultsOK
  <2>4. RegistryOK'  BY <1>1, <1>4, <1>7 DEF RegistryOK
  <2>5. FaultsOK'  BY <1>7, TypeFrames
  <2>6. QED  BY <1>5, <2>2, <2>3, <2>4, <2>5, TypePartsNext
<1>8. QED  BY <1>2, <1>3, <1>6, <1>7, EvaluatedIs, Zenon

\* Types, for any number of children, reports, readers, attempts and faults.
THEOREM WakeTypes == WakeSpec => []WakeTypeOK
<1>1. WakeInit => WakeTypeOK
  <2> SUFFICES ASSUME WakeInit PROVE WakeTypeOK  OBVIOUS
  <2>1. NoWork \in Entries  BY WakeBounds DEF NoWork, Entries
  <2>2. RegistryOK  BY <2>1, WakeBounds DEF WakeInit, RegistryOK, RepStates
  <2>3. ResultsOK  BY IdleTyped, SeqEmpty DEF WakeInit, ResultsOK
  <2>4. FlagOK
    <3>1. posts \in [1..MaxAttempts -> Nat]  BY DEF WakeInit
    <3>2. pending \in BOOLEAN /\ lost \in BOOLEAN  BY DEF WakeInit
    <3>3. QED  BY <3>1, <3>2, Zenon DEF FlagOK
  <2>5. ParentOK
    <3>1. turn = "none" /\ carries = FALSE /\ buf = <<>> /\ checks = 0 /\ msgs = 0  BY Zenon DEF WakeInit
    <3>2. checks \in Nat /\ msgs \in 0..MaxMsgs  BY <3>1, WakeBounds
    <3>3. buf \in Seq({"notice", "user"})  BY <3>1, SeqEmpty
    <3>4. carries \in BOOLEAN  BY <3>1
    <3>5. turn \in {"none", "created", "active"}  BY <3>1
    <3>6. QED  BY <3>2, <3>3, <3>4, <3>5, Zenon DEF ParentOK
  <2>6. GhostsOK /\ CountsOK /\ FaultsOK  BY WakeBounds DEF WakeInit, GhostsOK, CountsOK, FaultsOK
  <2>7. QED  BY <2>2, <2>3, <2>4, <2>5, <2>6, TypeParts
<1>2. WakeTypeOK /\ [WakeNext]_wvars => WakeTypeOK'
  <2> SUFFICES ASSUME WakeTypeOK, [WakeNext]_wvars PROVE WakeTypeOK'  OBVIOUS
  <2>1. CASE UNCHANGED wvars
    <3>1. RegistryOK' /\ ResultsOK' /\ FlagOK' /\ ParentOK' /\ GhostsOK' /\ CountsOK' /\ FaultsOK'
      BY <2>1, TypeFrames, Zenon DEF wvars
    <3>2. QED  BY <3>1, TypePartsNext
  <2>2. CASE WakeNext
    BY <2>2, SendTyped, SendReturnsTyped, CreateTyped, ReturnsTyped, MarkTyped, MissingTyped, UntrackedTyped,
       EnsureTyped, MessageTyped, PostArrivesTyped, PostRetriesTyped, SwallowedTyped, NoticeFailsTyped, RunTyped, InjectTyped, TurnEndsTyped,
       TurnBreaksTyped, CheckTyped, ReadTyped, EvaluatedTyped, Zenon DEF WakeNext
  <2>3. QED  BY <2>1, <2>2
<1>3. QED  BY <1>1, <1>2, PTL DEF WakeSpec

-----------------------------------------------------------------------------
(***************************************************************************)
(* Where a result may be.                                                  *)
(***************************************************************************)
\* The results that have been delivered, wherever they are.
Out == ToSet(inbox) \cup read \cup dropped \cup UNION {Holds(d) : d \in Readers}

\* Only work that was registered has a result.
Fresh ==
    /\ \A w \in Out : w <= works
    /\ \A c \in Children : entry[c].work <= works

\* A result is in one place: the inbox, one reader, or with the parent.
Apart ==
    /\ Once(inbox) /\ ToSet(inbox) \cap (read \cup dropped) = {}
    /\ \A d \in Readers :
         /\ Once(reader[d].back) /\ reader[d].hand \notin ToSet(reader[d].back)
         /\ Holds(d) \cap (ToSet(inbox) \cup read \cup dropped) = {}
         /\ \A e \in Readers \ {d} : Holds(d) \cap Holds(e) = {}

\* The result of open work is nowhere yet, and no work has two entries.
Open ==
    /\ \A c \in Children : entry[c].work # 0 /\ ~entry[c].delivered => entry[c].work \notin Out
    /\ \A b, c \in Children : entry[b].work # 0 /\ entry[b].work = entry[c].work => b = c

\* What holds of the results.
ResultsInv == Fresh /\ Apart /\ Open

\* Types of the results.
LEMMA OutTyped == WakeTypeOK => Out \subseteq Works
<1> SUFFICES ASSUME WakeTypeOK PROVE Out \subseteq Works  OBVIOUS
<1>1. ResultsOK  BY TypeParts
<1>2. ToSet(inbox) \subseteq Works  BY <1>1, SetInSeq DEF ResultsOK
<1>3. \A d \in Readers : Holds(d) \subseteq Works  BY HoldsTyped
<1>4. QED  BY <1>1, <1>2, <1>3 DEF Out, ResultsOK

\* A step that moves no result.
LEMMA ResultsStay ==
    ASSUME UNCHANGED results
    PROVE  /\ Out' = Out
           /\ Apart => Apart'
<1>1. inbox' = inbox /\ reader' = reader /\ read' = read /\ dropped' = dropped  BY DEF results
<1>2. \A d \in Readers : Holds(d)' = Holds(d)  BY <1>1 DEF Holds
<1>3. Out' = Out  BY <1>1, <1>2, Zenon DEF Out
<1>4. Apart => Apart'  BY <1>1, <1>2 DEF Apart
<1>5. QED  BY <1>3, <1>4

\* Entries that go, or stay as they are, with no new result.
LEMMA EntriesGo ==
    ASSUME WakeTypeOK, Fresh, Open, works' = works, Out' \subseteq Out,
           \A c \in Children : entry'[c] = entry[c] \/ entry'[c] = NoWork
    PROVE  Fresh' /\ Open'
<1>1. \A c \in Children : entry[c].work \in 0..MaxWorks  BY EntryTyped
<1>2. works \in 0..MaxWorks  BY TypeParts DEF RegistryOK
<1>3. \A c \in Children : entry'[c].work # 0 => entry'[c] = entry[c]  BY DEF NoWork
<1>4. Fresh'
  <2>1. \A c \in Children : entry'[c].work <= works  BY <1>1, <1>2, <1>3 DEF Fresh
  <2>2. QED  BY <2>1 DEF Fresh
<1>5. ASSUME NEW c \in Children, entry'[c].work # 0, ~entry'[c].delivered PROVE entry'[c].work \notin Out'
  <2>1. entry'[c] = entry[c] /\ entry[c].work \in Works  BY <1>1, <1>3, <1>5, WakeBounds DEF Works
  <2>2. PICK w \in Works : w = entry[c].work  BY <2>1
  <2>3. w \notin Out  BY <1>5, <2>1, <2>2 DEF Open
  <2>4. w \notin Out'  BY <2>3
  <2>5. entry'[c].work = w  BY <2>1, <2>2
  <2>6. QED  BY <2>4, <2>5
<1>6. ASSUME NEW b \in Children, NEW c \in Children, entry'[b].work # 0, entry'[b].work = entry'[c].work
      PROVE  b = c
  BY <1>3, <1>6 DEF Open
<1>7. Open'  BY <1>5, <1>6 DEF Open
<1>8. QED  BY <1>4, <1>7

\* A new dispatch; it is delivered at once if its entry was rebuilt for a report.
LEMMA EntryComes ==
    ASSUME WakeTypeOK, Fresh, Open, NEW c \in Children, NEW b \in BOOLEAN, register_subagent_work(c, b),
           Out' \subseteq Out \cup (IF b THEN {works + 1} ELSE {})
    PROVE  Fresh' /\ Open'
<1>1. \A a \in Children : entry[a].work \in 0..MaxWorks  BY EntryTyped
<1>2. works \in 0..MaxWorks /\ entry \in [Children -> Entries]  BY TypeParts DEF RegistryOK
<1>3. works' = works + 1 /\ works + 1 \in Works  BY RegisterTyped DEF register_subagent_work
<1>4. entry'[c] = [work |-> works + 1, delivered |-> b] /\ \A a \in Children \ {c} : entry'[a] = entry[a]
  BY <1>2 DEF register_subagent_work
<1>5. Works \subseteq Nat /\ works \in Nat /\ \A a \in Children : entry[a].work \in Nat
  BY <1>1, <1>2, WakeBounds DEF Works
<1>6. Fresh'
  <2>1. \A w \in Out' : w \in Out \/ w = works + 1  OBVIOUS
  <2>3. Out \subseteq Nat  BY <1>5, OutTyped
  <2>4. \A w \in Out' : w <= works + 1  BY <1>5, <2>1, <2>3 DEF Fresh
  <2>2. \A a \in Children : entry'[a].work <= works + 1  BY <1>4, <1>5 DEF Fresh
  <2>5. QED  BY <1>3, <2>2, <2>4 DEF Fresh
<1>7. ASSUME NEW a \in Children, entry'[a].work # 0, ~entry'[a].delivered PROVE entry'[a].work \notin Out'
  <2>1. CASE a = c
    <3>1. ~b /\ entry'[a].work = works + 1  BY <1>4, <1>7, <2>1
    <3>2. PICK w \in Works : w = works + 1  BY <1>3
    <3>3. w \notin Out  BY <1>5, <3>2 DEF Fresh
    <3>4. w \notin Out'  BY <3>1, <3>3
    <3>5. QED  BY <3>1, <3>2, <3>4
  <2>2. CASE a # c
    <3>1. entry'[a] = entry[a] /\ entry[a].work \in Works  BY <1>1, <1>4, <1>7, <2>2, WakeBounds DEF Works
    <3>2. PICK w \in Works : w = entry[a].work  BY <3>1
    <3>3. w \notin Out /\ w # works + 1  BY <1>5, <1>7, <3>1, <3>2 DEF Open, Fresh
    <3>4. w \notin Out'  BY <3>3
    <3>5. QED  BY <3>1, <3>2, <3>4
  <2>3. QED  BY <2>1, <2>2
<1>8. ASSUME NEW a \in Children, NEW e \in Children, entry'[a].work # 0, entry'[a].work = entry'[e].work
      PROVE  a = e
  <2>1. \A x \in Children : entry[x].work # works + 1  BY <1>5 DEF Fresh
  <2>2. QED  BY <1>4, <1>8, <2>1 DEF Open
<1>9. Open'  BY <1>7, <1>8 DEF Open
<1>10. QED  BY <1>6, <1>9

\* The result of a dispatch is delivered.
LEMMA EntryDelivers ==
    ASSUME WakeTypeOK, Fresh, Open, NEW c \in Children, entry[c].work # 0, works' = works,
           entry' = [entry EXCEPT ![c] = [work |-> entry[c].work, delivered |-> TRUE]],
           Out' \subseteq Out \cup {entry[c].work}
    PROVE  Fresh' /\ Open'
<1>1. \A a \in Children : entry[a].work \in 0..MaxWorks  BY EntryTyped
<1>2. works \in 0..MaxWorks /\ entry \in [Children -> Entries]  BY TypeParts DEF RegistryOK
<1>3. /\ entry'[c] = [work |-> entry[c].work, delivered |-> TRUE]
      /\ \A a \in Children \ {c} : entry'[a] = entry[a]
      /\ \A a \in Children : entry'[a].work = entry[a].work
  BY <1>2
<1>4. Fresh'
  <2>1. \A w \in Out' : w <= works  BY DEF Fresh
  <2>2. \A a \in Children : entry'[a].work <= works  BY <1>3 DEF Fresh
  <2>3. QED  BY <2>1, <2>2 DEF Fresh
<1>5. ASSUME NEW a \in Children, entry'[a].work # 0, ~entry'[a].delivered PROVE entry'[a].work \notin Out'
  <2>1. a # c  BY <1>3, <1>5
  <2>2. entry'[a] = entry[a] /\ entry[a].work \in Works  BY <1>1, <1>3, <1>5, <2>1, WakeBounds DEF Works
  <2>3. PICK w \in Works : w = entry[a].work  BY <2>2
  <2>4. w \notin Out /\ w # entry[c].work  BY <1>5, <2>1, <2>2, <2>3 DEF Open
  <2>5. w \notin Out'  BY <2>4
  <2>6. QED  BY <2>2, <2>3, <2>5
<1>6. ASSUME NEW a \in Children, NEW e \in Children, entry'[a].work # 0, entry'[a].work = entry'[e].work
      PROVE  a = e
  BY <1>3, <1>6 DEF Open
<1>7. Open'  BY <1>5, <1>6 DEF Open
<1>8. QED  BY <1>4, <1>7

\* A result that was nowhere comes to the inbox.
LEMMA InboxGrows ==
    ASSUME WakeTypeOK, Apart, NEW w \in Works, w \notin Out, inbox' = Append(inbox, w),
           UNCHANGED <<reader, read, dropped>>
    PROVE  Apart' /\ Out' = Out \cup {w}
<1>1. inbox \in Seq(Works)  BY TypeParts DEF ResultsOK
<1>2. ToSet(inbox)' = ToSet(inbox) \cup {w} /\ (Once(inbox) => Once(inbox)')
  <2>1. ToSet(inbox') = ToSet(inbox) \cup {w} /\ (Once(inbox) /\ w \notin ToSet(inbox) => Once(inbox'))
    BY <1>1, SeqAppend
  <2>2. QED  BY <2>1 DEF Out, ToSet, Once
<1>3. \A d \in Readers : Holds(d)' = Holds(d)  BY DEF Holds
<1>4. w \notin read /\ w \notin dropped /\ \A d \in Readers : w \notin Holds(d)  BY DEF Out
<1>5. Out' = Out \cup {w}  BY <1>2, <1>3 DEF Out
<1>6. Apart'
  <2>1. Once(inbox)' /\ ToSet(inbox)' \cap (read' \cup dropped') = {}  BY <1>2, <1>4 DEF Apart
  <2>2. ASSUME NEW d \in Readers
        PROVE  /\ Once(reader[d].back)' /\ reader'[d].hand \notin ToSet(reader[d].back)'
               /\ Holds(d)' \cap (ToSet(inbox)' \cup read' \cup dropped') = {}
               /\ \A e \in Readers \ {d} : Holds(d)' \cap Holds(e)' = {}
    <3>1. Once(reader[d].back)' /\ reader'[d].hand \notin ToSet(reader[d].back)'
      BY DEF Apart, Once, ToSet
    <3>2. Holds(d)' \cap (ToSet(inbox)' \cup read' \cup dropped') = {}  BY <1>2, <1>3, <1>4 DEF Apart
    <3>3. \A e \in Readers \ {d} : Holds(d)' \cap Holds(e)' = {}  BY <1>3 DEF Apart
    <3>4. QED  BY <3>1, <3>2, <3>3
  <2>3. QED  BY <2>1, <2>2 DEF Apart
<1>7. QED  BY <1>5, <1>6

\* What a step of the drain moves.
LEMMA DrainMoves ==
    ASSUME WakeTypeOK, NEW d \in Readers, NEW back \in Seq(Works), _drain_inbox(d, back)
    PROVE  /\ \A e \in Readers \ {d} : reader'[e] = reader[e] /\ Holds(e)' = Holds(e)
           /\ \/ /\ inbox # <<>> /\ inbox' = Tail(inbox)
                 /\ reader'[d] = [hand |-> Head(inbox), back |-> back]
                 /\ Holds(d)' = {Head(inbox)} \cup ToSet(back)
                 /\ untold' = untold \ {Head(inbox)} /\ excused' = excused \ {Head(inbox)}
              \/ /\ inbox = <<>> /\ inbox' = back /\ reader'[d] = Idle /\ Holds(d)' = {}
                 /\ UNCHANGED <<untold, excused>>
<1>1. reader \in [Readers -> ReaderRecords] /\ inbox \in Seq(Works)  BY TypeParts DEF ResultsOK
<1>2. ASSUME NEW x, reader' = [reader EXCEPT ![d] = x]
      PROVE  /\ reader'[d] = x
             /\ \A e \in Readers \ {d} : reader'[e] = reader[e] /\ Holds(e)' = Holds(e)
  BY <1>1, <1>2 DEF Holds
<1>3. CASE /\ inbox # <<>> /\ inbox' = Tail(inbox) /\ Told({Head(inbox)})
           /\ reader' = [reader EXCEPT ![d] = [hand |-> Head(inbox), back |-> back]]
  <2>1. reader'[d] = [hand |-> Head(inbox), back |-> back]  BY <1>2, <1>3
  <2>2. Head(inbox) \in Works /\ Head(inbox) # 0  BY <1>1, <1>3, SeqTail, WakeBounds DEF Works
  <2>3. Holds(d)' = {Head(inbox)} \cup ToSet(back)
    <3>1. reader'[d].hand = Head(inbox) /\ reader'[d].back = back  BY <2>1
    <3>2. Holds(d)' = ({reader'[d].hand} \ {0}) \cup ToSet(reader'[d].back)  BY DEF Holds, ToSet
    <3>3. QED  BY <2>2, <3>1, <3>2
  <2>4. QED  BY <1>2, <1>3, <2>1, <2>3 DEF Told
<1>4. CASE inbox = <<>> /\ inbox' = back /\ reader' = [reader EXCEPT ![d] = Idle] /\ UNCHANGED ghosts
  <2>1. reader'[d] = Idle  BY <1>2, <1>4
  <2>2. Holds(d)' = {}
    <3>1. reader'[d].hand = 0 /\ reader'[d].back = <<>>  BY <2>1 DEF Idle
    <3>2. Holds(d)' = ({reader'[d].hand} \ {0}) \cup ToSet(reader'[d].back)  BY DEF Holds, ToSet
    <3>3. QED  BY <3>1, <3>2, SeqEmpty
  <2>3. QED  BY <1>2, <1>4, <2>1, <2>2 DEF ghosts
<1>5. QED  BY <1>3, <1>4, Zenon DEF _drain_inbox

\* The drain takes from the inbox and gives back to it, and loses or doubles nothing.
LEMMA DrainApart ==
    ASSUME WakeTypeOK, Apart, NEW d \in Readers, NEW back \in Seq(Works), _drain_inbox(d, back),
           Once(back), ToSet(back) \subseteq Holds(d), dropped' = dropped,
           \/ read' = read /\ (Holds(d) \subseteq ToSet(back))
           \/ \E w \in Holds(d) : read' = read \cup {w} /\ ToSet(back) = Holds(d) \ {w}
    PROVE  Apart' /\ Out' = Out
<1>1. inbox \in Seq(Works)  BY TypeParts DEF ResultsOK
<1>2. read' \subseteq read \cup Holds(d) /\ read' \cap ToSet(back) \subseteq read
      /\ read \subseteq read' /\ read' \cup ToSet(back) = read \cup Holds(d)
  OBVIOUS
<1>3. \A e \in Readers \ {d} : reader'[e] = reader[e] /\ Holds(e)' = Holds(e)  BY DrainMoves
<1>4. /\ Holds(d) \cap (ToSet(inbox) \cup read \cup dropped) = {}
      /\ \A e \in Readers \ {d} : Holds(d) \cap Holds(e) = {}
  BY DEF Apart
<1>5. \A e \in Readers \ {d} :
        /\ Once(reader[e].back) /\ reader[e].hand \notin ToSet(reader[e].back)
        /\ Holds(e) \cap (ToSet(inbox) \cup read \cup dropped) = {}
        /\ \A x \in Readers \ {e} : Holds(e) \cap Holds(x) = {}
  BY DEF Apart
<1>6. Once(inbox) /\ ToSet(inbox) \cap (read \cup dropped) = {}  BY DEF Apart
<1>7. PICK inb \in Seq(Works), h \in SUBSET Works :
        /\ inb = inbox' /\ h = Holds(d)' /\ Once(inb)
        /\ h \cup ToSet(inb) = ToSet(back) \cup ToSet(inbox) /\ h \cap ToSet(inb) = {}
        /\ Once(reader'[d].back) /\ reader'[d].hand \notin ToSet(reader'[d].back)
  <2>1. CASE /\ inbox # <<>> /\ inbox' = Tail(inbox)
             /\ reader'[d] = [hand |-> Head(inbox), back |-> back]
             /\ Holds(d)' = {Head(inbox)} \cup ToSet(back)
    <3>1. /\ Tail(inbox) \in Seq(Works) /\ Head(inbox) \in Works /\ Once(Tail(inbox))
          /\ ToSet(inbox) = ToSet(Tail(inbox)) \cup {Head(inbox)} /\ Head(inbox) \notin ToSet(Tail(inbox))
      BY <1>1, <1>6, <2>1, SeqTail
    <3>2. reader'[d].back = back /\ reader'[d].hand = Head(inbox)  BY <2>1
    <3>3. Head(inbox) \notin ToSet(back)  BY <1>4, <3>1
    <3>4. ToSet(back) \subseteq Works  BY SetInSeq
    <3>5. ({Head(inbox)} \cup ToSet(back)) \cup ToSet(Tail(inbox)) = ToSet(back) \cup ToSet(inbox)  BY <3>1
    <3>6. ({Head(inbox)} \cup ToSet(back)) \cap ToSet(Tail(inbox)) = {}  BY <1>4, <3>1
    <3>7. {Head(inbox)} \cup ToSet(back) \in SUBSET Works  BY <3>1, <3>4
    <3>8. QED  BY <2>1, <3>1, <3>2, <3>3, <3>5, <3>6, <3>7
  <2>2. CASE inbox = <<>> /\ inbox' = back /\ reader'[d] = Idle /\ Holds(d)' = {}
    <3>1. reader'[d].hand = 0 /\ reader'[d].back = <<>>  BY <2>2 DEF Idle
    <3>2. ToSet(inbox) = {} /\ Once(<<>>) /\ ToSet(<<>>) = {}  BY <2>2, SeqEmpty
    <3>3. QED  BY <2>2, <3>1, <3>2
  <2>3. QED  BY <2>1, <2>2, DrainMoves
<1>8. ToSet(inbox)' = ToSet(inb) /\ (Once(inbox)' <=> Once(inb))  BY <1>7 DEF ToSet, Once
<1>9. Apart'
  <2>1. Once(inbox)' /\ ToSet(inbox)' \cap (read' \cup dropped') = {}  BY <1>2, <1>4, <1>6, <1>7, <1>8
  <2>2. h \cap (ToSet(inb) \cup read' \cup dropped') = {}  BY <1>2, <1>4, <1>6, <1>7
  <2>3. \A e \in Readers \ {d} : h \cap Holds(e) = {}  BY <1>4, <1>5, <1>7
  <2>4. \A e \in Readers \ {d} : Holds(e) \cap (ToSet(inb) \cup read' \cup dropped') = {}
    BY <1>2, <1>4, <1>5, <1>7
  <2>5. ASSUME NEW e \in Readers \ {d}
        PROVE  /\ Once(reader'[e].back) /\ reader'[e].hand \notin ToSet(reader'[e].back)
               /\ Holds(e)' \cap (ToSet(inbox)' \cup read' \cup dropped') = {}
               /\ \A x \in Readers \ {e} : Holds(e)' \cap Holds(x)' = {}
    <3>1. Once(reader'[e].back) /\ reader'[e].hand \notin ToSet(reader'[e].back)  BY <1>3, <1>5
    <3>2. Holds(e)' \cap (ToSet(inbox)' \cup read' \cup dropped') = {}  BY <1>3, <1>8, <2>4
    <3>3. \A x \in Readers \ {e} : Holds(e)' \cap Holds(x)' = {}
      <4>1. ASSUME NEW x \in Readers \ {e} PROVE Holds(e)' \cap Holds(x)' = {}
        <5>1. CASE x = d  BY <1>3, <1>7, <2>3, <5>1
        <5>2. CASE x # d  BY <1>3, <1>5, <5>2
        <5>3. QED  BY <5>1, <5>2
      <4>2. QED  BY <4>1
    <3>4. QED  BY <3>1, <3>2, <3>3
  <2>6. /\ Once(reader'[d].back) /\ reader'[d].hand \notin ToSet(reader'[d].back)
        /\ Holds(d)' \cap (ToSet(inbox)' \cup read' \cup dropped') = {}
        /\ \A x \in Readers \ {d} : Holds(d)' \cap Holds(x)' = {}
    BY <1>3, <1>7, <1>8, <2>2, <2>3
  <2>7. ASSUME NEW e \in Readers
        PROVE  /\ Once(reader'[e].back) /\ reader'[e].hand \notin ToSet(reader'[e].back)
               /\ Holds(e)' \cap (ToSet(inbox)' \cup read' \cup dropped') = {}
               /\ \A x \in Readers \ {e} : Holds(e)' \cap Holds(x)' = {}
    BY <2>5, <2>6, Zenon
  <2>8. QED  BY <2>1, <2>7 DEF Apart
<1>10. Out' = Out
  <2> DEFINE others == UNION {Holds(e) : e \in Readers \ {d}}
  <2>1. Out = ToSet(inbox) \cup read \cup dropped \cup Holds(d) \cup others  BY DEF Out
  <2>2. UNION {Holds(e)' : e \in Readers \ {d}} = others  BY <1>3
  <2>3. Out' = ToSet(inbox)' \cup read' \cup dropped' \cup Holds(d)' \cup UNION {Holds(e)' : e \in Readers \ {d}}
    BY DEF Out
  <2> HIDE DEF others
  <2>4. Out' = ToSet(inb) \cup read' \cup dropped \cup h \cup others  BY <1>7, <1>8, <2>2, <2>3
  <2>5. h \cup ToSet(inb) = ToSet(back) \cup ToSet(inbox)  BY <1>7
  <2>6. QED  BY <1>2, <2>1, <2>4, <2>5
<1>11. QED  BY <1>9, <1>10

\* A stop takes what every reader holds.
LEMMA BreaksApart ==
    ASSUME WakeTypeOK, Apart, UNCHANGED <<inbox, read>>, reader' = [d \in Readers |-> Idle],
           dropped' = dropped \cup UNION {Holds(d) : d \in Readers}
    PROVE  Apart' /\ Out' = Out
<1>1. \A d \in Readers : reader'[d] = Idle /\ Holds(d)' = {}
  <2>1. ASSUME NEW d \in Readers PROVE reader'[d] = Idle /\ Holds(d)' = {}
    <3>1. reader'[d] = Idle /\ reader'[d].hand = 0 /\ reader'[d].back = <<>>  BY DEF Idle
    <3>2. Holds(d)' = ({reader'[d].hand} \ {0}) \cup ToSet(reader'[d].back)  BY DEF Holds, ToSet
    <3>3. QED  BY <3>1, <3>2, SeqEmpty
  <2>2. QED  BY <2>1
<1>2. UNION {Holds(d)' : d \in Readers} = {}  BY <1>1
<1>3. Out' = Out  BY <1>2 DEF Out, ToSet
<1>4. \A d \in Readers : Once(reader'[d].back) /\ reader'[d].hand \notin ToSet(reader'[d].back)
  BY <1>1, SeqEmpty DEF Idle
<1>5. Once(inbox)' /\ ToSet(inbox)' \cap (read' \cup dropped') = {}
  <2>1. \A d \in Readers : Holds(d) \cap ToSet(inbox) = {}  BY DEF Apart
  <2>2. Once(inbox) /\ ToSet(inbox) \cap (read \cup dropped) = {}  BY DEF Apart
  <2>3. ToSet(inbox) \cap (read \cup dropped') = {}  BY <2>1, <2>2
  <2>4. QED  BY <2>2, <2>3
<1>6. Apart'  BY <1>1, <1>4, <1>5 DEF Apart
<1>7. QED  BY <1>3, <1>6

\* A report is delivered to the entry it finds, or the entry is left as it is.
LEMMA ReportDelivers ==
    ASSUME WakeTypeOK, ResultsInv, NEW c \in Children, entry[c].work # 0, works' = works,
           entry' = [entry EXCEPT ![c] = [work |-> entry[c].work, delivered |-> TRUE]],
           _deliver_subagent_completion(c, entry[c].work, entry[c].delivered),
           UNCHANGED <<reader, read, dropped>>
    PROVE  ResultsInv'
<1>1. Fresh /\ Apart /\ Open  BY DEF ResultsInv
<1>2. entry[c].work \in Works  BY EntryTyped, WakeBounds DEF Works
<1>3. Apart' /\ Out' \subseteq Out \cup {entry[c].work}
  <2>1. CASE entry[c].delivered
    <3>1. UNCHANGED results  BY <2>1 DEF _deliver_subagent_completion, results
    <3>2. QED  BY <1>1, <3>1, ResultsStay
  <2>2. CASE ~entry[c].delivered
    <3>1. inbox' = Append(inbox, entry[c].work)  BY <2>2 DEF _deliver_subagent_completion, Delivers
    <3>2. entry[c].work \notin Out  BY <1>1, <2>2 DEF Open
    <3>3. QED  BY <1>1, <1>2, <3>1, <3>2, InboxGrows
  <2>3. QED  BY <2>1, <2>2
<1>4. QED  BY <1>1, <1>3, EntryDelivers DEF ResultsInv

\* An entry is dropped or none changes, and no result moves.
LEMMA EntriesLeave ==
    ASSUME WakeTypeOK, ResultsInv, NEW c \in Children, UNCHANGED results, works' = works,
           entry' = entry \/ entry' = [entry EXCEPT ![c] = NoWork]
    PROVE  ResultsInv'
<1>1. Fresh /\ Apart /\ Open /\ entry \in [Children -> Entries]  BY TypeParts DEF ResultsInv, RegistryOK
<1>2. Out' = Out /\ Apart'  BY <1>1, ResultsStay
<1>3. \A a \in Children : entry'[a] = entry[a] \/ entry'[a] = NoWork  BY <1>1
<1>4. QED  BY <1>1, <1>2, <1>3, EntriesGo DEF ResultsInv

\* Sends keep it.
LEMMA RegistryActs ==
    ASSUME WakeTypeOK, ResultsInv, NEW c \in Children, Send(c) \/ SendReturns(c) \/ Create(c)
    PROVE  ResultsInv'
<1>1. CASE Send(c)
  <2>1. register_subagent_work(c, FALSE) /\ UNCHANGED results  BY <1>1, Zenon DEF Send
  <2>2. Out' = Out /\ Apart' /\ Fresh /\ Open  BY <2>1, ResultsStay DEF ResultsInv
  <2>3. QED  BY <2>1, <2>2, EntryComes DEF ResultsInv
<1>2. CASE SendReturns(c)
  <2>1. UNCHANGED results /\ works' = works  BY <1>2, Zenon DEF SendReturns
  <2>2. entry' = entry \/ entry' = [entry EXCEPT ![c] = NoWork]  BY <1>2, Zenon DEF SendReturns
  <2>3. QED  BY <2>1, <2>2, EntriesLeave
<1>3. CASE Create(c)  BY <1>3, EntriesLeave, Zenon DEF Create
<1>4. QED  BY <1>1, <1>2, <1>3

\* Reports of a child that is tracked, or not, keep it.
LEMMA ReportActs ==
    ASSUME WakeTypeOK, ResultsInv, NEW c \in Children, NEW r \in Reports,
           _mark_subagent_terminal_and_wake(r, c) \/ MissingParentInbox(r, c) \/ ReportUntracked(r, c)
    PROVE  ResultsInv'
<1>1. CASE ReportUntracked(r, c) \/ MissingParentInbox(r, c)
  BY <1>1, EntriesLeave, Zenon DEF ReportUntracked, MissingParentInbox
<1>2. CASE _mark_subagent_terminal_and_wake(r, c)
  <2>1. /\ entry[c].work # 0 /\ works' = works /\ UNCHANGED <<reader, read, dropped>>
        /\ entry' = [entry EXCEPT ![c] = [work |-> entry[c].work, delivered |-> TRUE]]
        /\ _deliver_subagent_completion(c, entry[c].work, entry[c].delivered)
    BY <1>2, Zenon DEF _mark_subagent_terminal_and_wake
  <2>2. QED  BY <2>1, ReportDelivers
<1>3. QED  BY <1>1, <1>2

\* A report that looks for its entry keeps it, though it may replace one that came meanwhile.
LEMMA EnsureResults ==
    ASSUME WakeTypeOK, ResultsInv, NEW r \in Reports, _ensure_subagent_work_entry(r)
    PROVE  ResultsInv'
<1>0. Fresh /\ Apart /\ Open  BY DEF ResultsInv
<1>1. PICK c \in Children : Ensures(c)  BY EnsureIs
<1>2. UNCHANGED <<reader, read, dropped>>  BY EnsureIs
<1>3. CASE register_subagent_work(c, TRUE) /\ Delivers(c, works + 1)
  <2>1. inbox' = Append(inbox, works + 1)  BY <1>3, Zenon DEF Delivers
  <2>2. works + 1 \in Works  BY <1>3, RegisterTyped
  <2>3. works + 1 \notin Out
    <3>1. works \in Nat  BY TypeParts DEF RegistryOK
    <3>2. QED  BY <1>0, <3>1 DEF Fresh
  <2>4. Apart' /\ Out' = Out \cup {works + 1}  BY <1>0, <1>2, <2>1, <2>2, <2>3, InboxGrows
  <2>5. QED  BY <1>0, <1>3, <2>4, EntryComes DEF ResultsInv
<1>4. CASE /\ works' = works
           /\ entry' = IF entry[c].work = 0 THEN entry
                       ELSE [entry EXCEPT ![c] = [work |-> entry[c].work, delivered |-> TRUE]]
           /\ _deliver_subagent_completion(c, entry[c].work, entry[c].work = 0 \/ entry[c].delivered)
  <2>1. CASE entry[c].work = 0
    <3>1. inbox' = inbox /\ entry' = entry  BY <1>4, <2>1 DEF _deliver_subagent_completion
    <3>2. UNCHANGED results  BY <1>2, <3>1 DEF results
    <3>3. Out' = Out /\ Apart'  BY <1>0, <3>2, ResultsStay
    <3>4. QED  BY <1>0, <1>4, <3>1, <3>3, EntriesGo DEF ResultsInv
  <2>2. CASE entry[c].work # 0
    <3>1. _deliver_subagent_completion(c, entry[c].work, entry[c].delivered)
      BY <1>4, <2>2 DEF _deliver_subagent_completion
    <3>2. QED  BY <1>2, <1>4, <2>2, <3>1, ReportDelivers
  <2>3. QED  BY <2>1, <2>2
<1>6. CASE register_subagent_work(c, FALSE) /\ inbox' = inbox
  <2>1. UNCHANGED results  BY <1>2, <1>6 DEF results
  <2>2. Out' = Out /\ Apart'  BY <1>0, <2>1, ResultsStay
  <2>3. QED  BY <1>0, <1>6, <2>2, EntryComes DEF ResultsInv
<1>7. CASE UNCHANGED <<entry, works, inbox>>
  <2>1. UNCHANGED results  BY <1>2, <1>7 DEF results
  <2>2. QED  BY <1>7, <2>1, EntriesLeave
<1>5. QED  BY <1>1, <1>3, <1>4, <1>6, <1>7, Zenon DEF Ensures

\* Reads of the inbox keep it.
LEMMA ReadingResults ==
    ASSUME WakeTypeOK, ResultsInv, NEW d \in Readers, NEW ok \in BOOLEAN, ReadBegins(d) \/ Evaluated(d, ok)
    PROVE  ResultsInv'
<1>0. Fresh /\ Apart /\ Open  BY DEF ResultsInv
<1>1. CASE ReadBegins(d)
  <2>1. /\ reader[d] = Idle /\ _drain_inbox(d, <<>>)
        /\ UNCHANGED <<entry, works, read, dropped>>
    BY <1>1, Zenon DEF ReadBegins, registry
  <2>2. Holds(d) = {}  BY <2>1, SeqEmpty DEF Holds, Idle
  <2>3. Apart' /\ Out' = Out  BY <1>0, <2>1, <2>2, SeqEmpty, DrainApart
  <2>4. QED  BY <1>0, <2>1, <2>3, EntriesGo DEF ResultsInv
<1>2. CASE Evaluated(d, ok)
  <2>1. PICK w \in Works : w = reader[d].hand  BY <1>2, EvaluatedIs
  <2>2. PICK b \in Seq(Works) : b = reader[d].back  BY <1>2, EvaluatedIs
  <2>3. UNCHANGED <<works, dropped>>  BY <1>2, EvaluatedIs
  <2>4. Holds(d) = ToSet(b) \cup {w} /\ Once(b) /\ w \notin ToSet(b)
    <3>1. w # 0  BY WakeBounds DEF Works
    <3>2. QED  BY <1>0, <2>1, <2>2, <3>1 DEF Holds, Apart
  <2>5. CASE /\ read' = read \cup {w} /\ _drain_inbox(d, b)
             /\ entry' = [c \in Children |-> IF entry[c].work = w THEN NoWork ELSE entry[c]]
    <3>1. Apart' /\ Out' = Out  BY <1>0, <2>3, <2>4, <2>5, DrainApart
    <3>2. \A a \in Children : entry'[a] = entry[a] \/ entry'[a] = NoWork  BY <2>5
    <3>3. QED  BY <1>0, <2>3, <3>1, <3>2, EntriesGo DEF ResultsInv
  <2>6. CASE UNCHANGED <<read, entry>> /\ _drain_inbox(d, Append(b, w))
    <3>1. Append(b, w) \in Seq(Works) /\ ToSet(Append(b, w)) = ToSet(b) \cup {w} /\ Once(Append(b, w))
      BY <2>4, SeqAppend
    <3>2. Apart' /\ Out' = Out  BY <1>0, <2>3, <2>4, <2>6, <3>1, DrainApart
    <3>3. QED  BY <1>0, <2>3, <2>6, <3>2, EntriesGo DEF ResultsInv
  <2>7. QED  BY <1>2, <2>1, <2>2, <2>5, <2>6, EvaluatedIs, Zenon
<1>3. QED  BY <1>1, <1>2

\* The parent's steps keep it.
LEMMA ParentResults ==
    ASSUME WakeTypeOK, ResultsInv, UNCHANGED registry,
           \/ UNCHANGED results
           \/ /\ dropped' = dropped \cup UNION {Holds(d) : d \in Readers}
              /\ reader' = [d \in Readers |-> Idle] /\ UNCHANGED <<inbox, read>>
    PROVE  ResultsInv'
<1>0. Fresh /\ Apart /\ Open  BY DEF ResultsInv
<1>1. works' = works /\ entry' = entry  BY DEF registry
<1>2. Apart' /\ Out' = Out  BY <1>0, ResultsStay, BreaksApart
<1>3. QED  BY <1>0, <1>1, <1>2, EntriesGo DEF ResultsInv

\* It holds throughout.
THEOREM WakeResults == WakeSpec => []ResultsInv
<1>1. WakeInit => ResultsInv
  <2> SUFFICES ASSUME WakeInit PROVE ResultsInv  OBVIOUS
  <2>1. /\ inbox = <<>> /\ reader = [d \in Readers |-> Idle] /\ read = {} /\ dropped = {}
        /\ works = 0 /\ entry = [c \in Children |-> NoWork]
    BY Zenon DEF WakeInit
  <2>2. \A d \in Readers : Holds(d) = {} /\ Once(reader[d].back) /\ reader[d].hand \notin ToSet(reader[d].back)
    BY <2>1, SeqEmpty DEF Holds, Idle
  <2>3. Out = {}  BY <2>1, <2>2, SeqEmpty DEF Out
  <2>4. \A c \in Children : entry[c].work = 0  BY <2>1 DEF NoWork
  <2>5. Fresh /\ Open  BY <2>1, <2>3, <2>4 DEF Fresh, Open
  <2>6. Apart  BY <2>1, <2>2, SeqEmpty DEF Apart
  <2>7. QED  BY <2>5, <2>6 DEF ResultsInv
<1>2. WakeTypeOK /\ ResultsInv /\ [WakeNext]_wvars => ResultsInv'
  <2> SUFFICES ASSUME WakeTypeOK, ResultsInv, [WakeNext]_wvars PROVE ResultsInv'  OBVIOUS
  <2>1. CASE UNCHANGED wvars  BY <2>1, ParentResults, Zenon DEF wvars
  <2>2. ASSUME NEW c \in Children, Send(c) \/ SendReturns(c) \/ Create(c) PROVE ResultsInv'
    BY <2>2, RegistryActs
  <2>3. ASSUME NEW c \in Children, NEW r \in Reports,
               _mark_subagent_terminal_and_wake(r, c) \/ MissingParentInbox(r, c) \/ ReportUntracked(r, c)
        PROVE  ResultsInv'
    BY <2>3, ReportActs
  <2>7. CASE ParentReturns
    <3>1. UNCHANGED results /\ UNCHANGED <<entry, works>>  BY <2>7, Zenon DEF ParentReturns
    <3>2. Out' = Out /\ Apart' /\ Fresh /\ Open  BY <3>1, ResultsStay DEF ResultsInv
    <3>3. QED  BY <3>1, <3>2, EntriesGo DEF ResultsInv
  <2>4. CASE \/ UserMessage \/ _run_turn_bg \/ TurnEnds \/ _check_and_start_next_turn
             \/ \E i \in 1..Len(buf) : Inject(i)
             \/ \E a \in 1..MaxAttempts :
                  PostArrives(a) \/ PostRetries(a) \/ PostSwallowed(a) \/ _post_subagent_wake_notice(a)
    <3>1. UNCHANGED registry /\ UNCHANGED results
      BY <2>4, Zenon DEF UserMessage, _run_turn_bg, TurnEnds, _check_and_start_next_turn, Inject,
         PostArrives, PostRetries, PostSwallowed, _post_subagent_wake_notice
    <3>2. QED  BY <3>1, ParentResults
  <2>5. CASE TurnBreaks
    <3>1. UNCHANGED <<registry, inbox, read>>  BY <2>5, Zenon DEF TurnBreaks
    <3>2. \/ UNCHANGED <<reader, dropped>>
          \/ /\ dropped' = dropped \cup UNION {Holds(d) : d \in Readers}
             /\ reader' = [d \in Readers |-> Idle]
      BY <2>5, Zenon DEF TurnBreaks
    <3>3. QED  BY <3>1, <3>2, ParentResults DEF results
  <2>6. QED
    BY <2>1, <2>2, <2>3, <2>4, <2>5, <2>7, EnsureResults, ReadingResults, Zenon DEF WakeNext
<1>3. QED  BY <1>1, <1>2, WakeTypes, PTL DEF WakeSpec

-----------------------------------------------------------------------------
(***************************************************************************)
(* How often a child's end is delivered.                                   *)
(***************************************************************************)
\* A child has been started as often as its end was delivered, and once more while the end of
\* its last start is still to be delivered.
OwedBy(c) ==
    /\ c \notin again => owed[c] >= 0 /\ (c \in ran /\ ~TwiceBy(c) => owed[c] >= 1)
    /\ entry[c].work # 0 => c \in ran
    /\ entry[c].delivered => entry[c].work # 0

\* And only a child that was started is looked for.
Owing ==
    /\ \A c \in Children : OwedBy(c)
    /\ \A r \in Reports : rep[r][1] = "lookup" => rep[r][2] \in ran

\* A child that a step leaves alone.
LEMMA OwedStays ==
    ASSUME NEW c \in Children, OwedBy(c), entry'[c] = entry[c], owed'[c] = owed[c],
           c \in ran' <=> c \in ran, c \in drained' <=> c \in drained, c \in again' <=> c \in again
    PROVE  OwedBy(c)'
BY DEF OwedBy, TwiceBy

\* Reports that a step leaves alone, or ends.
LEMMA LookupStays ==
    ASSUME Owing, WakeTypeOK, NEW x, ran \subseteq ran', NEW r \in Reports,
           rep' = rep \/ rep' = [rep EXCEPT ![r] = x], x[1] = "lookup" => x[2] \in ran'
    PROVE  \A q \in Reports : rep'[q][1] = "lookup" => rep'[q][2] \in ran'
<1>1. rep \in [Reports -> RepStates]  BY TypeParts DEF RegistryOK
<1>2. QED  BY <1>1 DEF Owing

\* What a registration does to the entries.
LEMMA RegisterIs ==
    ASSUME WakeTypeOK, NEW c \in Children, NEW b \in BOOLEAN, register_subagent_work(c, b)
    PROVE  /\ entry'[c] = [work |-> works + 1, delivered |-> b] /\ works + 1 # 0 /\ c \notin drained'
           /\ \A a \in Children \ {c} : entry'[a] = entry[a] /\ (a \in drained' <=> a \in drained)
<1>1. entry \in [Children -> Entries] /\ works \in 0..MaxWorks  BY TypeParts DEF RegistryOK
<1>2. QED  BY <1>1, WakeBounds DEF register_subagent_work

\* A child that is started.
LEMMA SendOwes ==
    ASSUME WakeTypeOK, Owing, NEW c \in Children, Send(c) \/ Create(c)
    PROVE  Owing'
<1>0. owed \in [Children -> Int] /\ \A a \in Children : OwedBy(a)  BY TypeParts DEF CountsOK, Owing
<1>1. /\ owed' = [owed EXCEPT ![c] = owed[c] + 1] /\ ran' = ran \cup {c} /\ again' = again /\ rep' = rep
  BY DEF Send, Create, Started
<1>2. /\ \A a \in Children \ {c} : entry'[a] = entry[a] /\ (a \in drained' <=> a \in drained)
      /\ entry'[c] = entry[c] \/ (entry'[c].work # 0 /\ ~entry'[c].delivered)
  <2>1. CASE Send(c)
    <3>1. register_subagent_work(c, FALSE)  BY <2>1 DEF Send
    <3>2. entry'[c] = [work |-> works + 1, delivered |-> FALSE] /\ works + 1 # 0  BY <3>1, RegisterIs
    <3>3. \A a \in Children \ {c} : entry'[a] = entry[a] /\ (a \in drained' <=> a \in drained)
      BY <3>1, RegisterIs
    <3>4. QED  BY <3>2, <3>3
  <2>2. CASE Create(c)  BY <2>2 DEF Create
  <2>3. QED  BY <2>1, <2>2
<1>3. ASSUME NEW a \in Children PROVE OwedBy(a)'
  <2>1. CASE a # c  BY <1>0, <1>1, <1>2, <2>1, OwedStays
  <2>2. CASE a = c
    <3>1. owed'[c] = owed[c] + 1 /\ owed[c] \in Int /\ c \in ran'  BY <1>0, <1>1
    <3>2. c \notin again' => owed'[c] >= 1  BY <1>0, <1>1, <3>1 DEF OwedBy
    <3>3. entry'[c].delivered => entry'[c].work # 0  BY <1>0, <1>2 DEF OwedBy
    <3>4. QED  BY <2>2, <3>1, <3>2, <3>3 DEF OwedBy
  <2>3. QED  BY <2>1, <2>2
<1>4. \A r \in Reports : rep'[r][1] = "lookup" => rep'[r][2] \in ran'  BY <1>1 DEF Owing
<1>5. QED  BY <1>3, <1>4 DEF Owing

\* A message that comes back: it takes the entry of an end delivered before only by name.
LEMMA ReturnOwes ==
    ASSUME WakeTypeOK, Owing, NEW c \in Children, SendReturns(c)
    PROVE  Owing'
<1>0. entry \in [Children -> Entries] /\ \A a \in Children : OwedBy(a)  BY TypeParts DEF RegistryOK, Owing
<1>1. UNCHANGED <<drained, ran, rep, owed>>  BY DEF SendReturns
<1>2. CASE UNCHANGED <<entry, again>>
  <2>1. \A a \in Children : OwedBy(a)'  BY <1>0, <1>1, <1>2, OwedStays
  <2>2. QED  BY <1>1, <2>1 DEF Owing
<1>3. CASE /\ entry' = [entry EXCEPT ![c] = NoWork]
           /\ again' = IF entry[c].delivered THEN again \cup {c} ELSE again
  <2>1. ASSUME NEW a \in Children PROVE OwedBy(a)'
    <3>1. CASE a # c  BY <1>0, <1>1, <1>3, <3>1, OwedStays
    <3>2. CASE a = c
      <4>1. entry'[c] = NoWork /\ entry'[c].work = 0 /\ ~entry'[c].delivered  BY <1>0, <1>3 DEF NoWork
      <4>2. CASE entry[c].delivered
        <5>1. c \in again'  BY <1>3, <4>2
        <5>2. QED  BY <3>2, <4>1, <5>1 DEF OwedBy
      <4>3. CASE ~entry[c].delivered /\ entry[c].work # 0
        <5>1. ~TwiceBy(c) /\ c \in ran /\ again' = again  BY <1>0, <1>3, <4>3 DEF TwiceBy, OwedBy
        <5>2. c \notin again' => owed'[c] >= 0 /\ owed'[c] >= 1  BY <1>0, <1>1, <5>1 DEF OwedBy
        <5>3. QED  BY <3>2, <4>1, <5>2 DEF OwedBy
      <4>4. CASE ~entry[c].delivered /\ entry[c].work = 0
        <5>1. again' = again /\ (TwiceBy(c)' <=> TwiceBy(c))  BY <1>1, <1>3, <4>1, <4>4 DEF TwiceBy
        <5>2. QED  BY <1>0, <1>1, <3>2, <4>1, <5>1 DEF OwedBy
      <4>5. QED  BY <4>2, <4>3, <4>4
    <3>3. QED  BY <3>1, <3>2
  <2>2. QED  BY <1>1, <2>1 DEF Owing
<1>4. QED  BY <1>2, <1>3, Zenon DEF SendReturns

\* A report that meets an entry: it takes an end that is owed, or changes nothing.
LEMMA FoundOwes ==
    ASSUME WakeTypeOK, Owing, NEW c \in Children, entry[c].work # 0,
           entry' = [entry EXCEPT ![c] = [work |-> entry[c].work, delivered |-> TRUE]],
           _deliver_subagent_completion(c, entry[c].work, entry[c].delivered),
           UNCHANGED <<ran, drained, again>>
    PROVE  \A a \in Children : OwedBy(a)'
<1>0. /\ entry \in [Children -> Entries] /\ owed \in [Children -> Int]
      /\ \A a \in Children : OwedBy(a)
  BY TypeParts DEF RegistryOK, CountsOK, Owing
<1>1. /\ entry'[c].work = entry[c].work /\ entry'[c].delivered
      /\ \A a \in Children \ {c} : entry'[a] = entry[a]
  BY <1>0
<1>2. owed' = owed \/ owed' = [owed EXCEPT ![c] = owed[c] - 1]
  BY DEF _deliver_subagent_completion, Delivers
<1>3. ASSUME NEW a \in Children \ {c} PROVE OwedBy(a)'  BY <1>0, <1>1, <1>2, OwedStays
<1>4. TwiceBy(c)'  BY <1>1 DEF TwiceBy
<1>5. c \notin again => owed'[c] >= 0
  <2>1. CASE entry[c].delivered
    <3>1. owed' = owed  BY <2>1 DEF _deliver_subagent_completion
    <3>2. QED  BY <1>0, <3>1 DEF OwedBy
  <2>2. CASE ~entry[c].delivered
    <3>1. ~TwiceBy(c) /\ c \in ran  BY <1>0, <2>2 DEF TwiceBy, OwedBy
    <3>2. c \notin again => owed[c] >= 1  BY <1>0, <3>1 DEF OwedBy
    <3>3. QED  BY <1>0, <1>2, <3>2
  <2>3. QED  BY <2>1, <2>2
<1>6. OwedBy(c)'  BY <1>0, <1>1, <1>4, <1>5 DEF OwedBy
<1>7. QED  BY <1>3, <1>6

\* A report keeps it.
LEMMA ReportOwes ==
    ASSUME WakeTypeOK, Owing, NEW c \in Children, NEW r \in Reports,
           _mark_subagent_terminal_and_wake(r, c) \/ MissingParentInbox(r, c) \/ ReportUntracked(r, c)
    PROVE  Owing'
<1>0. \A a \in Children : OwedBy(a)  BY DEF Owing
<1>1. CASE _mark_subagent_terminal_and_wake(r, c)
  <2>1. /\ entry[c].work # 0 /\ UNCHANGED <<ran, drained, again>>
        /\ entry' = [entry EXCEPT ![c] = [work |-> entry[c].work, delivered |-> TRUE]]
        /\ _deliver_subagent_completion(c, entry[c].work, entry[c].delivered)
        /\ rep' = [rep EXCEPT ![r] = <<"over">>]
    BY <1>1, Zenon DEF _mark_subagent_terminal_and_wake
  <2>2. \A a \in Children : OwedBy(a)'  BY <2>1, FoundOwes
  <2>3. \A q \in Reports : rep'[q][1] = "lookup" => rep'[q][2] \in ran'
    <3>1. <<"over">>[1] # "lookup"  OBVIOUS
    <3>2. QED  BY <2>1, <3>1, LookupStays
  <2>4. QED  BY <2>2, <2>3 DEF Owing
<1>2. CASE MissingParentInbox(r, c) \/ ReportUntracked(r, c)
  <2>1. /\ UNCHANGED <<entry, owed, ran, drained, again>> /\ c \in ran
        /\ \/ rep' = rep \/ rep' = [rep EXCEPT ![r] = <<"over">>]
           \/ rep' = [rep EXCEPT ![r] = <<"lookup", c>>]
    BY <1>2, Zenon DEF MissingParentInbox, ReportUntracked, counts
  <2>2. \A a \in Children : OwedBy(a)'  BY <1>0, <2>1, OwedStays
  <2>3. <<"over">>[1] # "lookup" /\ <<"lookup", c>>[2] = c  OBVIOUS
  <2>4. \A q \in Reports : rep'[q][1] = "lookup" => rep'[q][2] \in ran'
    <3>1. CASE rep' = rep  BY <2>1, <3>1 DEF Owing
    <3>2. CASE rep' = [rep EXCEPT ![r] = <<"over">>]  BY <2>1, <2>3, <3>2, LookupStays
    <3>3. CASE rep' = [rep EXCEPT ![r] = <<"lookup", c>>]  BY <2>1, <2>3, <3>3, LookupStays
    <3>4. QED  BY <2>1, <3>1, <3>2, <3>3
  <2>5. QED  BY <2>2, <2>4 DEF Owing
<1>3. QED  BY <1>1, <1>2

\* A report that looks for its entry keeps it: an end that was delivered meanwhile is named.
LEMMA EnsureOwes ==
    ASSUME WakeTypeOK, Owing, NEW r \in Reports, _ensure_subagent_work_entry(r)
    PROVE  Owing'
<1>0. /\ entry \in [Children -> Entries] /\ owed \in [Children -> Int]
      /\ \A a \in Children : OwedBy(a)
  BY TypeParts DEF RegistryOK, CountsOK, Owing
<1>1. PICK c \in Children : c = rep[r][2] /\ Ensures(c)  BY EnsureIs
<1>2. c \in ran /\ ran' = ran  BY <1>1, EnsureIs DEF Owing
<1>3. \A q \in Reports : rep'[q][1] = "lookup" => rep'[q][2] \in ran'
  <2>1. <<"over">>[1] # "lookup" /\ <<"new">>[1] # "lookup"  OBVIOUS
  <2>2. CASE rep' = [rep EXCEPT ![r] = <<"over">>]  BY <1>2, <2>1, <2>2, LookupStays
  <2>3. CASE rep' = [rep EXCEPT ![r] = <<"new">>]  BY <1>2, <2>1, <2>3, LookupStays
  <2>4. QED  BY <2>2, <2>3, EnsureIs
<1>4. ASSUME NEW b \in BOOLEAN, register_subagent_work(c, b),
             again' = IF TwiceBy(c) THEN again \cup {c} ELSE again,
             owed' = IF b THEN [owed EXCEPT ![c] = owed[c] - 1] ELSE owed
      PROVE  \A a \in Children : OwedBy(a)'
  <2>1. /\ entry'[c] = [work |-> works + 1, delivered |-> b] /\ works + 1 # 0
        /\ \A a \in Children \ {c} : entry'[a] = entry[a] /\ (a \in drained' <=> a \in drained)
    BY <1>4, RegisterIs
  <2>2. ASSUME NEW a \in Children \ {c} PROVE OwedBy(a)'  BY <1>0, <1>2, <1>4, <2>1, OwedStays
  <2>3. c \notin again' => owed[c] >= 1  BY <1>0, <1>2, <1>4 DEF OwedBy
  <2>4. owed'[c] = IF b THEN owed[c] - 1 ELSE owed[c]  BY <1>0, <1>4
  <2>5. b => TwiceBy(c)'  BY <2>1 DEF TwiceBy
  <2>6. c \notin again' => owed'[c] >= 0 /\ (c \in ran' /\ ~TwiceBy(c)' => owed'[c] >= 1)
    BY <1>0, <2>3, <2>4, <2>5
  <2>7. OwedBy(c)'  BY <1>2, <2>1, <2>6 DEF OwedBy
  <2>8. QED  BY <2>2, <2>7
<1>5. CASE /\ register_subagent_work(c, TRUE) /\ Delivers(c, works + 1)
           /\ again' = IF TwiceBy(c) THEN again \cup {c} ELSE again
  <2>1. owed' = [owed EXCEPT ![c] = owed[c] - 1]  BY <1>5 DEF Delivers
  <2>2. QED  BY <1>3, <1>4, <1>5, <2>1 DEF Owing
<1>6. CASE /\ register_subagent_work(c, FALSE) /\ owed' = owed
           /\ again' = IF TwiceBy(c) THEN again \cup {c} ELSE again
  BY <1>3, <1>4, <1>6 DEF Owing
<1>7. CASE /\ UNCHANGED <<drained, again>>
           /\ entry' = IF entry[c].work = 0 THEN entry
                       ELSE [entry EXCEPT ![c] = [work |-> entry[c].work, delivered |-> TRUE]]
           /\ _deliver_subagent_completion(c, entry[c].work, entry[c].work = 0 \/ entry[c].delivered)
  <2>1. CASE entry[c].work = 0
    <3>1. entry' = entry /\ owed' = owed  BY <1>7, <2>1 DEF _deliver_subagent_completion
    <3>2. \A a \in Children : OwedBy(a)'  BY <1>0, <1>2, <1>7, <3>1, OwedStays
    <3>3. QED  BY <1>3, <3>2 DEF Owing
  <2>2. CASE entry[c].work # 0
    <3>1. _deliver_subagent_completion(c, entry[c].work, entry[c].delivered)
      BY <1>7, <2>2 DEF _deliver_subagent_completion
    <3>2. \A a \in Children : OwedBy(a)'  BY <1>2, <1>7, <2>2, <3>1, FoundOwes
    <3>3. QED  BY <1>3, <3>2 DEF Owing
  <2>3. QED  BY <2>1, <2>2
<1>8. CASE UNCHANGED <<entry, drained, again, owed>>
  <2>1. \A a \in Children : OwedBy(a)'  BY <1>0, <1>2, <1>8, OwedStays
  <2>2. QED  BY <1>3, <2>1 DEF Owing
<1>9. QED  BY <1>1, <1>5, <1>6, <1>7, <1>8, Zenon DEF Ensures

\* A result that was judged takes its entry, and the delivery is remembered.
LEMMA ReadingOwes ==
    ASSUME WakeTypeOK, ResultsInv, Owing, NEW d \in Readers, NEW ok \in BOOLEAN, Evaluated(d, ok)
    PROVE  Owing'
<1>0. /\ \A a \in Children : OwedBy(a)  BY DEF Owing
<1>1. PICK w \in Works : w = reader[d].hand  BY EvaluatedIs
<1>2. UNCHANGED <<ran, rep, owed, again>>  BY EvaluatedIs DEF counts
<1>3. w \in Out /\ w # 0
  <2>1. w # 0  BY WakeBounds DEF Works
  <2>2. w \in Holds(d)  BY <1>1, <2>1 DEF Holds
  <2>3. QED  BY <2>1, <2>2 DEF Out
<1>4. CASE UNCHANGED <<entry, drained>>
  <2>1. \A a \in Children : OwedBy(a)'  BY <1>0, <1>2, <1>4, OwedStays
  <2>2. QED  BY <1>2, <2>1 DEF Owing
<1>5. CASE /\ entry' = [c \in Children |-> IF entry[c].work = w THEN NoWork ELSE entry[c]]
           /\ drained' = drained \cup {c \in Children : entry[c].work = w /\ entry[c].delivered}
  <2>1. ASSUME NEW a \in Children PROVE OwedBy(a)'
    <3>1. CASE entry[a].work # w  BY <1>0, <1>2, <1>5, <3>1, OwedStays
    <3>2. CASE entry[a].work = w
      <4>1. entry[a].delivered  BY <1>3, <3>2 DEF ResultsInv, Open
      <4>2. entry'[a] = NoWork /\ entry'[a].work = 0 /\ ~entry'[a].delivered  BY <1>5, <3>2 DEF NoWork
      <4>3. a \in drained'  BY <1>5, <3>2, <4>1
      <4>4. TwiceBy(a)'  BY <4>2, <4>3 DEF TwiceBy
      <4>5. QED  BY <1>0, <1>2, <4>2, <4>4 DEF OwedBy
    <3>3. QED  BY <3>1, <3>2
  <2>2. QED  BY <1>2, <2>1 DEF Owing
<1>6. QED  BY <1>1, <1>4, <1>5, EvaluatedIs, Zenon

\* What is owed, throughout.
THEOREM WakeOwes == WakeSpec => []Owing
<1>1. WakeInit => Owing
  <2> SUFFICES ASSUME WakeInit PROVE Owing  OBVIOUS
  <2>1. /\ entry = [c \in Children |-> NoWork] /\ rep = [r \in Reports |-> <<"new">>]
        /\ owed = [c \in Children |-> IF c \in ran THEN 1 ELSE 0]
    BY DEF WakeInit
  <2>2. \A c \in Children : OwedBy(c)  BY <2>1 DEF OwedBy, NoWork
  <2>3. <<"new">>[1] # "lookup"  OBVIOUS
  <2>4. QED  BY <2>1, <2>2, <2>3 DEF Owing
<1>2. WakeTypeOK /\ ResultsInv /\ Owing /\ [WakeNext]_wvars => Owing'
  <2> SUFFICES ASSUME WakeTypeOK, ResultsInv, Owing, [WakeNext]_wvars PROVE Owing'  OBVIOUS
  <2>k. ASSUME UNCHANGED <<entry, drained, ran, rep>>, UNCHANGED counts PROVE Owing'
    <3>1. UNCHANGED <<owed, again>>  BY <2>k DEF counts
    <3>2. \A a \in Children : OwedBy(a)'  BY <2>k, <3>1, OwedStays DEF Owing
    <3>3. QED  BY <2>k, <3>2 DEF Owing
  <2>1. CASE UNCHANGED wvars  BY <2>1, <2>k, Zenon DEF wvars, registry
  <2>2. CASE \/ UserMessage \/ ParentReturns \/ _run_turn_bg \/ TurnEnds \/ TurnBreaks
             \/ _check_and_start_next_turn
             \/ \E i \in 1..Len(buf) : Inject(i)
             \/ \E a \in 1..MaxAttempts :
                  PostArrives(a) \/ PostRetries(a) \/ PostSwallowed(a) \/ _post_subagent_wake_notice(a)
             \/ \E d \in Readers : ReadBegins(d)
    <3>1. UNCHANGED <<entry, drained, ran, rep>> /\ UNCHANGED counts
      BY <2>2, Zenon DEF UserMessage, ParentReturns, _run_turn_bg, TurnEnds, TurnBreaks,
         _check_and_start_next_turn, Inject, PostArrives, PostRetries, PostSwallowed,
         _post_subagent_wake_notice, ReadBegins, registry
    <3>2. QED  BY <2>k, <3>1
  <2>3. QED
    BY <2>1, <2>2, SendOwes, ReturnOwes, ReportOwes, EnsureOwes, ReadingOwes, Zenon DEF WakeNext
<1>3. QED  BY <1>1, <1>2, WakeTypes, WakeResults, PTL DEF WakeSpec

\* Two sequences without repetition that share nothing.
LEMMA OnceJoined ==
    ASSUME NEW S, NEW s \in Seq(S), NEW t \in Seq(S), Once(s), Once(t), ToSet(s) \cap ToSet(t) = {}
    PROVE  Once(s \o t)
<1> DEFINE u == s \o t
<1>1. u \in Seq(S) /\ Len(u) = Len(s) + Len(t)  OBVIOUS
<1>2. \A i \in 1..Len(s) : u[i] = s[i]  OBVIOUS
<1>3. \A i \in 1..Len(u) : i \notin 1..Len(s) => i - Len(s) \in 1..Len(t) /\ u[i] = t[i - Len(s)]
  <2>1. ASSUME NEW i \in 1..Len(u), i \notin 1..Len(s)
        PROVE  i - Len(s) \in 1..Len(t) /\ u[i] = t[i - Len(s)]
    <3>1. i - Len(s) \in 1..Len(t) /\ i > Len(s) /\ i \in 1..(Len(s) + Len(t))  BY <1>1, <2>1
    <3>2. u[i] = t[i - Len(s)]  BY <3>1
    <3>3. QED  BY <3>1, <3>2
  <2>2. QED  BY <2>1
<1> HIDE DEF u
<1>4. (\A i \in 1..Len(s) : s[i] \in ToSet(s)) /\ (\A i \in 1..Len(t) : t[i] \in ToSet(t))  BY DEF ToSet
<1>5. ASSUME NEW i \in 1..Len(u), NEW j \in 1..Len(u), u[i] = u[j] PROVE i = j
  <2>1. CASE i \in 1..Len(s) /\ j \in 1..Len(s)  BY <1>2, <1>5, <2>1 DEF Once
  <2>2. CASE i \in 1..Len(s) /\ j \notin 1..Len(s)  BY <1>2, <1>3, <1>4, <1>5, <2>2
  <2>3. CASE i \notin 1..Len(s) /\ j \in 1..Len(s)  BY <1>2, <1>3, <1>4, <1>5, <2>3
  <2>4. CASE i \notin 1..Len(s) /\ j \notin 1..Len(s)
    <3>1. /\ i - Len(s) \in 1..Len(t) /\ j - Len(s) \in 1..Len(t)
          /\ t[i - Len(s)] = t[j - Len(s)]
      BY <1>3, <1>5, <2>4
    <3>2. i - Len(s) = j - Len(s)  BY <3>1 DEF Once
    <3>3. QED  BY <1>1, <3>2
  <2>5. QED  BY <2>1, <2>2, <2>3, <2>4
<1>6. QED  BY <1>5 DEF Once, u

\* DeliveredOnce: a child's end is delivered at most once for each time it was started, however
\* often it is reported, but for the two cases `again` names (a lookup that raced the delivery,
\* a message that failed after it), and a result is in one place whatever reads fail, are put
\* back or are cancelled.
THEOREM ResultsComeOnce == WakeSpec => []DeliveredOnce
<1>1. WakeTypeOK /\ ResultsInv /\ Owing => DeliveredOnce
  <2> SUFFICES ASSUME WakeTypeOK, ResultsInv, Owing PROVE DeliveredOnce  OBVIOUS
  <2>1. Apart /\ inbox \in Seq(Works)  BY TypeParts DEF ResultsInv, ResultsOK
  <2>2. ASSUME NEW d \in Readers PROVE Once(Places(d) \o inbox)
    <3>1. PICK h \in 0..MaxWorks, b \in Seq(Works) : h = reader[d].hand /\ b = reader[d].back  BY HoldsTyped
    <3>2. /\ Once(b) /\ h \notin ToSet(b) /\ Once(inbox)
          /\ (({h} \ {0}) \cup ToSet(b)) \cap ToSet(inbox) = {}
      BY <2>1, <3>1 DEF Apart, Holds
    <3>3. CASE h = 0
      <4>1. Places(d) = b  BY <3>1, <3>3 DEF Places
      <4>2. QED  BY <2>1, <3>2, <4>1, OnceJoined
    <3>4. CASE h # 0
      <4>1. Places(d) = Append(b, h) /\ h \in Works  BY <3>1, <3>4, WakeBounds DEF Places, Works
      <4>2. Append(b, h) \in Seq(Works) /\ ToSet(Append(b, h)) = ToSet(b) \cup {h} /\ Once(Append(b, h))
        BY <3>2, <4>1, SeqAppend
      <4>3. ToSet(Append(b, h)) \cap ToSet(inbox) = {}  BY <3>2, <3>4, <4>2
      <4>4. QED  BY <2>1, <3>2, <4>1, <4>2, <4>3, OnceJoined
    <3>5. QED  BY <3>3, <3>4
  <2>4. \A c \in Children \ again : owed[c] >= 0  BY DEF Owing, OwedBy
  <2>3. QED  BY <2>1, <2>2, <2>4 DEF Apart, DeliveredOnce
<1>2. QED  BY <1>1, WakeTypes, WakeResults, WakeOwes, PTL

\* OpenWorkStays: reading a result never drops the entry of work still open
\* (_cleanup_drained_subagent_work): only a message to the same child that fails takes it back.
THEOREM OpenWorkIsKept == WakeSpec => OpenWorkStays
<1>1. ASSUME WakeTypeOK, ResultsInv, [WakeNext]_wvars, NEW c \in Children,
             entry[c].work # 0, ~entry[c].delivered, entry'[c].work = 0
      PROVE  sending'[c] < sending[c]
  <2>0. entry \in [Children -> Entries] /\ works \in 0..MaxWorks  BY <1>1, TypeParts DEF RegistryOK
  <2>k. ASSUME entry' = entry PROVE FALSE  BY <1>1, <2>k
  <2>1. CASE UNCHANGED wvars  BY <2>1, <2>k DEF wvars, registry
  <2>r. ASSUME NEW b \in Children, NEW x \in BOOLEAN, register_subagent_work(b, x) PROVE FALSE
    <3>1. entry' = [entry EXCEPT ![b] = [work |-> works + 1, delivered |-> x]]  BY <2>r DEF register_subagent_work
    <3>2. CASE b = c  BY <1>1, <2>0, <3>1, <3>2
    <3>3. CASE b # c  BY <1>1, <2>0, <3>1, <3>3
    <3>4. QED  BY <3>2, <3>3
  <2>d. ASSUME NEW b \in Children,
               entry' = [entry EXCEPT ![b] = [work |-> entry[b].work, delivered |-> TRUE]]
        PROVE  FALSE
    BY <1>1, <2>0, <2>d
  <2>2. ASSUME NEW b \in Children, Send(b) PROVE FALSE  BY <2>2, <2>r, Zenon DEF Send
  <2>3. ASSUME NEW b \in Children, SendReturns(b) PROVE sending'[c] < sending[c]
    <3>1. sending' = [sending EXCEPT ![b] = sending[b] - 1] /\ sending \in [Children -> Nat]
      BY <1>1, <2>3, TypeParts DEF SendReturns, RegistryOK
    <3>2. entry' = [entry EXCEPT ![b] = NoWork]  BY <2>3, <2>k, Zenon DEF SendReturns
    <3>3. b = c  BY <1>1, <2>0, <3>2
    <3>4. QED  BY <3>1, <3>3
  <2>4. ASSUME NEW b \in Children, NEW r \in Reports, _mark_subagent_terminal_and_wake(r, b) PROVE FALSE
    BY <2>4, <2>d, Zenon DEF _mark_subagent_terminal_and_wake
  <2>5. ASSUME NEW r \in Reports, _ensure_subagent_work_entry(r) PROVE FALSE
    <3>1. PICK b \in Children : Ensures(b)  BY <1>1, <2>5, EnsureIs
    <3>2. CASE register_subagent_work(b, TRUE) \/ register_subagent_work(b, FALSE)  BY <2>r, <3>2
    <3>3. CASE entry' = IF entry[b].work = 0 THEN entry
                        ELSE [entry EXCEPT ![b] = [work |-> entry[b].work, delivered |-> TRUE]]
      BY <2>d, <2>k, <3>3
    <3>5. CASE entry' = entry  BY <2>k, <3>5
    <3>4. QED  BY <3>1, <3>2, <3>3, <3>5, Zenon DEF Ensures
  <2>6. ASSUME NEW b \in Children, NEW r \in Reports, ReportUntracked(r, b) \/ MissingParentInbox(r, b)
        PROVE  FALSE
    BY <2>6, <2>k, Zenon DEF ReportUntracked, MissingParentInbox
  <2>7. CASE \/ UserMessage \/ _run_turn_bg \/ TurnEnds \/ TurnBreaks \/ _check_and_start_next_turn
             \/ ParentReturns
             \/ \E i \in 1..Len(buf) : Inject(i)
             \/ \E a \in 1..MaxAttempts :
                  PostArrives(a) \/ PostRetries(a) \/ PostSwallowed(a) \/ _post_subagent_wake_notice(a)
             \/ \E d \in Readers : ReadBegins(d)
             \/ \E b \in Children : Create(b)
    <3>1. entry' = entry
      BY <2>7, Zenon DEF UserMessage, _run_turn_bg, TurnEnds, TurnBreaks, _check_and_start_next_turn, Inject,
         PostArrives, PostRetries, PostSwallowed, _post_subagent_wake_notice, ReadBegins, Create, ParentReturns,
         registry
    <3>2. QED  BY <2>k, <3>1
  <2>8. ASSUME NEW d \in Readers, NEW ok \in BOOLEAN, Evaluated(d, ok) PROVE FALSE
    <3>1. PICK w \in Works : w = reader[d].hand  BY <1>1, <2>8, EvaluatedIs
    <3>2. entry' = [a \in Children |-> IF entry[a].work = w THEN NoWork ELSE entry[a]]
      BY <1>1, <2>8, <2>k, <3>1, EvaluatedIs, Zenon
    <3>3. entry[c].work = w  BY <1>1, <3>2
    <3>4. w \in Holds(d)  BY <1>1, <3>1, <3>3 DEF Holds
    <3>5. w \in Out  BY <3>4 DEF Out
    <3>6. QED  BY <1>1, <3>3, <3>5 DEF ResultsInv, Open
  <2>9. QED
    BY <1>1, <2>1, <2>2, <2>3, <2>4, <2>5, <2>6, <2>7, <2>8, Zenon DEF WakeNext
<1>2. ASSUME WakeTypeOK, ResultsInv, [WakeNext]_wvars
      PROVE  [\A c \in Children :
                entry[c].work # 0 /\ ~entry[c].delivered /\ entry'[c].work = 0 => sending'[c] < sending[c]]_wvars
  BY <1>1, <1>2
<1>3. QED  BY <1>2, WakeTypes, WakeResults, PTL DEF WakeSpec, OpenWorkStays

-----------------------------------------------------------------------------
(***************************************************************************)
(* The wake.                                                               *)
(***************************************************************************)
\* An entry that _rewake_parent_if_inbox_stranded would find while the result at i is unread: of
\* open work, or of a result that is at i or behind it.
Backed(i) ==
    \E c \in Children :
        /\ entry[c].work # 0
        /\ ~entry[c].delivered \/ \E j \in i..Len(inbox) : inbox[j] = entry[c].work

\* A result the parent must still learn of is in the inbox, with such an entry.
Covered == \A w \in untold \ excused : \E i \in 1..Len(inbox) : inbox[i] = w /\ Backed(i)

\* What holds of the wake.
WakeInv == Covered /\ Announced /\ FlagIsLive

\* A step that leaves inbox and entries alone and makes no result untold.
LEMMA CoveredStays ==
    ASSUME Covered, UNCHANGED <<inbox, entry>>, untold' \ excused' \subseteq untold \ excused
    PROVE  Covered'
<1>1. \A i \in 1..Len(inbox) : Backed(i) => Backed(i)'  BY DEF Backed
<1>2. QED  BY <1>1 DEF Covered

\* New work is an entry for every result that waits.
LEMMA CoveredByOpen ==
    ASSUME Covered, NEW c \in Children, entry'[c].work # 0, ~entry'[c].delivered, UNCHANGED <<inbox, untold, excused>>
    PROVE  Covered'
<1>1. \A i \in 1..Len(inbox) : Backed(i)'  BY DEF Backed
<1>2. QED  BY <1>1 DEF Covered

\* A result that is delivered is behind all others, and its entry one for each of them.
LEMMA CoveredByResult ==
    ASSUME WakeTypeOK, Covered, NEW c \in Children, NEW w \in Works, entry'[c].work = w,
           inbox' = Append(inbox, w), untold' = untold \cup {w}, excused' = excused
    PROVE  Covered'
<1>1. inbox \in Seq(Works) /\ w # 0  BY TypeParts, WakeBounds DEF ResultsOK, Works
<1>2. /\ Len(inbox') = Len(inbox) + 1 /\ Len(inbox) \in Nat /\ inbox'[Len(inbox) + 1] = w
      /\ \A i \in 1..Len(inbox) : inbox'[i] = inbox[i]
  BY <1>1
<1>3. \A i \in 1..(Len(inbox) + 1) : Backed(i)'
  <2>1. ASSUME NEW i \in 1..(Len(inbox) + 1) PROVE Backed(i)'
    <3>1. Len(inbox) + 1 \in i..Len(inbox')  BY <1>2
    <3>2. \E j \in i..Len(inbox') : inbox'[j] = entry'[c].work  BY <1>2, <3>1
    <3>3. QED  BY <1>1, <3>2 DEF Backed
  <2>2. QED  BY <2>1
<1>4. ASSUME NEW v \in untold' \ excused' PROVE \E i \in 1..Len(inbox') : inbox'[i] = v /\ Backed(i)'
  <2>1. CASE v = w
    <3>1. Len(inbox) + 1 \in 1..Len(inbox')  BY <1>2
    <3>2. QED  BY <1>2, <1>3, <2>1, <3>1
  <2>2. CASE v # w
    <3>1. PICK i \in 1..Len(inbox) : inbox[i] = v  BY <1>4, <2>2 DEF Covered
    <3>2. i \in 1..Len(inbox') /\ i \in 1..(Len(inbox) + 1) /\ inbox'[i] = v  BY <1>2, <3>1
    <3>3. QED  BY <1>3, <3>2
  <2>3. QED  BY <2>1, <2>2
<1>5. QED  BY <1>4 DEF Covered

\* A drain takes the results in order, and drops the entries of results no longer in the inbox.
LEMMA CoveredByDrain ==
    ASSUME WakeTypeOK, Covered, NEW d \in Readers, NEW back \in Seq(Works), _drain_inbox(d, back),
           \A c \in Children : \/ entry'[c] = entry[c]
                               \/ entry[c].delivered /\ entry[c].work \notin ToSet(inbox)
    PROVE  Covered' /\ untold' \ excused' \subseteq untold \ excused
<1>1. inbox \in Seq(Works)  BY TypeParts DEF ResultsOK
<1>2. CASE /\ inbox # <<>> /\ inbox' = Tail(inbox)
           /\ untold' = untold \ {Head(inbox)} /\ excused' = excused \ {Head(inbox)}
  <2>1. /\ Head(inbox) = inbox[1] /\ Len(inbox) \in Nat /\ Len(inbox') = Len(inbox) - 1
        /\ \A i \in 1..(Len(inbox) - 1) : inbox'[i] = inbox[i + 1]
    BY <1>1, <1>2
  <2>2. ASSUME NEW v \in untold' \ excused' PROVE \E i \in 1..Len(inbox') : inbox'[i] = v /\ Backed(i)'
    <3>1. v \in untold \ excused /\ v # inbox[1]  BY <1>2, <2>1, <2>2
    <3>2. PICK i \in 1..Len(inbox) : inbox[i] = v /\ Backed(i)  BY <3>1 DEF Covered
    <3>3. i # 1  BY <3>1, <3>2
    <3>4. i - 1 \in 1..Len(inbox') /\ inbox'[i - 1] = v  BY <2>1, <3>2, <3>3
    <3>5. PICK c \in Children : /\ entry[c].work # 0
                                /\ ~entry[c].delivered \/ \E j \in i..Len(inbox) : inbox[j] = entry[c].work
      BY <3>2 DEF Backed
    <3>6. entry'[c] = entry[c]
      <4>1. CASE ~entry[c].delivered  BY <4>1
      <4>2. ASSUME NEW j \in i..Len(inbox), inbox[j] = entry[c].work PROVE entry[c].work \in ToSet(inbox)
        <5>1. j \in 1..Len(inbox)  BY <2>1, <4>2
        <5>2. QED  BY <1>1, <4>2, <5>1 DEF ToSet
      <4>3. QED  BY <3>5, <4>1, <4>2
    <3>7. CASE ~entry[c].delivered
      <4>1. Backed(i - 1)'  BY <3>5, <3>6, <3>7 DEF Backed
      <4>2. QED  BY <3>4, <4>1
    <3>8. CASE \E j \in i..Len(inbox) : inbox[j] = entry[c].work
      <4>1. PICK j \in i..Len(inbox) : inbox[j] = entry[c].work  BY <3>8
      <4>2. j - 1 \in (i - 1)..Len(inbox') /\ inbox'[j - 1] = entry'[c].work  BY <2>1, <3>3, <3>6, <4>1
      <4>3. Backed(i - 1)'  BY <3>5, <3>6, <4>2 DEF Backed
      <4>4. QED  BY <3>4, <4>3
    <3>9. QED  BY <3>5, <3>7, <3>8
  <2>3. Covered'  BY <2>2 DEF Covered
  <2>4. QED  BY <1>2, <2>3
<1>3. CASE inbox = <<>> /\ UNCHANGED <<untold, excused>>
  <2>1. untold \ excused = {}  BY <1>3 DEF Covered
  <2>2. QED  BY <1>3, <2>1 DEF Covered
<1>4. QED  BY <1>2, <1>3, DrainMoves

\* A step that leaves the flag, the posts and the parent alone.
LEMMA DueStays ==
    ASSUME UNCHANGED <<pending, posts, turn, carries, buf, checks, lost>>, Announced, FlagIsLive,
           untold' \ excused' \subseteq untold \ excused
    PROVE  Announced' /\ FlagIsLive'
<1>1. WakeDue => WakeDue'  BY DEF WakeDue, Outstanding, Notified
<1>2. FlagIsLive'  BY <1>1 DEF FlagIsLive
<1>3. untold \subseteq excused => untold' \subseteq excused'  OBVIOUS
<1>4. Announced'  BY <1>1, <1>3 DEF Announced
<1>5. QED  BY <1>2, <1>4

\* A result that is delivered wakes the parent, or finds a wake under way.
LEMMA DeliveryWakes ==
    ASSUME WakeTypeOK, WakeInv, NEW c \in Children, NEW w \in Works, NEW delivered,
           _deliver_subagent_completion(c, w, delivered), entry'[c].work = w,
           delivered => entry' = entry, UNCHANGED <<turn, carries, buf, checks, excused, lost>>
    PROVE  WakeInv'
<1>0. Covered /\ Announced /\ FlagIsLive  BY DEF WakeInv
<1>1. CASE delivered
  <2>1. UNCHANGED <<inbox, untold, pending, posts, entry>>  BY <1>1, Zenon DEF _deliver_subagent_completion
  <2>2. Covered'  BY <1>0, <2>1, CoveredStays
  <2>3. Announced' /\ FlagIsLive'  BY <1>0, <2>1, DueStays
  <2>4. QED  BY <2>2, <2>3 DEF WakeInv
<1>2. CASE ~delivered
  <2>1. inbox' = Append(inbox, w) /\ untold' = untold \cup {w} /\ _schedule_subagent_wake
    BY <1>2, Zenon DEF _deliver_subagent_completion, Delivers
  <2>2. Covered'  BY <1>0, <2>1, CoveredByResult
  <2>3. WakeDue' \/ lost'
    <3>1. CASE pending
      <4>1. WakeDue \/ lost  BY <1>0, <3>1 DEF FlagIsLive
      <4>2. UNCHANGED <<pending, posts>>  BY <2>1, <3>1 DEF _schedule_subagent_wake
      <4>3. QED  BY <4>1, <4>2 DEF WakeDue, Outstanding, Notified
    <3>2. CASE ~pending
      <4>1. posts' = [posts EXCEPT ![1] = posts[1] + 1]  BY <2>1, <3>2 DEF _schedule_subagent_wake
      <4>2. posts \in [1..MaxAttempts -> Nat] /\ 1 \in 1..MaxAttempts
        BY TypeParts, WakeAttempts DEF FlagOK
      <4>3. posts'[1] > 0  BY <4>1, <4>2
      <4>4. QED  BY <4>2, <4>3 DEF WakeDue, Outstanding
    <3>3. QED  BY <3>1, <3>2
  <2>4. QED  BY <2>2, <2>3 DEF WakeInv, Announced, FlagIsLive
<1>3. QED  BY <1>1, <1>2

\* A report delivered to the entry it finds.
LEMMA FoundDelivers ==
    ASSUME WakeTypeOK, WakeInv, NEW c \in Children, entry[c].work # 0,
           entry' = [entry EXCEPT ![c] = [work |-> entry[c].work, delivered |-> TRUE]],
           _deliver_subagent_completion(c, entry[c].work, entry[c].delivered),
           UNCHANGED <<turn, carries, buf, checks, excused, lost>>
    PROVE  WakeInv'
<1>1. entry \in [Children -> Entries] /\ entry[c] \in Entries /\ entry[c].work \in 0..MaxWorks
  BY EntryTyped
<1>2. entry[c].work \in Works  BY <1>1, WakeBounds DEF Works
<1>3. entry'[c].work = entry[c].work  BY <1>1
<1>4. entry[c].delivered => entry' = entry
  <2>1. SUFFICES ASSUME entry[c].delivered PROVE entry' = entry  OBVIOUS
  <2>2. entry[c].delivered = TRUE  BY <2>1, EntryTyped
  <2>3. entry[c] = [work |-> entry[c].work, delivered |-> TRUE]  BY <1>1, <2>2 DEF Entries
  <2>4. QED  BY <1>1, <2>3
<1>5. QED  BY <1>2, <1>3, <1>4, DeliveryWakes

\* Sends keep what holds of the wake: a failed one may drop the entry the rewake would look for.
LEMMA RegistryWakes ==
    ASSUME WakeTypeOK, WakeInv, NEW c \in Children, Send(c) \/ SendReturns(c) \/ Create(c)
    PROVE  WakeInv'
<1>0. Covered /\ Announced /\ FlagIsLive /\ entry \in [Children -> Entries]
  BY TypeParts DEF WakeInv, RegistryOK
<1>1. UNCHANGED <<pending, posts, turn, carries, buf, checks, lost>> /\ inbox' = inbox /\ untold' = untold
  BY Zenon DEF Send, SendReturns, Create, parent, ghosts, results
<1>2. CASE Send(c)
  <2>1. register_subagent_work(c, FALSE) /\ excused' = excused  BY <1>2, Zenon DEF Send, ghosts
  <2>2. entry' = [entry EXCEPT ![c] = [work |-> works + 1, delivered |-> FALSE]] /\ works \in 0..MaxWorks
    BY <2>1, TypeParts DEF register_subagent_work, RegistryOK
  <2>3. entry'[c].work # 0 /\ ~entry'[c].delivered  BY <1>0, <2>2
  <2>4. Covered'  BY <1>0, <1>1, <2>1, <2>3, CoveredByOpen
  <2>5. Announced' /\ FlagIsLive'  BY <1>0, <1>1, <2>1, DueStays
  <2>6. QED  BY <2>4, <2>5 DEF WakeInv
<1>3. CASE UNCHANGED <<entry, excused>>
  <2>1. Covered'  BY <1>0, <1>1, <1>3, CoveredStays
  <2>2. Announced' /\ FlagIsLive'  BY <1>0, <1>1, <1>3, DueStays
  <2>3. QED  BY <2>1, <2>2 DEF WakeInv
<1>4. CASE excused' = untold
  <2>1. untold' \ excused' = {}  BY <1>1, <1>4
  <2>2. Covered'  BY <2>1 DEF Covered
  <2>3. Announced' /\ FlagIsLive'  BY <1>0, <1>1, <2>1, DueStays
  <2>4. QED  BY <2>2, <2>3 DEF WakeInv
<1>5. QED  BY <1>2, <1>3, <1>4, Zenon DEF SendReturns, Create, ghosts

\* Reports keep it.
LEMMA ReportWakes ==
    ASSUME WakeTypeOK, WakeInv, NEW c \in Children, NEW r \in Reports,
           _mark_subagent_terminal_and_wake(r, c) \/ MissingParentInbox(r, c) \/ ReportUntracked(r, c)
    PROVE  WakeInv'
<1>0. Covered /\ Announced /\ FlagIsLive /\ entry \in [Children -> Entries]
  BY TypeParts DEF WakeInv, RegistryOK
<1>1. CASE ReportUntracked(r, c) \/ MissingParentInbox(r, c)
  <2>1. UNCHANGED <<pending, posts, turn, carries, buf, checks, lost, inbox, untold, excused, entry>>
    BY <1>1, Zenon DEF ReportUntracked, MissingParentInbox, parent, ghosts, results
  <2>2. Covered'  BY <1>0, <2>1, CoveredStays
  <2>3. Announced' /\ FlagIsLive'  BY <1>0, <2>1, DueStays
  <2>4. QED  BY <2>2, <2>3 DEF WakeInv
<1>2. CASE _mark_subagent_terminal_and_wake(r, c)
  <2>1. /\ entry[c].work # 0 /\ UNCHANGED <<turn, carries, buf, checks, excused, lost>>
        /\ entry' = [entry EXCEPT ![c] = [work |-> entry[c].work, delivered |-> TRUE]]
        /\ _deliver_subagent_completion(c, entry[c].work, entry[c].delivered)
    BY <1>2, Zenon DEF _mark_subagent_terminal_and_wake, parent
  <2>2. QED  BY <2>1, FoundDelivers
<1>3. QED  BY <1>1, <1>2

\* A report that looks for its entry keeps it.
LEMMA EnsureWakes ==
    ASSUME WakeTypeOK, WakeInv, NEW r \in Reports, _ensure_subagent_work_entry(r)
    PROVE  WakeInv'
<1>0. Covered /\ Announced /\ FlagIsLive /\ entry \in [Children -> Entries]
  BY TypeParts DEF WakeInv, RegistryOK
<1>1. PICK c \in Children : Ensures(c)  BY EnsureIs
<1>2. UNCHANGED <<turn, carries, buf, checks, excused, lost>>  BY EnsureIs, Zenon DEF parent
<1>6. CASE register_subagent_work(c, FALSE) /\ UNCHANGED <<inbox, untold, pending, posts>>
  <2>5. entry'[c] = [work |-> works + 1, delivered |-> FALSE] /\ works + 1 # 0  BY <1>6, RegisterIs
  <2>1. entry'[c].work # 0 /\ ~entry'[c].delivered  BY <2>5
  <2>2. Covered'  BY <1>0, <1>2, <1>6, <2>1, CoveredByOpen
  <2>3. Announced' /\ FlagIsLive'  BY <1>0, <1>2, <1>6, DueStays
  <2>4. QED  BY <2>2, <2>3 DEF WakeInv
<1>7. CASE UNCHANGED <<inbox, untold, pending, posts, entry>>
  <2>1. Covered'  BY <1>0, <1>2, <1>7, CoveredStays
  <2>2. Announced' /\ FlagIsLive'  BY <1>0, <1>2, <1>7, DueStays
  <2>3. QED  BY <2>1, <2>2 DEF WakeInv
<1>3. CASE register_subagent_work(c, TRUE) /\ Delivers(c, works + 1)
  <2>1. entry'[c].work = works + 1 /\ works + 1 \in Works
    BY <1>0, <1>3, RegisterTyped DEF register_subagent_work
  <2>3. _deliver_subagent_completion(c, works + 1, FALSE)  BY <1>3, Zenon DEF _deliver_subagent_completion
  <2>2. QED  BY <1>2, <2>1, <2>3, DeliveryWakes
<1>4. CASE /\ entry' = IF entry[c].work = 0 THEN entry
                       ELSE [entry EXCEPT ![c] = [work |-> entry[c].work, delivered |-> TRUE]]
           /\ _deliver_subagent_completion(c, entry[c].work, entry[c].work = 0 \/ entry[c].delivered)
  <2>1. CASE entry[c].work = 0
    <3>1. UNCHANGED <<inbox, untold, pending, posts, entry>>
      BY <1>4, <2>1 DEF _deliver_subagent_completion
    <3>2. Covered'  BY <1>0, <1>2, <3>1, CoveredStays
    <3>3. Announced' /\ FlagIsLive'  BY <1>0, <1>2, <3>1, DueStays
    <3>4. QED  BY <3>2, <3>3 DEF WakeInv
  <2>2. CASE entry[c].work # 0
    <3>1. _deliver_subagent_completion(c, entry[c].work, entry[c].delivered)
      BY <1>4, <2>2 DEF _deliver_subagent_completion
    <3>2. QED  BY <1>2, <1>4, <2>2, <3>1, FoundDelivers
  <2>3. QED  BY <2>1, <2>2
<1>5. QED  BY <1>1, <1>3, <1>4, <1>6, <1>7, Zenon DEF Ensures

\* Posts keep it: one that arrives leaves a notice, one tried again is still under way.
LEMMA PostsWake ==
    ASSUME WakeTypeOK, WakeInv, NEW a \in 1..MaxAttempts,
           PostArrives(a) \/ PostRetries(a) \/ PostSwallowed(a) \/ _post_subagent_wake_notice(a)
    PROVE  WakeInv'
<1>0. Covered /\ posts \in [1..MaxAttempts -> Nat] /\ posts[a] > 0 /\ buf \in Seq({"notice", "user"})
  BY TypeParts DEF WakeInv, FlagOK, ParentOK, PostArrives, PostRetries, PostSwallowed, _post_subagent_wake_notice
<1>1. UNCHANGED <<inbox, entry, untold>>
  BY Zenon DEF PostArrives, PostRetries, PostSwallowed, _post_subagent_wake_notice, registry, results, ghosts
<1>2. ASSUME WakeDue', excused' = excused PROVE WakeInv'
  <2>1. Covered'  BY <1>0, <1>1, <1>2, CoveredStays
  <2>2. QED  BY <1>2, <2>1 DEF WakeInv, Announced, FlagIsLive
<1>3. CASE PostArrives(a)
  <2>1. Ingest("notice") /\ excused' = excused  BY <1>3, Zenon DEF PostArrives, ghosts
  <2>2. CASE turn = "none"
    <3>1. turn' = "created" /\ carries'  BY <2>1, <2>2 DEF Ingest
    <3>2. QED  BY <1>2, <2>1, <3>1 DEF WakeDue
  <2>3. CASE turn # "none"
    <3>1. buf' = Append(buf, "notice")  BY <2>1, <2>3 DEF Ingest
    <3>2. Len(buf) + 1 \in 1..Len(buf') /\ buf'[Len(buf) + 1] = "notice"  BY <1>0, <3>1
    <3>3. Notified'  BY <3>2 DEF Notified
    <3>4. QED  BY <1>2, <2>1, <3>3 DEF WakeDue
  <2>4. QED  BY <2>2, <2>3
<1>4. CASE PostRetries(a)
  <2>1. /\ a < MaxAttempts /\ excused' = excused
        /\ posts' = [posts EXCEPT ![a] = posts[a] - 1, ![a + 1] = posts[a + 1] + 1]
    BY <1>4 DEF PostRetries, ghosts
  <2>2. a + 1 \in 1..MaxAttempts  BY <2>1, WakeAttempts
  <2>3. posts'[a + 1] = posts[a + 1] + 1  BY <1>0, <2>1, <2>2
  <2>4. posts'[a + 1] > 0  BY <1>0, <2>2, <2>3
  <2>5. QED  BY <1>2, <2>1, <2>2, <2>4 DEF WakeDue, Outstanding
<1>5. CASE _post_subagent_wake_notice(a)
  <2>1. pending' = FALSE /\ excused' = untold  BY <1>5, Zenon DEF _post_subagent_wake_notice
  <2>2. QED  BY <1>1, <2>1 DEF WakeInv, Covered, Announced, FlagIsLive
<1>7. CASE PostSwallowed(a)
  <2>1. lost' = pending /\ pending' = pending /\ excused' = untold  BY <1>7, Zenon DEF PostSwallowed
  <2>2. Covered' /\ Announced'  BY <1>1, <2>1 DEF Covered, Announced
  <2>3. FlagIsLive'  BY <2>1, Zenon DEF FlagIsLive
  <2>4. QED  BY <2>2, <2>3 DEF WakeInv
<1>6. QED  BY <1>3, <1>4, <1>5, <1>7

\* The parent's session comes to the runner.
LEMMA ReturnsWakes == ASSUME WakeTypeOK, WakeInv, ParentReturns PROVE WakeInv'
<1>1. UNCHANGED <<pending, posts, turn, carries, buf, checks, lost, inbox, untold, excused, entry>>
  BY Zenon DEF ParentReturns, parent, ghosts, results
<1>2. Covered /\ Announced /\ FlagIsLive  BY DEF WakeInv
<1>3. Covered'  BY <1>1, <1>2, CoveredStays
<1>4. Announced' /\ FlagIsLive'  BY <1>1, <1>2, DueStays
<1>5. QED  BY <1>3, <1>4 DEF WakeInv

\* A message of the user keeps it.
LEMMA MessageWakes == ASSUME WakeTypeOK, WakeInv, UserMessage PROVE WakeInv'
<1>0. /\ Covered /\ Announced /\ FlagIsLive
      /\ buf \in Seq({"notice", "user"})
  BY TypeParts DEF WakeInv, ParentOK
<1>1. UNCHANGED <<inbox, entry, untold, excused, pending, posts, lost>> /\ Ingest("user")
  BY Zenon DEF UserMessage, registry, results, ghosts
<1>2. WakeDue => WakeDue'
  <2>1. Outstanding => Outstanding'  BY <1>1 DEF Outstanding
  <2>2. CASE turn = "none"
    <3>1. turn' = "created" /\ buf' = buf  BY <1>1, <2>2 DEF Ingest
    <3>2. Notified => Notified'  BY <3>1 DEF Notified
    <3>3. QED  BY <1>1, <2>1, <2>2, <3>1, <3>2 DEF WakeDue
  <2>3. CASE turn # "none"
    <3>1. buf' = Append(buf, "user") /\ turn' = turn /\ carries' = carries /\ checks' = checks
      BY <1>1, <2>3 DEF Ingest
    <3>2. Notified => Notified'  BY <1>0, <3>1 DEF Notified
    <3>3. QED  BY <1>1, <2>1, <3>1, <3>2 DEF WakeDue
  <2>4. QED  BY <2>2, <2>3
<1>3. Covered'  BY <1>0, <1>1, CoveredStays
<1>4. QED  BY <1>0, <1>1, <1>2, <1>3 DEF WakeInv, Announced, FlagIsLive

\* A turn that begins clears the flag and keeps it.
LEMMA RunWakes == ASSUME WakeTypeOK, WakeInv, _run_turn_bg PROVE WakeInv'
<1>0. Covered /\ Announced /\ untold \subseteq Works  BY TypeParts DEF WakeInv, GhostsOK
<1>1. UNCHANGED <<inbox, entry, posts, buf>> /\ pending' = FALSE
  BY Zenon DEF _run_turn_bg, registry, results
<1>2. FlagIsLive'  BY <1>1 DEF FlagIsLive
<1>3. CASE untold' \subseteq excused'
  <2>1. Covered'  BY <1>3 DEF Covered
  <2>2. QED  BY <1>2, <1>3, <2>1 DEF WakeInv, Announced
<1>4. CASE (Outstanding \/ Notified) /\ untold' = untold /\ excused' = excused
  <2>1. Covered'  BY <1>0, <1>1, <1>4, CoveredStays
  <2>2. WakeDue'  BY <1>1, <1>4 DEF WakeDue, Outstanding, Notified
  <2>3. QED  BY <1>2, <2>1, <2>2 DEF WakeInv, Announced
<1>5. CASE carries
  <2>1. untold' = untold \ Works  BY <1>5 DEF _run_turn_bg, Told
  <2>2. QED  BY <1>0, <1>3, <2>1
<1>6. CASE ~carries
  <2>1. untold' = untold /\ excused' = IF Outstanding \/ Notified THEN excused ELSE untold
    BY <1>6 DEF _run_turn_bg
  <2>2. QED  BY <1>3, <1>4, <2>1
<1>7. QED  BY <1>5, <1>6

\* A message the live turn takes keeps it.
LEMMA InjectWakes == ASSUME WakeTypeOK, WakeInv, NEW i \in 1..Len(buf), Inject(i) PROVE WakeInv'
<1>0. Covered /\ Announced /\ untold \subseteq Works /\ buf \in Seq({"notice", "user"})
  BY TypeParts DEF WakeInv, GhostsOK, ParentOK
<1>1. /\ UNCHANGED <<inbox, entry, posts, pending, turn, carries, checks, lost>> /\ turn = "active"
      /\ buf' = RemoveAt(buf, i)
  BY Zenon DEF Inject, registry, results
<1>2. FlagIsLive'  BY <1>1 DEF FlagIsLive, WakeDue
<1>3. CASE buf[i] = "notice"
  <2>1. untold' = untold \ Works  BY <1>3 DEF Inject, Told
  <2>2. untold' = {}  BY <1>0, <2>1
  <2>3. QED  BY <1>2, <2>2 DEF WakeInv, Covered, Announced
<1>4. CASE buf[i] # "notice"
  <2>1. untold' = untold /\ excused' = excused  BY <1>4 DEF Inject, ghosts
  <2>2. Covered'  BY <1>0, <1>1, <2>1, CoveredStays
  <2>3. Notified => Notified'
    <3>1. SUFFICES ASSUME Notified PROVE Notified'  OBVIOUS
    <3>2. PICK j \in 1..Len(buf) : buf[j] = "notice"  BY <3>1 DEF Notified
    <3>3. j # i  BY <1>4, <3>2
    <3>4. \E k \in 1..Len(buf') : buf'[k] = "notice"  BY <1>0, <1>1, <3>2, <3>3, BufferRemove
    <3>5. QED  BY <3>4 DEF Notified
  <2>4. Outstanding => Outstanding'  BY <1>1 DEF Outstanding
  <2>5. WakeDue => WakeDue'  BY <1>1, <2>3, <2>4 DEF WakeDue
  <2>6. Announced'  BY <1>0, <1>1, <2>1, <2>5 DEF Announced
  <2>7. QED  BY <1>2, <2>2, <2>6 DEF WakeInv
<1>5. QED  BY <1>3, <1>4

\* The end of a turn keeps it: the continuation is due.
LEMMA EndWakes == ASSUME WakeTypeOK, WakeInv, TurnEnds \/ TurnBreaks PROVE WakeInv'
<1>0. Covered /\ Announced /\ FlagIsLive /\ checks \in Nat  BY TypeParts DEF WakeInv, ParentOK
<1>1. /\ UNCHANGED <<inbox, entry, posts, pending, buf, untold, lost>> /\ turn # "none"
      /\ turn' = "none" /\ checks' = checks + 1
  BY DEF TurnEnds, TurnBreaks, registry, results, ghosts
<1>2. checks' > 0  BY <1>0, <1>1
<1>3. FlagIsLive'  BY <1>1, <1>2 DEF FlagIsLive, WakeDue
<1>4. CASE excused' = untold  BY <1>1, <1>3, <1>4 DEF WakeInv, Covered, Announced
<1>5. CASE turn # "created" /\ excused' = excused
  <2>1. Covered'  BY <1>0, <1>1, <1>5, CoveredStays
  <2>2. Outstanding => Outstanding'  BY <1>1 DEF Outstanding
  <2>3. Notified => Notified'  BY <1>1 DEF Notified
  <2>4. WakeDue => WakeDue'  BY <1>1, <1>2, <1>5, <2>2, <2>3 DEF WakeDue
  <2>5. QED  BY <1>0, <1>1, <1>3, <1>5, <2>1, <2>4 DEF WakeInv, Announced
<1>6. QED  BY <1>4, <1>5 DEF TurnEnds, TurnBreaks, ghosts

\* The continuation keeps it: it takes a notice, wakes again, or drops a flag nobody needs.
LEMMA CheckWakes == ASSUME WakeTypeOK, WakeInv, _check_and_start_next_turn PROVE WakeInv'
<1>0. /\ Covered /\ Announced /\ FlagIsLive
      /\ buf \in Seq({"notice", "user"}) /\ posts \in [1..MaxAttempts -> Nat] /\ 1 \in 1..MaxAttempts
  BY TypeParts, WakeAttempts DEF WakeInv, ParentOK, FlagOK
<1>1. UNCHANGED <<inbox, entry, untold, excused>>
  BY Zenon DEF _check_and_start_next_turn, registry, results, ghosts
<1>2. Covered'  BY <1>0, <1>1, CoveredStays
<1>3. ASSUME WakeDue => WakeDue', pending' => pending, lost' = lost PROVE WakeInv'
  BY <1>0, <1>1, <1>2, <1>3 DEF WakeInv, Announced, FlagIsLive
<1>4. CASE turn # "none" /\ UNCHANGED <<turn, carries, buf, pending, posts, lost>>
  <2>1. WakeDue => WakeDue'  BY <1>4 DEF WakeDue, Outstanding, Notified
  <2>2. QED  BY <1>3, <1>4, <2>1
<1>5. CASE /\ turn = "none" /\ buf = <<>> /\ _rewake_parent_if_inbox_stranded /\ UNCHANGED <<turn, carries, buf>>
  <2>1. CASE pending /\ (inbox = <<>> \/ \A c \in Children : entry[c].work = 0)
    <3>1. pending' = FALSE  BY <1>5, <2>1 DEF _rewake_parent_if_inbox_stranded
    <3>2. untold \ excused = {}
      <4>1. CASE inbox = <<>>  BY <1>0, <4>1 DEF Covered
      <4>2. CASE \A c \in Children : entry[c].work = 0  BY <1>0, <4>2 DEF Covered, Backed
      <4>3. QED  BY <2>1, <4>1, <4>2
    <3>3. QED  BY <1>1, <1>2, <3>1, <3>2 DEF WakeInv, Announced, FlagIsLive
  <2>2. CASE pending /\ ~(inbox = <<>> \/ \A c \in Children : entry[c].work = 0)
    <3>1. posts' = [posts EXCEPT ![1] = posts[1] + 1]  BY <1>5, <2>2 DEF _rewake_parent_if_inbox_stranded
    <3>2. posts'[1] > 0  BY <1>0, <3>1
    <3>3. WakeDue'  BY <1>0, <3>2 DEF WakeDue, Outstanding
    <3>4. QED  BY <1>2, <3>3 DEF WakeInv, Announced, FlagIsLive
  <2>3. CASE ~pending
    <3>1. UNCHANGED <<pending, posts, lost>>  BY <1>5, <2>3 DEF _rewake_parent_if_inbox_stranded
    <3>2. WakeDue => WakeDue'  BY <1>5, <2>3, <3>1 DEF WakeDue, Outstanding, Notified
    <3>3. QED  BY <1>3, <3>1, <3>2
  <2>4. QED  BY <2>1, <2>2, <2>3
<1>6. CASE /\ turn = "none" /\ buf # <<>> /\ turn' = "created" /\ UNCHANGED <<pending, posts, lost>>
           /\ \/ carries' = (Head(buf) = "notice") /\ buf' = Tail(buf)
              \/ carries' = Notified /\ buf' = <<>>
  <2>1. Outstanding => Outstanding'  BY <1>6 DEF Outstanding
  <2>2. Notified => carries' \/ Notified'
    <3>1. CASE carries' = Notified  BY <3>1
    <3>2. CASE carries' = (Head(buf) = "notice") /\ buf' = Tail(buf)
      <4>1. /\ Head(buf) = buf[1] /\ Len(buf) \in Nat /\ Len(buf') = Len(buf) - 1
            /\ \A k \in 1..(Len(buf) - 1) : buf'[k] = buf[k + 1]
        BY <1>0, <1>6, <3>2
      <4>2. ASSUME NEW j \in 1..Len(buf), buf[j] = "notice" PROVE carries' \/ Notified'
        <5>1. CASE j = 1  BY <3>2, <4>1, <4>2, <5>1
        <5>2. CASE j # 1
          <6>1. j - 1 \in 1..Len(buf') /\ buf'[j - 1] = "notice"  BY <4>1, <4>2, <5>2
          <6>2. QED  BY <6>1 DEF Notified
        <5>3. QED  BY <5>1, <5>2
      <4>3. QED  BY <4>2 DEF Notified
    <3>3. QED  BY <1>6, <3>1, <3>2
  <2>3. WakeDue => WakeDue'  BY <1>6, <2>1, <2>2 DEF WakeDue
  <2>4. QED  BY <1>3, <1>6, <2>3
<1>7. QED  BY <1>4, <1>5, <1>6, Zenon DEF _check_and_start_next_turn

\* Reads of the inbox keep it.
LEMMA ReadingWakes ==
    ASSUME WakeTypeOK, ResultsInv, WakeInv, NEW d \in Readers, NEW ok \in BOOLEAN, ReadBegins(d) \/ Evaluated(d, ok)
    PROVE  WakeInv'
<1>0. Covered /\ Announced /\ FlagIsLive  BY DEF WakeInv
<1>1. UNCHANGED <<pending, posts, turn, carries, buf, checks, lost>>  BY Zenon DEF ReadBegins, Evaluated, parent
<1>2. ASSUME NEW back \in Seq(Works), _drain_inbox(d, back),
             \A c \in Children : \/ entry'[c] = entry[c]
                                 \/ entry[c].delivered /\ entry[c].work \notin ToSet(inbox)
      PROVE  WakeInv'
  <2>1. Covered' /\ untold' \ excused' \subseteq untold \ excused  BY <1>0, <1>2, CoveredByDrain
  <2>2. Announced' /\ FlagIsLive'  BY <1>0, <1>1, <2>1, DueStays
  <2>3. QED  BY <2>1, <2>2 DEF WakeInv
<1>3. CASE ReadBegins(d)
  <2>1. _drain_inbox(d, <<>>) /\ entry' = entry  BY <1>3, Zenon DEF ReadBegins, registry
  <2>2. QED  BY <1>2, <2>1, SeqEmpty
<1>4. CASE Evaluated(d, ok)
  <2>1. PICK w \in Works : w = reader[d].hand  BY <1>4, EvaluatedIs
  <2>2. PICK b \in Seq(Works) : b = reader[d].back  BY <1>4, EvaluatedIs
  <2>3. w \in Holds(d)
    <3>1. w # 0  BY WakeBounds DEF Works
    <3>2. QED  BY <2>1, <3>1 DEF Holds
  <2>4. w \notin ToSet(inbox) /\ w \in Out  BY <2>3 DEF ResultsInv, Apart, Out
  <2>5. CASE /\ _drain_inbox(d, b)
             /\ entry' = [c \in Children |-> IF entry[c].work = w THEN NoWork ELSE entry[c]]
    <3>1. ASSUME NEW c \in Children
          PROVE  entry'[c] = entry[c] \/ (entry[c].delivered /\ entry[c].work \notin ToSet(inbox))
      <4>1. CASE entry[c].work = w
        <5>1. entry[c].work # 0  BY <4>1, WakeBounds DEF Works
        <5>2. entry[c].delivered  BY <2>4, <4>1, <5>1 DEF ResultsInv, Open
        <5>3. QED  BY <2>4, <4>1, <5>2
      <4>2. CASE entry[c].work # w  BY <2>5, <4>2
      <4>3. QED  BY <4>1, <4>2
    <3>2. QED  BY <1>2, <2>5, <3>1
  <2>6. CASE entry' = entry /\ _drain_inbox(d, Append(b, w))
    <3>1. Append(b, w) \in Seq(Works)  BY SeqAppend
    <3>2. QED  BY <1>2, <2>6, <3>1
  <2>7. QED  BY <1>4, <2>1, <2>2, <2>5, <2>6, EvaluatedIs, Zenon
<1>5. QED  BY <1>3, <1>4

\* The invariant of the wake holds throughout.
THEOREM WakeInvariant == WakeSpec => []WakeInv
<1>1. WakeInit => WakeInv
  BY DEF WakeInit, WakeInv, Covered, Announced, FlagIsLive
<1>2. WakeTypeOK /\ ResultsInv /\ WakeInv /\ [WakeNext]_wvars => WakeInv'
  <2> SUFFICES ASSUME WakeTypeOK, ResultsInv, WakeInv, [WakeNext]_wvars PROVE WakeInv'  OBVIOUS
  <2>1. CASE UNCHANGED wvars
    <3>1. UNCHANGED <<pending, posts, turn, carries, buf, checks, lost, inbox, untold, excused, entry>>
      BY <2>1, Zenon DEF wvars, parent, ghosts, results, registry
    <3>2. Covered /\ Announced /\ FlagIsLive  BY DEF WakeInv
    <3>3. Covered'  BY <3>1, <3>2, CoveredStays
    <3>4. Announced' /\ FlagIsLive'  BY <3>1, <3>2, DueStays
    <3>5. QED  BY <3>3, <3>4 DEF WakeInv
  <2>2. CASE WakeNext
    BY <2>2, RegistryWakes, ReportWakes, EnsureWakes, PostsWake, ReturnsWakes, MessageWakes, RunWakes, InjectWakes,
       EndWakes, CheckWakes, ReadingWakes, Zenon DEF WakeNext
  <2>3. QED  BY <2>1, <2>2
<1>3. QED  BY <1>1, <1>2, WakeTypes, WakeResults, PTL DEF WakeSpec

\* Announced: a result the parent does not know of has a post, a notice or the end of a turn to
\* wake the parent for it, unless a failed post, a stop or a turn for another message took it, or
\* the flag it came under is that of a post the server answered and did not pass on.
THEOREM NoResultGoesUnannounced == WakeSpec => []Announced
<1>1. WakeInv => Announced  BY DEF WakeInv
<1>2. QED  BY <1>1, WakeInvariant, PTL

\* FlagIsLive: _subagent_wake_pending is never set with nothing left that would clear it, unless a
\* post was answered and never reached the parent.
THEOREM FlagNeverOutlives == WakeSpec => []FlagIsLive
<1>1. WakeInv => FlagIsLive  BY DEF WakeInv
<1>2. QED  BY <1>1, WakeInvariant, PTL
=============================================================================
