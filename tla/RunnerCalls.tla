----------------------------- MODULE RunnerCalls -----------------------------
(***************************************************************************)
(* What WSTunnelTransport promises an httpx caller, with no tunnel in      *)
(* sight: the runner's application answers a call with chunks and ends the *)
(* answer once; the caller reads the chunks in order, and sees the answer  *)
(* end only where the application ended it.  A call may fail or be given   *)
(* up at any time, and is settled once.                                    *)
(***************************************************************************)
EXTENDS Naturals

CONSTANTS Reqs, MaxChunks

VARIABLES
    result,    \* how the call stands with its caller
    got,       \* chunks the caller has read
    produced,  \* chunks the application has produced
    ended      \* the application has ended its answer

cvars == <<result, got, produced, ended>>

CInit ==
    /\ result = [q \in Reqs |-> "idle"]
    /\ got = [q \in Reqs |-> 0]
    /\ produced = [q \in Reqs |-> 0]
    /\ ended = [q \in Reqs |-> FALSE]

Begin(q) ==
    /\ result[q] = "idle" /\ result' = [result EXCEPT ![q] = "open"]
    /\ UNCHANGED <<got, produced, ended>>

Produce(q) ==
    /\ ~ended[q] /\ produced[q] < MaxChunks /\ result[q] # "idle"
    /\ produced' = [produced EXCEPT ![q] = @ + 1]
    /\ UNCHANGED <<result, got, ended>>

\* An application that fails ends its answer too, with an error chunk if it had said nothing.
Finish(q) ==
    /\ ~ended[q] /\ result[q] # "idle"
    /\ ended' = [ended EXCEPT ![q] = TRUE]
    /\ \/ UNCHANGED produced
       \/ produced[q] = 0 /\ produced' = [produced EXCEPT ![q] = 1]
    /\ UNCHANGED <<result, got>>

Read(q) ==
    /\ result[q] = "open" /\ got[q] < produced[q]
    /\ got' = [got EXCEPT ![q] = @ + 1]
    /\ UNCHANGED <<result, produced, ended>>

\* The whole answer was read, and nothing but it.
Return(q) ==
    /\ result[q] = "open" /\ ended[q] /\ got[q] = produced[q]
    /\ result' = [result EXCEPT ![q] = "ok"]
    /\ UNCHANGED <<got, produced, ended>>

Fail(q) ==
    /\ result[q] \in {"idle", "open"} /\ result' = [result EXCEPT ![q] = "failed"]
    /\ UNCHANGED <<got, produced, ended>>

GiveUp(q) ==
    /\ result[q] = "open" /\ result' = [result EXCEPT ![q] = "cancelled"]
    /\ UNCHANGED <<got, produced, ended>>

CNext == \E q \in Reqs :
    Begin(q) \/ Produce(q) \/ Finish(q) \/ Read(q) \/ Return(q) \/ Fail(q) \/ GiveUp(q)

CSpec == CInit /\ [][CNext]_cvars
==============================================================================
