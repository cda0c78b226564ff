----------------------------- MODULE MCScheduler -----------------------------
(* Small instances of Scheduler for TLC. *)
EXTENDS Scheduler, TLC

CONSTANTS s1, s2

UnitSteps == [i \in 1..BackoffLen |-> i]
\* The replicas are interchangeable.
AnyReplica == Permutations(Runners)
==============================================================================
