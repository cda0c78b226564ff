---------------------------- MODULE MCRunnerTurns ----------------------------
(* Small instances of RunnerTurns for TLC. *)
EXTENDS RunnerTurns

CONSTANTS m1, m2, s1, r1
==============================================================================
