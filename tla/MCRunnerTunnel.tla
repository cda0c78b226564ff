--------------------------- MODULE MCRunnerTunnel ---------------------------
(* Small instances of RunnerTunnel for TLC. *)
EXTENDS RunnerTunnel

CONSTANTS q1, q2, w1, w2
=============================================================================
