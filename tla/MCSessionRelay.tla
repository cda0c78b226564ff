--------------------------- MODULE MCSessionRelay ---------------------------
(* Small instances of SessionRelay for TLC. *)
EXTENDS SessionRelay

CONSTANTS s1
=============================================================================
