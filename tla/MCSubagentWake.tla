--------------------------- MODULE MCSubagentWake ---------------------------
\* Model values for the TLC runs of SubagentWake.
EXTENDS SubagentWake

CONSTANTS c1, c2, r1, r2, d1
=============================================================================
