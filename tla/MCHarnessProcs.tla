--------------------------- MODULE MCHarnessProcs ---------------------------
\* Model values for the TLC runs of HarnessProcs.
EXTENDS HarnessProcs

CONSTANTS g1, g2, i1, a1, r1, k1, k2, idle

\* One harness: k1 names no model and k2 does.
MCKeeps == {<<k1, k1>>, <<k1, k2>>, <<k2, k2>>}
=============================================================================
