----------------------------- MODULE MCJobQueue -----------------------------
EXTENDS JobQueue, TLC

CONSTANTS j1, j2, k1, w1

\* Both jobs carry the same deduplication id; one may be tried twice.
OneKey == [j \in Jobs |-> k1]
TwiceOnce == [j \in Jobs |-> IF j = j1 THEN 2 ELSE 1]
=============================================================================
