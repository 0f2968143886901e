----------------------------- MODULE MCPolling -----------------------------
EXTENDS Polling

\* Two timers of different periods, so that one is late while the other
\* is on time.
MCPeriod == [t \in {"t1", "t2"} |-> IF t = "t1" THEN 1 ELSE 2]
=============================================================================
