---------------------------- MODULE MCScheduler ----------------------------
\* Two tasks, of which one is edited again; no symmetry, the run checks liveness.
EXTENDS Scheduler, TLC

CONSTANTS t1, t2

Edits == t1 :> 2 @@ t2 :> 1
=============================================================================
