------------------------ MODULE MCTaskSchedulerLive ------------------------
EXTENDS TaskScheduler, TLC

CONSTANTS c1, k1, k2

\* One client submits a task, and that task submits another one.
MCCaller == (k1 :> c1) @@ (k2 :> k1)
============================================================================
