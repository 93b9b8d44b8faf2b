-------------------------- MODULE MCTaskScheduler --------------------------
EXTENDS TaskScheduler, TLC

CONSTANTS c1, c2, k1, k2, k3

\* Two clients submit one task each; the task of the first submits a third and
\* returns. (MCTaskSchedulerLive has tasks that wait.)
MCCaller == (k1 :> c1) @@ (k2 :> c2) @@ (k3 :> k1)
============================================================================
