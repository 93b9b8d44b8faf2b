--------------------- MODULE MCTaskSchedulerDestructor ---------------------
EXTENDS TaskScheduler

\* A scheduler that is created and destroyed: no client, no task.
MCCaller == [k \in {} |-> k]
============================================================================
