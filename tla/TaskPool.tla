------------------------------ MODULE TaskPool ------------------------------
(***************************************************************************)
(* What TaskScheduler promises its users, with no queue, lock or worker in *)
(* sight: a submitted task is started once and finished, and the pool is   *)
(* gone only when nothing is left to do.                                   *)
(***************************************************************************)
EXTENDS FiniteSets

CONSTANT Task

VARIABLES
    status,     \* status[k]: how far task k has come
    destroyed   \* the pool no longer exists

vars == <<status, destroyed>>

TypeOK ==
    /\ status \in [Task -> {"new", "queued", "running", "done"}]
    /\ destroyed \in BOOLEAN

Init ==
    /\ status = [k \in Task |-> "new"]
    /\ destroyed = FALSE

Advance(k, from, to) ==
    /\ ~ destroyed
    /\ status[k] = from
    /\ status' = [status EXCEPT ![k] = to]
    /\ UNCHANGED destroyed

Submit(k) == Advance(k, "new", "queued")
Start(k) == Advance(k, "queued", "running")
Finish(k) == Advance(k, "running", "done")

Idle == \A k \in Task : status[k] \in {"new", "done"}

Destroy ==
    /\ Idle
    /\ destroyed' = TRUE
    /\ UNCHANGED status

Next == Destroy \/ \E k \in Task : Submit(k) \/ Start(k) \/ Finish(k)

Spec == Init /\ [][Next]_vars

\* Every submitted task runs to its end; whether and when the pool is
\* destroyed is not promised.
Fair == \A k \in Task : WF_vars(Start(k)) /\ WF_vars(Finish(k))
FairSpec == Spec /\ Fair
=============================================================================
