----------------------------- MODULE MCParallel -----------------------------
(***************************************************************************)
(* async::loop() and the RingBuffer, which share no state: a behaviour     *)
(* shows one of them, chosen at its beginning. The loop comes to an end;   *)
(* the producers and consumers of the buffer go on for ever.               *)
(***************************************************************************)
EXTENDS ParallelLoop, RingBuffer

VARIABLE chosen

parallelVars == <<chosen, loopVars, vars>>

ParallelInit ==
    /\ chosen \in {"ParallelLoop", "RingBuffer"}
    /\ LoopInit /\ Init
    /\ chosen = "RingBuffer" => iterations = 0

ParallelNext ==
    \/ /\ chosen = "ParallelLoop"
       /\ LoopNext \/ (Returned /\ UNCHANGED loopVars)
       /\ UNCHANGED <<chosen, vars>>
    \/ chosen = "RingBuffer" /\ Next /\ UNCHANGED <<chosen, loopVars>>

Parallel ==
    /\ ParallelInit /\ [][ParallelNext]_parallelVars
    /\ chosen = "ParallelLoop" => LoopFairness
=============================================================================
