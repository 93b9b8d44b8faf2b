------------------------- MODULE MCThreadSafeQueue -------------------------
(***************************************************************************)
(* ThreadSafeQueue for TLC.  Threads, queues and elements are              *)
(* interchangeable: no action or property names one of them.               *)
(***************************************************************************)
EXTENDS ThreadSafeQueue, TLC

Symmetry ==
    Permutations(Thread) \cup Permutations(Queue) \cup Permutations(Element)

============================================================================
