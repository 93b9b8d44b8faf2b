-------------------------- MODULE MCSingleThreaded --------------------------
(***************************************************************************)
(* The components that one thread uses and that share no state with each   *)
(* other: a behaviour shows one of them, chosen at its beginning. (Signals *)
(* come from outside of the thread.)                                       *)
(***************************************************************************)
EXTENDS EventQueue, EventManager, Instances, ScopeGuards, SmartPointers, Profiler, Signal,
        Algorithms, TLC

VARIABLE chosen

queue == vars
manager == managerVars
pointers == pointerVars
instances == instanceVars
guards == scopeVars
profiler == profilerVars
signals == signalVars
algorithms == algorithmVars

components ==
    <<chosen, queue, manager, pointers, instances, guards, profiler, signals, algorithms>>

ComponentsInit ==
    /\ chosen \in {"EventQueue", "EventManager", "SmartPointers", "Instances", "ScopeGuards",
                   "Profiler", "Signal", "Algorithms"}
    /\ Init /\ ManagerInit /\ PointersInit /\ InstancesInit
    /\ ScopesInit /\ ProfilerInit /\ SignalInit
    /\ IF chosen = "Algorithms" THEN AlgorithmsInit
       ELSE expression = <<"range", 0, 0>> /\ iterator = <<0>> /\ visited = <<>> /\ running = FALSE

ComponentsNext ==
    \/ /\ chosen = "EventQueue" /\ Next
       /\ UNCHANGED <<chosen, manager, pointers, instances, guards, profiler, signals, algorithms>>
    \/ /\ chosen = "EventManager" /\ ManagerNext
       /\ UNCHANGED <<chosen, queue, pointers, instances, guards, profiler, signals, algorithms>>
    \/ /\ chosen = "SmartPointers" /\ PointersNext
       /\ UNCHANGED <<chosen, queue, manager, instances, guards, profiler, signals, algorithms>>
    \/ /\ chosen = "Instances" /\ InstancesNext
       /\ UNCHANGED <<chosen, queue, manager, pointers, guards, profiler, signals, algorithms>>
    \/ /\ chosen = "ScopeGuards" /\ ScopesNext
       /\ UNCHANGED <<chosen, queue, manager, pointers, instances, profiler, signals, algorithms>>
    \/ /\ chosen = "Profiler" /\ ProfilerNext
       /\ UNCHANGED <<chosen, queue, manager, pointers, instances, guards, signals, algorithms>>
    \/ /\ chosen = "Signal" /\ SignalNext
       /\ UNCHANGED <<chosen, queue, manager, pointers, instances, guards, profiler, algorithms>>
    \/ /\ chosen = "Algorithms" /\ AlgorithmsNext
       /\ UNCHANGED <<chosen, queue, manager, pointers, instances, guards, profiler, signals>>

Components == ComponentsInit /\ [][ComponentsNext]_components

----------------------------------------------------------------------------
CONSTANTS a1, a2, a3, b1, A, B, x1, x2

\* Three events of one type and one of another.
MCTypeOf == (a1 :> A) @@ (a2 :> A) @@ (a3 :> A) @@ (b1 :> B)

\* Objects of a class with bases of every kind: one as it should be, one at an
\* offset, one whose destructor is not virtual.
MCClassOf == (x1 :> "Derived") @@ (x2 :> "Derived")
MCBase == {<<"Derived", base>> : base \in {"Base", "Second", "NotVirtual"}}
MCDisplaced == {<<"Derived", "Second">>}

Symmetry == Permutations(Observer)
=============================================================================
