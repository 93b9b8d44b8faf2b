------------------------------ MODULE Instances ------------------------------
(***************************************************************************)
(* The base classes that know of the instances of a class: Countable gives *)
(* each a number and takes the numbers of destroyed ones again, Singleton  *)
(* lets there be one instance at a time.                                   *)
(***************************************************************************)
EXTENDS Naturals, Sequences, SequencesExt, FiniteSetsExt

CONSTANTS Instance, NoInstance

ASSUME NoInstanceAssumption == NoInstance \notin Instance

VARIABLES
    ids,        \* Countable: m_id of the instances that are alive
    freeIds,    \* Countable: the static vector, used as a stack
    currentId,  \* Countable: the static counter; 2^32 instances are out of reach
    peak,       \* history: the most instances that were alive at once
    s_instance, \* Singleton: the static pointer
    singletons, \* history: the singletons that have been constructed
    refused     \* history: the last constructor of a Singleton has thrown

instanceVars == <<ids, freeIds, currentId, peak, s_instance, singletons, refused>>
countableVars == <<ids, freeIds, currentId, peak>>
singletonVars == <<s_instance, singletons, refused>>

InstancesInit ==
    /\ ids = <<>> /\ freeIds = <<>> /\ currentId = 0 /\ peak = 0
    /\ s_instance = NoInstance /\ singletons = {} /\ refused = FALSE

Alive == DOMAIN ids

----------------------------------------------------------------------------
\* generateId() and the member it initialises.
Identified(i, id) == ids' = [j \in Alive \cup {i} |-> IF j = i THEN id ELSE ids[j]]

\* Mutant: the number that is used again stays in the vector.
CountableReuseKeeps(i) ==
    /\ i \notin Alive /\ freeIds # <<>>
    /\ Identified(i, Last(freeIds))
    /\ peak' = Max({peak, Cardinality(Alive) + 1})
    /\ UNCHANGED <<freeIds, currentId, singletonVars>>

\* Countable() takes the number that was given back last ...
CountableReuse(i) ==
    /\ i \notin Alive /\ freeIds # <<>>
    /\ Identified(i, Last(freeIds)) /\ freeIds' = Front(freeIds)
    /\ peak' = Max({peak, Cardinality(Alive) + 1})
    /\ UNCHANGED <<currentId, singletonVars>>

\* ... or a new one.
CountableNew(i) ==
    /\ i \notin Alive /\ freeIds = <<>>
    /\ Identified(i, currentId) /\ currentId' = currentId + 1
    /\ peak' = Max({peak, Cardinality(Alive) + 1})
    /\ UNCHANGED <<freeIds, singletonVars>>

CountableDestroy(i) ==
    /\ i \in Alive
    /\ freeIds' = Append(freeIds, ids[i])
    /\ ids' = [j \in Alive \ {i} |-> ids[j]]
    /\ UNCHANGED <<currentId, peak, singletonVars>>

----------------------------------------------------------------------------
\* Singleton(): the pointer is set ...
SingletonCreate(i) ==
    /\ s_instance = NoInstance
    /\ s_instance' = i /\ singletons' = singletons \cup {i} /\ refused' = FALSE
    /\ UNCHANGED countableVars

\* ... or the assertion throws: the base's destructor is not called.
SingletonRefuse(i) ==
    /\ i \notin singletons /\ s_instance # NoInstance
    /\ refused' = TRUE
    /\ UNCHANGED <<s_instance, singletons, countableVars>>

SingletonDestroy(i) ==
    /\ i \in singletons
    /\ s_instance' = NoInstance /\ singletons' = singletons \ {i} /\ refused' = FALSE
    /\ UNCHANGED countableVars

InstancesNext ==
    \E i \in Instance :
        \/ CountableReuse(i) \/ CountableNew(i) \/ CountableDestroy(i)
        \/ SingletonCreate(i) \/ SingletonRefuse(i) \/ SingletonDestroy(i)

InstancesSpec == InstancesInit /\ [][InstancesNext]_instanceVars

----------------------------------------------------------------------------
\* Instances that are alive at the same time have different numbers, whatever
\* order they are created and destroyed in, and no number is as large as the
\* most instances that have been alive at once, so that numbers may index
\* arrays of that size. getPtr() is the one singleton that is alive, also after
\* the constructor has refused another one, and null if there is none.
IdentityKept ==
    /\ \A i, j \in Alive : i # j => ids[i] # ids[j]
    /\ \A i \in Alive : ids[i] < peak
    /\ singletons = {s_instance} \ {NoInstance}
=============================================================================
