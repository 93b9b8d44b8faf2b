------------------------------ MODULE Profiler ------------------------------
(***************************************************************************)
(* kc::prof::Profiler and its timers. A timer appends the id of its label  *)
(* to m_idChain while it runs; a label is looked up by that chain and its  *)
(* name, so that the same name called from elsewhere is another label.     *)
(* The timers of PROFILE_SCOPE end with their scopes, those of             *)
(* PROFILE_REGION_BEGIN by popRegionTimer(): the two need not nest.        *)
(*                                                                         *)
(* Uuids all have the same length, so that the chain is a sequence of ids  *)
(* of which a timer removes the last; the profiler's own, in front, is left *)
(* out. Measured times are left out.                                       *)
(***************************************************************************)
EXTENDS Integers, Sequences, SequencesExt, FiniteSetsExt

CONSTANTS
    Timed,      \* names
    MaxTimers   \* bound: timers started

VARIABLES
    m_labels,           \* from chains and names to labels
    m_idChain,
    m_currentIndent,
    m_orderGuard,
    timers,     \* the timers that run, the newest last: label, and in a region
    nested,     \* history: no timer has ended before one started after it
    paths       \* history: the names of the running timers at every start

profilerVars ==
    <<m_labels, m_idChain, m_currentIndent, m_orderGuard, timers, nested, paths>>

Unmeasured == -1    \* the indent of a label whose timer has not ended yet

ProfilerInit ==
    /\ m_labels = <<>> /\ m_idChain = <<>>
    /\ m_currentIndent = -1 /\ m_orderGuard = 0
    /\ timers = <<>> /\ nested = TRUE /\ paths = {}

Names(stack) == [n \in DOMAIN stack |-> stack[n].key[2]]

----------------------------------------------------------------------------
\* Mutant: labels are looked up by their names alone.
keyFlat(name) == <<<<>>, name>>

key(name) == <<m_idChain, name>>

\* A new label gets a new id.
newId == Cardinality(DOMAIN m_labels) + 1

\* prepareLabel() asks for the bare name, which is never a key: the label gets
\* the next number each time. Then Timer().
Start(name, isRegion) ==
    /\ m_orderGuard < MaxTimers
    /\ LET known == key(name) \in DOMAIN m_labels
           label == [id |-> IF known THEN m_labels[key(name)].id ELSE newId,
                     indent |-> IF known THEN m_labels[key(name)].indent ELSE Unmeasured,
                     order |-> m_orderGuard]
       IN /\ m_labels' = [k \in DOMAIN m_labels \cup {key(name)} |->
                            IF k = key(name) THEN label ELSE m_labels[k]]
          /\ m_idChain' = Append(m_idChain, label.id)
          /\ timers' = Append(timers, [key |-> key(name), isRegion |-> isRegion])
    /\ m_orderGuard' = m_orderGuard + 1 /\ m_currentIndent' = m_currentIndent + 1
    /\ paths' = paths \cup {Names(timers')}
    /\ UNCHANGED nested

createTimer(name) == Start(name, FALSE)
pushRegionTimer(name) == Start(name, TRUE)

\* ~Timer() of the newest one in the regions or in the scopes.
End(isRegion) ==
    LET ending == {n \in DOMAIN timers : timers[n].isRegion = isRegion}
    IN /\ ending # {}
       /\ LET last == Max(ending)
          IN /\ m_labels' = [m_labels EXCEPT ![timers[last].key].indent = m_currentIndent]
             /\ timers' = RemoveAt(timers, last)
             /\ nested' = (nested /\ last = Len(timers))
       /\ m_currentIndent' = m_currentIndent - 1
       /\ m_idChain' = Front(m_idChain)
       /\ UNCHANGED <<m_orderGuard, paths>>

destroyTimer == End(FALSE)
popRegionTimer == End(TRUE)

ProfilerNext ==
    \/ \E name \in Timed : createTimer(name) \/ pushRegionTimer(name)
    \/ destroyTimer \/ popRegionTimer

ProfilerSpec == ProfilerInit /\ [][ProfilerNext]_profilerVars

----------------------------------------------------------------------------
\* The label with an id, and the names on the way to it.
LabelOf(id) == CHOOSE k \in DOMAIN m_labels : m_labels[k].id = id
PathTo(k) == [n \in DOMAIN k[1] |-> LabelOf(k[1][n])[2]] \o <<k[2]>>

\* However timers overlap, the chain and the indent say how many are running,
\* so that they are back at their initial values when none is. As long as they
\* nest, the labels are the tree of the calls: one for each path of names that
\* has been timed; a label is indented by the number of labels above it; and
\* among the running timers an enclosing one is printed before an enclosed one.
CallTree ==
    /\ Len(m_idChain) = Len(timers) /\ m_currentIndent = Len(timers) - 1
    /\ nested =>
         /\ {PathTo(k) : k \in DOMAIN m_labels} = paths
         /\ Cardinality(DOMAIN m_labels) = Cardinality(paths)
         /\ \A k \in DOMAIN m_labels :
              m_labels[k].indent \in {Unmeasured, Len(PathTo(k)) - 1}
         /\ \A m, n \in DOMAIN timers :
              m < n => m_labels[timers[m].key].order < m_labels[timers[n].key].order
=============================================================================
