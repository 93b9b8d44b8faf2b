-------------------------- MODULE ComponentProofs --------------------------
(***************************************************************************)
(* The components that one thread uses, each by itself: the base classes   *)
(* that know their instances, the scope guards, signals, smart pointers,   *)
(* the profiler and the loops over ranges.                                 *)
(***************************************************************************)
EXTENDS Instances, ScopeGuards, Signal, SmartPointers, Profiler, Algorithms,
        FiniteSetTheorems, SequenceTheorems, WellFoundedInduction, TLAPS

(***************************************************************************)
(* Countable and Singleton. Instances that are alive have different        *)
(* numbers, for any number of them and any order of their creation and     *)
(* destruction: each number below the counter is that of one living        *)
(* instance or waits once in the vector of free ones, so that a new number *)
(* is taken only when all are in use.                                      *)
(***************************************************************************)
Typed ==
    /\ ids \in [Alive -> Nat] /\ IsFiniteSet(Alive)
    /\ freeIds \in Seq(Nat)
    /\ currentId \in Nat /\ peak \in Nat

Distinct ==
    /\ \A i, j \in Alive : i # j => ids[i] # ids[j]
    /\ \A m, n \in 1 .. Len(freeIds) : m # n => freeIds[m] # freeIds[n]
    /\ \A i \in Alive, n \in 1 .. Len(freeIds) : ids[i] # freeIds[n]

Below ==
    /\ \A i \in Alive : ids[i] < currentId
    /\ \A n \in 1 .. Len(freeIds) : freeIds[n] < currentId
    /\ Len(freeIds) + Cardinality(Alive) = currentId
    /\ currentId <= peak

Single == singletons = {s_instance} \ {NoInstance}

InstancesInv == Typed /\ Distinct /\ Below /\ Single

----------------------------------------------------------------------------
\* The larger of two numbers.
LEMMA MaxPair ==
    ASSUME NEW a \in Nat, NEW b \in Nat
    PROVE  Max({a, b}) \in Nat /\ Max({a, b}) >= a /\ Max({a, b}) >= b
<1>1. \E x \in {a, b} : \A y \in {a, b} : x >= y
  <2>1. CASE a >= b
    BY <2>1
  <2>2. CASE ~ (a >= b)
    BY <2>2
  <2> QED BY <2>1, <2>2
<1>2. Max({a, b}) \in {a, b} /\ \A y \in {a, b} : Max({a, b}) >= y
  BY <1>1 DEF Max
<1> QED BY <1>2

\* The vector of free numbers without the last one.
LEMMA FrontOfFree ==
    ASSUME NEW s \in Seq(Nat), s # <<>>
    PROVE  /\ Front(s) \in Seq(Nat) /\ Len(Front(s)) = Len(s) - 1
           /\ Len(s) \in 1 .. Len(s)
           /\ \A n \in 1 .. Len(s) - 1 : Front(s)[n] = s[n] /\ n \in 1 .. Len(s)
           /\ Last(s) = s[Len(s)] /\ Last(s) \in Nat
<1> DEFINE k == Len(s) - 1
<1>1. k \in Nat /\ Len(s) = k + 1 /\ \A n \in 1 .. k + 1 : s[n] \in Nat
  OBVIOUS
<1>2. Front(s) = SubSeq(s, 1, k) /\ Last(s) = s[k + 1]
  BY <1>1 DEF Front, Last
<1> HIDE DEF k
<1>3. /\ SubSeq(s, 1, k) \in Seq(Nat)
      /\ Len(SubSeq(s, 1, k)) = (IF 1 <= k THEN k - 1 + 1 ELSE 0)
      /\ \A n \in 1 .. k - 1 + 1 : SubSeq(s, 1, k)[n] = s[1 + n - 1]
  <2>1. \A n \in 1 .. k : s[n] \in Nat
    BY <1>1
  <2> QED BY <1>1, <2>1, SubSeqProperties
<1> QED BY <1>1, <1>2, <1>3

----------------------------------------------------------------------------
\* At first nothing is alive and the counter is zero.
LEMMA InstancesInitInv == InstancesInit => InstancesInv
<1> SUFFICES ASSUME InstancesInit PROVE InstancesInv
  OBVIOUS
<1>1. ids = <<>> /\ Alive = {} /\ freeIds = <<>> /\ currentId = 0 /\ peak = 0
  BY DEF InstancesInit, Alive
<1>2. Typed /\ Distinct
  BY <1>1, FS_EmptySet DEF Typed, Distinct, Alive
<1>3. Below
  BY <1>1, FS_EmptySet DEF Below
<1>4. Single
  BY DEF InstancesInit, Single
<1> QED BY <1>2, <1>3, <1>4 DEF InstancesInv

\* One more is alive, with a number that no other and no free one has.
LEMMA AddAlive ==
    ASSUME Typed, NEW i, i \notin Alive, NEW id \in Nat, Identified(i, id)
    PROVE  /\ Alive' = Alive \cup {i} /\ ids' \in [Alive' -> Nat]
           /\ ids'[i] = id /\ \A j \in Alive : ids'[j] = ids[j]
           /\ IsFiniteSet(Alive') /\ Cardinality(Alive') = Cardinality(Alive) + 1
           /\ Cardinality(Alive) \in Nat
<1>1. ids' = [j \in Alive \cup {i} |-> IF j = i THEN id ELSE ids[j]]
  BY DEF Identified
<1>2. Alive' = Alive \cup {i}
  BY <1>1 DEF Alive
<1> QED BY <1>1, <1>2, FS_AddElement, FS_CardinalityType DEF Typed

LEMMA ReuseInv == ASSUME InstancesInv, NEW i, CountableReuse(i) PROVE InstancesInv'
<1> USE DEF InstancesInv
<1>1. /\ i \notin Alive /\ freeIds # <<>> /\ freeIds \in Seq(Nat)
      /\ Identified(i, Last(freeIds)) /\ freeIds' = Front(freeIds)
      /\ peak' = Max({peak, Cardinality(Alive) + 1}) /\ currentId' = currentId
      /\ s_instance' = s_instance /\ singletons' = singletons
  BY DEF CountableReuse, Typed, singletonVars
<1>2. /\ freeIds' \in Seq(Nat) /\ Len(freeIds') = Len(freeIds) - 1
      /\ Len(freeIds) \in 1 .. Len(freeIds)
      /\ \A n \in 1 .. Len(freeIds') : freeIds'[n] = freeIds[n] /\ n \in 1 .. Len(freeIds)
      /\ Last(freeIds) = freeIds[Len(freeIds)] /\ Last(freeIds) \in Nat
  BY <1>1, FrontOfFree
<1>3. /\ Alive' = Alive \cup {i} /\ ids' \in [Alive' -> Nat]
      /\ ids'[i] = freeIds[Len(freeIds)] /\ \A j \in Alive : ids'[j] = ids[j]
      /\ IsFiniteSet(Alive') /\ Cardinality(Alive') = Cardinality(Alive) + 1
      /\ Cardinality(Alive) \in Nat
  BY <1>1, <1>2, AddAlive
<1>4. peak' \in Nat /\ peak' >= peak
  BY <1>1, <1>3, MaxPair DEF Typed
<1>5. Typed'
  BY <1>1, <1>2, <1>3, <1>4 DEF Typed
<1>6. Distinct'
  <2>1. ASSUME NEW j \in Alive', NEW k \in Alive', j # k PROVE ids'[j] # ids'[k]
    BY <1>2, <1>3, <2>1 DEF Distinct
  <2>2. ASSUME NEW m \in 1 .. Len(freeIds'), NEW n \in 1 .. Len(freeIds'), m # n
        PROVE  freeIds'[m] # freeIds'[n]
    BY <1>2, <2>2 DEF Distinct
  <2>3. ASSUME NEW j \in Alive', NEW n \in 1 .. Len(freeIds') PROVE ids'[j] # freeIds'[n]
    <3>1. freeIds'[n] = freeIds[n] /\ n \in 1 .. Len(freeIds) /\ n # Len(freeIds)
      BY <1>2
    <3>2. CASE j = i
      BY <1>2, <1>3, <3>1, <3>2 DEF Distinct
    <3>3. CASE j \in Alive
      BY <1>3, <3>1, <3>3 DEF Distinct
    <3> QED BY <1>3, <3>2, <3>3
  <2> QED BY <2>1, <2>2, <2>3 DEF Distinct
<1>7. Below'
  <2>1. \A j \in Alive' : ids'[j] < currentId'
    BY <1>1, <1>2, <1>3 DEF Below
  <2>2. \A n \in 1 .. Len(freeIds') : freeIds'[n] < currentId'
    BY <1>1, <1>2 DEF Below
  <2>3. Len(freeIds) \in Nat /\ currentId \in Nat /\ peak \in Nat
    BY DEF Typed
  <2>4. Len(freeIds) + Cardinality(Alive) = currentId /\ currentId <= peak
    BY DEF Below
  <2>5. Len(freeIds') + Cardinality(Alive') = currentId'
    BY <1>1, <1>2, <1>3, <2>3, <2>4
  <2>6. currentId' <= peak'
    BY <1>1, <1>4, <2>3, <2>4
  <2> QED BY <2>1, <2>2, <2>5, <2>6 DEF Below
<1> QED BY <1>1, <1>5, <1>6, <1>7 DEF Single

LEMMA NewInv == ASSUME InstancesInv, NEW i, CountableNew(i) PROVE InstancesInv'
<1> USE DEF InstancesInv
<1>1. /\ i \notin Alive /\ freeIds = <<>> /\ freeIds' = freeIds /\ currentId \in Nat
      /\ Identified(i, currentId) /\ currentId' = currentId + 1
      /\ peak' = Max({peak, Cardinality(Alive) + 1})
      /\ s_instance' = s_instance /\ singletons' = singletons
  BY DEF CountableNew, Typed, singletonVars
<1>2. /\ Alive' = Alive \cup {i} /\ ids' \in [Alive' -> Nat]
      /\ ids'[i] = currentId /\ \A j \in Alive : ids'[j] = ids[j]
      /\ IsFiniteSet(Alive') /\ Cardinality(Alive') = Cardinality(Alive) + 1
      /\ Cardinality(Alive) \in Nat
  BY <1>1, AddAlive
<1>3. peak' \in Nat /\ peak' >= Cardinality(Alive) + 1
  BY <1>1, <1>2, MaxPair DEF Typed
<1>4. Len(freeIds) = 0 /\ Cardinality(Alive) = currentId
  BY <1>1, <1>2 DEF Below
<1>5. Typed'
  BY <1>1, <1>2, <1>3 DEF Typed
<1>6. Distinct'
  <2>1. \A j \in Alive : ids'[j] # currentId
    BY <1>1, <1>2 DEF Below, Typed
  <2> QED BY <1>1, <1>2, <1>4, <2>1 DEF Distinct
<1>7. Below'
  <2>1. \A j \in Alive' : ids'[j] < currentId'
    BY <1>1, <1>2 DEF Below, Typed
  <2> QED BY <1>1, <1>2, <1>3, <1>4, <2>1 DEF Below
<1> QED BY <1>1, <1>5, <1>6, <1>7 DEF Single

LEMMA InstancesDestroyInv == ASSUME InstancesInv, NEW i, CountableDestroy(i) PROVE InstancesInv'
<1> USE DEF InstancesInv
<1>1. /\ i \in Alive /\ ids[i] \in Nat /\ ids[i] < currentId
      /\ freeIds \in Seq(Nat) /\ freeIds' = Append(freeIds, ids[i])
      /\ ids' = [j \in Alive \ {i} |-> ids[j]]
      /\ currentId' = currentId /\ peak' = peak
      /\ s_instance' = s_instance /\ singletons' = singletons
  BY DEF CountableDestroy, Typed, Below, singletonVars
<1>2. Alive' = Alive \ {i} /\ ids' \in [Alive' -> Nat] /\ \A j \in Alive' : ids'[j] = ids[j]
  BY <1>1 DEF Alive, Typed
<1>3. /\ IsFiniteSet(Alive') /\ Cardinality(Alive') = Cardinality(Alive) - 1
      /\ Cardinality(Alive) \in Nat
  BY <1>1, <1>2, FS_RemoveElement, FS_CardinalityType DEF Typed
<1>4. /\ freeIds' \in Seq(Nat) /\ Len(freeIds) \in Nat /\ Len(freeIds') = Len(freeIds) + 1
      /\ freeIds'[Len(freeIds) + 1] = ids[i]
      /\ \A n \in 1 .. Len(freeIds) : freeIds'[n] = freeIds[n]
  BY <1>1
<1>5. Typed'
  BY <1>1, <1>2, <1>3, <1>4 DEF Typed
<1>6. Distinct'
  <2>1. \A j, k \in Alive' : j # k => ids'[j] # ids'[k]
    BY <1>2 DEF Distinct
  <2>2. ASSUME NEW m \in 1 .. Len(freeIds'), NEW n \in 1 .. Len(freeIds'), m # n
        PROVE  freeIds'[m] # freeIds'[n]
    <3>1. m \in 1 .. Len(freeIds) \/ m = Len(freeIds) + 1
      BY <1>4
    <3>2. n \in 1 .. Len(freeIds) \/ n = Len(freeIds) + 1
      BY <1>4
    <3> QED BY <1>1, <1>4, <2>2, <3>1, <3>2 DEF Distinct
  <2>3. ASSUME NEW j \in Alive', NEW n \in 1 .. Len(freeIds') PROVE ids'[j] # freeIds'[n]
    <3>1. n \in 1 .. Len(freeIds) \/ n = Len(freeIds) + 1
      BY <1>4
    <3>2. j \in Alive /\ j # i /\ ids'[j] = ids[j]
      BY <1>2
    <3> QED BY <1>1, <1>4, <3>1, <3>2 DEF Distinct
  <2> QED BY <2>1, <2>2, <2>3 DEF Distinct
<1>7. Below'
  <2>1. \A n \in 1 .. Len(freeIds') : freeIds'[n] < currentId'
    BY <1>1, <1>4 DEF Below
  <2>2. \A j \in Alive' : ids'[j] < currentId'
    BY <1>1, <1>2 DEF Below
  <2>3. Len(freeIds') + Cardinality(Alive') = currentId'
    BY <1>1, <1>3, <1>4 DEF Below, Typed
  <2> QED BY <1>1, <2>1, <2>2, <2>3 DEF Below
<1> QED BY <1>1, <1>5, <1>6, <1>7 DEF Single

\* A singleton is created only if there is none.
LEMMA SingletonInv ==
    ASSUME InstancesInv, NEW i \in Instance,
           SingletonCreate(i) \/ SingletonRefuse(i) \/ SingletonDestroy(i)
    PROVE  InstancesInv'
<1>1. Typed' /\ Distinct' /\ Below'
  BY DEF InstancesInv, SingletonCreate, SingletonRefuse, SingletonDestroy, countableVars,
         Typed, Distinct, Below, Alive
<1>2. Single'
  BY NoInstanceAssumption DEF InstancesInv, SingletonCreate, SingletonRefuse, SingletonDestroy, Single
<1> QED BY <1>1, <1>2 DEF InstancesInv

LEMMA InstancesNextInv == InstancesInv /\ [InstancesNext]_instanceVars => InstancesInv'
<1> SUFFICES ASSUME InstancesInv, [InstancesNext]_instanceVars PROVE InstancesInv'
  OBVIOUS
<1>1. CASE InstancesNext
  BY <1>1, ReuseInv, NewInv, InstancesDestroyInv, SingletonInv DEF InstancesNext
<1>2. CASE UNCHANGED instanceVars
  BY <1>2 DEF instanceVars, InstancesInv, Typed, Distinct, Below, Single, Alive
<1> QED BY <1>1, <1>2

\* Countable and Singleton: instances that are alive at the same time have
\* different numbers, smaller than the most that have been alive at once, and
\* getPtr() is the one singleton; for any number of instances.
THEOREM IdentityAlwaysKept == InstancesSpec => []IdentityKept
<1>1. InstancesInv => IdentityKept
  BY DEF InstancesInv, Typed, Distinct, Below, Single, IdentityKept
<1>2. InstancesInv /\ [InstancesNext]_instanceVars => InstancesInv'
  BY InstancesNextInv
<1> QED BY <1>1, <1>2, InstancesInitInv, PTL DEF InstancesSpec

(***************************************************************************)
(* The guards of kc::core call back as their scopes are left, however deep *)
(* scopes, try blocks and callbacks are nested: the number of uncaught     *)
(* exceptions a guard remembers is that of its surroundings, so that it    *)
(* differs from the current one exactly while an exception leaves it.      *)
(***************************************************************************)
FrameSet == [kind : Guard \cup {"try", "callback"}, uncaught : Nat, thrown : BOOLEAN]

\* The exceptions around what is open in s, while nothing of it is being left.
Outside(s, n) == IF n = 0 THEN 0 ELSE s[n].uncaught
Around(s) == Outside(s, Len(s))

\* A callback that is called while the stack is unwound has one more around it.
Extra(frame) == IF frame.kind = "callback" /\ frame.thrown THEN 1 ELSE 0

Nested(s) == \A n \in 1 .. Len(s) : s[n].uncaught = Outside(s, n - 1) + Extra(s[n])

Counted ==
    control # "terminated" => uncaught = Around(scopes) + (IF Unwinding THEN 1 ELSE 0)

ScopesInv ==
    /\ scopes \in Seq(FrameSet) /\ uncaught \in Nat
    /\ control \in {"running", "unwinding", "terminated"}
    /\ Nested(scopes)
    /\ Counted
    /\ GuardsRun

----------------------------------------------------------------------------
\* The fields of a frame.
LEMMA FrameFacts ==
    ASSUME NEW f \in FrameSet
    PROVE  f.kind \in Guard \cup {"try", "callback"} /\ f.uncaught \in Nat /\ f.thrown \in BOOLEAN
  BY DEF FrameSet

\* What is around no scope, or around the innermost one, is a number.
LEMMA AroundNat == ASSUME NEW s \in Seq(FrameSet) PROVE Around(s) \in Nat
<1>1. CASE Len(s) = 0
  BY <1>1 DEF Around, Outside
<1>2. CASE Len(s) # 0
  <2>1. s[Len(s)] \in FrameSet
    BY <1>2
  <2> QED BY <1>2, <2>1, FrameFacts DEF Around, Outside
<1> QED BY <1>1, <1>2

\* Opening a frame that remembers the right number keeps the others right.
LEMMA OpenNested ==
    ASSUME NEW s \in Seq(FrameSet), Nested(s),
           NEW f \in FrameSet, f.uncaught = Around(s) + Extra(f)
    PROVE  /\ Append(s, f) \in Seq(FrameSet)
           /\ Nested(Append(s, f))
           /\ Around(Append(s, f)) = f.uncaught
<1> DEFINE t == Append(s, f)
<1>1. /\ t \in Seq(FrameSet) /\ Len(t) = Len(s) + 1 /\ Len(s) \in Nat
      /\ t[Len(s) + 1] = f /\ \A n \in 1 .. Len(s) : t[n] = s[n]
  OBVIOUS
<1> HIDE DEF t
<1>2. \A n \in 0 .. Len(s) : Outside(t, n) = Outside(s, n)
  BY <1>1 DEF Outside
<1>3. ASSUME NEW n \in 1 .. Len(t) PROVE t[n].uncaught = Outside(t, n - 1) + Extra(t[n])
  <2>1. n - 1 \in 0 .. Len(s) /\ Outside(t, n - 1) = Outside(s, n - 1)
    BY <1>1, <1>2
  <2>2. CASE n = Len(s) + 1
    BY <1>1, <2>1, <2>2 DEF Around
  <2>3. CASE n # Len(s) + 1
    <3>1. n \in 1 .. Len(s) /\ t[n] = s[n]
      BY <1>1, <2>3
    <3> QED BY <2>1, <3>1 DEF Nested
  <2> QED BY <2>2, <2>3
<1>4. Nested(t)
  BY <1>3 DEF Nested
<1>5. Around(t) = f.uncaught
  BY <1>1 DEF Around, Outside
<1> QED BY <1>1, <1>4, <1>5 DEF t

\* Leaving the innermost frame keeps the others, and what is around them is
\* what that frame remembers.
LEMMA LeaveNested ==
    ASSUME NEW s \in Seq(FrameSet), Nested(s), s # <<>>
    PROVE  /\ Front(s) \in Seq(FrameSet)
           /\ Nested(Front(s))
           /\ Last(s) \in FrameSet
           /\ Last(s).uncaught = Around(s)
           /\ Last(s).uncaught = Around(Front(s)) + Extra(Last(s))
<1> DEFINE k == Len(s) - 1
<1>1. k \in Nat /\ Len(s) = k + 1 /\ \A n \in 1 .. k + 1 : s[n] \in FrameSet
  OBVIOUS
<1>2. Front(s) = SubSeq(s, 1, k) /\ Last(s) = s[k + 1]
  BY <1>1 DEF Front, Last
<1> HIDE DEF k
<1>3. /\ SubSeq(s, 1, k) \in Seq(FrameSet) /\ Len(SubSeq(s, 1, k)) = k
      /\ \A n \in 1 .. k : SubSeq(s, 1, k)[n] = s[n]
  <2>1. /\ SubSeq(s, 1, k) \in Seq(FrameSet)
        /\ Len(SubSeq(s, 1, k)) = (IF 1 <= k THEN k - 1 + 1 ELSE 0)
        /\ \A n \in 1 .. k - 1 + 1 : SubSeq(s, 1, k)[n] = s[1 + n - 1]
    <3>1. \A n \in 1 .. k : s[n] \in FrameSet
      BY <1>1
    <3> QED BY <1>1, <3>1, SubSeqProperties
  <2> QED BY <1>1, <2>1
<1> DEFINE t == SubSeq(s, 1, k)
<1>4. t \in Seq(FrameSet) /\ Len(t) = k /\ \A n \in 1 .. k : t[n] = s[n]
  BY <1>3
<1> HIDE DEF t
<1>5. \A n \in 0 .. k : Outside(t, n) = Outside(s, n)
  BY <1>1, <1>4 DEF Outside
<1>6. ASSUME NEW n \in 1 .. k PROVE t[n].uncaught = Outside(t, n - 1) + Extra(t[n])
  <2>1. n \in 1 .. Len(s) /\ n - 1 \in 0 .. k /\ t[n] = s[n]
    BY <1>1, <1>4
  <2> QED BY <1>5, <2>1 DEF Nested
<1>7. Nested(t)
  BY <1>4, <1>6 DEF Nested
<1>8. k + 1 \in 1 .. Len(s) /\ k + 1 - 1 = k /\ k \in 0 .. k
  BY <1>1
<1>9. s[k + 1].uncaught = Outside(s, k) + Extra(s[k + 1])
  BY <1>8 DEF Nested
<1>10. s[k + 1].uncaught = Around(s)
  BY <1>1 DEF Around, Outside
<1>11. Around(t) = Outside(s, k)
  BY <1>4, <1>5, <1>8 DEF Around
<1> QED BY <1>1, <1>2, <1>4, <1>7, <1>9, <1>10, <1>11 DEF t

----------------------------------------------------------------------------
\* The initial state has no scope and no exception.
LEMMA ScopesInitInv == ScopesInit => ScopesInv
  BY DEF ScopesInit, ScopesInv, Nested, Counted, GuardsRun, Around, Outside, Unwinding

\* The invariant follows from its parts, whatever has become of destroyed.
LEMMA ScopesInvNow ==
    ASSUME scopes' \in Seq(FrameSet), uncaught' \in Nat,
           control' \in {"running", "unwinding", "terminated"},
           Nested(scopes'),
           control' # "terminated" =>
             uncaught' = Around(scopes') + (IF control' = "unwinding" THEN 1 ELSE 0),
           GuardsRun'
    PROVE  ScopesInv'
  BY DEF ScopesInv, Counted, Unwinding

\* A guard is destroyed: it compares as it should, and its callback remembers
\* the exception that leaves its scope, if there is one.
LEMMA ScopesDestroyInv == ScopesInv /\ DestroyGuard => ScopesInv'
<1> SUFFICES ASSUME ScopesInv, DestroyGuard PROVE ScopesInv'
  OBVIOUS
<1>1. /\ scopes \in Seq(FrameSet) /\ Nested(scopes) /\ scopes # <<>>
      /\ uncaught \in Nat /\ uncaught' = uncaught
      /\ control \in {"running", "unwinding"}
      /\ Innermost.kind \in Guard /\ Innermost = Last(scopes)
  BY DEF ScopesInv, DestroyGuard, Innermost
<1>2. /\ Front(scopes) \in Seq(FrameSet) /\ Nested(Front(scopes))
      /\ Innermost \in FrameSet /\ Innermost.uncaught = Around(scopes)
      /\ Innermost.uncaught = Around(Front(scopes)) + Extra(Innermost)
  BY <1>1, LeaveNested
<1>3. Extra(Innermost) = 0 /\ Around(Front(scopes)) \in Nat /\ Innermost.uncaught \in Nat
  BY <1>1, <1>2, AroundNat, FrameFacts DEF Extra, Guard
<1>4. uncaught = Innermost.uncaught + (IF control = "unwinding" THEN 1 ELSE 0)
      /\ Innermost.uncaught = Around(Front(scopes))
  BY <1>1, <1>2, <1>3 DEF ScopesInv, Counted, Unwinding
<1>5. Innermost.uncaught = uncaught <=> ~ Unwinding
  BY <1>3, <1>4 DEF Unwinding
<1>6. Condition(Innermost) <=> \/ Innermost.kind = "exit"
                               \/ Innermost.kind = "fail" /\ Unwinding
                               \/ Innermost.kind = "success" /\ ~ Unwinding
  <2>1. CASE Innermost.kind = "exit"
    BY <2>1 DEF Condition
  <2>2. CASE Innermost.kind = "fail"
    BY <2>2, <1>5 DEF Condition
  <2>3. CASE Innermost.kind = "success"
    BY <2>3, <1>5 DEF Condition
  <2> QED BY <1>1, <2>1, <2>2, <2>3 DEF Guard
<1>7. GuardsRun'
  <2>1. destroyed' = [kind |-> Innermost.kind, thrown |-> Unwinding, called |-> Condition(Innermost)]
    BY DEF DestroyGuard
  <2>2. /\ destroyed'.kind = Innermost.kind /\ destroyed'.thrown = Unwinding
        /\ destroyed'.called = Condition(Innermost)
    BY <2>1
  <2> QED BY <1>6, <2>2 DEF GuardsRun
<1>8. CASE Condition(Innermost)
  <2> DEFINE f == Frame("callback", Unwinding)
  <2>1. f \in FrameSet /\ f.uncaught = uncaught /\ f.kind = "callback" /\ f.thrown = Unwinding
    BY <1>1 DEF Frame, FrameSet, Unwinding
  <2>2. scopes' = Append(Front(scopes), f) /\ control' = "running"
    BY <1>8 DEF DestroyGuard
  <2> HIDE DEF f
  <2>3. f.uncaught = Around(Front(scopes)) + Extra(f)
    BY <1>4, <2>1 DEF Extra, Unwinding
  <2>4. scopes' \in Seq(FrameSet) /\ Nested(scopes') /\ Around(scopes') = uncaught'
    BY <1>1, <1>2, <2>1, <2>2, <2>3, OpenNested
  <2> QED BY <1>1, <1>7, <2>2, <2>4, ScopesInvNow
<1>9. CASE ~ Condition(Innermost)
  <2>1. scopes' = Front(scopes) /\ control' = control
    BY <1>9 DEF DestroyGuard
  <2> QED BY <1>1, <1>2, <1>4, <1>7, <2>1, ScopesInvNow
<1> QED BY <1>8, <1>9

\* Every step keeps the count of the exceptions around each scope.
LEMMA ScopesNextInv == ScopesInv /\ [ScopesNext]_scopeVars => ScopesInv'
<1> SUFFICES ASSUME ScopesInv, [ScopesNext]_scopeVars PROVE ScopesInv'
  OBVIOUS
<1>1. /\ scopes \in Seq(FrameSet) /\ Nested(scopes) /\ uncaught \in Nat
      /\ control \in {"running", "unwinding", "terminated"}
      /\ Around(scopes) \in Nat /\ GuardsRun
      /\ control # "terminated" =>
             uncaught = Around(scopes) + (IF control = "unwinding" THEN 1 ELSE 0)
  BY AroundNat DEF ScopesInv, Counted, Unwinding
<1>2. ASSUME NEW kind \in Guard \cup {"try"}, Open(kind) PROVE ScopesInv'
  <2> DEFINE f == Frame(kind, FALSE)
  <2>1. f \in FrameSet /\ f.uncaught = uncaught /\ ~ f.thrown
    BY <1>1 DEF Frame, FrameSet
  <2>2. /\ scopes' = Append(scopes, f) /\ control = "running" /\ control' = control
        /\ uncaught' = uncaught /\ destroyed' = destroyed
    BY <1>2 DEF Open, Running
  <2> HIDE DEF f
  <2>3. f.uncaught = Around(scopes) + Extra(f)
    BY <1>1, <2>1, <2>2 DEF Extra
  <2>4. scopes' \in Seq(FrameSet) /\ Nested(scopes') /\ Around(scopes') = uncaught'
    BY <1>1, <2>1, <2>2, <2>3, OpenNested
  <2>5. GuardsRun'
    BY <1>1, <2>2 DEF GuardsRun
  <2> QED BY <1>1, <2>2, <2>4, <2>5, ScopesInvNow
<1>3. CASE Throw
  <2>1. GuardsRun'
    BY <1>1, <1>3 DEF Throw, GuardsRun
  <2>2. /\ control = "running" /\ control' = "unwinding" /\ scopes' = scopes
        /\ uncaught' = uncaught + 1
    BY <1>3 DEF Throw, Running
  <2> QED BY <1>1, <2>1, <2>2, ScopesInvNow
<1>4. CASE DestroyGuard
  BY <1>4, ScopesDestroyInv
<1>5. CASE CallbackReturn
  <2>1. /\ scopes # <<>> /\ Innermost.kind = "callback" /\ scopes' = Front(scopes)
        /\ uncaught' = uncaught /\ control = "running" /\ Innermost = Last(scopes)
        /\ control' = (IF Innermost.thrown THEN "unwinding" ELSE "running")
    BY <1>5 DEF CallbackReturn, Inside, Running, Innermost
  <2>2. /\ Front(scopes) \in Seq(FrameSet) /\ Nested(Front(scopes))
        /\ Innermost.uncaught = Around(scopes)
        /\ Innermost.uncaught = Around(Front(scopes)) + Extra(Innermost)
    BY <1>1, <2>1, LeaveNested
  <2>3. Extra(Innermost) = (IF Innermost.thrown THEN 1 ELSE 0)
    BY <2>1 DEF Extra
  <2>4. uncaught' = Around(scopes') + (IF control' = "unwinding" THEN 1 ELSE 0)
    BY <1>1, <2>1, <2>2, <2>3
  <2>5. GuardsRun'
    BY <1>1, <1>5 DEF CallbackReturn, GuardsRun
  <2> QED BY <1>1, <2>1, <2>2, <2>4, <2>5, ScopesInvNow
<1>6. CASE Terminate
  <2>1. GuardsRun'
    BY <1>1, <1>6 DEF Terminate, GuardsRun
  <2> QED BY <1>1, <1>6, <2>1, ScopesInvNow DEF Terminate
<1>7. CASE LeaveTry \/ Catch
  <2>1. /\ scopes # <<>> /\ Innermost.kind = "try" /\ scopes' = Front(scopes)
        /\ Innermost = Last(scopes) /\ control' = "running"
    BY <1>7 DEF LeaveTry, Catch, Inside, Running, Innermost
  <2>2. /\ Front(scopes) \in Seq(FrameSet) /\ Nested(Front(scopes))
        /\ Innermost.uncaught = Around(scopes)
        /\ Innermost.uncaught = Around(Front(scopes)) + Extra(Innermost)
    BY <1>1, <2>1, LeaveNested
  <2>3. Around(scopes') = Around(scopes)
    BY <2>1, <2>2, AroundNat DEF Extra
  <2>4. uncaught' = Around(scopes)
    BY <1>1, <1>7 DEF LeaveTry, Catch, Running, Unwinding
  <2>5. GuardsRun'
    BY <1>1, <1>7 DEF LeaveTry, Catch, GuardsRun
  <2> QED BY <1>1, <2>1, <2>2, <2>3, <2>4, <2>5, ScopesInvNow
<1>8. CASE UNCHANGED scopeVars
  BY <1>8 DEF scopeVars, ScopesInv, Counted, GuardsRun, Unwinding
<1> QED
  BY <1>2, <1>3, <1>4, <1>5, <1>6, <1>7, <1>8 DEF ScopesNext

\* ON_SCOPE_FAIL, ON_SCOPE_SUCCESS and ON_SCOPE_EXIT call back as they should
\* at every depth of nested scopes, callbacks and exceptions.
THEOREM GuardsAlwaysRun == ScopesSpec => []GuardsRun
<1>1. ScopesInv => GuardsRun
  BY DEF ScopesInv
<1> QED BY <1>1, ScopesInitInv, ScopesNextInv, PTL DEF ScopesSpec

(***************************************************************************)
(* Signals. Until the handler is reset for the first time it is there      *)
(* whenever the wrapper is installed or handling a signal.                 *)
(***************************************************************************)
SignalInv ==
    /\ installed \subseteq Caught /\ handling \subseteq installed
    /\ setup \in {"idle", "assigned", "half"}
    /\ setup = "half" => "SIGINT" \in installed
    /\ isSetUp => installed = Caught
    /\ isReset \/ signalHandler # NoHandler \/ (setup = "idle" /\ installed = {})
    /\ HandlerCalled

LEMMA SignalInitInv == SignalInit => SignalInv
  BY DEF SignalInit, SignalInv, HandlerCalled

LEMMA SignalNextInv == SignalInv /\ [SignalNext]_signalVars => SignalInv'
<1> SUFFICES ASSUME SignalInv, [SignalNext]_signalVars PROVE SignalInv'
  OBVIOUS
<1> USE DEF SignalInv, HandlerCalled, Intact, Caught
<1>1. ASSUME NEW handler \in Handler, Setup(handler) PROVE SignalInv'
  <2>1. handler # NoHandler
    BY NoHandlerAssumption
  <2> QED BY <1>1, <2>1 DEF Setup
<1>2. CASE InstallInt \/ InstallTerm
  <2>1. isSetUp' => installed' = Caught
    <3>1. CASE InstallInt
      BY <3>1 DEF InstallInt
    <3>2. CASE InstallTerm
      <4>1. installed' = installed \cup {"SIGTERM"} /\ "SIGINT" \in installed
        BY <3>2 DEF InstallTerm
      <4> QED BY <4>1
    <3> QED BY <1>2, <3>1, <3>2
  <2>2. handling' \subseteq installed' /\ installed' \subseteq Caught
    BY <1>2 DEF InstallInt, InstallTerm
  <2>3. CASE InstallInt
    BY <2>1, <2>2, <2>3 DEF InstallInt
  <2>4. CASE InstallTerm
    BY <2>1, <2>2, <2>4 DEF InstallTerm
  <2> QED BY <1>2, <2>3, <2>4
<1>3. CASE Reset
  BY <1>3 DEF Reset
<1>4. ASSUME NEW signal \in Caught, Kill(signal) PROVE SignalInv'
  BY <1>4 DEF Kill
<1>5. ASSUME NEW signal \in Caught, Check(signal) PROVE SignalInv'
  BY <1>5 DEF Check
<1>6. ASSUME NEW signal \in Caught, OnSignal(signal) PROVE SignalInv'
  BY <1>6 DEF OnSignal
<1>7. CASE UNCHANGED signalVars
  BY <1>7 DEF signalVars
<1> QED
  BY <1>1, <1>2, <1>3, <1>4, <1>5, <1>6, <1>7 DEF SignalNext

\* A signal finds the handler unless it has been reset, also while it is being
\* set up, and kills the process only before it is set up; for every handler
\* and every interleaving of the signals with setting up and resetting.
THEOREM HandlerAlwaysCalled == SignalSpec => []HandlerCalled
<1>1. SignalInv => HandlerCalled
  BY DEF SignalInv
<1> QED BY <1>1, SignalInitInv, SignalNextInv, PTL DEF SignalSpec

(***************************************************************************)
(* Smart pointers. Each living object is held by one pointer, and what a   *)
(* pointer holds is alive.                                                 *)
(***************************************************************************)
ObjectState == {"new", "alive", "dead", "partly", "thrown"}

PointersOK ==
    /\ objects \in [Object -> ObjectState]
    /\ memory \in [Object -> Allocator \cup {"none", "freed"}]
    /\ m_buffer \in [Owning \cup Local -> Object \cup {null}]
    /\ type \in [Owning -> Class \cup {"none"}]
    /\ DOMAIN m_allocator = Owning /\ m_pointer \in [Local -> BOOLEAN]
    /\ exist \subseteq Owning \cup Local
    /\ \A o \in Object : objects[o] = "new" => memory[o] = "none" /\ o \notin replaced
    /\ \A p \in Owning \cup Local : m_buffer[p] # null => objects[m_buffer[p]] # "new"

\* What a pointer holds is alive and, if the pointer owns it, in memory of the
\* pointer's allocator, which knows the address that the pointer has of it, and
\* all of it is destroyed by the pointer's ~T(); a LocalPtr points to its buffer if it holds something,
\* which no allocator knows.
HeldAlive ==
    \A p \in exist :
        /\ m_buffer[p] # null => objects[m_buffer[p]] = "alive" /\ m_buffer[p] \notin replaced
        /\ p \in Owning /\ m_buffer[p] # null =>
             /\ m_allocator[p] \in Allocator /\ memory[m_buffer[p]] = m_allocator[p]
             /\ AtBeginning(m_buffer[p], type[p]) /\ DestroysAll(m_buffer[p], type[p])
        /\ p \in Local => (m_pointer[p] <=> m_buffer[p] # null)
        /\ p \in Local /\ m_buffer[p] # null => memory[m_buffer[p]] = "none"

OneHolder ==
    \A p, q \in exist : m_buffer[p] = m_buffer[q] /\ m_buffer[p] # null => p = q

\* What is alive is held, unless its pointer has been assigned to.
AliveHeld ==
    \A o \in Object :
        /\ objects[o] = "alive" /\ o \notin replaced => \E p \in exist : m_buffer[p] = o
        /\ memory[o] \in Allocator => objects[o] \in {"alive", "thrown"}
        /\ memory[o] = "freed" => (objects[o] = "dead" \/ o \in replaced)
        /\ o \in replaced => memory[o] = "freed" /\ objects[o] = "alive"

PointersInv ==
    /\ PointersOK
    /\ ~ misused => ~ corrupted /\ HeldAlive /\ OneHolder /\ AliveHeld

----------------------------------------------------------------------------
LEMMA PointersInitInv == PointersInit => PointersInv
  BY PointersAssumption DEF PointersInit, PointersInv, PointersOK, HeldAlive, OneHolder, AliveHeld,
     ObjectState

\* Each constructor, move, assignment, clear() and destructor of a pointer keeps
\* the invariant.
LEMMA OwningEmptyInv ==
    ASSUME PointersInv, NEW p \in Owning, NEW T \in Class, OwningEmpty(p, T)
    PROVE  PointersInv'
<1>1. PointersOK'
  BY PointersAssumption DEF PointersInv, PointersOK, ObjectState, OwningEmpty, Absent
<1>2. ASSUME ~ misused' PROVE ~ misused /\ ~ corrupted'
  BY <1>2, PointersAssumption DEF PointersInv, PointersOK, HeldAlive, OwningEmpty, Absent
<1>3. ASSUME ~ misused' PROVE HeldAlive'
  BY <1>2, <1>3, PointersAssumption DEF PointersInv, PointersOK, HeldAlive, OneHolder, OwningEmpty, Absent
<1>4. ASSUME ~ misused' PROVE OneHolder'
  BY <1>2, <1>4, PointersAssumption DEF PointersInv, PointersOK, HeldAlive, OneHolder, OwningEmpty, Absent
<1>5. ASSUME ~ misused' PROVE AliveHeld'
  BY <1>2, <1>5, PointersAssumption DEF PointersInv, PointersOK, HeldAlive, OneHolder, AliveHeld, OwningEmpty, Absent
<1> QED BY <1>1, <1>2, <1>3, <1>4, <1>5 DEF PointersInv

LEMMA MakeInv ==
    ASSUME PointersInv, NEW p \in Owning, NEW o \in Object, NEW allocator \in Allocator, makeOwningPtr(p, o, allocator)
    PROVE  PointersInv'
<1>1. PointersOK'
  BY PointersAssumption DEF PointersInv, PointersOK, ObjectState, makeOwningPtr, Absent
<1>2. ASSUME ~ misused' PROVE ~ misused /\ ~ corrupted'
  BY <1>2, PointersAssumption DEF PointersInv, PointersOK, HeldAlive, makeOwningPtr, Absent
<1>3. ASSUME ~ misused' PROVE HeldAlive'
  BY <1>2, <1>3, PointersAssumption DEF PointersInv, PointersOK, HeldAlive, OneHolder, makeOwningPtr, Absent,
     AtBeginning, DestroysAll
<1>4. ASSUME ~ misused' PROVE OneHolder'
  BY <1>2, <1>4, PointersAssumption DEF PointersInv, PointersOK, HeldAlive, OneHolder, makeOwningPtr, Absent
<1>5. ASSUME ~ misused' PROVE AliveHeld'
  BY <1>2, <1>5, PointersAssumption DEF PointersInv, PointersOK, HeldAlive, OneHolder, AliveHeld, makeOwningPtr, Absent
<1> QED BY <1>1, <1>2, <1>3, <1>4, <1>5 DEF PointersInv

LEMMA MakeThrowsInv ==
    ASSUME PointersInv, NEW p \in Owning, NEW o \in Object, NEW allocator \in Allocator, makeOwningPtrThrows(p, o, allocator)
    PROVE  PointersInv'
<1>1. PointersOK'
  BY PointersAssumption DEF PointersInv, PointersOK, ObjectState, makeOwningPtrThrows, Absent
<1>2. ASSUME ~ misused' PROVE ~ misused /\ ~ corrupted'
  BY <1>2, PointersAssumption DEF PointersInv, PointersOK, HeldAlive, makeOwningPtrThrows, Absent
<1>3. ASSUME ~ misused' PROVE HeldAlive'
  BY <1>2, <1>3, PointersAssumption DEF PointersInv, PointersOK, HeldAlive, OneHolder, makeOwningPtrThrows, Absent
<1>4. ASSUME ~ misused' PROVE OneHolder'
  BY <1>2, <1>4, PointersAssumption DEF PointersInv, PointersOK, HeldAlive, OneHolder, makeOwningPtrThrows, Absent
<1>5. ASSUME ~ misused' PROVE AliveHeld'
  BY <1>2, <1>5, PointersAssumption DEF PointersInv, PointersOK, HeldAlive, OneHolder, AliveHeld, makeOwningPtrThrows, Absent
<1> QED BY <1>1, <1>2, <1>3, <1>4, <1>5 DEF PointersInv

LEMMA OwningMoveInv ==
    ASSUME PointersInv, NEW p \in Owning, NEW q \in Owning, OwningMove(p, q)
    PROVE  PointersInv'
<1>1. PointersOK'
  BY PointersAssumption DEF PointersInv, PointersOK, ObjectState, OwningMove, TakeOver, Absent, Exists
<1>2. ASSUME ~ misused' PROVE ~ misused /\ ~ corrupted'
  BY <1>2, PointersAssumption DEF PointersInv, PointersOK, HeldAlive, OwningMove, TakeOver, Absent, Exists
<1>3. ASSUME ~ misused' PROVE HeldAlive'
  BY <1>2, <1>3, PointersAssumption DEF PointersInv, PointersOK, HeldAlive, OneHolder, OwningMove, TakeOver, Absent, Exists
<1>4. ASSUME ~ misused' PROVE OneHolder'
  BY <1>2, <1>4, PointersAssumption DEF PointersInv, PointersOK, HeldAlive, OneHolder, OwningMove, TakeOver, Absent, Exists
<1>5. ASSUME ~ misused' PROVE AliveHeld'
  BY <1>2, <1>5, PointersAssumption DEF PointersInv, PointersOK, HeldAlive, OneHolder, AliveHeld, OwningMove, TakeOver, Absent, Exists
<1> QED BY <1>1, <1>2, <1>3, <1>4, <1>5 DEF PointersInv

LEMMA OwningConvertInv ==
    ASSUME PointersInv, NEW p \in Owning, NEW q \in Owning, NEW T \in Class,
           OwningConvert(p, q, T)
    PROVE  PointersInv'
<1>1. PointersOK'
  BY PointersAssumption DEF PointersInv, PointersOK, ObjectState, OwningConvert, TakeOver, Absent, Exists
<1>2. ASSUME ~ misused' PROVE ~ misused /\ ~ corrupted'
  BY <1>2, PointersAssumption DEF PointersInv, PointersOK, HeldAlive, OwningConvert, TakeOver, Absent, Exists
<1>3. ASSUME ~ misused' PROVE HeldAlive'
  <2>1. /\ m_buffer'[p] = m_buffer[q] /\ m_buffer'[q] = null /\ type'[p] = T
        /\ m_allocator'[p] = m_allocator[q]
        /\ \A r \in exist \ {q} : /\ r # p /\ m_buffer'[r] = m_buffer[r]
                                  /\ r \in Owning => /\ m_allocator'[r] = m_allocator[r]
                                                     /\ type'[r] = type[r]
    BY DEF PointersInv, PointersOK, OwningConvert, TakeOver, Absent, Exists
  <2>2. /\ exist' = exist \cup {p} /\ q \in exist /\ m_pointer' = m_pointer /\ memory' = memory
        /\ replaced' = replaced /\ objects' = objects
    BY DEF OwningConvert, Exists
  <2>3. HeldAlive /\ p \notin Local /\ q \notin Local
    BY <1>2, <1>3, PointersAssumption DEF PointersInv
  <2>4. m_buffer[q] # null => AtBeginning(m_buffer[q], T) /\ DestroysAll(m_buffer[q], T)
    BY <1>3 DEF OwningConvert
  <2> QED BY <2>1, <2>2, <2>3, <2>4 DEF HeldAlive
<1>4. ASSUME ~ misused' PROVE OneHolder'
  BY <1>2, <1>4, PointersAssumption DEF PointersInv, PointersOK, HeldAlive, OneHolder, OwningConvert, TakeOver, Absent, Exists
<1>5. ASSUME ~ misused' PROVE AliveHeld'
  BY <1>2, <1>5, PointersAssumption DEF PointersInv, PointersOK, HeldAlive, OneHolder, AliveHeld, OwningConvert, TakeOver, Absent, Exists
<1> QED BY <1>1, <1>2, <1>3, <1>4, <1>5 DEF PointersInv

LEMMA OwningAssignInv ==
    ASSUME PointersInv, NEW p \in Owning, NEW q \in Owning, OwningAssign(p, q)
    PROVE  PointersInv'
<1>1. PointersOK'
  BY PointersAssumption DEF PointersInv, PointersOK, ObjectState, OwningAssign, TakeOver, Exists
<1>2. ASSUME ~ misused' PROVE ~ misused /\ ~ corrupted'
  BY <1>2, PointersAssumption DEF PointersInv, PointersOK, HeldAlive, Deallocates, OwningAssign, TakeOver, Exists
<1>3. ASSUME ~ misused' PROVE HeldAlive'
  BY <1>2, <1>3, PointersAssumption DEF PointersInv, PointersOK, HeldAlive, OneHolder, OwningAssign, TakeOver, Exists
<1>4. ASSUME ~ misused' PROVE OneHolder'
  BY <1>2, <1>4, PointersAssumption DEF PointersInv, PointersOK, HeldAlive, OneHolder, OwningAssign, TakeOver, Exists
<1>5. ASSUME ~ misused' PROVE AliveHeld'
  BY <1>2, <1>5, PointersAssumption DEF PointersInv, PointersOK, HeldAlive, OneHolder, AliveHeld, OwningAssign, TakeOver, Exists
<1> QED BY <1>1, <1>2, <1>3, <1>4, <1>5 DEF PointersInv

LEMMA OwningClearInv ==
    ASSUME PointersInv, NEW p \in Owning, OwningClear(p) \/ OwningDestroy(p)
    PROVE  PointersInv'
<1>1. PointersOK'
  BY PointersAssumption DEF PointersInv, PointersOK, ObjectState, OwningClear, OwningDestroy, clear, Exists
<1>2. ASSUME ~ misused' PROVE ~ misused /\ ~ corrupted'
  <2>1. clear(p) /\ p \in exist /\ ~ corrupted
    BY DEF OwningClear, OwningDestroy, Exists
  <2>2. ~ misused
    BY <1>2, <2>1 DEF clear
  <2>3. CASE m_buffer[p] = null
    BY <2>1, <2>2, <2>3 DEF clear
  <2>4. CASE m_buffer[p] # null
    <3>1. corrupted' = ~ (objects[m_buffer[p]] = "alive" /\ Deallocates(p))
      BY <2>1, <2>4 DEF clear
    <3>2. objects[m_buffer[p]] = "alive" /\ Deallocates(p)
      BY <2>1, <2>2, <2>4 DEF PointersInv, HeldAlive, Deallocates
    <3> QED BY <2>2, <3>1, <3>2
  <2> QED BY <2>3, <2>4
<1>3. ASSUME ~ misused' PROVE HeldAlive'
  BY <1>2, <1>3, PointersAssumption DEF PointersInv, PointersOK, HeldAlive, OneHolder, OwningClear, OwningDestroy, clear, Exists
<1>4. ASSUME ~ misused' PROVE OneHolder'
  BY <1>2, <1>4, PointersAssumption DEF PointersInv, PointersOK, HeldAlive, OneHolder, OwningClear, OwningDestroy, clear, Exists
<1>5. ASSUME ~ misused' PROVE AliveHeld'
  BY <1>2, <1>5, PointersAssumption DEF PointersInv, PointersOK, HeldAlive, OneHolder, AliveHeld, OwningClear, OwningDestroy, clear, Exists
<1> QED BY <1>1, <1>2, <1>3, <1>4, <1>5 DEF PointersInv

LEMMA LocalCreateInv ==
    ASSUME PointersInv, NEW p \in Local, NEW o \in Object \cup {null}, LocalCreate(p, o)
    PROVE  PointersInv'
<1>1. PointersOK'
  BY PointersAssumption DEF PointersInv, PointersOK, ObjectState, LocalCreate, Absent
<1>2. ASSUME ~ misused' PROVE ~ misused /\ ~ corrupted'
  BY <1>2, PointersAssumption DEF PointersInv, PointersOK, HeldAlive, LocalCreate, Absent
<1>3. ASSUME ~ misused' PROVE HeldAlive'
  <2>1. /\ m_pointer'[p] <=> o # null
        /\ \A r \in Local : r # p => m_pointer'[r] = m_pointer[r]
    BY DEF PointersInv, PointersOK, LocalCreate
  <2>2. m_buffer'[p] = o /\ \A r \in exist : r # p /\ m_buffer'[r] = m_buffer[r]
    BY DEF PointersInv, PointersOK, LocalCreate, Absent
  <2>3. /\ exist' = exist \cup {p} /\ m_allocator' = m_allocator /\ memory' = memory
        /\ replaced' = replaced /\ type' = type
        /\ \A n \in Object : objects'[n] = IF n = o THEN "alive" ELSE objects[n]
        /\ o # null => objects[o] = "new"
    BY DEF LocalCreate
  <2>4. HeldAlive /\ ~ (p \in Owning)
    BY <1>2, <1>3, PointersAssumption DEF PointersInv
  <2>5. (memory[o] = "none" /\ o \notin replaced) \/ o = null
    BY <2>3 DEF PointersInv, PointersOK
  <2>6. \A r \in exist : m_buffer[r] # null => objects'[m_buffer[r]] = "alive"
    <3> SUFFICES ASSUME NEW r \in exist, m_buffer[r] # null PROVE objects'[m_buffer[r]] = "alive"
      OBVIOUS
    <3>1. m_buffer[r] \in Object /\ objects[m_buffer[r]] = "alive"
      BY <2>4 DEF PointersInv, PointersOK, HeldAlive
    <3> QED BY <2>3, <3>1
  <2>7. o # null => objects'[o] = "alive"
    BY <2>3
  <2> QED BY <2>1, <2>2, <2>3, <2>4, <2>5, <2>6, <2>7 DEF HeldAlive
<1>4. ASSUME ~ misused' PROVE OneHolder'
  BY <1>2, <1>4, PointersAssumption DEF PointersInv, PointersOK, HeldAlive, OneHolder, LocalCreate, Absent
<1>5. ASSUME ~ misused' PROVE AliveHeld'
  BY <1>2, <1>5, PointersAssumption DEF PointersInv, PointersOK, HeldAlive, OneHolder, AliveHeld, LocalCreate, Absent
<1> QED BY <1>1, <1>2, <1>3, <1>4, <1>5 DEF PointersInv

LEMMA LocalReplaceInv ==
    ASSUME PointersInv, NEW p \in Local, NEW o \in Object \cup {null},
           emplace(p, o) \/ (o = null /\ LocalDestroy(p))
    PROVE  PointersInv'
<1> DEFINE b == m_buffer[p]
<1>1. /\ Replace(p, o) /\ p \in exist /\ ~ corrupted /\ b \in Object \cup {null}
      /\ exist' = exist \/ (exist' = exist \ {p} /\ o = null)
      /\ o # null => objects[o] = "new"
  BY DEF emplace, LocalDestroy, Exists, PointersInv, PointersOK
<1>2. /\ memory' = memory /\ m_allocator' = m_allocator /\ replaced' = replaced /\ misused' = misused
      /\ type' = type
      /\ m_buffer' = [m_buffer EXCEPT ![p] = o]
      /\ \A n \in Object : objects'[n] = IF n = o THEN "alive"
                                       ELSE IF m_pointer[p] /\ n = b THEN "dead" ELSE objects[n]
      /\ objects' \in [Object -> ObjectState]
  <2>1. \A n \in Object : objects[n] \in ObjectState
    BY DEF PointersInv, PointersOK
  <2> QED BY <1>1, <2>1 DEF Replace, ObjectState
<1>3. /\ m_pointer' \in [Local -> BOOLEAN]
      /\ m_pointer'[p] = (o # null) /\ \A r \in Local : r # p => m_pointer'[r] = m_pointer[r]
  BY <1>1 DEF Replace, PointersInv, PointersOK
<1>4. /\ m_buffer' \in [Owning \cup Local -> Object \cup {null}]
      /\ m_buffer'[p] = o /\ \A r \in Owning \cup Local : r # p => m_buffer'[r] = m_buffer[r]
  BY <1>2 DEF PointersInv, PointersOK
<1>5. \A n \in Object : objects'[n] = "new" => objects[n] = "new" /\ n # o
  BY <1>2, PointersAssumption
<1>6. \A n \in Object : objects[n] # "new" => objects'[n] # "new"
  BY <1>2
<1>7. PointersOK'
  BY <1>1, <1>2, <1>3, <1>4, <1>5, <1>6, PointersAssumption DEF PointersInv, PointersOK
<1>8. SUFFICES ASSUME ~ misused' PROVE ~ corrupted' /\ HeldAlive' /\ OneHolder' /\ AliveHeld'
  BY <1>7 DEF PointersInv
<1>9. /\ HeldAlive /\ OneHolder /\ AliveHeld /\ p \notin Owning
      /\ m_pointer[p] <=> b # null
      /\ b # null => objects[b] = "alive" /\ memory[b] = "none" /\ b \in Object
  BY <1>1, <1>2, <1>8, PointersAssumption DEF PointersInv, PointersOK, HeldAlive
<1>10. \A n \in Object : objects'[n] = IF n = o THEN "alive" ELSE IF n = b THEN "dead" ELSE objects[n]
  BY <1>2, <1>9, PointersAssumption
<1> HIDE DEF b
<1>11. ~ corrupted'
  <2>1. CASE m_pointer[p]
    BY <1>1, <1>9, <2>1 DEF Replace, b
  <2>2. CASE ~ m_pointer[p]
    BY <1>1, <2>2 DEF Replace
  <2> QED BY <2>1, <2>2
<1>12. \A r \in exist : r # p /\ m_buffer[r] # null => m_buffer[r] # b /\ m_buffer[r] # o
  BY <1>1, <1>9 DEF OneHolder, HeldAlive, b
<1>13. HeldAlive'
  <2> SUFFICES ASSUME NEW r \in exist'
               PROVE /\ m_buffer'[r] # null => objects'[m_buffer'[r]] = "alive" /\ m_buffer'[r] \notin replaced'
                     /\ r \in Owning /\ m_buffer'[r] # null =>
                          /\ m_allocator'[r] \in Allocator
                          /\ memory'[m_buffer'[r]] = m_allocator'[r]
                          /\ AtBeginning(m_buffer'[r], type'[r])
                          /\ DestroysAll(m_buffer'[r], type'[r])
                     /\ r \in Local => (m_pointer'[r] <=> m_buffer'[r] # null)
                     /\ r \in Local /\ m_buffer'[r] # null => memory'[m_buffer'[r]] = "none"
    BY DEF HeldAlive
  <2>1. CASE r = p
    BY <1>1, <1>2, <1>3, <1>4, <1>9, <2>1 DEF PointersInv, PointersOK
  <2>2. CASE r # p
    <3>1. /\ r \in exist /\ r \in Owning \cup Local /\ m_buffer'[r] = m_buffer[r]
          /\ m_buffer[r] \in Object \cup {null}
          /\ r \in Local => m_pointer'[r] = m_pointer[r]
      BY <1>1, <1>3, <1>4, <2>2 DEF PointersInv, PointersOK
    <3>2. m_buffer[r] # null => objects'[m_buffer[r]] = objects[m_buffer[r]]
      BY <1>10, <1>12, <2>2, <3>1
    <3> QED BY <1>2, <1>9, <3>1, <3>2 DEF HeldAlive
  <2> QED BY <2>1, <2>2
<1>14. OneHolder'
  BY <1>1, <1>4, <1>9, <1>12 DEF OneHolder, PointersInv, PointersOK
<1>15. AliveHeld'
  <2> SUFFICES ASSUME NEW n \in Object
               PROVE /\ objects'[n] = "alive" /\ n \notin replaced =>
                          \E r \in exist' : m_buffer'[r] = n
                     /\ memory'[n] \in Allocator => objects'[n] \in {"alive", "thrown"}
                     /\ memory'[n] = "freed" => (objects'[n] = "dead" \/ n \in replaced)
                     /\ n \in replaced => memory'[n] = "freed" /\ objects'[n] = "alive"
    BY <1>2 DEF AliveHeld
  <2>1. CASE n = o
    <3>1. memory[n] = "none" /\ n \notin replaced /\ p \in exist'
      BY <1>1, <2>1, PointersAssumption DEF PointersInv, PointersOK
    <3> QED BY <1>2, <1>4, <1>10, <2>1, <3>1, PointersAssumption
  <2>2. CASE n # o /\ n = b
    BY <1>1, <1>2, <1>9, <1>10, <2>2, PointersAssumption DEF AliveHeld, b
  <2>3. CASE n # o /\ n # b
    <3>1. objects'[n] = objects[n]
      BY <1>10, <2>3
    <3>2. ASSUME objects[n] = "alive", n \notin replaced PROVE \E r \in exist' : m_buffer'[r] = n
      <4>1. PICK r \in exist : m_buffer[r] = n
        BY <1>9, <3>2 DEF AliveHeld
      <4>2. r # p /\ r \in exist' /\ r \in Owning \cup Local
        BY <1>1, <2>3, <4>1 DEF b, PointersInv, PointersOK
      <4> QED BY <1>4, <4>1, <4>2
    <3> QED BY <1>2, <1>9, <3>1, <3>2 DEF AliveHeld
  <2> QED BY <2>1, <2>2, <2>3
<1> QED BY <1>11, <1>13, <1>14, <1>15

LEMMA LocalMoveInv ==
    ASSUME PointersInv, NEW p \in Local, NEW q \in Local, LocalMove(p, q)
    PROVE  PointersInv'
<1>1. PointersOK'
  BY PointersAssumption DEF PointersInv, PointersOK, ObjectState, LocalMove, Absent, Exists
<1>2. ASSUME ~ misused' PROVE ~ misused /\ ~ corrupted'
  BY <1>2, PointersAssumption DEF PointersInv, PointersOK, HeldAlive, LocalMove, Absent, Exists
<1>3. ASSUME ~ misused' PROVE HeldAlive'
  <2>1. /\ m_pointer'[p] = TRUE /\ m_pointer'[q] = FALSE /\ m_pointer[q] = TRUE /\ p # q
        /\ \A r \in Local : r # p /\ r # q => m_pointer'[r] = m_pointer[r]
    BY <1>3 DEF PointersInv, PointersOK, LocalMove, Absent, Exists
  <2>2. /\ m_buffer'[p] = m_buffer[q] /\ m_buffer'[q] = null
        /\ \A r \in exist : r # p /\ (r # q => m_buffer'[r] = m_buffer[r])
    BY <2>1 DEF PointersInv, PointersOK, LocalMove, Absent
  <2>3. /\ exist' = exist \cup {p} /\ q \in exist /\ m_allocator' = m_allocator /\ memory' = memory
        /\ replaced' = replaced /\ objects' = objects /\ type' = type
    BY DEF LocalMove, Exists
  <2>4. HeldAlive /\ p \notin Owning /\ q \notin Owning
    BY <1>2, <1>3, PointersAssumption DEF PointersInv
  <2> QED BY <2>1, <2>2, <2>3, <2>4 DEF HeldAlive
<1>4. ASSUME ~ misused' PROVE OneHolder'
  BY <1>2, <1>4, PointersAssumption DEF PointersInv, PointersOK, HeldAlive, OneHolder, LocalMove, Absent, Exists
<1>5. ASSUME ~ misused' PROVE AliveHeld'
  BY <1>2, <1>5, PointersAssumption DEF PointersInv, PointersOK, HeldAlive, OneHolder, AliveHeld, LocalMove, Absent, Exists
<1> QED BY <1>1, <1>2, <1>3, <1>4, <1>5 DEF PointersInv

LEMMA LocalAssignInv ==
    ASSUME PointersInv, NEW p \in Local, NEW q \in Local, LocalAssign(p, q)
    PROVE  PointersInv'
<1>1. PointersOK'
  BY PointersAssumption DEF PointersInv, PointersOK, ObjectState, LocalAssign, Exists
<1>2. ASSUME ~ misused' PROVE ~ misused /\ ~ corrupted'
  BY <1>2, PointersAssumption DEF PointersInv, PointersOK, HeldAlive, LocalAssign, Exists
<1>3. ASSUME ~ misused' PROVE HeldAlive'
  <2>1. /\ m_pointer'[p] = TRUE /\ m_pointer[p] = TRUE /\ m_pointer[q] = TRUE
        /\ \A r \in Local : r # p => m_pointer'[r] = m_pointer[r]
    BY <1>3 DEF PointersInv, PointersOK, LocalAssign, Exists
  <2>2. /\ m_buffer'[p] = m_buffer[q] /\ m_buffer'[q] = m_buffer[p]
        /\ \A r \in exist : r # p /\ r # q => m_buffer'[r] = m_buffer[r]
    BY DEF PointersInv, PointersOK, LocalAssign
  <2>3. /\ exist' = exist /\ p \in exist /\ q \in exist /\ m_allocator' = m_allocator
        /\ memory' = memory /\ replaced' = replaced /\ objects' = objects /\ type' = type
    BY DEF LocalAssign, Exists
  <2>4. HeldAlive /\ p \notin Owning /\ q \notin Owning
    BY <1>2, <1>3, PointersAssumption DEF PointersInv
  <2> QED BY <2>1, <2>2, <2>3, <2>4 DEF HeldAlive
<1>4. ASSUME ~ misused' PROVE OneHolder'
  BY <1>2, <1>4, PointersAssumption DEF PointersInv, PointersOK, HeldAlive, OneHolder, LocalAssign, Exists
<1>5. ASSUME ~ misused' PROVE AliveHeld'
  BY <1>2, <1>5, PointersAssumption DEF PointersInv, PointersOK, HeldAlive, OneHolder, AliveHeld, LocalAssign, Exists
<1> QED BY <1>1, <1>2, <1>3, <1>4, <1>5 DEF PointersInv

LEMMA PointersNextInv == PointersInv /\ [PointersNext]_pointerVars => PointersInv'
<1> SUFFICES ASSUME PointersInv, [PointersNext]_pointerVars PROVE PointersInv'
  OBVIOUS
<1>1. CASE UNCHANGED pointerVars
  BY <1>1 DEF pointerVars, PointersInv, PointersOK, HeldAlive, OneHolder, AliveHeld
<1>2. ASSUME NEW p \in Owning,
             \/ OwningClear(p) \/ OwningDestroy(p)
             \/ \E T \in Class : OwningEmpty(p, T)
             \/ \E o \in Object, allocator \in Allocator :
                  makeOwningPtr(p, o, allocator) \/ makeOwningPtrThrows(p, o, allocator)
             \/ \E q \in Owning :
                  \/ OwningMove(p, q) \/ OwningAssign(p, q)
                  \/ \E T \in Class : OwningConvert(p, q, T)
      PROVE  PointersInv'
  BY <1>2, OwningEmptyInv, OwningClearInv, MakeInv, MakeThrowsInv, OwningMoveInv, OwningConvertInv, OwningAssignInv
<1>3. ASSUME NEW p \in Local,
             \/ LocalDestroy(p)
             \/ \E o \in Object \cup {null} : LocalCreate(p, o) \/ emplace(p, o)
             \/ \E q \in Local : LocalMove(p, q) \/ LocalAssign(p, q)
      PROVE  PointersInv'
  BY <1>3, LocalReplaceInv, LocalCreateInv, LocalMoveInv, LocalAssignInv
<1> QED BY <1>1, <1>2, <1>3 DEF PointersNext

\* The one holder of an object is what the count of its holders comes to.
LEMMA HoldersCounted ==
    ASSUME PointersInv, ~ misused, NEW o \in Object
    PROVE  Cardinality(Holders(o)) =
               IF objects[o] = "alive" /\ o \notin replaced THEN 1 ELSE 0
<1>1. /\ HeldAlive /\ OneHolder /\ AliveHeld /\ o # null
      /\ \A p \in exist : m_buffer[p] # null /\ p \in Local => m_pointer[p]
  BY PointersAssumption DEF PointersInv, HeldAlive
<1>2. \A p : p \in Holders(o) <=> p \in exist /\ m_buffer[p] = o
  BY <1>1 DEF Holders
<1>3. CASE objects[o] = "alive" /\ o \notin replaced
  <2>1. PICK p \in exist : m_buffer[p] = o
    BY <1>1, <1>3 DEF AliveHeld
  <2>2. Holders(o) = {p}
    BY <1>1, <1>2, <2>1 DEF OneHolder
  <2> QED BY <1>3, <2>2, FS_Singleton
<1>4. CASE ~ (objects[o] = "alive" /\ o \notin replaced)
  <2>1. Holders(o) = {}
    BY <1>1, <1>2, <1>4 DEF HeldAlive
  <2> QED BY <1>4, <2>1, FS_EmptySet
<1> QED BY <1>3, <1>4

\* OwningPtr and LocalPtr: however many pointers, objects, allocators and classes
\* there are, wherever the bases of a class lie and whichever destructors are
\* virtual, until one of the uses that end badly happens an object has one holder
\* while it is alive, unless a pointer that owned it has been assigned to, its
\* memory goes back once, with the address and to the allocator it came from, and
\* all of it has been destroyed before, but for the object in a pointer that is
\* assigned to, which is alive for ever.
THEOREM DestroyedOnceCorrect == PointersSpec => []DestroyedOnce
<1>1. PointersInv => DestroyedOnce
  <2> SUFFICES ASSUME PointersInv, ~ misused
               PROVE  /\ ~ corrupted
                      /\ \A o \in Object :
                           /\ Cardinality(Holders(o)) =
                                  IF objects[o] = "alive" /\ o \notin replaced THEN 1 ELSE 0
                           /\ memory[o] \in Allocator => objects[o] \in {"alive", "thrown"}
                           /\ memory[o] = "freed" => (objects[o] = "dead" \/ o \in replaced)
                           /\ o \in replaced => memory[o] = "freed" /\ objects[o] = "alive"
    BY DEF DestroyedOnce
  <2> QED BY HoldersCounted DEF PointersInv, AliveHeld
<1> QED BY <1>1, PointersInitInv, PointersNextInv, PTL DEF PointersSpec

(***************************************************************************)
(* Profiler. The labels form a tree: the ids in the chain of a key are     *)
(* those of the keys above it, each of which has the front of that chain   *)
(* as its own. A key is therefore found again from its path of names, and  *)
(* a new one, below the newest of the running timers, cannot have the path *)
(* of one that is known.                                                   *)
(***************************************************************************)
KeySet == Seq(Nat) \X Timed
LabelSet == [id : Nat, indent : Int, order : Nat]
TimerSet == [key : KeySet, isRegion : BOOLEAN]

Label(L, id) == CHOOSE k \in DOMAIN L : L[k].id = id
Path(L, k) == [n \in DOMAIN k[1] |-> Label(L, k[1][n])[2]] \o <<k[2]>>

Labelled(L) ==
    /\ L \in [DOMAIN L -> LabelSet]
    /\ DOMAIN L \subseteq KeySet /\ IsFiniteSet(DOMAIN L)

\* Key p is the one above the n-th name of key k.
Above(L, p, k, n) ==
    /\ p \in DOMAIN L /\ L[p].id = k[1][n] /\ Len(p[1]) = n - 1
    /\ \A m \in 1 .. n - 1 : p[1][m] = k[1][m]

Tree(L) ==
    /\ Labelled(L)
    /\ \A k, l \in DOMAIN L : L[k].id = L[l].id => k = l
    /\ \A k \in DOMAIN L : L[k].id <= Cardinality(DOMAIN L)
    /\ \A k \in DOMAIN L : \A n \in 1 .. Len(k[1]) : \E p \in DOMAIN L : Above(L, p, k, n)

PathsDiffer(L) == \A k, l \in DOMAIN L : Path(L, k) = Path(L, l) => k = l

Aligned ==
    /\ Labelled(m_labels)
    /\ m_idChain \in Seq(Nat) /\ timers \in Seq(TimerSet)
    /\ m_orderGuard \in Nat /\ m_currentIndent \in Int
    /\ Len(m_idChain) = Len(timers) /\ m_currentIndent = Len(timers) - 1

\* The running timers are a path through the tree.
OnPath ==
    \A n \in 1 .. Len(timers) :
        /\ timers[n].key \in DOMAIN m_labels
        /\ m_labels[timers[n].key].id = m_idChain[n]
        /\ Len(timers[n].key[1]) = n - 1
        /\ \A m \in 1 .. n - 1 : timers[n].key[1][m] = m_idChain[m]

Printed ==
    /\ \A k \in DOMAIN m_labels : m_labels[k].indent \in {Unmeasured, Len(k[1])}
    /\ \A k \in DOMAIN m_labels : m_labels[k].order < m_orderGuard
    /\ \A m, n \in 1 .. Len(timers) :
          m < n => m_labels[timers[m].key].order < m_labels[timers[n].key].order

ProfilerInv ==
    /\ Aligned
    /\ nested => /\ Tree(m_labels) /\ PathsDiffer(m_labels) /\ OnPath /\ Printed
                 /\ paths = {Path(m_labels, k) : k \in DOMAIN m_labels}

----------------------------------------------------------------------------
\* A finite set of positions has a largest one.
LEMMA Largest ==
    ASSUME NEW N \in Nat, NEW S, S \subseteq 1 .. N, S # {}
    PROVE  Max(S) \in S /\ \A n \in S : n <= Max(S)
<1> DEFINE Less == {ss \in Nat \X Nat : ss[1] < ss[2]}
           T == {N - n : n \in S}
<1>1. IsWellFoundedOn(Less, Nat)
  BY NatLessThanWellFounded DEF OpToRel
<1>2. T \subseteq Nat /\ T # {}
  <2>1. PICK i \in S : TRUE
    OBVIOUS
  <2>2. N - i \in T
    OBVIOUS
  <2>3. \A n \in S : N - n \in Nat
    OBVIOUS
  <2> QED BY <2>2, <2>3
<1>3. ASSUME NEW a \in Nat, NEW b \in Nat, a < b PROVE <<a, b>> \in Less
  <2> DEFINE c == <<a, b>>
  <2>1. c \in Nat \X Nat /\ c[1] < c[2]
    BY <1>3
  <2> HIDE DEF c
  <2>2. c \in Less
    BY <2>1
  <2> QED BY <2>2 DEF c
<1> HIDE DEF Less, T
<1>4. PICK x \in T : \A y \in T : ~ (<<y, x>> \in Less)
  BY <1>1, <1>2, WFMin
<1>5. PICK m \in S : x = N - m
  BY DEF T
<1>6. \A n \in S : m >= n
  <2> SUFFICES ASSUME NEW n \in S PROVE m >= n
    OBVIOUS
  <2>1. N - n \in T /\ x \in Nat /\ N - n \in Nat
    BY <1>2 DEF T
  <2>2. ~ (N - n < x)
    BY <1>3, <1>4, <2>1
  <2> QED BY <1>5, <2>2
<1>7. Max(S) \in S /\ \A n \in S : Max(S) >= n
  BY <1>6 DEF Max
<1> QED BY <1>7

\* A key is the one of its id.
LEMMA LabelFound ==
    ASSUME NEW L, Tree(L), NEW p \in DOMAIN L
    PROVE  Label(L, L[p].id) = p
BY DEF Tree, Label

\* A path has the names of the keys above, and then the key's own.
LEMMA PathNames ==
    ASSUME NEW L, Tree(L), NEW k \in DOMAIN L
    PROVE  /\ k[1] \in Seq(Nat) /\ k[2] \in Timed /\ k = <<k[1], k[2]>>
           /\ Len(k[1]) \in Nat
           /\ Path(L, k) \in Seq(Timed) /\ Len(Path(L, k)) = Len(k[1]) + 1
           /\ Path(L, k)[Len(k[1]) + 1] = k[2]
           /\ \A n \in 1 .. Len(k[1]) : \A p \in DOMAIN L :
                 L[p].id = k[1][n] => Path(L, k)[n] = p[2]
<1> DEFINE N == Len(k[1])
           s == [n \in 1 .. N |-> Label(L, k[1][n])[2]]
<1>1. k[1] \in Seq(Nat) /\ k[2] \in Timed /\ k = <<k[1], k[2]>> /\ N \in Nat
  BY DEF Tree, Labelled, KeySet
<1>2. \A n \in 1 .. N : \A p \in DOMAIN L : L[p].id = k[1][n] => Label(L, k[1][n]) = p
  BY LabelFound
<1>3. \A n \in 1 .. N : Label(L, k[1][n])[2] \in Timed
  <2> SUFFICES ASSUME NEW n \in 1 .. N PROVE Label(L, k[1][n])[2] \in Timed
    OBVIOUS
  <2>1. PICK p \in DOMAIN L : Above(L, p, k, n)
    BY DEF Tree
  <2>2. Label(L, k[1][n]) = p
    BY <1>2, <2>1 DEF Above
  <2> QED BY <2>2 DEF Tree, Labelled, KeySet
<1>4. s \in Seq(Timed) /\ Len(s) = N /\ \A n \in 1 .. N : s[n] = Label(L, k[1][n])[2]
  <2>1. s \in [1 .. N -> Timed]
    BY <1>3
  <2> QED BY <1>1, <2>1
<1>5. Path(L, k) = s \o <<k[2]>>
  BY <1>1 DEF Path
<1> HIDE DEF s, N
<1>6. <<k[2]>> \in Seq(Timed) /\ Len(<<k[2]>>) = 1 /\ <<k[2]>>[1] = k[2]
  BY <1>1
<1>7. /\ Path(L, k) \in Seq(Timed) /\ Len(Path(L, k)) = N + 1
      /\ \A n \in 1 .. N + 1 : Path(L, k)[n] = IF n <= N THEN s[n] ELSE <<k[2]>>[n - N]
  BY <1>4, <1>5, <1>6, ConcatProperties
<1>8. Path(L, k)[N + 1] = k[2]
  BY <1>1, <1>6, <1>7
<1>9. \A n \in 1 .. N : Path(L, k)[n] = Label(L, k[1][n])[2]
  BY <1>1, <1>4, <1>7
<1> QED BY <1>1, <1>2, <1>7, <1>8, <1>9 DEF N

\* One of these names.
LEMMA PathName ==
    ASSUME NEW L, Tree(L), NEW k \in DOMAIN L, NEW n \in 1 .. Len(k[1]),
           NEW p \in DOMAIN L, L[p].id = k[1][n]
    PROVE  Path(L, k)[n] = p[2]
<1>1. \A m \in 1 .. Len(k[1]) : \A q \in DOMAIN L : L[q].id = k[1][m] => Path(L, k)[m] = q[2]
  BY PathNames
<1> QED BY <1>1

\* Labels that are added or measured do not change the paths of others.
LEMMA PathKept ==
    ASSUME NEW L, Tree(L), NEW M, Tree(M), DOMAIN L \subseteq DOMAIN M,
           \A k \in DOMAIN L : M[k].id = L[k].id, NEW k \in DOMAIN L
    PROVE  Path(M, k) = Path(L, k)
<1>1. \A n \in 1 .. Len(k[1]) : Path(M, k)[n] = Path(L, k)[n]
  <2> SUFFICES ASSUME NEW n \in 1 .. Len(k[1]) PROVE Path(M, k)[n] = Path(L, k)[n]
    OBVIOUS
  <2>1. PICK p \in DOMAIN L : L[p].id = k[1][n]
    BY DEF Tree, Above
  <2>2. p \in DOMAIN M /\ M[p].id = k[1][n] /\ k \in DOMAIN M
    BY <2>1
  <2> QED BY <2>1, <2>2, PathNames
<1>2. \A n \in 1 .. Len(k[1]) + 1 : Path(M, k)[n] = Path(L, k)[n]
  BY <1>1, PathNames
<1>3. /\ Path(L, k) \in Seq(Timed) /\ Path(M, k) \in Seq(Timed)
      /\ Len(Path(L, k)) = Len(k[1]) + 1 /\ Len(Path(M, k)) = Len(k[1]) + 1
  BY PathNames
<1> QED BY <1>2, <1>3, SeqEqual

\* Two keys with the same path are below the same key: if the paths above
\* tell their keys apart, so do the paths of the two.
LEMMA PathTold ==
    ASSUME NEW L, Tree(L), NEW k \in DOMAIN L, NEW l \in DOMAIN L, Path(L, k) = Path(L, l),
           NEW D \in SUBSET DOMAIN L, \A p, q \in D : Path(L, p) = Path(L, q) => p = q,
           \A n \in 1 .. Len(k[1]) : \E p \in D : Above(L, p, k, n),
           \A n \in 1 .. Len(l[1]) : \E p \in D : Above(L, p, l, n)
    PROVE  k = l
<1> DEFINE N == Len(k[1])
<1>1. /\ N \in Nat /\ Len(l[1]) = N /\ k[2] = l[2]
      /\ k[1] \in Seq(Nat) /\ l[1] \in Seq(Nat) /\ k = <<k[1], k[2]>> /\ l = <<l[1], l[2]>>
  <2>1. Len(Path(L, k)) = N + 1 /\ Len(Path(L, l)) = Len(l[1]) + 1 /\ N \in Nat /\ Len(l[1]) \in Nat
        /\ Path(L, k)[N + 1] = k[2] /\ Path(L, l)[Len(l[1]) + 1] = l[2]
        /\ k[1] \in Seq(Nat) /\ l[1] \in Seq(Nat) /\ k = <<k[1], k[2]>> /\ l = <<l[1], l[2]>>
    BY PathNames
  <2>2. Len(l[1]) = N
    BY <2>1
  <2> QED BY <2>1, <2>2
<1>2. CASE N = 0
  BY <1>1, <1>2, SeqEqual
<1>3. CASE N # 0
  <2>1. N \in 1 .. N /\ N \in 1 .. Len(l[1])
    BY <1>1, <1>3
  <2>2. PICK p \in D : Above(L, p, k, N)
    BY <2>1
  <2>3. PICK q \in D : Above(L, q, l, N)
    BY <2>1
  <2>4. /\ p \in DOMAIN L /\ q \in DOMAIN L /\ Len(p[1]) = N - 1 /\ Len(q[1]) = N - 1
        /\ L[p].id = k[1][N] /\ L[q].id = l[1][N]
    BY <2>2, <2>3 DEF Above
  <2>5. \A m \in 1 .. N - 1 : p[1][m] = k[1][m] /\ q[1][m] = l[1][m]
    BY <2>2, <2>3 DEF Above
  <2>6. ASSUME NEW m \in 1 .. N - 1 PROVE Path(L, p)[m] = Path(L, q)[m]
    <3>1. m \in 1 .. N /\ m \in 1 .. Len(l[1]) /\ m \in 1 .. Len(p[1]) /\ m \in 1 .. Len(q[1])
      BY <1>1, <2>4
    <3>2. PICK r \in DOMAIN L : L[r].id = k[1][m]
      BY <3>1 DEF Above
    <3>3. PICK t \in DOMAIN L : L[t].id = l[1][m]
      BY <3>1 DEF Above
    <3>4. L[r].id = p[1][m] /\ L[t].id = q[1][m]
      BY <2>4, <2>5, <3>2, <3>3
    <3>5. Path(L, k)[m] = r[2]
      BY <3>1, <3>2, PathName
    <3>6. Path(L, l)[m] = t[2]
      BY <3>1, <3>3, PathName
    <3>7. Path(L, p)[m] = r[2]
      BY <2>4, <3>1, <3>4, PathName
    <3>8. Path(L, q)[m] = t[2]
      BY <2>4, <3>1, <3>4, PathName
    <3> QED BY <3>5, <3>6, <3>7, <3>8
  <2>7. Path(L, p)[N] = Path(L, q)[N]
    <3>1. Path(L, k)[N] = p[2] /\ Path(L, l)[N] = q[2]
      BY <2>1, <2>4, PathName
    <3>2. Path(L, p)[N - 1 + 1] = p[2]
      BY <2>4, PathNames
    <3>3. Path(L, q)[N - 1 + 1] = q[2]
      BY <2>4, PathNames
    <3> QED BY <1>1, <3>1, <3>2, <3>3
  <2>8. Path(L, p) = Path(L, q)
    <3>1. /\ Path(L, p) \in Seq(Timed) /\ Path(L, q) \in Seq(Timed)
          /\ Len(Path(L, p)) = N /\ Len(Path(L, q)) = N
      BY <1>1, <2>4, PathNames
    <3>2. \A m \in 1 .. N : Path(L, p)[m] = Path(L, q)[m]
      BY <1>1, <2>6, <2>7
    <3> QED BY <3>1, <3>2, SeqEqual
  <2>9. p = q
    BY <2>8
  <2>10. \A m \in 1 .. N : k[1][m] = l[1][m]
    <3> SUFFICES ASSUME NEW m \in 1 .. N PROVE k[1][m] = l[1][m]
      OBVIOUS
    <3>1. CASE m = N
      BY <2>4, <2>9, <3>1
    <3>2. CASE m # N
      <4>1. m \in 1 .. N - 1
        BY <1>1, <3>2
      <4> QED BY <2>5, <2>9, <4>1
    <3> QED BY <3>1, <3>2
  <2>11. k[1] = l[1]
    BY <1>1, <2>10, SeqEqual
  <2> QED BY <1>1, <2>11
<1> QED BY <1>2, <1>3
\* A tree grows where its new key is below a chain of known ones, and the new
\* label gets the next id.
LEMMA TreeGrows ==
    ASSUME NEW L, Tree(L), NEW k \in KeySet,
           \A n \in 1 .. Len(k[1]) : \E p \in DOMAIN L : Above(L, p, k, n),
           NEW M, Labelled(M), DOMAIN M = DOMAIN L \cup {k},
           \A l \in DOMAIN L : M[l].id = L[l].id,
           k \in DOMAIN L \/ M[k].id = Cardinality(DOMAIN L) + 1
    PROVE  /\ Tree(M) /\ (PathsDiffer(L) => PathsDiffer(M))
           /\ \A l \in DOMAIN L : Path(M, l) = Path(L, l)
<1>1. \A l \in DOMAIN M : \A n \in 1 .. Len(l[1]) : \E p \in DOMAIN L : Above(M, p, l, n)
  <2> SUFFICES ASSUME NEW l \in DOMAIN M, NEW n \in 1 .. Len(l[1])
               PROVE  \E p \in DOMAIN L : Above(M, p, l, n)
    OBVIOUS
  <2>1. PICK p \in DOMAIN L : Above(L, p, l, n)
    BY DEF Tree
  <2>2. Above(M, p, l, n)
    BY <2>1 DEF Above
  <2> QED BY <2>2
<1>2. /\ \A l \in DOMAIN L : L[l].id \in Nat /\ L[l].id <= Cardinality(DOMAIN L)
      /\ IsFiniteSet(DOMAIN L) /\ Cardinality(DOMAIN L) \in Nat
  BY FS_CardinalityType DEF Tree, Labelled, LabelSet
<1>3. Tree(M)
  <2>1. \A l \in DOMAIN M : M[l].id <= Cardinality(DOMAIN M)
    <3>1. CASE k \in DOMAIN L
      <4>1. DOMAIN M = DOMAIN L
        BY <3>1
      <4> QED BY <1>2, <4>1
    <3>2. CASE k \notin DOMAIN L
      <4>1. Cardinality(DOMAIN M) = Cardinality(DOMAIN L) + 1
        BY <1>2, <3>2, FS_AddElement
      <4> QED BY <1>2, <3>2, <4>1
    <3> QED BY <3>1, <3>2
  <2>2. \A l, m \in DOMAIN M : M[l].id = M[m].id => l = m
    BY <1>2 DEF Tree
  <2>3. \A l \in DOMAIN M : \A n \in 1 .. Len(l[1]) : \E p \in DOMAIN M : Above(M, p, l, n)
    BY <1>1
  <2> QED BY <2>1, <2>2, <2>3 DEF Tree
<1>4. \A l \in DOMAIN L : Path(M, l) = Path(L, l)
  BY <1>3, PathKept
<1>5. ASSUME PathsDiffer(L) PROVE PathsDiffer(M)
  <2>1. \A p, q \in DOMAIN L : Path(M, p) = Path(M, q) => p = q
    BY <1>4, <1>5 DEF PathsDiffer
  <2> SUFFICES ASSUME NEW l \in DOMAIN M, NEW m \in DOMAIN M, Path(M, l) = Path(M, m)
               PROVE  l = m
    BY DEF PathsDiffer
  <2>2. DOMAIN L \in SUBSET DOMAIN M
    OBVIOUS
  <2> QED BY <1>1, <1>3, <2>1, <2>2, PathTold
<1> QED BY <1>3, <1>4, <1>5

\* A timer of the running ones is above every name that is timed below them.
LEMMA OnPathAbove ==
    ASSUME Aligned, OnPath, NEW k, k[1] = m_idChain, NEW n \in 1 .. Len(k[1])
    PROVE  Above(m_labels, timers[n].key, k, n)
BY DEF Aligned, OnPath, Above

\* A timer is started.
LEMMA StartInv ==
    ASSUME ProfilerInv, NEW name \in Timed, NEW region \in BOOLEAN, Start(name, region)
    PROVE  ProfilerInv'
<1> DEFINE K == <<m_idChain, name>>
           L == m_labels
           label == [id |-> IF K \in DOMAIN L THEN L[K].id ELSE Cardinality(DOMAIN L) + 1,
                     indent |-> IF K \in DOMAIN L THEN L[K].indent ELSE -1,
                     order |-> m_orderGuard]
           timer == [key |-> K, isRegion |-> region]
<1>1. /\ m_labels' = [k \in DOMAIN L \cup {K} |-> IF k = K THEN label ELSE L[k]]
      /\ m_idChain' = Append(m_idChain, label.id) /\ timers' = Append(timers, timer)
      /\ m_orderGuard' = m_orderGuard + 1 /\ m_currentIndent' = m_currentIndent + 1
      /\ paths' = paths \cup {Names(timers')} /\ nested' = nested
  BY DEF Start, key, newId, Unmeasured
<1>2. /\ K \in KeySet /\ K[1] = m_idChain /\ K[2] = name
      /\ Cardinality(DOMAIN L) \in Nat /\ IsFiniteSet(DOMAIN L)
      /\ Len(m_idChain) = Len(timers) /\ Len(timers) \in Nat
      /\ m_idChain \in Seq(Nat) /\ timers \in Seq(TimerSet)
      /\ m_orderGuard \in Nat
  BY FS_CardinalityType DEF ProfilerInv, Aligned, Labelled, KeySet
<1>3. label \in LabelSet /\ timer \in TimerSet
  BY <1>2 DEF ProfilerInv, Aligned, Labelled, LabelSet, TimerSet
<1>4. /\ timers' \in Seq(TimerSet) /\ Len(timers') = Len(timers) + 1
      /\ timers'[Len(timers) + 1].key = K
      /\ \A n \in 1 .. Len(timers) : timers'[n] = timers[n]
  <2>1. timers'[Len(timers) + 1] = timer
    BY <1>1, <1>2, <1>3, AppendProperties
  <2> QED BY <1>1, <1>2, <1>3, <2>1, AppendProperties
<1>5. /\ m_idChain' \in Seq(Nat) /\ Len(m_idChain') = Len(timers) + 1
      /\ m_idChain'[Len(timers) + 1] = label.id
      /\ \A n \in 1 .. Len(timers) : m_idChain'[n] = m_idChain[n]
  <2>1. label.id \in Nat
    BY <1>3 DEF LabelSet
  <2> QED BY <1>1, <1>2, <2>1, AppendProperties
<1>6. /\ DOMAIN m_labels' = DOMAIN L \cup {K} /\ m_labels'[K] = label
      /\ \A k \in DOMAIN L : k # K => m_labels'[k] = L[k]
      /\ \A k \in DOMAIN L : m_labels'[k].id = L[k].id /\ m_labels'[k].indent = L[k].indent
  BY <1>1
<1>7. Labelled(m_labels')
  <2>1. \A k \in DOMAIN m_labels' : m_labels'[k] \in LabelSet
    BY <1>3, <1>6 DEF ProfilerInv, Aligned, Labelled
  <2>2. m_labels' = [k \in DOMAIN m_labels' |-> m_labels'[k]]
    BY <1>1, <1>6
  <2>3. DOMAIN m_labels' \subseteq KeySet /\ IsFiniteSet(DOMAIN m_labels')
    <3>1. DOMAIN L \subseteq KeySet
      BY DEF ProfilerInv, Aligned, Labelled
    <3> HIDE DEF K
    <3>2. IsFiniteSet(DOMAIN L \cup {K})
      BY <1>2, FS_AddElement
    <3> QED BY <1>2, <1>6, <3>1, <3>2
  <2> QED BY <2>1, <2>2, <2>3 DEF Labelled
<1>8. /\ m_labels'[K].id = label.id /\ m_labels'[K].order = m_orderGuard
      /\ m_labels'[K].indent \in {Unmeasured, Len(K[1])} \/ K \in DOMAIN L
      /\ K \notin DOMAIN L => m_labels'[K].id = Cardinality(DOMAIN L) + 1
  BY <1>6 DEF Unmeasured
<1> HIDE DEF label, timer, K
<1>9. Aligned'
  BY <1>1, <1>2, <1>4, <1>5, <1>7 DEF ProfilerInv, Aligned
<1>10. ASSUME nested
      PROVE  /\ Tree(m_labels') /\ PathsDiffer(m_labels') /\ OnPath' /\ Printed'
             /\ paths' = {Path(m_labels', k) : k \in DOMAIN m_labels'}
  <2>1. /\ Tree(L) /\ PathsDiffer(L) /\ OnPath /\ Printed /\ Aligned
        /\ paths = {Path(L, k) : k \in DOMAIN L}
    BY <1>10 DEF ProfilerInv
  <2>2. \A n \in 1 .. Len(K[1]) : \E p \in DOMAIN L : Above(L, p, K, n)
    <3> SUFFICES ASSUME NEW n \in 1 .. Len(K[1]) PROVE \E p \in DOMAIN L : Above(L, p, K, n)
      OBVIOUS
    <3>1. Above(L, timers[n].key, K, n)
      BY <1>2, <2>1, OnPathAbove
    <3> QED BY <3>1 DEF Above
  <2>3. PICK M : M = m_labels'
    OBVIOUS
  <2>4. K \in DOMAIN L \/ M[K].id = Cardinality(DOMAIN L) + 1
    BY <1>8, <2>3
  <2>5. Tree(M) /\ PathsDiffer(M) /\ \A l \in DOMAIN L : Path(M, l) = Path(L, l)
    <3>1. Labelled(M) /\ DOMAIN M = DOMAIN L \cup {K} /\ \A l \in DOMAIN L : M[l].id = L[l].id
      BY <1>6, <1>7, <2>3
    <3> HIDE DEF L
    <3> QED BY <1>2, <2>1, <2>2, <2>4, <3>1, TreeGrows
  <2>6. OnPath'
    <3> SUFFICES ASSUME NEW n \in 1 .. Len(timers')
                 PROVE  /\ timers'[n].key \in DOMAIN m_labels'
                        /\ m_labels'[timers'[n].key].id = m_idChain'[n]
                        /\ Len(timers'[n].key[1]) = n - 1
                        /\ \A m \in 1 .. n - 1 : timers'[n].key[1][m] = m_idChain'[m]
      BY DEF OnPath
    <3>1. CASE n = Len(timers) + 1
      <4>1. timers'[n].key = K /\ m_idChain'[n] = label.id
        BY <1>4, <1>5, <3>1
      <4>2. m_labels'[timers'[n].key].id = m_idChain'[n] /\ K \in DOMAIN m_labels'
        BY <1>6, <1>8, <4>1
      <4>3. n - 1 = Len(timers) /\ Len(K[1]) = Len(timers) /\ K[1] = m_idChain
        BY <1>2, <3>1
      <4>4. \A m \in 1 .. n - 1 : K[1][m] = m_idChain'[m]
        BY <1>5, <4>3
      <4> QED BY <4>1, <4>2, <4>3, <4>4
    <3>2. CASE n # Len(timers) + 1
      <4>1. n \in 1 .. Len(timers) /\ \A m \in 1 .. n - 1 : m \in 1 .. Len(timers)
        BY <1>2, <1>4, <3>2
      <4>2. timers'[n] = timers[n] /\ m_idChain'[n] = m_idChain[n]
            /\ \A m \in 1 .. n - 1 : m_idChain'[m] = m_idChain[m]
        BY <1>4, <1>5, <4>1
      <4>3. /\ timers[n].key \in DOMAIN L /\ L[timers[n].key].id = m_idChain[n]
            /\ Len(timers[n].key[1]) = n - 1
            /\ \A m \in 1 .. n - 1 : timers[n].key[1][m] = m_idChain[m]
        BY <2>1, <4>1 DEF OnPath
      <4> QED BY <1>6, <4>2, <4>3
    <3> QED BY <3>1, <3>2
  <2>7. Path(M, K) = Names(timers')
    <3>1. /\ Path(M, K) \in Seq(Timed) /\ Len(Path(M, K)) = Len(timers) + 1
          /\ Path(M, K)[Len(timers) + 1] = name /\ K \in DOMAIN M
      BY <1>2, <1>6, <2>3, <2>5, PathNames
    <3>2. ASSUME NEW n \in 1 .. Len(timers) PROVE Path(M, K)[n] = timers'[n].key[2]
      <4>1. timers[n].key \in DOMAIN M /\ M[timers[n].key].id = K[1][n] /\ n \in 1 .. Len(K[1])
        BY <1>2, <1>6, <2>1, <2>3 DEF OnPath
      <4>2. Path(M, K)[n] = timers[n].key[2]
        BY <2>5, <3>1, <4>1, PathName
      <4> QED BY <1>4, <4>2
    <3>3. ASSUME NEW n \in 1 .. Len(timers) + 1 PROVE Path(M, K)[n] = timers'[n].key[2]
      <4>1. CASE n = Len(timers) + 1
        BY <1>2, <1>4, <3>1, <4>1
      <4>2. CASE n # Len(timers) + 1
        <5>1. n \in 1 .. Len(timers)
          BY <1>2, <4>2
        <5> QED BY <3>2, <5>1
      <4> QED BY <4>1, <4>2
    <3>4. Path(M, K) = [n \in 1 .. Len(timers) + 1 |-> Path(M, K)[n]]
      BY <3>1
    <3>5. DOMAIN timers' = 1 .. Len(timers) + 1
      BY <1>4
    <3> QED BY <3>3, <3>4, <3>5 DEF Names
  <2>8. paths' = {Path(M, k) : k \in DOMAIN M}
    <3>1. paths' = {Path(L, k) : k \in DOMAIN L} \cup {Path(M, K)}
      BY <1>1, <2>1, <2>7
    <3>2. DOMAIN M = DOMAIN L \cup {K}
      BY <1>6, <2>3
    <3>3. \A k \in DOMAIN L : Path(M, k) = Path(L, k)
      BY <2>5
    <3>4. {Path(L, k) : k \in DOMAIN L} = {Path(M, k) : k \in DOMAIN L}
      BY <3>3
    <3> QED BY <3>1, <3>2, <3>4
  <2>9. Printed'
    <3>1. \A k \in DOMAIN m_labels' : m_labels'[k].indent \in {Unmeasured, Len(k[1])}
      BY <1>6, <1>8, <2>1 DEF Printed
    <3>2. \A k \in DOMAIN m_labels' : m_labels'[k].order < m_orderGuard'
      <4> SUFFICES ASSUME NEW k \in DOMAIN m_labels' PROVE m_labels'[k].order < m_orderGuard + 1
        BY <1>1
      <4>1. m_labels'[k].order <= m_orderGuard /\ m_labels'[k].order \in Nat
        <5>1. m_labels'[k].order \in Nat
          BY <1>7 DEF Labelled, LabelSet
        <5>2. CASE k = K
          BY <1>2, <1>8, <5>2
        <5>3. CASE k # K
          <6>1. m_labels'[k] = L[k] /\ L[k].order < m_orderGuard
            BY <1>6, <2>1, <5>3 DEF Printed
          <6> QED BY <1>2, <5>1, <6>1
        <5> QED BY <5>2, <5>3
      <4> QED BY <1>2, <4>1
    <3>3. ASSUME NEW m \in 1 .. Len(timers'), NEW n \in 1 .. Len(timers'), m < n
          PROVE  m_labels'[timers'[m].key].order < m_labels'[timers'[n].key].order
      <4>1. m \in 1 .. Len(timers)
        BY <1>2, <1>4, <3>3
      <4>2. ASSUME NEW i \in 1 .. Len(timers)
            PROVE  /\ timers'[i].key = timers[i].key /\ timers[i].key \in DOMAIN L
                   /\ m_labels'[timers'[i].key].order = L[timers[i].key].order
                   /\ L[timers[i].key].order < m_orderGuard
        <5>1. timers[i].key # K
          <6>1. Len(timers[i].key[1]) = i - 1
            BY <2>1 DEF OnPath
          <6> QED BY <1>2, <6>1
        <5> QED BY <1>4, <1>6, <2>1, <5>1 DEF OnPath, Printed
      <4>3. CASE n = Len(timers) + 1
        <5>1. m_labels'[timers'[n].key].order = m_orderGuard
          BY <1>4, <1>8, <4>3
        <5> QED BY <4>1, <4>2, <5>1
      <4>4. CASE n # Len(timers) + 1
        <5>1. n \in 1 .. Len(timers)
          BY <1>2, <1>4, <4>4
        <5> QED BY <2>1, <3>3, <4>1, <4>2, <5>1 DEF Printed
      <4> QED BY <4>3, <4>4
    <3> QED BY <3>1, <3>2, <3>3 DEF Printed
  <2> QED BY <2>3, <2>5, <2>6, <2>8, <2>9
<1> QED BY <1>1, <1>9, <1>10 DEF ProfilerInv
\* A timer ends. If it is not the newest, nothing is claimed of the labels.
LEMMA EndInv == ASSUME ProfilerInv, NEW region \in BOOLEAN, End(region) PROVE ProfilerInv'
<1> DEFINE ending == {n \in DOMAIN timers : timers[n].isRegion = region}
           last == Max(ending)
           N == Len(timers)
           L == m_labels
           k == timers[last].key
<1>1. /\ ending # {} /\ timers' = RemoveAt(timers, last)
      /\ m_labels' = [m_labels EXCEPT ![k].indent = m_currentIndent]
      /\ nested' = (nested /\ last = N)
      /\ m_currentIndent' = m_currentIndent - 1 /\ m_idChain' = Front(m_idChain)
      /\ m_orderGuard' = m_orderGuard /\ paths' = paths
  BY DEF End
<1>2. /\ Labelled(L) /\ N \in Nat /\ Len(m_idChain) = N /\ m_currentIndent = N - 1
      /\ m_idChain \in Seq(Nat) /\ timers \in Seq(TimerSet) /\ DOMAIN timers = 1 .. N
  BY DEF ProfilerInv, Aligned
<1>3. last \in 1 .. N
  <2>1. ending \subseteq 1 .. N
    BY <1>2
  <2> HIDE DEF ending
  <2>2. last \in ending
    BY <1>1, <1>2, <2>1, Largest
  <2> QED BY <2>1, <2>2
<1> HIDE DEF last, ending, k
<1>4. /\ timers' \in Seq(TimerSet) /\ Len(timers') = N - 1
      /\ last = N => \A n \in 1 .. N - 1 : timers'[n] = timers[n]
  <2> DEFINE a == SubSeq(timers, 1, last - 1)
             b == SubSeq(timers, last + 1, N)
  <2>1. timers' = a \o b
    BY <1>1 DEF RemoveAt
  <2>2. /\ a \in Seq(TimerSet) /\ Len(a) = last - 1
        /\ \A n \in 1 .. last - 1 : a[n] = timers[n]
    <3>1. \A n \in 1 .. last - 1 : timers[n] \in TimerSet
      BY <1>2, <1>3
    <3>2. /\ a \in Seq(TimerSet) /\ Len(a) = IF 1 <= last - 1 THEN last - 1 - 1 + 1 ELSE 0
          /\ \A n \in 1 .. last - 1 - 1 + 1 : a[n] = timers[1 + n - 1]
      BY <1>3, <3>1, SubSeqProperties
    <3> HIDE DEF a
    <3> QED BY <1>3, <3>2
  <2>3. b \in Seq(TimerSet) /\ Len(b) = N - last
    <3>1. \A n \in last + 1 .. N : timers[n] \in TimerSet
      BY <1>2, <1>3
    <3>2. b \in Seq(TimerSet) /\ Len(b) = IF last + 1 <= N THEN N - (last + 1) + 1 ELSE 0
      BY <1>2, <1>3, <3>1, SubSeqProperties
    <3> HIDE DEF b
    <3> QED BY <1>2, <1>3, <3>2
  <2> HIDE DEF a, b
  <2>4. /\ a \o b \in Seq(TimerSet) /\ Len(a \o b) = Len(a) + Len(b)
        /\ \A n \in 1 .. Len(a) + Len(b) : (a \o b)[n] = IF n <= Len(a) THEN a[n] ELSE b[n - Len(a)]
    BY <2>2, <2>3, ConcatProperties
  <2>5. timers' \in Seq(TimerSet) /\ Len(timers') = N - 1
    BY <1>2, <1>3, <2>1, <2>2, <2>3, <2>4
  <2>6. ASSUME last = N, NEW n \in 1 .. N - 1 PROVE timers'[n] = timers[n]
    <3>1. n \in 1 .. Len(a) /\ n \in 1 .. Len(a) + Len(b) /\ n <= Len(a)
      BY <1>2, <2>2, <2>3, <2>6
    <3>2. timers'[n] = a[n]
      BY <2>1, <2>4, <3>1
    <3> QED BY <2>2, <3>1, <3>2
  <2> QED BY <2>5, <2>6
<1>5. /\ m_idChain' \in Seq(Nat) /\ Len(m_idChain') = N - 1
      /\ \A n \in 1 .. N - 1 : m_idChain'[n] = m_idChain[n]
  <2>1. m_idChain' = SubSeq(m_idChain, 1, N - 1)
    BY <1>1, <1>2 DEF Front
  <2>2. \A n \in 1 .. N - 1 : m_idChain[n] \in Nat
    BY <1>2
  <2>3. /\ m_idChain' \in Seq(Nat) /\ Len(m_idChain') = IF 1 <= N - 1 THEN N - 1 - 1 + 1 ELSE 0
        /\ \A n \in 1 .. N - 1 - 1 + 1 : m_idChain'[n] = m_idChain[1 + n - 1]
    BY <1>2, <2>1, <2>2, SubSeqProperties
  <2> QED BY <1>2, <1>3, <2>3
<1>6. /\ DOMAIN m_labels' = DOMAIN L
      /\ \A l \in DOMAIN L :
            /\ m_labels'[l].id = L[l].id /\ m_labels'[l].order = L[l].order
            /\ m_labels'[l].indent = IF l = k THEN m_currentIndent ELSE L[l].indent
            /\ m_labels'[l] \in LabelSet
      /\ Labelled(m_labels')
  <2>1. m_labels' = [l \in DOMAIN L |->
                        IF l = k THEN [L[l] EXCEPT !.indent = m_currentIndent] ELSE L[l]]
    BY <1>1, <1>2 DEF Labelled
  <2>2. \A l \in DOMAIN L : L[l] \in LabelSet
    BY <1>2 DEF Labelled
  <2>3. m_currentIndent \in Int
    BY <1>2
  <2>4. /\ DOMAIN m_labels' = DOMAIN L
        /\ \A l \in DOMAIN L :
              /\ m_labels'[l].id = L[l].id /\ m_labels'[l].order = L[l].order
              /\ m_labels'[l].indent = IF l = k THEN m_currentIndent ELSE L[l].indent
              /\ m_labels'[l] \in LabelSet
    <3>1. DOMAIN m_labels' = DOMAIN L
      BY <2>1
    <3> SUFFICES ASSUME NEW l \in DOMAIN L
                 PROVE  /\ m_labels'[l].id = L[l].id /\ m_labels'[l].order = L[l].order
                        /\ m_labels'[l].indent = IF l = k THEN m_currentIndent ELSE L[l].indent
                        /\ m_labels'[l] \in LabelSet
      BY <3>1
    <3>2. CASE l = k
      <4>1. m_labels'[l] = [L[l] EXCEPT !.indent = m_currentIndent] /\ L[l] \in LabelSet
        BY <2>1, <2>2, <3>2
      <4> QED BY <2>3, <3>2, <4>1 DEF LabelSet
    <3>3. CASE l # k
      <4>1. m_labels'[l] = L[l] /\ L[l] \in LabelSet
        BY <2>1, <2>2, <3>3
      <4> QED BY <3>3, <4>1
    <3> QED BY <3>2, <3>3
  <2>5. m_labels' \in [DOMAIN m_labels' -> LabelSet]
    <3>1. m_labels' = [l \in DOMAIN L |-> m_labels'[l]]
      BY <2>1
    <3> QED BY <2>4, <3>1
  <2> QED BY <1>2, <2>4, <2>5 DEF Labelled
<1>7. Aligned'
  BY <1>1, <1>2, <1>4, <1>5, <1>6 DEF ProfilerInv, Aligned
<1>8. ASSUME nested'
      PROVE  /\ Tree(m_labels') /\ PathsDiffer(m_labels') /\ OnPath' /\ Printed'
             /\ paths' = {Path(m_labels', l) : l \in DOMAIN m_labels'}
  <2>1. /\ Tree(L) /\ PathsDiffer(L) /\ OnPath /\ Printed /\ last = N
        /\ paths = {Path(L, l) : l \in DOMAIN L}
    BY <1>1, <1>8 DEF ProfilerInv
  <2>2. k \in DOMAIN L /\ Len(k[1]) = m_currentIndent
    BY <1>2, <1>3, <2>1 DEF OnPath, k
  <2>3. k \in KeySet /\ \A n \in 1 .. Len(k[1]) : \E p \in DOMAIN L : Above(L, p, k, n)
    BY <2>1, <2>2 DEF Tree, Labelled
  <2>4. PICK M : M = m_labels'
    OBVIOUS
  <2>5. Tree(M) /\ PathsDiffer(M) /\ \A l \in DOMAIN L : Path(M, l) = Path(L, l)
    <3>1. /\ Labelled(M) /\ DOMAIN M = DOMAIN L \cup {k}
          /\ \A l \in DOMAIN L : M[l].id = L[l].id
      BY <1>6, <2>2, <2>4
    <3> HIDE DEF L
    <3> QED BY <2>1, <2>2, <2>3, <3>1, TreeGrows
  <2>6. paths' = {Path(M, l) : l \in DOMAIN M}
    <3>1. DOMAIN M = DOMAIN L /\ paths' = {Path(L, l) : l \in DOMAIN L}
      BY <1>1, <1>6, <2>1, <2>4
    <3> QED BY <2>5, <3>1
  <2>7. ASSUME NEW n \in 1 .. N - 1
        PROVE  /\ n \in 1 .. N /\ timers'[n] = timers[n] /\ m_idChain'[n] = m_idChain[n]
               /\ timers[n].key \in DOMAIN L
    <3>1. n \in 1 .. N
      BY <1>2
    <3> QED BY <1>4, <1>5, <2>1, <3>1 DEF OnPath
  <2>8. OnPath'
    <3> SUFFICES ASSUME NEW n \in 1 .. N - 1
                 PROVE  /\ timers'[n].key \in DOMAIN m_labels'
                        /\ m_labels'[timers'[n].key].id = m_idChain'[n]
                        /\ Len(timers'[n].key[1]) = n - 1
                        /\ \A m \in 1 .. n - 1 : timers'[n].key[1][m] = m_idChain'[m]
      BY <1>4 DEF OnPath
    <3>1. /\ L[timers[n].key].id = m_idChain[n] /\ Len(timers[n].key[1]) = n - 1
          /\ \A m \in 1 .. n - 1 : timers[n].key[1][m] = m_idChain[m]
      BY <2>1, <2>7 DEF OnPath
    <3>2. ASSUME NEW m \in 1 .. n - 1 PROVE m_idChain'[m] = m_idChain[m]
      <4>1. m \in 1 .. N - 1
        BY <1>2
      <4> QED BY <1>5, <4>1
    <3> QED BY <1>6, <2>7, <3>1, <3>2
  <2>9. Printed'
    <3>1. \A l \in DOMAIN m_labels' : m_labels'[l].indent \in {Unmeasured, Len(l[1])}
      <4> SUFFICES ASSUME NEW l \in DOMAIN L
                   PROVE  m_labels'[l].indent \in {Unmeasured, Len(l[1])}
        BY <1>6
      <4>1. L[l].indent \in {Unmeasured, Len(l[1])}
        BY <2>1 DEF Printed
      <4>2. m_labels'[l].indent = IF l = k THEN m_currentIndent ELSE L[l].indent
        BY <1>6
      <4> QED BY <2>2, <4>1, <4>2
    <3>2. \A l \in DOMAIN m_labels' : m_labels'[l].order < m_orderGuard'
      BY <1>1, <1>6, <2>1 DEF Printed
    <3>3. ASSUME NEW m \in 1 .. Len(timers'), NEW n \in 1 .. Len(timers'), m < n
          PROVE  m_labels'[timers'[m].key].order < m_labels'[timers'[n].key].order
      <4>1. m \in 1 .. N - 1 /\ n \in 1 .. N - 1
        BY <1>4
      <4>2. L[timers[m].key].order < L[timers[n].key].order
        BY <2>1, <2>7, <3>3, <4>1 DEF Printed
      <4> QED BY <1>6, <2>7, <4>1, <4>2
    <3> QED BY <3>1, <3>2, <3>3 DEF Printed
  <2> QED BY <2>4, <2>5, <2>6, <2>8, <2>9
<1> QED BY <1>7, <1>8 DEF ProfilerInv

LEMMA ProfilerNextInv == ProfilerInv /\ [ProfilerNext]_profilerVars => ProfilerInv'
<1> SUFFICES ASSUME ProfilerInv, [ProfilerNext]_profilerVars PROVE ProfilerInv'
  OBVIOUS
<1>1. CASE \E name \in Timed : createTimer(name) \/ pushRegionTimer(name)
  BY <1>1, StartInv DEF createTimer, pushRegionTimer
<1>2. CASE destroyTimer \/ popRegionTimer
  BY <1>2, EndInv DEF destroyTimer, popRegionTimer
<1>3. CASE UNCHANGED profilerVars
  BY <1>3 DEF profilerVars, ProfilerInv, Aligned, OnPath, Printed
<1> QED BY <1>1, <1>2, <1>3 DEF ProfilerNext

LEMMA ProfilerInitInv == ProfilerInit => ProfilerInv
<1> SUFFICES ASSUME ProfilerInit PROVE ProfilerInv
  OBVIOUS
<1>1. /\ DOMAIN m_labels = {} /\ m_idChain = <<>> /\ timers = <<>> /\ paths = {}
      /\ m_currentIndent = -1 /\ m_orderGuard = 0 /\ Len(timers) = 0 /\ Len(m_idChain) = 0
      /\ m_labels = [k \in {} |-> 0]
  BY DEF ProfilerInit
<1>2. Labelled(m_labels)
  BY <1>1, FS_EmptySet DEF Labelled
<1>3. Aligned
  BY <1>1, <1>2 DEF Aligned
<1>4. Tree(m_labels) /\ PathsDiffer(m_labels)
  BY <1>1, <1>2 DEF Tree, PathsDiffer
<1>5. OnPath /\ Printed
  BY <1>1 DEF OnPath, Printed
<1>6. paths = {Path(m_labels, k) : k \in DOMAIN m_labels}
  BY <1>1
<1> QED BY <1>3, <1>4, <1>5, <1>6 DEF ProfilerInv

\* As many paths as keys.
LEMMA PathsCounted ==
    ASSUME NEW L, Labelled(L), PathsDiffer(L)
    PROVE  Cardinality(DOMAIN L) = Cardinality({Path(L, k) : k \in DOMAIN L})
<1> DEFINE T == {Path(L, k) : k \in DOMAIN L}
           f == [k \in DOMAIN L |-> Path(L, k)]
<1>1. f \in Bijection(DOMAIN L, T)
  BY DEF Bijection, Injection, Surjection, IsInjective, PathsDiffer
<1>2. ExistsBijection(DOMAIN L, T)
  BY <1>1 DEF ExistsBijection
<1> QED BY <1>2, FS_Bijection DEF Labelled

\* However timers overlap, the chain and the indent are what they should be; as
\* long as they nest, the labels are the tree of the calls.
THEOREM CallTreeCorrect == ProfilerSpec => []CallTree
<1>1. ProfilerInv => CallTree
  <2> SUFFICES ASSUME ProfilerInv PROVE CallTree
    OBVIOUS
  <2>1. Len(m_idChain) = Len(timers) /\ m_currentIndent = Len(timers) - 1 /\ Labelled(m_labels)
    BY DEF ProfilerInv, Aligned
  <2>2. \A k : PathTo(k) = Path(m_labels, k)
    BY DEF PathTo, LabelOf, Path, Label
  <2>3. ASSUME nested
        PROVE  /\ {PathTo(k) : k \in DOMAIN m_labels} = paths
               /\ Cardinality(DOMAIN m_labels) = Cardinality(paths)
               /\ \A k \in DOMAIN m_labels :
                    m_labels[k].indent \in {Unmeasured, Len(PathTo(k)) - 1}
               /\ \A m, n \in DOMAIN timers :
                    m < n => m_labels[timers[m].key].order < m_labels[timers[n].key].order
    <3>1. /\ Tree(m_labels) /\ PathsDiffer(m_labels) /\ Printed
          /\ paths = {Path(m_labels, k) : k \in DOMAIN m_labels}
      BY <2>3 DEF ProfilerInv
    <3>2. {PathTo(k) : k \in DOMAIN m_labels} = paths
      BY <2>2, <3>1
    <3>3. Cardinality(DOMAIN m_labels) = Cardinality(paths)
      BY <2>1, <3>1, PathsCounted
    <3>4. \A k \in DOMAIN m_labels : Len(PathTo(k)) - 1 = Len(k[1])
      BY <2>2, <3>1, PathNames
    <3>5. DOMAIN timers = 1 .. Len(timers)
      BY DEF ProfilerInv, Aligned
    <3> QED BY <3>1, <3>2, <3>3, <3>4, <3>5 DEF Printed
  <2> QED BY <2>1, <2>3 DEF CallTree
<1>2. ProfilerSpec => []ProfilerInv
  BY ProfilerInitInv, ProfilerNextInv, PTL DEF ProfilerSpec
<1> QED BY <1>1, <1>2, PTL

----------------------------------------------------------------------------
(***************************************************************************)
(* Range-based for loops, over numbers of any width and containers of any  *)
(* size. The values visited are those in front of the iterator, which      *)
(* stays on the grid of the steps and does not wrap.                       *)
(***************************************************************************)
First == IF tag \in {"range", "withStep"} THEN expression[2] ELSE 0

\* The least of the ends of a zip(), and the end of any other loop.
Bound ==
    CASE tag \in {"range", "withStep"} -> expression[3]
      [] tag = "indicesOf" -> expression[2] - 1
      [] tag = "enumerate" -> expression[2]
      [] OTHER -> IF expression[2] <= expression[3] /\ expression[2] <= expression[4]
                  THEN expression[2]
                  ELSE IF expression[3] <= expression[4] THEN expression[3] ELSE expression[4]

\* An iterator with this value or in this position.
On(v) ==
    CASE tag \in {"range", "withStep", "indicesOf"} -> <<v>>
      [] tag = "enumerate" -> <<v, v>>
      [] OTHER -> <<v, v, v>>

Grid == {v \in First .. Bound - 1 : (v - First) % step = 0}

Visiting(v) ==
    /\ iterator = On(v) /\ v \in Nat /\ First <= v /\ (v - First) % step = 0
    /\ tag # "withStep" => v <= Bound
    /\ visited \in Seq({On(u) : u \in Grid})
    /\ \A n \in 1 .. Len(visited) : visited[n][1] < v
    /\ \A m, n \in 1 .. Len(visited) : m < n => visited[m][1] < visited[n][1]
    /\ \A u \in Grid : u < v => \E n \in 1 .. Len(visited) : visited[n] = On(u)
    /\ ~ running => Bound <= v

LoopInv ==
    /\ expression \in Loop \cup Call
    /\ expression \in Loop /\ Proper => \E v \in Nat : Visiting(v)

----------------------------------------------------------------------------
\* Steps on a grid.
LEMMA GridSteps ==
    ASSUME NEW s \in Nat \ {0}
    PROVE  /\ 0 % s = 0 /\ s = 1 => \A a \in Nat : a % s = 0
           /\ \A a \in Nat : a % s = 0 => (a + s) % s = 0
           /\ \A a, d \in Nat : a % s = 0 /\ d % s = 0 /\ a <= d /\ d < a + s => d = a
           /\ \A a \in Nat : a < s => a % s = a
<1>1. ASSUME NEW a \in Nat
      PROVE  \E q \in Nat, r \in 0 .. s - 1 : r = a % s /\ a = s * q + r
  <2>1. a \div s \in Nat /\ a % s \in 0 .. s - 1
    OBVIOUS
  <2>2. PICK q \in Nat, r \in 0 .. s - 1 : q = a \div s /\ r = a % s
    BY <2>1
  <2>3. a = q * s + r
    BY <2>2
  <2>4. q * s = s * q
    OBVIOUS
  <2> QED BY <2>2, <2>3, <2>4
<1>2. ASSUME NEW q \in Nat, NEW p \in Nat, NEW c \in 0 .. s - 1, s * q = s * p + c PROVE c = 0
  <2>1. ASSUME q >= p + 1 PROVE FALSE
    <3>1. PICK k \in Nat : q = p + 1 + k
      <4>1. q - (p + 1) \in Nat /\ q = p + 1 + (q - (p + 1))
        BY <2>1
      <4> QED BY <4>1
    <3>2. s * q = s * p + s + s * k /\ s * k \in Nat /\ s * p \in Nat
      BY <3>1
    <3> QED BY <1>2, <3>2
  <2>2. p >= q => s * p >= s * q
    OBVIOUS
  <2> QED BY <1>2, <2>1, <2>2
<1>3. \A a \in Nat : a < s => a % s = a
  OBVIOUS
<1>4. ASSUME NEW a \in Nat, a % s = 0 PROVE (a + s) % s = 0
  <2>1. PICK q \in Nat : a = s * q
    BY <1>1, <1>4
  <2>2. PICK p \in Nat, c \in 0 .. s - 1 : c = (a + s) % s /\ a + s = s * p + c
    BY <1>1
  <2>3. a + s = s * (q + 1) /\ q + 1 \in Nat
    BY <2>1
  <2> QED BY <1>2, <2>2, <2>3
<1>5. ASSUME NEW a \in Nat, NEW d \in Nat, a % s = 0, d % s = 0, a <= d, d < a + s PROVE d = a
  <2>1. PICK p \in Nat, q \in Nat : a = s * p /\ d = s * q
    BY <1>1, <1>5
  <2>2. ~ (q >= p + 1)
    <3>1. q >= p + 1 => s * q >= s * (p + 1)
      BY <2>1
    <3>2. s * (p + 1) = s * p + s
      BY <2>1
    <3> QED BY <1>5, <2>1, <3>1, <3>2
  <2>3. ~ (p >= q + 1)
    <3>1. p >= q + 1 => s * p >= s * (q + 1)
      BY <2>1
    <3>2. s * (q + 1) = s * q + s
      BY <2>1
    <3> QED BY <1>5, <2>1, <3>1, <3>2
  <2> QED BY <2>1, <2>2, <2>3
<1> QED BY <1>3, <1>4, <1>5

\* What the loops of a kind have in common.
LEMMA Loops ==
    ASSUME expression \in Loop, Proper
    PROVE  /\ IsLoop
           /\ First \in Nat /\ Bound \in Int /\ Bound < Modulus
           /\ step \in Nat \ {0} /\ Modulus \in Nat
           /\ tag # "withStep" => step = 1 /\ First <= Bound
           /\ tag = "withStep" => First < Modulus /\ Bound + step <= Modulus
           /\ begin = On(First)
           /\ Values = {On(u) : u \in Grid}
<1> USE NumberAssumption DEF tag, IsLoop, First, Bound, step, begin, On, Grid, Proper
<1>1. CASE \E b, e \in Number : expression = <<"range", b, e>>
  <2> PICK b, e \in Number : expression = <<"range", b, e>>
    BY <1>1
  <2>1. /\ b \in Nat /\ e \in Nat /\ b <= e /\ e < Modulus
        /\ tag = "range" /\ expression[2] = b /\ expression[3] = e
    BY DEF Number
  <2>2. \A u \in b .. e - 1 : (u - b) % 1 = 0
    BY <2>1
  <2> QED BY <2>1, <2>2 DEF Values
<1>2. CASE \E b, e \in Number : \E s \in Number \ {0} : expression = <<"withStep", b, e, s>>
  <2> PICK b, e \in Number, s \in Number \ {0} : expression = <<"withStep", b, e, s>>
    BY <1>2
  <2>1. /\ b \in Nat /\ e \in Nat /\ b < Modulus /\ e < Modulus /\ s \in Nat \ {0}
        /\ e + s <= Modulus
        /\ tag = "withStep" /\ expression[2] = b /\ expression[3] = e /\ expression[4] = s
    BY DEF Number
  <2> QED BY <2>1 DEF Values
<1>3. CASE \E c \in Size : expression = <<"indicesOf", c>>
  <2> PICK c \in Size : expression = <<"indicesOf", c>>
    BY <1>3
  <2>1. /\ c \in Nat /\ c > 0 /\ c < Modulus
        /\ tag = "indicesOf" /\ expression[2] = c
    BY DEF Size
  <2>2. \A u \in 0 .. c - 2 : (u - 0) % 1 = 0
    BY <2>1
  <2> QED BY <2>1, <2>2 DEF Values
<1>4. CASE \E c \in Size : expression = <<"enumerate", c>>
  <2> PICK c \in Size : expression = <<"enumerate", c>>
    BY <1>4
  <2>1. /\ c \in Nat /\ c < Modulus
        /\ tag = "enumerate" /\ expression[2] = c
    BY DEF Size
  <2>2. \A u \in 0 .. c - 1 : (u - 0) % 1 = 0
    BY <2>1
  <2> QED BY <2>1, <2>2 DEF Values
<1>5. CASE \E a, b, c \in Size : expression = <<"zip", a, b, c>>
  <2> PICK a, b, c \in Size : expression = <<"zip", a, b, c>>
    BY <1>5
  <2>1. /\ a \in Nat /\ b \in Nat /\ c \in Nat /\ a < Modulus /\ b < Modulus /\ c < Modulus
        /\ tag = "zip" /\ expression[2] = a /\ expression[3] = b /\ expression[4] = c
    BY DEF Size
  <2>2. \A u \in Nat : (u - 0) % 1 = 0
    OBVIOUS
  <2>3. {m \in Number : \A k \in 2 .. 4 : m < expression[k]} = 0 .. Bound - 1
    BY <2>1 DEF Number
  <2> QED BY <2>1, <2>2, <2>3 DEF Values
<1> QED BY <1>1, <1>2, <1>3, <1>4, <1>5 DEF Loop

\* When a loop is at its end, and one step further.
LEMMA LoopSteps ==
    ASSUME expression \in Loop, Proper, NEW v \in Nat, iterator = On(v),
           tag # "withStep" => v <= Bound
    PROVE  /\ IsAtEnd <=> Bound <= v
           /\ v < Bound => [n \in DOMAIN iterator |-> (iterator[n] + step) % Modulus] = On(v + step)
           /\ On(v)[1] = v
<1>1. /\ step \in Nat \ {0} /\ Modulus \in Nat /\ Bound \in Int /\ Bound < Modulus
      /\ tag # "withStep" => step = 1
      /\ tag = "withStep" => Bound + step <= Modulus
  BY Loops
<1>2. On(v)[1] = v
  BY DEF On
<1>3. ASSUME v < Bound PROVE (v + step) % Modulus = v + step
  <2>1. v + step \in Nat /\ v + step < Modulus /\ Modulus \in Nat \ {0}
    BY <1>1, <1>3
  <2> QED BY <2>1, GridSteps
<1>4. v < Bound => [n \in DOMAIN iterator |-> (iterator[n] + step) % Modulus] = On(v + step)
  BY <1>3 DEF On
<1>5. IsAtEnd <=> Bound <= v
  <2>1. CASE tag = "withStep"
    BY <1>2, <2>1 DEF IsAtEnd, end, Bound
  <2>2. CASE tag = "range"
    BY <1>1, <2>2 DEF IsAtEnd, end, Bound, On
  <2>3. CASE tag = "indicesOf"
    <3>1. (expression[2] - 1) % Modulus = expression[2] - 1
      <4>1. expression[2] - 1 \in Nat
        BY <2>3, Loops DEF Bound, First
      <4> QED BY <1>1, <2>3, <4>1, GridSteps DEF Bound
    <3> QED BY <1>1, <2>3, <3>1 DEF IsAtEnd, end, Bound, On
  <2>4. CASE tag = "enumerate"
    BY <1>1, <2>4 DEF IsAtEnd, end, Bound, On
  <2>5. CASE tag \notin {"withStep", "range", "indicesOf", "enumerate"}
    <3>1. PICK a, b, c \in Size : expression = <<"zip", a, b, c>>
      BY <2>5 DEF Loop, tag
    <3>2. a \in Nat /\ b \in Nat /\ c \in Nat /\ end = <<a, b, c>> /\ iterator = <<v, v, v>>
      BY <2>5, <3>1, NumberAssumption DEF Size, end, On
    <3> QED BY <2>5, <3>1, <3>2 DEF IsAtEnd, Bound
  <2> QED BY <2>1, <2>2, <2>3, <2>4, <2>5
<1> QED BY <1>2, <1>4, <1>5

\* The expression stays what it is.
LEMMA LoopKept ==
    ASSUME UNCHANGED expression
    PROVE  /\ tag' = tag /\ First' = First /\ Bound' = Bound /\ step' = step /\ Grid' = Grid
           /\ Values' = Values /\ begin' = begin /\ IsLoop' = IsLoop /\ (Proper' <=> Proper)
           /\ \A u : On(u)' = On(u)
BY DEF tag, First, Bound, step, Grid, Values, begin, IsLoop, Proper, On

LEMMA LoopInitInv == AlgorithmsInit => LoopInv
<1> SUFFICES ASSUME AlgorithmsInit, expression \in Loop, Proper PROVE Visiting(First)
  BY Loops DEF AlgorithmsInit, LoopInv
<1>1. First \in Nat /\ begin = On(First) /\ step \in Nat \ {0}
      /\ (tag # "withStep" => First <= Bound)
  BY Loops
<1>2. (First - First) % step = 0
  <2>1. First - First = 0
    BY <1>1
  <2> QED BY <1>1, <2>1, GridSteps
<1>3. \A u \in Grid : ~ (u < First)
  BY <1>1 DEF Grid
<1> QED BY <1>1, <1>2, <1>3 DEF AlgorithmsInit, Visiting

LEMMA StepInv ==
    ASSUME LoopInv, Step, expression \in Loop, Proper
    PROVE  \E v \in Nat : Visiting(v)'
<1>1. PICK v \in Nat : Visiting(v)
  BY DEF LoopInv
<1>2. /\ First \in Nat /\ Bound \in Int /\ step \in Nat \ {0}
      /\ tag # "withStep" => step = 1
  BY Loops
<1>0. PICK w \in Nat : w = v + step
  BY <1>2
<1>3. /\ v < Bound /\ iterator' = On(w) /\ On(v)[1] = v
  <2>1. v < Bound /\ On(v)[1] = v
    BY <1>1, <1>2, LoopSteps DEF Visiting, Step
  <2>2. iterator' = [n \in DOMAIN iterator |-> (iterator[n] + step) % Modulus]
    BY DEF Step
  <2>3. [n \in DOMAIN iterator |-> (iterator[n] + step) % Modulus] = On(v + step)
    BY <1>1, <2>1, LoopSteps DEF Visiting
  <2> QED BY <1>0, <2>1, <2>2, <2>3
<1>4. v \in Grid
  BY <1>1, <1>2, <1>3 DEF Visiting, Grid
<1>5. /\ visited' = Append(visited, On(v)) /\ visited \in Seq({On(u) : u \in Grid})
      /\ On(v) \in {On(u) : u \in Grid}
  BY <1>1, <1>3, <1>4 DEF Step, Visiting
<1>6. /\ visited' \in Seq({On(u) : u \in Grid})
      /\ Len(visited) \in Nat /\ Len(visited') = Len(visited) + 1
      /\ \A n \in 1 .. Len(visited) : visited'[n] = visited[n]
      /\ visited'[Len(visited) + 1] = On(v)
  <2> DEFINE S == {On(u) : u \in Grid}
             x == On(v)
  <2> HIDE DEF S, x
  <2> QED BY <1>5 DEF S, x
<1>7. \A n \in 1 .. Len(visited') : n \in 1 .. Len(visited) \/ n = Len(visited) + 1
  BY <1>6
<1>8. w - First \in Nat /\ (w - First) % step = 0
  <2>1. v - First \in Nat /\ w - First = (v - First) + step
    BY <1>0, <1>1, <1>2 DEF Visiting
  <2>2. \A a \in Nat : a % step = 0 => (a + step) % step = 0
    BY <1>2, GridSteps
  <2>3. (v - First) % step = 0
    BY <1>1 DEF Visiting
  <2>4. ((v - First) + step) % step = 0
    BY <2>1, <2>2, <2>3
  <2> QED BY <1>2, <2>1, <2>4
<1>9. ASSUME NEW u \in Grid, u < w PROVE u < v \/ u = v
  <2>1. /\ u \in Nat /\ u - First \in Nat /\ v - First \in Nat
        /\ (u - First) % step = 0 /\ (v - First) % step = 0
    BY <1>1, <1>2 DEF Grid, Visiting
  <2>2. v <= u => u - First = v - First
    <3>1. v <= u => v - First <= u - First /\ u - First < (v - First) + step
      BY <1>0, <1>2, <1>9, <2>1
    <3> QED BY <1>2, <2>1, <3>1, GridSteps
  <2> QED BY <1>2, <2>1, <2>2
<1>10. \A n \in 1 .. Len(visited') : visited'[n][1] < w
  <2>1. \A n \in 1 .. Len(visited) : visited'[n][1] < v /\ visited'[n] \in {On(u) : u \in Grid}
    BY <1>1, <1>5, <1>6 DEF Visiting
  <2>2. \A u \in Grid : u \in Nat /\ On(u)[1] = u
    BY <1>2 DEF Grid, On
  <2>3. \A n \in 1 .. Len(visited) : visited'[n][1] < w
    BY <1>0, <1>2, <2>1, <2>2
  <2>4. v < w
    BY <1>0, <1>2
  <2> QED BY <1>3, <1>6, <1>7, <2>3, <2>4
<1>11. \A m, n \in 1 .. Len(visited') : m < n => visited'[m][1] < visited'[n][1]
  BY <1>1, <1>3, <1>6, <1>7 DEF Visiting
<1>12. \A u \in Grid : u < w => \E n \in 1 .. Len(visited') : visited'[n] = On(u)
  <2>1. \A n \in 1 .. Len(visited) : n \in 1 .. Len(visited')
    BY <1>6
  <2>2. Len(visited) + 1 \in 1 .. Len(visited')
    BY <1>6
  <2> QED BY <1>1, <1>6, <1>9, <2>1, <2>2 DEF Visiting
<1>13. Visiting(w)'
  <2>1. UNCHANGED expression /\ running' = running /\ running
    BY DEF Step
  <2>2. w \in Nat /\ First <= w /\ (tag # "withStep" => w <= Bound)
    BY <1>0, <1>1, <1>2, <1>3 DEF Visiting
  <2>4. /\ tag' = tag /\ First' = First /\ Bound' = Bound /\ step' = step /\ Grid' = Grid
        /\ \A u : On(u)' = On(u)
    BY <2>1, LoopKept
  <2>5. iterator' = On(w)'
    BY <1>3, <2>4
  <2>6. {On(u)' : u \in Grid} = {On(u) : u \in Grid}
    BY <2>4
  <2> QED BY <1>3, <1>6, <1>8, <1>10, <1>11, <1>12, <2>1, <2>2, <2>4, <2>5, <2>6 DEF Visiting
<1> QED BY <1>13

LEMMA LoopNextInv == LoopInv /\ [AlgorithmsNext]_algorithmVars => LoopInv'
<1> SUFFICES ASSUME LoopInv, [AlgorithmsNext]_algorithmVars PROVE LoopInv'
  OBVIOUS
<1>1. UNCHANGED expression
  BY DEF AlgorithmsNext, Step, EndOfLoop, Evaluate, algorithmVars
<1> SUFFICES ASSUME expression \in Loop, Proper PROVE \E v \in Nat : Visiting(v)'
  BY <1>1, LoopKept DEF LoopInv
<1>2. CASE Step
  BY <1>2, StepInv
<1>3. CASE EndOfLoop
  <2>1. PICK v \in Nat : Visiting(v)
    BY DEF LoopInv
  <2>2. Bound <= v
    BY <1>3, <2>1, LoopSteps DEF Visiting, EndOfLoop
  <2>3. Visiting(v)'
    BY <1>1, <1>3, <2>1, <2>2, LoopKept DEF Visiting, EndOfLoop
  <2> QED BY <2>3
<1>4. CASE Evaluate
  BY <1>4, Loops DEF Evaluate
<1>5. CASE UNCHANGED algorithmVars
  <2>1. PICK v \in Nat : Visiting(v)
    BY DEF LoopInv
  <2>2. Visiting(v)'
    BY <1>1, <1>5, <2>1, LoopKept DEF Visiting, algorithmVars
  <2> QED BY <2>2
<1> QED BY <1>2, <1>3, <1>4, <1>5 DEF AlgorithmsNext

\* Whatever is iterated over, a loop sees exactly the values that the range or
\* the containers stand for, each once and in order (Algorithms).
THEOREM LoopsExactCorrect == AlgorithmsSpec => []LoopsExact
<1>1. LoopInv => LoopsExact
  <2> SUFFICES ASSUME LoopInv, IsLoop, Proper PROVE LoopsExact
    BY DEF LoopsExact
  <2>1. expression \in Loop
    BY DEF LoopInv, Loop, Call, IsLoop, tag
  <2>2. PICK v \in Nat : Visiting(v)
    BY <2>1 DEF LoopInv
  <2>3. visited \in Seq(Values) /\ DOMAIN visited = 1 .. Len(visited)
    BY <2>1, <2>2, Loops DEF Visiting
  <2>4. ToSet(visited) \subseteq Values
    BY <2>3 DEF ToSet
  <2>5. ASSUME ~ running, NEW x \in Values PROVE x \in ToSet(visited)
    <3>1. PICK u \in Grid : x = On(u)
      BY <2>1, Loops
    <3>2. u < v
      BY <2>1, <2>2, <2>5, Loops DEF Visiting, Grid
    <3> QED BY <2>2, <2>3, <3>1, <3>2 DEF Visiting, ToSet
  <2> QED BY <2>2, <2>3, <2>4, <2>5 DEF LoopsExact, Visiting
<1> QED BY <1>1, LoopInitInv, LoopNextInv, PTL DEF AlgorithmsSpec
=============================================================================
