----------------------- MODULE ThreadSafeQueueProofs -----------------------
(***************************************************************************)
(* Theorems about ThreadSafeQueue, for any threads, queues and elements.   *)
(***************************************************************************)
EXTENDS ThreadSafeQueue, FiniteSetTheorems, SequenceTheorems, TLAPS

\* A step of a queue operation, whoever makes it.
QueueStep ==
    \E t \in Thread :
        \/ \E q \in Queue : CallStep(t, q)
        \/ Continue(t) \/ SpuriousWakeup(t)

\* A thread is at a queue exactly while it is inside a call; inside a push
\* it holds the argument until push_back, inside a pop it holds nothing.
InCall ==
    \A t \in Thread :
        /\ at[t] \in Queue <=> pc[t] # "idle"
        /\ pc[t] = "append" => element[t] \in Element
        /\ pc[t] \in {"take", "check", "sleep", "waiting", "woken"}
             => element[t] = NoElement

\* The body of every critical section runs with the mutex: a queue operation
\* keeps the types of the state and the place of every thread.
LEMMA TypeStep ==
    ASSUME TypeOK, InCall, QueueStep
    PROVE  TypeOK' /\ InCall'
<1> USE NoQueueAssumption DEF TypeOK, InCall, Label, Critical
<1>1. PICK t \in Thread :
         \/ \E q \in Queue : CallStep(t, q)
         \/ Continue(t) \/ SpuriousWakeup(t)
      BY DEF QueueStep
<1>2. ASSUME NEW q \in Queue, CallStep(t, q) PROVE TypeOK' /\ InCall'
  <2>1. CASE TryPush(t, q)
    <3>1. CASE Lock(t, q) /\ Enter(t, q, "append")
          BY <2>1, <3>1 DEF TryPush, Lock, Enter
    <3>2. CASE UNCHANGED <<m_mutex, pc, at>>
          BY <2>1, <3>2 DEF TryPush
    <3>. QED BY <2>1, <3>1, <3>2 DEF TryPush, TryLock
  <2>2. CASE Push(t, q)
        BY <2>2 DEF Push, Lock, Enter
  <2>3. CASE TryPop(t, q)
    <3>1. CASE Lock(t, q) /\ Enter(t, q, "take")
          BY <2>3, <3>1 DEF TryPop, Lock, Enter
    <3>2. CASE UNCHANGED <<m_mutex, pc, at>>
          BY <2>3, <3>2 DEF TryPop
    <3>. QED BY <2>3, <3>1, <3>2 DEF TryPop, TryLock
  <2>4. CASE Pop(t, q)
        BY <2>4 DEF Pop, Lock, Enter
  <2>5. CASE Done(t, q)
        BY <2>5 DEF Done, Enter
  <2>6. CASE GetSize(t, q)
        BY <2>6 DEF GetSize, Lock, Enter
  <2>. QED BY <1>2, <2>1, <2>2, <2>3, <2>4, <2>5, <2>6 DEF CallStep
<1>3. CASE PushBack(t)
      BY <1>3 DEF PushBack, Unlock
<1>4. CASE NotifyOne(t)
      BY <1>4, ZenonT(30) DEF NotifyOne, m_ready
<1>5. CASE Take(t)
  <2>. at[t] \in Queue BY <1>5 DEF Take
  <2>1. CASE m_buffer[at[t]] = <<>>
        BY <1>5, <2>1 DEF Take, Unlock, Return
  <2>2. CASE m_buffer[at[t]] # <<>>
    <3>1. /\ Head(m_buffer[at[t]]) \in Element
          /\ Tail(m_buffer[at[t]]) \in Seq(Element)
          BY <2>2
    <3>. QED BY <1>5, <2>2, <3>1, ZenonT(30) DEF Take, GetFrontElement, Unlock, Return
  <2>. QED BY <2>1, <2>2
<1>6. CASE CheckLeave(t)
  <2>. at[t] \in Queue BY <1>6 DEF CheckLeave
  <2>1. CASE m_buffer[at[t]] = <<>>
    <3>. /\ UNCHANGED <<m_buffer, element, m_done>>
         /\ Unlock(at[t]) /\ Return(t)
         BY <1>6, <2>1 DEF CheckLeave
    <3>1. TypeOK' BY DEF Unlock, Return
    <3>2. InCall' BY DEF Return
    <3>. QED BY <3>1, <3>2
  <2>2. CASE m_buffer[at[t]] # <<>>
    <3>1. /\ Head(m_buffer[at[t]]) \in Element
          /\ Tail(m_buffer[at[t]]) \in Seq(Element)
          BY <2>2
    <3>2. /\ GetFrontElement(t) /\ Unlock(at[t]) /\ Return(t)
          /\ UNCHANGED m_done
          BY <1>6, <2>2 DEF CheckLeave
    <3>. QED BY <3>1, <3>2 DEF GetFrontElement, Unlock, Return
  <2>. QED BY <2>1, <2>2
<1>7. CASE CheckStay(t)
      BY <1>7 DEF CheckStay
<1>8. CASE Wait(t)
      BY <1>8 DEF Wait, Unlock
<1>9. CASE Reacquire(t)
      BY <1>9 DEF Reacquire, Lock
<1>10. CASE NotifyAll(t)
      BY <1>10 DEF NotifyAll, m_ready
<1>11. CASE ReturnSize(t)
      BY <1>11 DEF ReturnSize, Unlock, Return
<1>12. CASE SpuriousWakeup(t)
      BY <1>12 DEF SpuriousWakeup
<1>. QED BY <1>1, <1>2, <1>3, <1>4, <1>5, <1>6, <1>7, <1>8, <1>9, <1>10, <1>11, <1>12
        DEF Continue

----------------------------------------------------------------------------
\* The mutex and the place of the threads agree after every step of an
\* operation: each action either takes the free mutex and enters, leaves and
\* releases, or does neither.
LEMMA MutexStep ==
    ASSUME TypeOK, InCall, MutexDiscipline, QueueStep
    PROVE  MutexDiscipline'
<1> USE NoThreadAssumption, NoQueueAssumption
    DEF TypeOK, InCall, MutexDiscipline, Critical, Label
<1>1. PICK t \in Thread :
         \/ \E q \in Queue : CallStep(t, q)
         \/ Continue(t) \/ SpuriousWakeup(t)
      BY DEF QueueStep
<1>2. ASSUME NEW q \in Queue, CallStep(t, q) PROVE MutexDiscipline'
  <2>1. ASSUME NEW label \in Critical, pc[t] = "idle", Lock(t, q), Enter(t, q, label)
        PROVE  MutexDiscipline'
        BY <2>1 DEF Lock, Enter
  <2>2. CASE UNCHANGED <<m_mutex, pc, at>>
        BY <2>2
  <2>3. CASE Done(t, q)
        BY <2>3 DEF Done, Enter
  <2>4. CASE TryPush(t, q)
        BY <2>1, <2>2, <2>4 DEF TryPush, TryLock
  <2>5. CASE TryPop(t, q)
        BY <2>1, <2>2, <2>5 DEF TryPop, TryLock
  <2>6. CASE Push(t, q) \/ Pop(t, q) \/ GetSize(t, q)
        BY <2>1, <2>6 DEF Push, Pop, GetSize
  <2>. QED BY <1>2, <2>3, <2>4, <2>5, <2>6 DEF CallStep
<1>3. ASSUME pc[t] \in Critical, Unlock(at[t]), Return(t) PROVE MutexDiscipline'
      BY <1>3 DEF Unlock, Return
<1>4. CASE PushBack(t)
      BY <1>4 DEF PushBack, Unlock
<1>5. CASE NotifyOne(t)
      BY <1>5 DEF NotifyOne, m_ready
<1>6. CASE Take(t) \/ CheckLeave(t) \/ ReturnSize(t)
      BY <1>3, <1>6 DEF Take, CheckLeave, ReturnSize
<1>7. CASE CheckStay(t)
      BY <1>7 DEF CheckStay
<1>8. CASE Wait(t)
      BY <1>8 DEF Wait, Unlock
<1>9. CASE Reacquire(t)
      BY <1>9 DEF Reacquire, Lock
<1>10. CASE NotifyAll(t)
      BY <1>10 DEF NotifyAll, m_ready
<1>11. CASE SpuriousWakeup(t)
      BY <1>11 DEF SpuriousWakeup
<1>. QED BY <1>1, <1>2, <1>4, <1>5, <1>6, <1>7, <1>8, <1>9, <1>10, <1>11 DEF Continue

----------------------------------------------------------------------------
(***************************************************************************)
(* No lost wakeup.  The count in NoStrandedElement is inductive together   *)
(* with the fact that a thread between its test of the loop condition and  *)
(* its wait still finds the deque empty, because it owns the mutex.        *)
(***************************************************************************)
SleepEmpty == \A t \in Thread : pc[t] = "sleep" => m_buffer[at[t]] = <<>>

NotStranded(q) == m_ready(q) # {} => Len(m_buffer[q]) <= Cardinality(Attending(q))

LEMMA AttendingFinite ==
    ASSUME NEW q \in Queue
    PROVE  IsFiniteSet(Attending(q)) /\ Cardinality(Attending(q)) \in Nat
BY ThreadFinite, FS_Subset, FS_CardinalityType DEF Attending

\* A queue that gains no element and loses nobody who attends to it.
LEMMA NotStrandedKept ==
    ASSUME TypeOK, TypeOK', NEW q \in Queue, NotStranded(q),
           m_buffer'[q] = m_buffer[q],
           Attending(q) \subseteq Attending(q)',
           m_ready(q)' # {} => m_ready(q) # {}
    PROVE  NotStranded(q)'
<1>1. IsFiniteSet(Attending(q)') /\ Cardinality(Attending(q)') \in Nat
      BY ThreadFinite, FS_Subset, FS_CardinalityType DEF Attending
<1>2. Cardinality(Attending(q)) <= Cardinality(Attending(q)')
      BY <1>1, FS_Subset
<1>3. Len(m_buffer[q]) \in Nat BY DEF TypeOK
<1>. QED BY <1>1, <1>2, <1>3, AttendingFinite DEF NotStranded

LEMMA SleepEmptyStep ==
    ASSUME TypeOK, InCall, MutexDiscipline, SleepEmpty, QueueStep
    PROVE  SleepEmpty'
<1> USE NoQueueAssumption DEF TypeOK, InCall, SleepEmpty, Label, Critical
<1>1. PICK t \in Thread :
         \/ \E q \in Queue : CallStep(t, q)
         \/ Continue(t) \/ SpuriousWakeup(t)
      BY DEF QueueStep
<1>2. ASSUME NEW q \in Queue, CallStep(t, q) PROVE SleepEmpty'
      BY <1>2 DEF CallStep, TryPush, Push, TryPop, Pop, Done, GetSize, TryLock,
                  Enter
\* Whoever changes the deque owns the mutex, so that nobody is in "sleep".
<1>3. ASSUME pc[t] \in Critical, pc'[t] # "sleep",
             \A u \in Thread \ {t} : pc'[u] = pc[u] /\ at'[u] = at[u],
             \A q \in Queue : q # at[t] => m_buffer'[q] = m_buffer[q]
      PROVE  SleepEmpty'
      BY <1>3 DEF MutexDiscipline
<1>4. CASE PushBack(t)
      BY <1>3, <1>4 DEF PushBack
<1>5. CASE NotifyOne(t)
      BY <1>5 DEF NotifyOne, m_ready
<1>6. CASE Take(t)
      BY <1>3, <1>6 DEF Take, GetFrontElement, Return
<1>7. CASE CheckLeave(t)
      BY <1>3, <1>7 DEF CheckLeave, GetFrontElement, Return
<1>8. CASE CheckStay(t)
      BY <1>8 DEF CheckStay
<1>9. CASE Wait(t) \/ Reacquire(t) \/ ReturnSize(t) \/ SpuriousWakeup(t)
      BY <1>9 DEF Wait, Reacquire, ReturnSize, SpuriousWakeup, Return
<1>10. CASE NotifyAll(t)
      BY <1>10 DEF NotifyAll, m_ready
<1>. QED BY <1>1, <1>2, <1>4, <1>5, <1>6, <1>7, <1>8, <1>9, <1>10 DEF Continue

LEMMA NotStrandedStep ==
    ASSUME TypeOK, InCall, MutexDiscipline, SleepEmpty, NoStrandedElement,
           QueueStep, NEW q \in Queue
    PROVE  NotStranded(q)'
<1> USE NoQueueAssumption DEF TypeOK, InCall, Label, Critical
<1>0. TypeOK' /\ NotStranded(q)
      BY TypeStep DEF NoStrandedElement, NotStranded
<1>1. PICK t \in Thread :
         \/ \E r \in Queue : CallStep(t, r)
         \/ Continue(t) \/ SpuriousWakeup(t)
      BY DEF QueueStep
<1>2. ASSUME NEW r \in Queue, CallStep(t, r) PROVE NotStranded(q)'
  <2>1. /\ m_buffer' = m_buffer
        /\ \A u \in Thread : pc[u] # "idle" => pc'[u] = pc[u] /\ at'[u] = at[u]
        /\ \A u \in Thread : pc'[u] = "waiting" => pc[u] = "waiting"
        BY <1>2 DEF CallStep, TryPush, Push, TryPop, Pop, Done, GetSize,
                    TryLock, Enter
  <2>. QED BY <1>0, <2>1, NotStrandedKept DEF Attending, m_ready
<1>3. CASE PushBack(t)
  <2>1. CASE at[t] = q
    <3>1. Attending(q)' = Attending(q) \cup {t} /\ t \notin Attending(q)
          BY <1>3, <2>1 DEF PushBack, Attending
    <3>2. Cardinality(Attending(q)') = Cardinality(Attending(q)) + 1
          BY <3>1, AttendingFinite, FS_AddElement
    <3>3. m_ready(q)' = m_ready(q)
          BY <1>3 DEF PushBack, m_ready
    <3>4. Len(m_buffer'[q]) = Len(m_buffer[q]) + 1 /\ Len(m_buffer[q]) \in Nat
          BY <1>3, <2>1 DEF PushBack
    <3>. QED BY <1>0, <3>2, <3>3, <3>4, AttendingFinite DEF NotStranded
  <2>2. CASE at[t] # q
        BY <1>0, <1>3, <2>2, NotStrandedKept DEF PushBack, Attending, m_ready
  <2>. QED BY <2>1, <2>2
<1>4. CASE NotifyOne(t)
  <2>1. CASE at[t] # q
    <3>1. /\ m_buffer' = m_buffer /\ Attending(q)' = Attending(q)
          /\ m_ready(q)' = m_ready(q)
          BY <1>4, <2>1 DEF NotifyOne, Attending, m_ready
    <3>. QED BY <1>0, <3>1, NotStrandedKept
  <2>2. CASE at[t] = q /\ m_ready(q) = {}
    <3>1. m_ready(q)' = {}
          BY <1>4, <2>2 DEF NotifyOne, m_ready
    <3>. QED BY <3>1 DEF NotStranded
  <2>3. ASSUME at[t] = q, NEW u \in m_ready(q),
               pc' = [pc EXCEPT ![u] = "woken", ![t] = "idle"]
        PROVE  NotStranded(q)'
    <3>1. /\ u \in Thread /\ u # t /\ t \in Attending(q) /\ u \notin Attending(q)
          /\ Attending(q)' = (Attending(q) \ {t}) \cup {u}
          BY <1>4, <2>3 DEF NotifyOne, Attending, m_ready
    <3>2. /\ IsFiniteSet(Attending(q) \ {t})
          /\ Cardinality(Attending(q) \ {t}) = Cardinality(Attending(q)) - 1
          BY <3>1, AttendingFinite, FS_RemoveElement
    <3>3. Cardinality(Attending(q)') = Cardinality(Attending(q) \ {t}) + 1
          BY <3>1, <3>2, FS_AddElement
    <3>4. m_buffer' = m_buffer /\ m_ready(q) # {}
          BY <1>4 DEF NotifyOne
    <3>. QED BY <1>0, <3>2, <3>3, <3>4, AttendingFinite DEF NotStranded
  <2>. QED BY <1>4, <2>1, <2>2, <2>3 DEF NotifyOne
\* Steps of a consumer that takes the head of deque q, or finds it empty.
<1>5. ASSUME pc[t] = "check", pc'[t] = "idle", at[t] = q, GetFrontElement(t),
             m_buffer[q] # <<>>,
             \A u \in Thread \ {t} : pc'[u] = pc[u] /\ at'[u] = at[u]
      PROVE  NotStranded(q)'
  <2>1. t \in Attending(q) /\ Attending(q)' = Attending(q) \ {t}
        BY <1>5 DEF Attending
  <2>2. Cardinality(Attending(q)') = Cardinality(Attending(q)) - 1
        BY <2>1, AttendingFinite, FS_RemoveElement
  <2>3. m_ready(q)' = m_ready(q)
        BY <1>5 DEF m_ready
  <2>4. Len(m_buffer'[q]) = Len(m_buffer[q]) - 1 /\ Len(m_buffer[q]) \in Nat
        BY <1>5 DEF GetFrontElement
  <2>. QED BY <1>0, <2>2, <2>3, <2>4, AttendingFinite DEF NotStranded
<1>6. ASSUME m_buffer'[q] = <<>> PROVE NotStranded(q)'
  <2>1. Cardinality(Attending(q)') \in Nat
        BY ThreadFinite, FS_Subset, FS_CardinalityType DEF Attending
  <2>. QED BY <1>6, <2>1 DEF NotStranded
<1>7. CASE Take(t)
  <2>1. Attending(q)' = Attending(q) /\ m_ready(q)' = m_ready(q)
        BY <1>7 DEF Take, Return, Attending, m_ready
  <2>2. Len(m_buffer'[q]) <= Len(m_buffer[q])
        BY <1>7 DEF Take, GetFrontElement
  <2>3. Len(m_buffer'[q]) \in Nat /\ Len(m_buffer[q]) \in Nat
        BY <1>0
  <2>. QED BY <1>0, <2>1, <2>2, <2>3, AttendingFinite DEF NotStranded
<1>8. CASE CheckLeave(t)
  <2>1. CASE at[t] = q /\ m_buffer[q] # <<>>
    <3>1. GetFrontElement(t) /\ Return(t)
          BY <1>8, <2>1 DEF CheckLeave
    <3>. QED BY <1>5, <1>8, <2>1, <3>1 DEF CheckLeave, Return
  <2>2. CASE at[t] = q /\ m_buffer[q] = <<>>
    <3>1. m_buffer' = m_buffer
          BY <1>8, <2>2 DEF CheckLeave
    <3>. QED BY <1>6, <2>2, <3>1
  <2>3. CASE at[t] # q
    <3>1. /\ m_buffer'[q] = m_buffer[q] /\ Attending(q)' = Attending(q)
          /\ m_ready(q)' = m_ready(q)
          BY <1>8, <2>3 DEF CheckLeave, GetFrontElement, Return, Attending, m_ready
    <3>. QED BY <1>0, <3>1, NotStrandedKept
  <2>. QED BY <2>1, <2>2, <2>3
<1>9. CASE CheckStay(t) \/ Wait(t)
  <2>1. CASE at[t] = q
    <3>1. m_buffer[at[t]] = <<>> /\ m_buffer' = m_buffer
          BY <1>9 DEF CheckStay, Wait, SleepEmpty
    <3>. QED BY <1>6, <2>1, <3>1
  <2>2. CASE at[t] # q
    <3>1. /\ m_buffer' = m_buffer /\ Attending(q)' = Attending(q)
          /\ m_ready(q)' = m_ready(q)
          BY <1>9, <2>2 DEF CheckStay, Wait, Attending, m_ready
    <3>. QED BY <1>0, <3>1, NotStrandedKept
  <2>. QED BY <2>1, <2>2
<1>10. CASE Reacquire(t) \/ ReturnSize(t) \/ SpuriousWakeup(t)
  <2>1. /\ m_buffer' = m_buffer /\ Attending(q) \subseteq Attending(q)'
        /\ m_ready(q)' \subseteq m_ready(q)
        BY <1>10 DEF Reacquire, ReturnSize, SpuriousWakeup, Return, Attending,
                     m_ready
  <2>. QED BY <1>0, <2>1, NotStrandedKept
<1>11. CASE NotifyAll(t)
  <2>1. /\ m_buffer' = m_buffer /\ Attending(q) \subseteq Attending(q)'
        /\ m_ready(q)' \subseteq m_ready(q)
        BY <1>11 DEF NotifyAll, Attending, m_ready
  <2>. QED BY <1>0, <2>1, NotStrandedKept
<1>. QED BY <1>1, <1>2, <1>3, <1>4, <1>7, <1>8, <1>9, <1>10, <1>11 DEF Continue

----------------------------------------------------------------------------
(***************************************************************************)
(* The theorems.  Between its calls a thread only exchanges the element it *)
(* holds, which no conjunct of the invariant speaks of.                    *)
(***************************************************************************)
IInv == TypeOK /\ InCall /\ MutexDiscipline /\ SleepEmpty /\ NoStrandedElement

LEMMA InitIInv == Init => IInv
<1> SUFFICES ASSUME Init PROVE IInv OBVIOUS
<1>1. TypeOK /\ InCall /\ SleepEmpty
      BY NoQueueAssumption DEF Init, TypeOK, InCall, SleepEmpty, Label, Critical
<1>2. MutexDiscipline
      BY NoThreadAssumption, NoQueueAssumption DEF Init, MutexDiscipline, Critical
<1>3. NoStrandedElement
      BY DEF Init, NoStrandedElement, m_ready
<1>. QED BY <1>1, <1>2, <1>3 DEF IInv

LEMMA NextIInv == IInv /\ [Next]_vars => IInv'
<1> SUFFICES ASSUME IInv, [Next]_vars PROVE IInv' OBVIOUS
<1>1. CASE QueueStep
      BY <1>1, TypeStep, MutexStep, SleepEmptyStep, NotStrandedStep
         DEF IInv, NoStrandedElement, NotStranded
<1>2. ASSUME NEW t \in Thread,
             Discard(t) \/ \E e \in Element : Obtain(t, e)
      PROVE  IInv'
  <2>1. /\ UNCHANGED <<m_buffer, m_mutex, m_done, pc, at>>
        /\ pc[t] = "idle"
        /\ element' \in [Thread -> Element \cup {NoElement}]
        /\ \A u \in Thread \ {t} : element'[u] = element[u]
        BY <1>2 DEF Discard, Obtain, IInv, TypeOK
  <2>2. TypeOK' /\ InCall' BY <2>1 DEF IInv, TypeOK, InCall
  <2>3. MutexDiscipline' /\ SleepEmpty'
        BY <2>1 DEF IInv, MutexDiscipline, SleepEmpty
  <2>4. NoStrandedElement'
        BY <2>1 DEF IInv, NoStrandedElement, m_ready, Attending
  <2>. QED BY <2>2, <2>3, <2>4 DEF IInv
<1>3. CASE UNCHANGED vars
      BY <1>3 DEF vars, IInv, TypeOK, InCall, MutexDiscipline, SleepEmpty,
                  NoStrandedElement, m_ready, Attending
<1>. QED BY <1>1, <1>2, <1>3 DEF Next, QueueStep

\* The state of the queues and of their callers keeps its type.
THEOREM TypeCorrect == Spec => []TypeOK
BY InitIInv, NextIInv, PTL DEF Spec, IInv

\* Whatever the threads do, a mutex is owned by exactly the thread that is
\* inside its critical section: in particular there is at most one.
THEOREM MutexCorrect == Spec => []MutexDiscipline
BY InitIInv, NextIInv, PTL DEF Spec, IInv

\* Notifying after the mutex was released strands no element, for any number
\* of producers, consumers and queues.
THEOREM NoStrandedElementCorrect == Spec => []NoStrandedElement
BY InitIInv, NextIInv, PTL DEF Spec, IInv

----------------------------------------------------------------------------
(***************************************************************************)
(* No element is in two places, and none is lost.                          *)
(***************************************************************************)
InHand(e) == \E t \in Thread : element[t] = e
Queued(e) == \E q \in Queue : \E n \in 1 .. Len(m_buffer[q]) : m_buffer[q][n] = e

HandsDiffer ==
    \A t, u \in Thread : element[t] = element[u] /\ element[t] \in Element => t = u

SlotsDiffer ==
    \A q, r \in Queue : \A m \in 1 .. Len(m_buffer[q]), n \in 1 .. Len(m_buffer[r]) :
        m_buffer[q][m] = m_buffer[r][n] => q = r /\ m = n

Once == HandsDiffer /\ SlotsDiffer /\ \A e \in Element : InHand(e) => ~ Queued(e)

\* An element is present if it is with a thread or in a deque.
LEMMA PresentPlaces ==
    ASSUME NEW e
    PROVE  /\ Present(e) <=> InHand(e) \/ Queued(e)
           /\ Present(e)' <=> InHand(e)' \/ Queued(e)'
BY DEF Present, InBuffer, InHand, Queued

\* A thread gives a element away.
LEMMA HandOff ==
    ASSUME element \in [Thread -> Element \cup {NoElement}], HandsDiffer,
           NEW t \in Thread, NEW e \in Element, element[t] = e,
           element' = [element EXCEPT ![t] = NoElement]
    PROVE  /\ HandsDiffer'
           /\ \A k \in Element : InHand(k)' <=> InHand(k) /\ k # e
<1>1. element'[t] = NoElement /\ \A u \in Thread \ {t} : element'[u] = element[u]
  OBVIOUS
<1>2. HandsDiffer'
  BY <1>1, NoElementAssumption DEF HandsDiffer
<1>3. ASSUME NEW k \in Element PROVE InHand(k)' <=> InHand(k) /\ k # e
  BY <1>1, NoElementAssumption DEF HandsDiffer, InHand
<1> QED BY <1>2, <1>3

\* A thread takes a element that no thread holds.
LEMMA HandOn ==
    ASSUME element \in [Thread -> Element \cup {NoElement}], HandsDiffer,
           NEW t \in Thread, NEW e \in Element, element[t] = NoElement, ~ InHand(e),
           element' = [element EXCEPT ![t] = e]
    PROVE  /\ HandsDiffer'
           /\ \A k \in Element : InHand(k)' <=> InHand(k) \/ k = e
<1>1. element'[t] = e /\ \A u \in Thread \ {t} : element'[u] = element[u]
  OBVIOUS
<1>2. HandsDiffer'
  BY <1>1 DEF HandsDiffer, InHand
<1>3. ASSUME NEW k \in Element PROVE InHand(k)' <=> InHand(k) \/ k = e
  BY <1>1, NoElementAssumption DEF InHand
<1> QED BY <1>2, <1>3

\* push_back of a element that is in no deque.
LEMMA QueueOn ==
    ASSUME m_buffer \in [Queue -> Seq(Element)], SlotsDiffer,
           NEW q \in Queue, NEW e \in Element, ~ Queued(e),
           m_buffer' = [m_buffer EXCEPT ![q] = Append(@, e)]
    PROVE  /\ SlotsDiffer'
           /\ \A k \in Element : Queued(k)' <=> Queued(k) \/ k = e
<1>1. \A r \in Queue \ {q} : m_buffer'[r] = m_buffer[r]
  OBVIOUS
<1>2. /\ Len(m_buffer[q]) \in Nat /\ Len(m_buffer'[q]) = Len(m_buffer[q]) + 1
      /\ m_buffer'[q][Len(m_buffer[q]) + 1] = e
      /\ \A n \in 1 .. Len(m_buffer[q]) : m_buffer'[q][n] = m_buffer[q][n]
  OBVIOUS
<1>3. ASSUME NEW r \in Queue, NEW n \in 1 .. Len(m_buffer'[r])
      PROVE  \/ r = q /\ n = Len(m_buffer[q]) + 1 /\ m_buffer'[r][n] = e
             \/ n \in 1 .. Len(m_buffer[r]) /\ m_buffer'[r][n] = m_buffer[r][n]
                /\ m_buffer[r][n] # e
  <2>1. CASE r # q
    BY <1>1, <2>1 DEF Queued
  <2>2. CASE r = q
    <3>1. n = Len(m_buffer[q]) + 1 \/ n \in 1 .. Len(m_buffer[q])
      BY <1>2, <2>2
    <3> QED BY <1>2, <2>2, <3>1 DEF Queued
  <2> QED BY <2>1, <2>2
<1>4. SlotsDiffer'
  <2> SUFFICES ASSUME NEW r \in Queue, NEW s \in Queue,
                      NEW m \in 1 .. Len(m_buffer'[r]), NEW n \in 1 .. Len(m_buffer'[s]),
                      m_buffer'[r][m] = m_buffer'[s][n]
               PROVE  r = s /\ m = n
    BY DEF SlotsDiffer
  <2>1. CASE m_buffer'[r][m] = e
    BY <1>3, <2>1
  <2>2. CASE m_buffer'[r][m] # e
    BY <1>3, <2>2 DEF SlotsDiffer
  <2> QED BY <2>1, <2>2
<1>5. ASSUME NEW k \in Element PROVE Queued(k)' <=> Queued(k) \/ k = e
  <2>1. Queued(k)' => Queued(k) \/ k = e
    BY <1>3 DEF Queued
  <2>2. ASSUME NEW r \in Queue, NEW n \in 1 .. Len(m_buffer[r])
        PROVE  n \in 1 .. Len(m_buffer'[r]) /\ m_buffer'[r][n] = m_buffer[r][n]
    BY <1>1, <1>2
  <2>3. Queued(k) => Queued(k)'
    BY <2>2 DEF Queued
  <2>4. Queued(e)'
    <3>1. Len(m_buffer[q]) + 1 \in 1 .. Len(m_buffer'[q])
      BY <1>2
    <3> QED BY <1>2, <3>1 DEF Queued
  <2> QED BY <2>1, <2>3, <2>4
<1> QED BY <1>4, <1>5

\* The first element of a deque is taken out of it, the others move up.
LEMMA QueueOff ==
    ASSUME m_buffer \in [Queue -> Seq(Element)], SlotsDiffer,
           NEW q \in Queue, m_buffer[q] # <<>>,
           m_buffer' = [m_buffer EXCEPT ![q] = Tail(@)]
    PROVE  /\ SlotsDiffer'
           /\ Head(m_buffer[q]) \in Element /\ Queued(Head(m_buffer[q]))
           /\ \A k \in Element : Queued(k)' <=> Queued(k) /\ k # Head(m_buffer[q])
<1> DEFINE e == Head(m_buffer[q])
<1>1. \A r \in Queue \ {q} : m_buffer'[r] = m_buffer[r]
  OBVIOUS
<1>2. m_buffer[q] \in Seq(Element) /\ m_buffer'[q] = Tail(m_buffer[q])
  OBVIOUS
<1>3. /\ e \in Element /\ e = m_buffer[q][1] /\ Len(m_buffer[q]) \in Nat \ {0}
      /\ Len(m_buffer'[q]) = Len(m_buffer[q]) - 1
      /\ \A n \in 1 .. Len(m_buffer'[q]) : m_buffer'[q][n] = m_buffer[q][n + 1]
  BY <1>2, HeadTailProperties
<1> HIDE DEF e
<1>4. Queued(e)
  <2>1. 1 \in 1 .. Len(m_buffer[q])
    BY <1>3
  <2> QED BY <1>3, <2>1 DEF Queued
\* Where the element in a slot was before.
<1> DEFINE Before(r, n) == IF r = q THEN n + 1 ELSE n
<1>5. ASSUME NEW r \in Queue, NEW n \in 1 .. Len(m_buffer'[r])
      PROVE  /\ Before(r, n) \in 1 .. Len(m_buffer[r])
             /\ m_buffer'[r][n] = m_buffer[r][Before(r, n)]
             /\ m_buffer'[r][n] # e
  <2>1. /\ Before(r, n) \in 1 .. Len(m_buffer[r])
        /\ m_buffer'[r][n] = m_buffer[r][Before(r, n)]
        /\ r = q => Before(r, n) # 1
    BY <1>1, <1>3
  <2>2. 1 \in 1 .. Len(m_buffer[q])
    BY <1>3
  <2> QED BY <1>3, <2>1, <2>2 DEF SlotsDiffer
<1>6. ASSUME NEW r \in Queue, NEW m \in 1 .. Len(m_buffer[r]), m_buffer[r][m] # e
      PROVE  \E n \in 1 .. Len(m_buffer'[r]) : m_buffer'[r][n] = m_buffer[r][m]
  <2>1. CASE r # q
    BY <1>1, <2>1
  <2>2. CASE r = q
    <3>1. m # 1
      BY <1>3, <1>6, <2>2
    <3>2. m - 1 \in 1 .. Len(m_buffer'[q]) /\ (m - 1) + 1 = m
      BY <1>3, <2>2, <3>1
    <3>3. m_buffer'[q][m - 1] = m_buffer[q][m]
      BY <1>3, <3>2
    <3> QED BY <2>2, <3>2, <3>3
  <2> QED BY <2>1, <2>2
<1>7. SlotsDiffer'
  <2> SUFFICES ASSUME NEW r \in Queue, NEW s \in Queue,
                      NEW m \in 1 .. Len(m_buffer'[r]), NEW n \in 1 .. Len(m_buffer'[s]),
                      m_buffer'[r][m] = m_buffer'[s][n]
               PROVE  r = s /\ m = n
    BY DEF SlotsDiffer
  <2>1. m_buffer[r][Before(r, m)] = m_buffer[s][Before(s, n)]
    BY <1>5
  <2>2. r = s /\ Before(r, m) = Before(s, n)
    BY <1>5, <2>1 DEF SlotsDiffer
  <2>3. m \in Int /\ n \in Int
    OBVIOUS
  <2> QED BY <2>2, <2>3
<1>8. ASSUME NEW k \in Element PROVE Queued(k)' <=> Queued(k) /\ k # e
  <2>1. ASSUME Queued(k)' PROVE Queued(k) /\ k # e
    <3>1. PICK r \in Queue : \E n \in 1 .. Len(m_buffer'[r]) : m_buffer'[r][n] = k
      BY <2>1 DEF Queued
    <3>2. PICK n \in 1 .. Len(m_buffer'[r]) : m_buffer'[r][n] = k
      BY <3>1
    <3>3. \E m \in 1 .. Len(m_buffer[r]) : m_buffer[r][m] = k
      BY <1>5, <3>2
    <3> QED BY <1>5, <3>2, <3>3 DEF Queued
  <2>2. ASSUME Queued(k), k # e PROVE Queued(k)'
    <3>1. PICK r \in Queue : \E m \in 1 .. Len(m_buffer[r]) : m_buffer[r][m] = k
      BY <2>2 DEF Queued
    <3>2. PICK m \in 1 .. Len(m_buffer[r]) : m_buffer[r][m] = k
      BY <3>1
    <3>3. \E n \in 1 .. Len(m_buffer'[r]) : m_buffer'[r][n] = m_buffer[r][m]
      BY <1>6, <2>2, <3>2
    <3> QED BY <3>2, <3>3 DEF Queued
  <2> QED BY <2>1, <2>2
<1> QED BY <1>3, <1>4, <1>7, <1>8 DEF e


\* push_back moves the element from the thread to the deque.
LEMMA PushBackOnce ==
    ASSUME IInv, Once, NEW t \in Thread, PushBack(t)
    PROVE  Once' /\ \A e \in Element : Present(e)' <=> Present(e)
<1>0. PICK e \in Element : e = element[t]
  BY DEF PushBack, IInv, InCall
<1>1. /\ at[t] \in Queue /\ element[t] = e
      /\ m_buffer' = [m_buffer EXCEPT ![at[t]] = Append(@, e)]
      /\ element' = [element EXCEPT ![t] = NoElement]
      /\ element \in [Thread -> Element \cup {NoElement}] /\ m_buffer \in [Queue -> Seq(Element)]
  BY <1>0 DEF PushBack, IInv, InCall, TypeOK
<1>2. InHand(e) /\ ~ Queued(e)
  BY <1>1 DEF InHand, Once
<1>3. HandsDiffer' /\ \A d \in Element : InHand(d)' <=> InHand(d) /\ d # e
  BY <1>1, HandOff DEF Once
<1>4. SlotsDiffer' /\ \A d \in Element : Queued(d)' <=> Queued(d) \/ d = e
  BY <1>1, <1>2, QueueOn DEF Once
<1> QED BY <1>2, <1>3, <1>4, PresentPlaces DEF Once

\* getFrontElement() moves it from the deque to the thread.
LEMMA GetOnce ==
    ASSUME IInv, Once, NEW t \in Thread, at[t] \in Queue, element[t] = NoElement,
           m_buffer[at[t]] # <<>>, GetFrontElement(t)
    PROVE  Once' /\ \A e \in Element : Present(e)' <=> Present(e)
<1>0. PICK e \in Element : e = Head(m_buffer[at[t]])
  BY DEF IInv, TypeOK
<1>1. /\ element' = [element EXCEPT ![t] = e] /\ m_buffer' = [m_buffer EXCEPT ![at[t]] = Tail(@)]
      /\ element \in [Thread -> Element \cup {NoElement}] /\ m_buffer \in [Queue -> Seq(Element)]
  BY <1>0 DEF GetFrontElement, IInv, TypeOK
<1>2. /\ SlotsDiffer' /\ Queued(e)
      /\ \A d \in Element : Queued(d)' <=> Queued(d) /\ d # e
  BY <1>0, <1>1, QueueOff DEF Once
<1>3. ~ InHand(e)
  BY <1>2 DEF Once
<1>4. HandsDiffer' /\ \A d \in Element : InHand(d)' <=> InHand(d) \/ d = e
  BY <1>1, <1>3, HandOn DEF Once
<1> QED BY <1>2, <1>3, <1>4, PresentPlaces DEF Once

\* The steps of an operation keep every element where there is one.
LEMMA QueueStepOnce ==
    ASSUME IInv, Once, QueueStep
    PROVE  Once' /\ \A e \in Element : Present(e)' <=> Present(e)
<1>1. PICK t \in Thread :
         \/ \E q \in Queue : CallStep(t, q)
         \/ Continue(t) \/ SpuriousWakeup(t)
      BY DEF QueueStep
<1>2. CASE UNCHANGED <<element, m_buffer>>
  BY <1>2 DEF Once, HandsDiffer, SlotsDiffer, InHand, Queued, Present, InBuffer
<1>3. CASE \E q \in Queue : CallStep(t, q)
  BY <1>2, <1>3 DEF CallStep, TryPush, Push, TryPop, Pop, Done, GetSize
<1>4. CASE PushBack(t)
  BY <1>4, PushBackOnce
<1>5. CASE Take(t) \/ CheckLeave(t)
  <2>1. at[t] \in Queue /\ element[t] = NoElement
    BY <1>5 DEF Take, CheckLeave, IInv, InCall
  <2>2. \/ UNCHANGED <<element, m_buffer>>
        \/ m_buffer[at[t]] # <<>> /\ GetFrontElement(t)
    BY <1>5 DEF Take, CheckLeave
  <2> QED BY <1>2, <2>1, <2>2, GetOnce
<1>6. CASE \/ NotifyOne(t) \/ CheckStay(t) \/ Wait(t) \/ Reacquire(t)
           \/ NotifyAll(t) \/ ReturnSize(t) \/ SpuriousWakeup(t)
  BY <1>2, <1>6 DEF NotifyOne, CheckStay, Wait, Reacquire, NotifyAll, ReturnSize, SpuriousWakeup
<1> QED BY <1>1, <1>3, <1>4, <1>5, <1>6 DEF Continue

LEMMA NextOnce ==
    ASSUME IInv, Once, [Next]_vars
    PROVE  /\ Once'
           /\ \A e \in Element : Present(e) /\ ~ Present(e)' => \E t \in Thread : Discard(t)
<1>1. CASE QueueStep
  BY <1>1, QueueStepOnce
<1>2. ASSUME NEW t \in Thread, NEW e \in Element, Obtain(t, e)
      PROVE  Once' /\ \A d \in Element : Present(d) => Present(d)'
  <2>1. /\ element[t] = NoElement /\ ~ Present(e) /\ element' = [element EXCEPT ![t] = e]
        /\ m_buffer' = m_buffer /\ element \in [Thread -> Element \cup {NoElement}]
    BY <1>2 DEF Obtain, IInv, TypeOK
  <2>2. ~ InHand(e) /\ ~ Queued(e)
    BY <2>1, PresentPlaces
  <2>3. HandsDiffer' /\ \A d \in Element : InHand(d)' <=> InHand(d) \/ d = e
    BY <2>1, <2>2, HandOn DEF Once
  <2>4. SlotsDiffer' /\ \A d \in Element : Queued(d)' <=> Queued(d)
    BY <2>1 DEF Once, SlotsDiffer, Queued
  <2> QED BY <2>2, <2>3, <2>4, PresentPlaces DEF Once
<1>3. ASSUME NEW t \in Thread, Discard(t) PROVE Once'
  <2>0. PICK e \in Element : e = element[t]
    BY <1>3 DEF Discard, IInv, TypeOK
  <2>1. /\ element[t] = e /\ element' = [element EXCEPT ![t] = NoElement]
        /\ m_buffer' = m_buffer /\ element \in [Thread -> Element \cup {NoElement}]
    BY <1>3, <2>0 DEF Discard, IInv, TypeOK
  <2>2. HandsDiffer' /\ \A d \in Element : InHand(d)' <=> InHand(d) /\ d # e
    BY <2>1, HandOff DEF Once
  <2>3. SlotsDiffer' /\ \A d \in Element : Queued(d)' <=> Queued(d)
    BY <2>1 DEF Once, SlotsDiffer, Queued
  <2> QED BY <2>2, <2>3 DEF Once
<1>4. CASE UNCHANGED vars
  BY <1>4 DEF vars, Once, HandsDiffer, SlotsDiffer, InHand, Queued, Present, InBuffer
<1> QED BY <1>1, <1>2, <1>3, <1>4 DEF Next, QueueStep

LEMMA InitOnce == Init => Once
BY NoElementAssumption DEF Init, Once, HandsDiffer, SlotsDiffer, InHand, Queued

LEMMA OnceNoDuplicates == Once => NoDuplicates
<1> SUFFICES ASSUME Once, NEW e \in Element, NEW x \in Places(e), NEW y \in Places(e)
             PROVE  x = y
  BY DEF NoDuplicates
<1>1. ASSUME NEW z \in Places(e)
      PROVE  \/ \E t \in Thread : element[t] = e /\ z = <<"hand", t>>
             \/ \E q \in Queue : \E n \in 1 .. Len(m_buffer[q]) :
                   m_buffer[q][n] = e /\ z = <<"slot", q, n>>
  BY DEF Places
<1>2. CASE InHand(e)
  <2>1. ~ Queued(e)
    BY <1>2 DEF Once
  <2>2. PICK t \in Thread : element[t] = e /\ x = <<"hand", t>>
    BY <1>1, <2>1 DEF Queued
  <2>3. PICK u \in Thread : element[u] = e /\ y = <<"hand", u>>
    BY <1>1, <2>1 DEF Queued
  <2> QED BY <2>2, <2>3 DEF Once, HandsDiffer
<1>3. CASE ~ InHand(e)
  <2>1. PICK q \in Queue : \E n \in 1 .. Len(m_buffer[q]) : m_buffer[q][n] = e /\ x = <<"slot", q, n>>
    BY <1>1, <1>3 DEF InHand
  <2>2. PICK n \in 1 .. Len(m_buffer[q]) : m_buffer[q][n] = e /\ x = <<"slot", q, n>>
    BY <2>1
  <2>3. PICK r \in Queue : \E m \in 1 .. Len(m_buffer[r]) : m_buffer[r][m] = e /\ y = <<"slot", r, m>>
    BY <1>1, <1>3 DEF InHand
  <2>4. PICK m \in 1 .. Len(m_buffer[r]) : m_buffer[r][m] = e /\ y = <<"slot", r, m>>
    BY <2>3
  <2> QED BY <2>2, <2>4 DEF Once, SlotsDiffer
<1> QED BY <1>2, <1>3

\* An element pushed by any of the operations, successful or not, is with one
\* thread or in one place of one deque, and stays so until its holder discards
\* it, for any number of threads, queues and elements.
THEOREM NothingLostCorrect == Spec => NothingLost
<1>1. Spec => [](IInv /\ Once)
  <2>1. Init => IInv /\ Once
    BY InitIInv, InitOnce
  <2>2. IInv /\ Once /\ [Next]_vars => (IInv /\ Once)'
    BY NextIInv, NextOnce
  <2> QED BY <2>1, <2>2, PTL DEF Spec
<1>2. IInv /\ Once => NoDuplicates
  BY OnceNoDuplicates
<1>3. IInv /\ Once /\ [Next]_vars =>
        [\A e \in Element : Present(e) /\ ~ Present(e)' => \E t \in Thread : Discard(t)]_vars
  BY NextOnce
<1> QED BY <1>1, <1>2, <1>3, PTL DEF Spec, NothingLost
============================================================================
