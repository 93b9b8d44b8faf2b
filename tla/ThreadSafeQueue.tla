-------------------------- MODULE ThreadSafeQueue --------------------------
(***************************************************************************)
(* kc::containers::ThreadSafeQueue<T>: a deque guarded by a mutex, with a  *)
(* condition variable on which pop() sleeps.  The module describes a       *)
(* family of such queues (the task scheduler owns one per worker) used by  *)
(* a set of threads, one action per step that another thread can observe:  *)
(* a lock operation, the body of a critical section (nobody else touches   *)
(* the deque meanwhile), a notification, the atomic store of m_done.       *)
(*                                                                         *)
(* The operations are TryPush, Push, TryPop, Pop, GetSize and Done; each   *)
(* begins in the caller's state "idle" and ends there.  `element[t]' is    *)
(* what thread t holds: the argument of a push until it is moved into the  *)
(* deque (a tryPush that failed leaves it with the caller), the result of  *)
(* a pop after it returned.  NoElement after a pop is the empty optional.  *)
(***************************************************************************)
EXTENDS Naturals, Sequences, FiniteSets

CONSTANTS
    Thread,     \* the threads that call the queues
    Queue,      \* the queues
    Element,    \* what can be pushed
    NoThread,   \* "nobody owns the mutex"
    NoQueue,    \* "not inside a call"
    NoElement   \* "holds no element", the empty optional

ASSUME ThreadFinite == IsFiniteSet(Thread)
ASSUME NoThreadAssumption == NoThread \notin Thread
ASSUME NoQueueAssumption == NoQueue \notin Queue
ASSUME NoElementAssumption == NoElement \notin Element

VARIABLES
    m_buffer,   \* m_buffer[q]: the deque
    m_mutex,    \* m_mutex[q]: the thread that owns the mutex
    m_done,     \* m_done[q]: the atomic flag
    pc,         \* pc[t]: where thread t is inside its call
    at,         \* at[t]: the queue of that call
    element     \* element[t]: the element in the hands of thread t

vars == <<m_buffer, m_mutex, m_done, pc, at, element>>

\* States in which the thread owns the mutex of the queue it is at.
Critical == {"append", "take", "check", "sleep", "size"}

Label == Critical \cup {"idle", "notify", "waiting", "woken", "notifyAll"}

TypeOK ==
    /\ m_buffer \in [Queue -> Seq(Element)]
    /\ m_mutex \in [Queue -> Thread \cup {NoThread}]
    /\ m_done \in [Queue -> BOOLEAN]
    /\ pc \in [Thread -> Label]
    /\ at \in [Thread -> Queue \cup {NoQueue}]
    /\ element \in [Thread -> Element \cup {NoElement}]

Init ==
    /\ m_buffer = [q \in Queue |-> <<>>]
    /\ m_mutex = [q \in Queue |-> NoThread]
    /\ m_done = [q \in Queue |-> FALSE]
    /\ pc = [t \in Thread |-> "idle"]
    /\ at = [t \in Thread |-> NoQueue]
    /\ element = [t \in Thread |-> NoElement]

\* The threads blocked in m_ready.wait(lock) of queue q.
m_ready(q) == {t \in Thread : pc[t] = "waiting" /\ at[t] = q}

----------------------------------------------------------------------------
Lock(t, q) ==
    /\ m_mutex[q] = NoThread
    /\ m_mutex' = [m_mutex EXCEPT ![q] = t]

Unlock(q) == m_mutex' = [m_mutex EXCEPT ![q] = NoThread]

Enter(t, q, label) ==
    /\ pc' = [pc EXCEPT ![t] = label]
    /\ at' = [at EXCEPT ![t] = q]

Return(t) ==
    /\ pc' = [pc EXCEPT ![t] = "idle"]
    /\ at' = [at EXCEPT ![t] = NoQueue]

\* std::try_to_lock: enter the critical section, or give up at once if the
\* mutex is owned. Assumed is that try_lock() does not fail on a free mutex: the
\* standard allows it, implementations on top of pthreads do not do it.
TryLock(t, q, label) ==
    \/ Lock(t, q) /\ Enter(t, q, label)
    \/ m_mutex[q] # NoThread /\ UNCHANGED <<m_mutex, pc, at>>

----------------------------------------------------------------------------
\* Mutant: the argument is moved before try_lock is known to have succeeded.
TryPushMovesFirst(t, q) ==
    /\ pc[t] = "idle" /\ element[t] # NoElement
    /\ \/ /\ Lock(t, q) /\ Enter(t, q, "append")
          /\ UNCHANGED element
       \/ /\ m_mutex[q] # NoThread
          /\ element' = [element EXCEPT ![t] = NoElement]
          /\ UNCHANGED <<m_mutex, pc, at>>
    /\ UNCHANGED <<m_buffer, m_done>>

TryPush(t, q) ==
    /\ pc[t] = "idle" /\ element[t] # NoElement
    /\ TryLock(t, q, "append")
    /\ UNCHANGED <<m_buffer, m_done, element>>

Push(t, q) ==
    /\ pc[t] = "idle" /\ element[t] # NoElement
    /\ Lock(t, q) /\ Enter(t, q, "append")
    /\ UNCHANGED <<m_buffer, m_done, element>>

\* Mutants: the element is moved away before push_back reads it; nobody is
\* notified; a push notifies only if the deque was empty.
PushBackMovedFrom(t) ==
    /\ pc[t] = "append"
    /\ m_buffer' = [m_buffer EXCEPT ![at[t]] = Append(@, NoElement)]
    /\ element' = [element EXCEPT ![t] = NoElement]
    /\ Unlock(at[t])
    /\ pc' = [pc EXCEPT ![t] = "notify"]
    /\ UNCHANGED <<m_done, at>>

PushBackQuiet(t) ==
    /\ pc[t] = "append"
    /\ m_buffer' = [m_buffer EXCEPT ![at[t]] = Append(@, element[t])]
    /\ element' = [element EXCEPT ![t] = NoElement]
    /\ Unlock(at[t]) /\ Return(t)
    /\ UNCHANGED m_done

PushBackNotifiesIfEmpty(t) ==
    /\ pc[t] = "append"
    /\ m_buffer' = [m_buffer EXCEPT ![at[t]] = Append(@, element[t])]
    /\ element' = [element EXCEPT ![t] = NoElement]
    /\ Unlock(at[t])
    /\ IF m_buffer[at[t]] = <<>> THEN Enter(t, at[t], "notify") ELSE Return(t)
    /\ UNCHANGED m_done

\* push_back and the end of the lock's scope, in tryPush and push alike.
PushBack(t) ==
    /\ pc[t] = "append"
    /\ m_buffer' = [m_buffer EXCEPT ![at[t]] = Append(@, element[t])]
    /\ element' = [element EXCEPT ![t] = NoElement]
    /\ Unlock(at[t])
    /\ pc' = [pc EXCEPT ![t] = "notify"]
    /\ UNCHANGED <<m_done, at>>

\* m_ready.notify_one(), after the mutex was released.
NotifyOne(t) ==
    /\ pc[t] = "notify"
    /\ \/ \E u \in m_ready(at[t]) :
             pc' = [pc EXCEPT ![u] = "woken", ![t] = "idle"]
       \/ /\ m_ready(at[t]) = {}
          /\ pc' = [pc EXCEPT ![t] = "idle"]
    /\ at' = [at EXCEPT ![t] = NoQueue]
    /\ UNCHANGED <<m_buffer, m_mutex, m_done, element>>

----------------------------------------------------------------------------
GetFrontElement(t) ==
    /\ element' = [element EXCEPT ![t] = Head(m_buffer[at[t]])]
    /\ m_buffer' = [m_buffer EXCEPT ![at[t]] = Tail(@)]

TryPop(t, q) ==
    /\ pc[t] = "idle" /\ element[t] = NoElement
    /\ TryLock(t, q, "take")
    /\ UNCHANGED <<m_buffer, m_done, element>>

Take(t) ==
    /\ pc[t] = "take"
    /\ IF m_buffer[at[t]] = <<>>
         THEN UNCHANGED <<m_buffer, element>>
         ELSE GetFrontElement(t)
    /\ Unlock(at[t]) /\ Return(t)
    /\ UNCHANGED m_done

Pop(t, q) ==
    /\ pc[t] = "idle" /\ element[t] = NoElement
    /\ Lock(t, q) /\ Enter(t, q, "check")
    /\ UNCHANGED <<m_buffer, m_done, element>>

\* Mutant: a queue that is done hands out nothing, even if it is not empty.
CheckLeaveDropsRest(t) ==
    /\ pc[t] = "check"
    /\ \/ m_done[at[t]] /\ UNCHANGED <<m_buffer, element>>
       \/ ~ m_done[at[t]] /\ m_buffer[at[t]] # <<>> /\ GetFrontElement(t)
    /\ Unlock(at[t]) /\ Return(t)
    /\ UNCHANGED m_done

\* while (m_buffer.empty() && not m_done) finds the condition false.
CheckLeave(t) ==
    /\ pc[t] = "check"
    /\ \/ m_buffer[at[t]] # <<>> /\ GetFrontElement(t)
       \/ /\ m_buffer[at[t]] = <<>> /\ m_done[at[t]]
          /\ UNCHANGED <<m_buffer, element>>
    /\ Unlock(at[t]) /\ Return(t)
    /\ UNCHANGED m_done

\* ... finds it true: m_done was read, but the thread is not yet waiting.
CheckStay(t) ==
    /\ pc[t] = "check"
    /\ m_buffer[at[t]] = <<>> /\ ~ m_done[at[t]]
    /\ pc' = [pc EXCEPT ![t] = "sleep"]
    /\ UNCHANGED <<m_buffer, m_mutex, m_done, at, element>>

\* Mutant: the thread sleeps without releasing the mutex.
WaitKeepsLock(t) ==
    /\ pc[t] = "sleep"
    /\ pc' = [pc EXCEPT ![t] = "waiting"]
    /\ UNCHANGED <<m_buffer, m_mutex, m_done, at, element>>

\* m_ready.wait(lock) releases the mutex and blocks in one atomic step.
Wait(t) ==
    /\ pc[t] = "sleep"
    /\ Unlock(at[t])
    /\ pc' = [pc EXCEPT ![t] = "waiting"]
    /\ UNCHANGED <<m_buffer, m_done, at, element>>

\* A woken thread returns from wait() only with the mutex.
Reacquire(t) ==
    /\ pc[t] = "woken"
    /\ Lock(t, at[t])
    /\ pc' = [pc EXCEPT ![t] = "check"]
    /\ UNCHANGED <<m_buffer, m_done, at, element>>

\* A condition variable may wake a thread that nobody notified.
SpuriousWakeup(t) ==
    /\ pc[t] = "waiting"
    /\ pc' = [pc EXCEPT ![t] = "woken"]
    /\ UNCHANGED <<m_buffer, m_mutex, m_done, at, element>>

----------------------------------------------------------------------------
\* Mutant: the flag is not stored.
DoneForgetsFlag(t, q) ==
    /\ pc[t] = "idle"
    /\ Enter(t, q, "notifyAll")
    /\ UNCHANGED <<m_buffer, m_mutex, m_done, element>>

\* done() stores the flag and notifies; it never takes the mutex.
Done(t, q) ==
    /\ pc[t] = "idle"
    /\ m_done' = [m_done EXCEPT ![q] = TRUE]
    /\ Enter(t, q, "notifyAll")
    /\ UNCHANGED <<m_buffer, m_mutex, element>>

NotifyAll(t) ==
    /\ pc[t] = "notifyAll"
    /\ pc' = [u \in Thread |-> IF u = t THEN "idle"
                               ELSE IF u \in m_ready(at[t]) THEN "woken"
                               ELSE pc[u]]
    /\ at' = [at EXCEPT ![t] = NoQueue]
    /\ UNCHANGED <<m_buffer, m_mutex, m_done, element>>

\* getSize() reads under the mutex; what matters to the others is that it
\* owns the mutex for a while.
GetSize(t, q) ==
    /\ pc[t] = "idle"
    /\ Lock(t, q) /\ Enter(t, q, "size")
    /\ UNCHANGED <<m_buffer, m_done, element>>

ReturnSize(t) ==
    /\ pc[t] = "size"
    /\ Unlock(at[t]) /\ Return(t)
    /\ UNCHANGED <<m_buffer, m_done, element>>

\* What a thread inside a call does next.
Continue(t) ==
    \/ PushBack(t) \/ NotifyOne(t) \/ Take(t)
    \/ CheckLeave(t) \/ CheckStay(t) \/ Wait(t) \/ Reacquire(t)
    \/ NotifyAll(t) \/ ReturnSize(t)

CallStep(t, q) ==
    \/ TryPush(t, q) \/ Push(t, q) \/ TryPop(t, q) \/ Pop(t, q)
    \/ Done(t, q) \/ GetSize(t, q)

----------------------------------------------------------------------------
\* The threads between their calls: one makes an element, or is finished
\* with the one it has popped (or could not push).
InBuffer(e, q) == \E i \in 1..Len(m_buffer[q]) : m_buffer[q][i] = e

Present(e) ==
    \/ \E t \in Thread : element[t] = e
    \/ \E q \in Queue : InBuffer(e, q)

Obtain(t, e) ==
    /\ pc[t] = "idle" /\ element[t] = NoElement /\ ~ Present(e)
    /\ element' = [element EXCEPT ![t] = e]
    /\ UNCHANGED <<m_buffer, m_mutex, m_done, pc, at>>

Discard(t) ==
    /\ pc[t] = "idle" /\ element[t] # NoElement
    /\ element' = [element EXCEPT ![t] = NoElement]
    /\ UNCHANGED <<m_buffer, m_mutex, m_done, pc, at>>

Next ==
    \E t \in Thread :
        \/ \E q \in Queue : CallStep(t, q)
        \/ Continue(t) \/ SpuriousWakeup(t)
        \/ \E e \in Element : Obtain(t, e)
        \/ Discard(t)

Spec == Init /\ [][Next]_vars

----------------------------------------------------------------------------
\* The mutex of a queue is owned by exactly the thread inside that queue's
\* critical section: no path leaves without unlocking, or unlocks twice.
MutexDiscipline ==
    \A t \in Thread, q \in Queue :
        m_mutex[q] = t <=> pc[t] \in Critical /\ at[t] = q

\* Where element e is: in the hands of a thread, or in a slot of a deque.
Places(e) ==
    {<<"hand", t>> : t \in {u \in Thread : element[u] = e}}
      \cup UNION {{<<"slot", q, i>> : i \in {n \in 1..Len(m_buffer[q]) :
                                            m_buffer[q][n] = e}} : q \in Queue}

\* A moved-from element is never left behind and none is handed out twice:
\* an element is with one thread, or in one place of one deque, or nowhere.
NoDuplicates == \A e \in Element : \A x, y \in Places(e) : x = y

\* The threads that owe queue q a look: a push that has not notified yet, a
\* pop that will examine the deque before it can sleep.
Attending(q) ==
    {t \in Thread : at[t] = q /\ pc[t] \in {"notify", "woken", "check"}}

\* No lost wakeup on the data path.  notify_one runs after the mutex is
\* released and wakes one thread only, yet while a thread sleeps in pop()
\* there are never more elements in the deque than threads on their way to
\* fetch one: no element waits in front of a sleeping consumer.
NoStrandedElement ==
    \A q \in Queue :
        m_ready(q) # {} => Len(m_buffer[q]) <= Cardinality(Attending(q))

\* An element is never in two places, and a call never loses one: the only step
\* after which an element is gone is the one in which its holder gives it up,
\* outside every call.
NothingLost ==
    /\ []NoDuplicates
    /\ [][\A e \in Element :
             Present(e) /\ ~ Present(e)' => \E t \in Thread : Discard(t)]_vars

============================================================================
