----------------------------- MODULE RingBuffer -----------------------------
(***************************************************************************)
(* kc::containers::RingBuffer<T>: m_capacity slots, an index for push and  *)
(* one for pop, a mutex for each.  Nothing blocks and nothing is refused:  *)
(* push() overwrites and pop() returns whatever is in the slot.  Callers   *)
(* must count, as the test does that never has more than half the capacity *)
(* outstanding; `free' and `available' are that count (two semaphores).    *)
(*                                                                         *)
(* push() and pop() share no mutex.  pop() returns a reference into the    *)
(* buffer, which its caller moves from after the mutex was released; only  *)
(* then does the caller count the value as gone.  The critical section of  *)
(* pop() touches nothing but the pop index and is one step.                *)
(***************************************************************************)
EXTENDS Naturals, Sequences

CONSTANTS
    m_capacity,
    Producer, Consumer,     \* the threads that push, and that pop
    Value,                  \* what is pushed
    Limit,                  \* the most values the callers have outstanding
    NoThread,
    NoValue,                \* T{}: what resize() fills the buffer with
    Moved                   \* what a move leaves behind

Thread == Producer \cup Consumer
Index == 0 .. m_capacity - 1

ASSUME CapacityAssumption == m_capacity \in Nat \ {0}
ASSUME LimitAssumption == Limit \in 1 .. m_capacity
ASSUME ThreadAssumption == Producer \cap Consumer = {} /\ NoThread \notin Thread
ASSUME ValueAssumption == NoValue \notin Value /\ Moved \notin Value /\ NoValue # Moved

VARIABLES
    m_buffer, m_pushIndex, m_popIndex, m_pushMutex,
    pc,         \* pc[t]: "idle", "write" inside push(), "read" after pop()
    slot,       \* slot[t]: index, the local variable of push() and pop()
    value,      \* value[t]: the argument of push(), or what was popped
    free,       \* how many values may still be pushed
    available   \* how many values may be popped

vars == <<m_buffer, m_pushIndex, m_popIndex, m_pushMutex, pc, slot, value,
          free, available>>

TypeOK ==
    /\ m_buffer \in [Index -> Value \cup {NoValue, Moved}]
    /\ m_pushIndex \in Index /\ m_popIndex \in Index
    /\ m_pushMutex \in Producer \cup {NoThread}
    /\ pc \in [Thread -> {"idle", "write", "read"}]
    /\ slot \in [Thread -> Index]
    /\ value \in [Thread -> Value \cup {NoValue}]
    /\ free \in 0 .. Limit /\ available \in 0 .. Limit

Init ==
    /\ m_buffer = [n \in Index |-> NoValue]
    /\ m_pushIndex = 0 /\ m_popIndex = 0
    /\ m_pushMutex = NoThread
    /\ pc = [t \in Thread |-> "idle"]
    /\ slot = [t \in Thread |-> 0]
    /\ value = [t \in Thread |-> NoValue]
    /\ free = Limit /\ available = 0

----------------------------------------------------------------------------
\* Mutants: the index is exchanged without the mutex; it does not wrap.
PushUnlocked(p, v) ==
    /\ pc[p] = "idle" /\ free > 0
    /\ free' = free - 1
    /\ slot' = [slot EXCEPT ![p] = m_pushIndex]
    /\ m_pushIndex' = (m_pushIndex + 1) % m_capacity
    /\ value' = [value EXCEPT ![p] = v]
    /\ pc' = [pc EXCEPT ![p] = "write"]
    /\ UNCHANGED <<m_buffer, m_popIndex, m_pushMutex, available>>

PushBeyond(p, v) ==
    /\ pc[p] = "idle" /\ free > 0 /\ m_pushMutex = NoThread
    /\ free' = free - 1
    /\ m_pushMutex' = p
    /\ slot' = [slot EXCEPT ![p] = m_pushIndex]
    /\ m_pushIndex' = m_pushIndex + 1
    /\ value' = [value EXCEPT ![p] = v]
    /\ pc' = [pc EXCEPT ![p] = "write"]
    /\ UNCHANGED <<m_buffer, m_popIndex, available>>

\* push() under m_pushMutex: the index is exchanged ...
Push(p, v) ==
    /\ pc[p] = "idle" /\ free > 0 /\ m_pushMutex = NoThread
    /\ free' = free - 1
    /\ m_pushMutex' = p
    /\ slot' = [slot EXCEPT ![p] = m_pushIndex]
    /\ m_pushIndex' = (m_pushIndex + 1) % m_capacity
    /\ value' = [value EXCEPT ![p] = v]
    /\ pc' = [pc EXCEPT ![p] = "write"]
    /\ UNCHANGED <<m_buffer, m_popIndex, available>>

\* ... and the slot written, before the mutex is released.
Write(p) ==
    /\ pc[p] = "write"
    /\ m_buffer' = [m_buffer EXCEPT ![slot[p]] = value[p]]
    /\ m_pushMutex' = NoThread
    /\ pc' = [pc EXCEPT ![p] = "idle"]
    /\ available' = available + 1
    /\ UNCHANGED <<m_pushIndex, m_popIndex, slot, value, free>>

\* Mutant: the pop index is read, not exchanged.
PopStays(c) ==
    /\ pc[c] = "idle" /\ available > 0
    /\ available' = available - 1
    /\ slot' = [slot EXCEPT ![c] = m_popIndex]
    /\ pc' = [pc EXCEPT ![c] = "read"]
    /\ UNCHANGED <<m_buffer, m_pushIndex, m_popIndex, m_pushMutex, value, free>>

\* pop(): all that happens under m_popMutex is the exchange of the index.
Pop(c) ==
    /\ pc[c] = "idle" /\ available > 0
    /\ available' = available - 1
    /\ slot' = [slot EXCEPT ![c] = m_popIndex]
    /\ m_popIndex' = (m_popIndex + 1) % m_capacity
    /\ pc' = [pc EXCEPT ![c] = "read"]
    /\ UNCHANGED <<m_buffer, m_pushIndex, m_pushMutex, value, free>>

\* The caller moves the value out of the slot it has a reference to.
Read(c) ==
    /\ pc[c] = "read"
    /\ value' = [value EXCEPT ![c] = m_buffer[slot[c]]]
    /\ m_buffer' = [m_buffer EXCEPT ![slot[c]] = Moved]
    /\ pc' = [pc EXCEPT ![c] = "idle"]
    /\ free' = free + 1
    /\ UNCHANGED <<m_pushIndex, m_popIndex, m_pushMutex, slot, available>>

Next ==
    \/ \E p \in Producer : Write(p) \/ \E v \in Value : Push(p, v)
    \/ \E c \in Consumer : Pop(c) \/ Read(c)

Spec == Init /\ [][Next]_vars

----------------------------------------------------------------------------
isEmpty == m_pushIndex = m_popIndex

\* isEmpty() tells the truth whenever it can get both mutexes: the indices
\* are equal when there is nothing to pop, and only then.
EmptyIsEmpty == m_pushMutex = NoThread => (isEmpty <=> available = 0)

\* Although push() and pop() share no mutex, and pop() hands out a
\* reference, no two threads ever access the same slot.
NoSlotShared ==
    \A t, u \in Thread :
        t # u /\ pc[t] # "idle" /\ pc[u] # "idle" => slot[t] # slot[u]

\* The values written and not yet popped, oldest first.
Items == [n \in 1 .. available |-> m_buffer[(m_popIndex + (n - 1)) % m_capacity]]

\* What a consumer popped: it may still have to fetch it from the slot.
Got == [c \in Consumer |-> IF pc[c] = "read" THEN m_buffer[slot[c]] ELSE value[c]]

\* The buffer implements a FIFO: a value enters when its slot is written
\* and leaves when the index is exchanged, although the slot is read later.
Queue == INSTANCE Fifo WITH items <- Items, got <- Got

FifoSpec == Queue!Spec

=============================================================================
