-------------------------- MODULE RingBufferProofs --------------------------
(***************************************************************************)
(* For every capacity, any number of producers and any values:             *)
(* isEmpty() is right if the callers leave one slot unused; and with one   *)
(* consumer no slot is shared and the buffer implements a FIFO.            *)
(***************************************************************************)
EXTENDS RingBuffer, FiniteSetTheorems, SequenceTheorems, TLAPS

----------------------------------------------------------------------------
(***************************************************************************)
(* Positions.  At(i, n) is the slot n places after slot i.                 *)
(***************************************************************************)
At(i, n) == (i + n) % m_capacity

\* Both cases of the remainder that occur.
LEMMA AtCases ==
    ASSUME NEW i \in Index, NEW n \in 0 .. m_capacity
    PROVE  /\ i + n < m_capacity => At(i, n) = i + n
           /\ i + n >= m_capacity => At(i, n) = i + n - m_capacity
           /\ At(i, n) \in Index
  BY CapacityAssumption, SMTT(30) DEF At, Index

\* Fewer than m_capacity places further is another slot.
LEMMA AtDistinct ==
    ASSUME NEW i \in Index, NEW a \in Index, NEW b \in Index, a # b
    PROVE  At(i, a) # At(i, b)
  <1>1. /\ i \in Nat /\ a \in Nat /\ b \in Nat /\ m_capacity \in Nat
        /\ i < m_capacity /\ a < m_capacity /\ b < m_capacity
    BY CapacityAssumption DEF Index
  <1>2. a \in 0 .. m_capacity /\ b \in 0 .. m_capacity
    BY <1>1
  <1>3. At(i, a) = IF i + a < m_capacity THEN i + a ELSE i + a - m_capacity
    BY <1>1, <1>2, AtCases
  <1>4. At(i, b) = IF i + b < m_capacity THEN i + b ELSE i + b - m_capacity
    BY <1>1, <1>2, AtCases
  <1>5. QED
    BY <1>1, <1>3, <1>4

\* When the base moves on by one, what was at n + 1 is at n.
LEMMA AtShift ==
    ASSUME NEW i \in Index, NEW n \in Index
    PROVE  At(At(i, 1), n) = At(i, n + 1)
  <1>1. /\ i \in Nat /\ n \in Nat /\ m_capacity \in Nat
        /\ i < m_capacity /\ n < m_capacity
    BY CapacityAssumption DEF Index
  <1>2. n \in 0 .. m_capacity /\ n + 1 \in 0 .. m_capacity /\ 1 \in 0 .. m_capacity
    BY <1>1
  <1>3. At(i, 1) \in Index
    BY <1>2, AtCases
  <1>4. At(i, 1) = IF i + 1 < m_capacity THEN i + 1 ELSE i + 1 - m_capacity
    BY <1>1, <1>2, AtCases
  <1>5. At(i, n + 1) = IF i + (n + 1) < m_capacity THEN i + (n + 1)
                       ELSE i + (n + 1) - m_capacity
    BY <1>1, <1>2, AtCases
  <1>6. At(At(i, 1), n) = IF At(i, 1) + n < m_capacity THEN At(i, 1) + n
                          ELSE At(i, 1) + n - m_capacity
    <2>1. At(i, 1) \in Nat
      BY <1>3, CapacityAssumption DEF Index
    <2>2. QED
      BY <1>1, <1>2, <1>3, <2>1, AtCases
  <1>7. QED
    BY <1>1, <1>4, <1>5, <1>6

\* The slot after At(i, n), as the code computes it.
LEMMA AtNext ==
    ASSUME NEW i \in Index, NEW n \in Index
    PROVE  (At(i, n) + 1) % m_capacity = At(i, n + 1)
  <1>1. /\ i \in Nat /\ n \in Nat /\ m_capacity \in Nat
        /\ i < m_capacity /\ n < m_capacity
    BY CapacityAssumption DEF Index
  <1>2. n \in 0 .. m_capacity /\ n + 1 \in 0 .. m_capacity /\ 1 \in 0 .. m_capacity
    BY <1>1
  <1>3. At(i, n) \in Index
    BY <1>2, AtCases
  <1>4. At(i, n) = IF i + n < m_capacity THEN i + n ELSE i + n - m_capacity
    BY <1>1, <1>2, AtCases
  <1>5. At(i, n + 1) = IF i + (n + 1) < m_capacity THEN i + (n + 1)
                       ELSE i + (n + 1) - m_capacity
    BY <1>1, <1>2, AtCases
  <1>6. At(At(i, n), 1) = IF At(i, n) + 1 < m_capacity THEN At(i, n) + 1
                          ELSE At(i, n) + 1 - m_capacity
    <2>1. At(i, n) \in Nat
      BY <1>3, CapacityAssumption DEF Index
    <2>2. QED
      BY <1>1, <1>2, <1>3, <2>1, AtCases
  <1>7. At(At(i, n), 1) = At(i, n + 1)
    BY <1>1, <1>4, <1>5, <1>6
  <1>8. QED
    BY <1>7 DEF At

\* The old base is the last of the slots counted from the new one.
LEMMA AtLast ==
    ASSUME NEW i \in Index
    PROVE  At(At(i, 1), m_capacity - 1) = i
  <1>1. /\ m_capacity - 1 \in Index /\ m_capacity \in 0 .. m_capacity
        /\ (m_capacity - 1) + 1 = m_capacity /\ m_capacity \in Nat
        /\ i \in Nat
    BY CapacityAssumption DEF Index
  <1>2. At(At(i, 1), m_capacity - 1) = At(i, (m_capacity - 1) + 1)
    BY <1>1, AtShift
  <1>3. At(i, m_capacity) = i + m_capacity - m_capacity
    <2>1. i + m_capacity >= m_capacity
      BY <1>1
    <2>2. QED
      BY <1>1, <2>1, AtCases
  <1>4. QED
    BY <1>1, <1>2, <1>3

LEMMA AtZero ==
    ASSUME NEW i \in Index
    PROVE  At(i, 0) = i
  <1>1. /\ i \in Nat /\ m_capacity \in Nat /\ i + 0 < m_capacity
        /\ 0 \in 0 .. m_capacity
    BY CapacityAssumption DEF Index
  <1>2. At(i, 0) = i + 0
    BY <1>1, AtCases
  <1>3. QED
    BY <1>1, <1>2

----------------------------------------------------------------------------
(***************************************************************************)
(* Part one: the indices, for any number of consumers.                     *)
(***************************************************************************)
Readers == {c \in Consumer : pc[c] = "read"}
writing == IF m_pushMutex = NoThread THEN 0 ELSE 1

\* The threads and the indices are where they can be.
Positions ==
    /\ m_pushIndex \in Index /\ m_popIndex \in Index
    /\ m_pushMutex \in Producer \cup {NoThread}
    /\ pc \in [Thread -> {"idle", "write", "read"}]
    /\ free \in Nat /\ available \in Nat
    /\ \A p \in Producer : pc[p] # "read" /\ (pc[p] = "write" <=> m_pushMutex = p)
    /\ \A c \in Consumer : pc[c] # "write"

\* Every value outstanding is counted once.
Count == free + available + writing + Cardinality(Readers) = Limit

\* The push index is as far ahead of the pop index as values were pushed.
Distance == m_pushIndex = At(m_popIndex, available + writing)

IndexInv == Positions /\ Count /\ Distance

LEMMA CountBounds ==
    ASSUME IsFiniteSet(Consumer), IndexInv
    PROVE  /\ Cardinality(Readers) \in Nat
           /\ writing \in {0, 1}
           /\ available + writing + Cardinality(Readers) <= Limit
           /\ Limit \in Nat /\ Limit <= m_capacity
  <1>1. Readers \subseteq Consumer
    BY DEF Readers
  <1>2. Cardinality(Readers) \in Nat
    BY <1>1, FS_Subset, FS_CardinalityType
  <1>3. writing \in {0, 1}
    BY DEF writing
  <1>4. free \in Nat /\ available \in Nat
    BY DEF IndexInv, Positions
  <1>5. free + available + writing + Cardinality(Readers) = Limit
    BY DEF IndexInv, Count
  <1>6. Limit \in Nat /\ Limit <= m_capacity
    BY LimitAssumption, CapacityAssumption
  <1>7. QED
    BY <1>2, <1>3, <1>4, <1>5, <1>6

LEMMA IndexInit == Init => IndexInv
  <1> SUFFICES ASSUME Init PROVE IndexInv
    OBVIOUS
  <1>2. Positions
    BY CapacityAssumption, LimitAssumption, ThreadAssumption
    DEF Init, Positions, Index, Thread
  <1>3. Readers = {}
    BY DEF Init, Readers, Thread
  <1>4. writing = 0
    BY DEF Init, writing
  <1>5. Count
    BY <1>3, <1>4, FS_EmptySet, LimitAssumption, CapacityAssumption DEF Init, Count
  <1>6. 0 \in Index
    BY CapacityAssumption DEF Index
  <1>7. Distance
    BY <1>4, <1>6, AtZero DEF Init, Distance
  <1>8. QED
    BY <1>2, <1>5, <1>7 DEF IndexInv

LEMMA IndexStep ==
    ASSUME IsFiniteSet(Consumer), IndexInv, [Next]_vars
    PROVE  IndexInv'
  <1> USE DEF IndexInv
  <1>0. /\ Cardinality(Readers) \in Nat
        /\ writing \in {0, 1}
        /\ available + writing + Cardinality(Readers) <= Limit
        /\ Limit \in Nat /\ Limit <= m_capacity
        /\ m_capacity \in Nat \ {0}
        /\ free \in Nat /\ available \in Nat
    BY CountBounds, CapacityAssumption DEF Positions
  <1>1. ASSUME NEW p \in Producer, NEW v \in Value, Push(p, v)
        PROVE  IndexInv'
    <2>1. /\ m_pushMutex = NoThread /\ m_pushMutex' = p /\ free > 0
          /\ free' = free - 1 /\ available' = available /\ m_popIndex' = m_popIndex
          /\ m_pushIndex' = (m_pushIndex + 1) % m_capacity
          /\ pc' = [pc EXCEPT ![p] = "write"] /\ pc[p] = "idle"
      BY <1>1 DEF Push
    <2>2. p \in Thread /\ p # NoThread
      BY ThreadAssumption DEF Thread
    <2>3. writing = 0 /\ writing' = 1
      BY <2>1, <2>2 DEF writing
    <2>4. free + available + Cardinality(Readers) = Limit
      BY <1>0, <2>3 DEF Count
    <2>5. available \in Index /\ available + 1 \in 0 .. m_capacity
      BY <1>0, <2>1, <2>4 DEF Index
    <2>6. m_pushIndex = At(m_popIndex, available)
      BY <1>0, <2>3 DEF Distance
    <2>7. m_popIndex \in Index
      BY DEF Positions
    <2>8. m_pushIndex' = At(m_popIndex, available + 1)
      BY <2>1, <2>5, <2>6, <2>7, AtNext
    <2>9. Distance'
      <3>1. available' + writing' = available + 1
        BY <2>1, <2>3
      <3>2. QED
        BY <3>1, <2>1, <2>8 DEF Distance, At
    <2>10. m_pushIndex' \in Index
      BY <2>5, <2>7, <2>8, AtCases
    <2>11. Positions'
      <3>1. free' \in Nat /\ available' \in Nat
        BY <1>0, <2>1
      <3>2. pc' \in [Thread -> {"idle", "write", "read"}]
        BY <2>1 DEF Positions
      <3>3. \A q \in Producer : pc'[q] # "read" /\ (pc'[q] = "write" <=> m_pushMutex' = q)
        <4>1. TAKE q \in Producer
        <4>2. q \in Thread /\ q # NoThread
          BY ThreadAssumption DEF Thread
        <4>3. pc[q] # "write" /\ pc[q] # "read"
          BY <2>1, <4>2 DEF Positions
        <4>4. QED
          BY <2>1, <2>2, <4>2, <4>3 DEF Positions
      <3>4. \A c \in Consumer : pc'[c] # "write"
        BY <2>1, ThreadAssumption DEF Positions, Thread
      <3>5. QED
        BY <2>1, <2>7, <2>10, <3>1, <3>2, <3>3, <3>4 DEF Positions
    <2>12. Readers' = Readers
      BY <2>1, ThreadAssumption DEF Readers, Positions, Thread
    <2>13. Count'
      BY <1>0, <2>1, <2>3, <2>4, <2>12 DEF Count
    <2>14. QED
      BY <2>9, <2>11, <2>13
  <1>2. ASSUME NEW p \in Producer, Write(p)
        PROVE  IndexInv'
    <2>1. /\ pc[p] = "write" /\ m_pushMutex' = NoThread /\ available' = available + 1
          /\ free' = free /\ m_popIndex' = m_popIndex /\ m_pushIndex' = m_pushIndex
          /\ pc' = [pc EXCEPT ![p] = "idle"]
      BY <1>2 DEF Write
    <2>2. p \in Thread /\ p # NoThread /\ m_pushMutex = p
      BY <2>1, ThreadAssumption DEF Thread, Positions
    <2>3. writing = 1 /\ writing' = 0
      BY <2>1, <2>2 DEF writing
    <2>4. Distance'
      <3>1. available' + writing' = available + writing
        BY <1>0, <2>1, <2>3
      <3>2. QED
        BY <3>1, <2>1 DEF Distance, At
    <2>5. Readers' = Readers
      BY <2>1, ThreadAssumption DEF Readers, Positions, Thread
    <2>6. Count'
      BY <1>0, <2>1, <2>3, <2>5 DEF Count
    <2>7. Positions'
      <3>1. pc' \in [Thread -> {"idle", "write", "read"}]
        BY <2>1 DEF Positions
      <3>2. \A q \in Producer : pc'[q] # "read" /\ (pc'[q] = "write" <=> m_pushMutex' = q)
        BY <2>1, <2>2, ThreadAssumption DEF Positions, Thread
      <3>3. \A c \in Consumer : pc'[c] # "write"
        BY <2>1, ThreadAssumption DEF Positions, Thread
      <3>4. QED
        BY <1>0, <2>1, <3>1, <3>2, <3>3 DEF Positions
    <2>8. QED
      BY <2>4, <2>6, <2>7
  <1>3. ASSUME NEW c \in Consumer, Pop(c)
        PROVE  IndexInv'
    <2>1. /\ pc[c] = "idle" /\ m_pushMutex' = m_pushMutex /\ available > 0
          /\ available' = available - 1 /\ free' = free /\ m_pushIndex' = m_pushIndex
          /\ m_popIndex' = (m_popIndex + 1) % m_capacity
          /\ pc' = [pc EXCEPT ![c] = "read"]
      BY <1>3 DEF Pop
    <2>2. c \in Thread /\ c \notin Producer
      BY ThreadAssumption DEF Thread
    <2>3. writing' = writing
      BY <2>1 DEF writing
    <2>4. m_popIndex \in Index /\ m_popIndex' = At(m_popIndex, 1)
      BY <2>1 DEF Positions, At
    <2>5. available' + writing \in Index
      BY <1>0, <2>1 DEF Index
    <2>6. At(At(m_popIndex, 1), available' + writing)
            = At(m_popIndex, (available' + writing) + 1)
      BY <2>4, <2>5, AtShift
    <2>7. Distance'
      <3>1. (available' + writing) + 1 = available + writing
        BY <1>0, <2>1
      <3>2. QED
        BY <3>1, <2>1, <2>3, <2>4, <2>6 DEF Distance, At
    <2>8. Readers' = Readers \cup {c} /\ c \notin Readers
      BY <2>1, <2>2 DEF Readers, Positions, Thread
    <2>9. IsFiniteSet(Readers)
      BY FS_Subset DEF Readers
    <2>10. Cardinality(Readers') = Cardinality(Readers) + 1
      BY <2>8, <2>9, FS_AddElement
    <2>11. Count'
      BY <1>0, <2>1, <2>3, <2>10 DEF Count
    <2>12. Positions'
      <3>1. 1 \in 0 .. m_capacity
        BY <1>0
      <3>2. m_popIndex' \in Index
        BY <2>4, <3>1, AtCases
      <3>3. pc' \in [Thread -> {"idle", "write", "read"}]
        BY <2>1 DEF Positions
      <3>4. \A q \in Producer : pc'[q] # "read" /\ (pc'[q] = "write" <=> m_pushMutex' = q)
        BY <2>1, <2>2 DEF Positions, Thread
      <3>5. \A d \in Consumer : pc'[d] # "write"
        BY <2>1, <2>2 DEF Positions, Thread
      <3>6. QED
        BY <1>0, <2>1, <3>2, <3>3, <3>4, <3>5 DEF Positions
    <2>13. QED
      BY <2>7, <2>11, <2>12
  <1>4. ASSUME NEW c \in Consumer, Read(c)
        PROVE  IndexInv'
    <2>1. /\ pc[c] = "read" /\ m_pushMutex' = m_pushMutex /\ free' = free + 1
          /\ available' = available /\ m_pushIndex' = m_pushIndex
          /\ m_popIndex' = m_popIndex /\ pc' = [pc EXCEPT ![c] = "idle"]
      BY <1>4 DEF Read
    <2>2. c \in Thread /\ c \notin Producer
      BY ThreadAssumption DEF Thread
    <2>3. writing' = writing
      BY <2>1 DEF writing
    <2>4. Distance'
      BY <2>1, <2>3 DEF Distance, At
    <2>5. Readers' = Readers \ {c} /\ c \in Readers
      BY <2>1, <2>2 DEF Readers, Positions, Thread
    <2>6. IsFiniteSet(Readers)
      BY FS_Subset DEF Readers
    <2>7. Cardinality(Readers') = Cardinality(Readers) - 1
      BY <2>5, <2>6, FS_RemoveElement
    <2>8. Count'
      BY <1>0, <2>1, <2>3, <2>7 DEF Count
    <2>9. Positions'
      <3>1. pc' \in [Thread -> {"idle", "write", "read"}]
        BY <2>1 DEF Positions
      <3>2. \A q \in Producer : pc'[q] # "read" /\ (pc'[q] = "write" <=> m_pushMutex' = q)
        BY <2>1, <2>2 DEF Positions, Thread
      <3>3. \A d \in Consumer : pc'[d] # "write"
        BY <2>1, <2>2 DEF Positions, Thread
      <3>4. QED
        BY <1>0, <2>1, <3>1, <3>2, <3>3 DEF Positions
    <2>10. QED
      BY <2>4, <2>8, <2>9
  <1>5. ASSUME UNCHANGED vars
        PROVE  IndexInv'
    BY <1>5 DEF vars, Positions, Count, Distance, writing, Readers, At
  <1>6. QED
    BY <1>1, <1>2, <1>3, <1>4, <1>5 DEF Next

\* isEmpty() is right in every state if the callers never have more than
\* m_capacity - 1 values outstanding, with any number of threads.
THEOREM EmptyIsEmptyCorrect ==
    ASSUME IsFiniteSet(Consumer), Limit < m_capacity
    PROVE  Spec => []EmptyIsEmpty
  <1>1. ASSUME IndexInv
        PROVE  EmptyIsEmpty
    <2>1. SUFFICES ASSUME m_pushMutex = NoThread
                   PROVE  m_pushIndex = m_popIndex <=> available = 0
      BY DEF EmptyIsEmpty, isEmpty
    <2>2. writing = 0
      BY <2>1 DEF writing
    <2>3. available \in Index /\ m_popIndex \in Index /\ 0 \in Index
      BY <1>1, <2>2, CountBounds, CapacityAssumption DEF IndexInv, Positions, Index
    <2>4. m_pushIndex = At(m_popIndex, available)
      BY <1>1, <2>2, <2>3, CapacityAssumption DEF IndexInv, Distance, Index
    <2>5. m_popIndex = At(m_popIndex, 0)
      BY <2>3, AtZero
    <2>6. QED
      BY <2>3, <2>4, <2>5, AtDistinct
  <1>2. QED
    BY <1>1, IndexInit, IndexStep, PTL DEF Spec

----------------------------------------------------------------------------
(***************************************************************************)
(* Part two: the slots, for one consumer.                                  *)
(***************************************************************************)
SingleConsumer == \A c, d \in Consumer : c = d

\* A writer is right behind the values that can be popped.
WriterSlot ==
    \A p \in Producer :
        pc[p] = "write" => slot[p] = At(m_popIndex, available) /\ value[p] \in Value

\* The reader is right in front of them, at a slot that still has its value.
ReaderSlot ==
    \A c \in Consumer :
        pc[c] = "read" => /\ slot[c] = At(m_popIndex, m_capacity - 1)
                          /\ m_buffer[slot[c]] \in Value

\* What can be popped is in its slot.
Contents == \A n \in 0 .. available - 1 : m_buffer[At(m_popIndex, n)] \in Value

SlotInv == IndexInv /\ TypeOK /\ WriterSlot /\ ReaderSlot /\ Contents

LEMMA SingleFinite ==
    ASSUME SingleConsumer
    PROVE  IsFiniteSet(Consumer)
  <1>1. CASE Consumer = {}
    BY <1>1, FS_EmptySet
  <1>2. CASE Consumer # {}
    <2>1. PICK c \in Consumer : TRUE
      BY <1>2
    <2>2. Consumer = {c}
      BY <2>1 DEF SingleConsumer
    <2>3. QED
      BY <2>2, FS_Singleton
  <1>3. QED
    BY <1>1, <1>2

\* What a consumer reads is outstanding too.
LEMMA Room ==
    ASSUME IsFiniteSet(Consumer), IndexInv, NEW c \in Consumer, pc[c] = "read"
    PROVE  available + writing + 1 <= m_capacity /\ free + 1 <= Limit
  <1>1. Readers \subseteq Consumer /\ c \in Readers
    BY DEF Readers
  <1>2. IsFiniteSet(Readers)
    BY <1>1, FS_Subset
  <1>3. Cardinality(Readers) # 0
    BY <1>1, <1>2, FS_EmptySet
  <1>4. /\ Cardinality(Readers) \in Nat
        /\ writing \in {0, 1}
        /\ available + writing + Cardinality(Readers) <= Limit
        /\ Limit \in Nat /\ Limit <= m_capacity
        /\ m_capacity \in Nat /\ available \in Nat /\ free \in Nat
        /\ free + available + writing + Cardinality(Readers) = Limit
    BY CountBounds, CapacityAssumption DEF IndexInv, Positions, Count
  <1>5. QED
    BY <1>3, <1>4

\* The facts about sizes that the steps need.
LEMMA Sizes ==
    ASSUME IsFiniteSet(Consumer), IndexInv
    PROVE  /\ m_capacity \in Nat \ {0} /\ available \in Nat /\ available <= m_capacity
           /\ free \in 0 .. Limit /\ available \in 0 .. Limit
           /\ m_popIndex \in Index
           /\ \A p \in Producer : pc[p] = "write" =>
                 /\ writing = 1 /\ m_pushMutex = p
                 /\ available + 1 <= Limit /\ Limit <= m_capacity
  <1>1. /\ Cardinality(Readers) \in Nat
        /\ writing \in {0, 1}
        /\ available + writing + Cardinality(Readers) <= Limit
        /\ Limit \in Nat /\ Limit <= m_capacity
        /\ free \in Nat /\ available \in Nat
        /\ free + available + writing + Cardinality(Readers) = Limit
        /\ m_capacity \in Nat \ {0} /\ m_popIndex \in Index
    BY CountBounds, CapacityAssumption DEF IndexInv, Positions, Count
  <1>2. \A p \in Producer : pc[p] = "write" => writing = 1 /\ m_pushMutex = p
    BY ThreadAssumption DEF IndexInv, Positions, writing, Thread
  <1>3. QED
    BY <1>1, <1>2

LEMMA SlotInit ==
    ASSUME SingleConsumer, Init
    PROVE  SlotInv
  <1>1. IndexInv
    BY IndexInit
  <1>2. TypeOK
    BY CapacityAssumption, LimitAssumption DEF Init, TypeOK, Index
  <1>3. WriterSlot /\ ReaderSlot
    BY DEF Init, WriterSlot, ReaderSlot, Thread
  <1>4. Contents
    BY DEF Init, Contents
  <1>5. QED
    BY <1>1, <1>2, <1>3, <1>4 DEF SlotInv

LEMMA PushSlots ==
    ASSUME SingleConsumer, SlotInv, IndexInv',
           NEW p \in Producer, NEW v \in Value, Push(p, v)
    PROVE  SlotInv'
  <1>1. /\ m_pushMutex = NoThread /\ m_pushMutex' = p
        /\ slot' = [slot EXCEPT ![p] = m_pushIndex]
        /\ value' = [value EXCEPT ![p] = v]
        /\ pc' = [pc EXCEPT ![p] = "write"]
        /\ m_buffer' = m_buffer /\ m_popIndex' = m_popIndex /\ available' = available
    BY DEF Push
  <1>2. p \in Thread /\ p # NoThread /\ p \notin Consumer
    BY ThreadAssumption DEF Thread
  <1>3. IsFiniteSet(Consumer)
    BY SingleFinite
  <1>4. writing = 0 /\ m_pushIndex = At(m_popIndex, available) /\ m_pushIndex \in Index
    <2>1. writing = 0
      BY <1>1 DEF writing
    <2>2. available + writing = available
      BY <2>1, <1>3, Sizes DEF SlotInv
    <2>3. QED
      BY <2>1, <2>2 DEF SlotInv, IndexInv, Distance, Positions
  <1>5. TypeOK'
    <2>1. slot' \in [Thread -> Index] /\ value' \in [Thread -> Value \cup {NoValue}]
      BY <1>1, <1>4 DEF SlotInv, TypeOK
    <2>2. free' \in 0 .. Limit /\ available' \in 0 .. Limit
      <3>1. free \in 0 .. Limit /\ free > 0 /\ free' = free - 1 /\ Limit \in Nat
        BY LimitAssumption, CapacityAssumption DEF Push, SlotInv, TypeOK
      <3>2. QED
        BY <3>1, <1>1 DEF SlotInv, TypeOK
    <2>3. /\ m_pushIndex' \in Index /\ m_popIndex' \in Index
          /\ m_pushMutex' \in Producer \cup {NoThread}
          /\ pc' \in [Thread -> {"idle", "write", "read"}]
      BY DEF IndexInv, Positions
    <2>4. QED
      BY <1>1, <2>1, <2>2, <2>3 DEF SlotInv, TypeOK, Index, Thread
  <1>6. WriterSlot'
    <2> SUFFICES ASSUME NEW q \in Producer, pc'[q] = "write"
                 PROVE  slot'[q] = At(m_popIndex', available') /\ value'[q] \in Value
      BY DEF WriterSlot, At
    <2>2. pc'[q] = "write"
      OBVIOUS
    <2>3. q \in Thread
      BY DEF Thread
    <2>4. q = p
      BY <1>1, <1>2, <2>2, <2>3 DEF IndexInv, Positions
    <2>5. slot'[p] = m_pushIndex /\ value'[p] = v
      BY <1>1, <1>2 DEF SlotInv, TypeOK
    <2>6. QED
      BY <1>1, <1>4, <2>4, <2>5 DEF At
  <1>7. ReaderSlot'
    <2> SUFFICES ASSUME NEW c \in Consumer, pc'[c] = "read"
                 PROVE  /\ slot'[c] = At(m_popIndex', m_capacity - 1)
                        /\ m_buffer'[slot'[c]] \in Value
      BY DEF ReaderSlot, At
    <2>2. pc'[c] = "read"
      OBVIOUS
    <2>3. c \in Thread /\ c # p
      BY <1>2 DEF Thread
    <2>4. pc[c] = "read" /\ slot'[c] = slot[c]
      BY <1>1, <2>2, <2>3 DEF SlotInv, TypeOK
    <2>5. QED
      BY <1>1, <2>4 DEF SlotInv, ReaderSlot, At
  <1>8. Contents'
    BY <1>1 DEF SlotInv, Contents, At
  <1>9. QED
    BY <1>5, <1>6, <1>7, <1>8 DEF SlotInv

LEMMA WriteSlots ==
    ASSUME SingleConsumer, SlotInv, IndexInv', NEW p \in Producer, Write(p)
    PROVE  /\ SlotInv'
           /\ \A c \in Consumer : pc[c] = "read" => m_buffer'[slot[c]] = m_buffer[slot[c]]
           /\ \A n \in 0 .. available - 1 :
                 m_buffer'[At(m_popIndex, n)] = m_buffer[At(m_popIndex, n)]
           /\ m_buffer'[At(m_popIndex, available)] = value[p]
  <1>1. /\ pc[p] = "write" /\ m_buffer' = [m_buffer EXCEPT ![slot[p]] = value[p]]
        /\ m_pushMutex' = NoThread
        /\ pc' = [pc EXCEPT ![p] = "idle"]
        /\ slot' = slot /\ value' = value /\ m_popIndex' = m_popIndex
        /\ available' = available + 1 /\ free' = free
    BY DEF Write
  <1>2. p \in Thread /\ p # NoThread /\ p \notin Consumer
    BY ThreadAssumption DEF Thread
  <1>3. IsFiniteSet(Consumer)
    BY SingleFinite
  <1>4. /\ m_capacity \in Nat \ {0} /\ available \in Nat /\ Limit \in Nat
        /\ available + 1 <= Limit /\ Limit <= m_capacity /\ available + 1 <= m_capacity
        /\ m_popIndex \in Index /\ m_pushMutex = p /\ writing = 1
    BY <1>1, <1>3, Sizes, LimitAssumption, CapacityAssumption DEF SlotInv
  <1>5. slot[p] = At(m_popIndex, available) /\ value[p] \in Value
    BY <1>1 DEF SlotInv, WriterSlot
  <1>6. available \in Index /\ m_capacity - 1 \in Index
    BY <1>4 DEF Index
  <1>7. \A n \in Index : At(m_popIndex, n) \in Index
    <2>1. \A n \in Index : n \in 0 .. m_capacity
      BY <1>4 DEF Index
    <2>2. QED
      BY <1>4, <2>1, AtCases
  <1>8. \A n \in Index : n # available =>
            m_buffer'[At(m_popIndex, n)] = m_buffer[At(m_popIndex, n)]
    <2>1. TAKE n \in Index
    <2>2. HAVE n # available
    <2>3. At(m_popIndex, n) # At(m_popIndex, available)
      BY <1>4, <1>6, <2>2, AtDistinct
    <2>4. QED
      BY <1>1, <1>5, <1>7, <2>3 DEF SlotInv, TypeOK
  <1>9. m_buffer'[At(m_popIndex, available)] = value[p]
    BY <1>1, <1>5, <1>6, <1>7 DEF SlotInv, TypeOK
  <1>10. \A n \in 0 .. available - 1 : n \in Index /\ n # available
    BY <1>4 DEF Index
  <1>11. \A n \in 0 .. available - 1 :
             m_buffer'[At(m_popIndex, n)] = m_buffer[At(m_popIndex, n)]
    BY <1>8, <1>10
  <1>12. \A c \in Consumer : pc[c] = "read" => m_buffer'[slot[c]] = m_buffer[slot[c]]
    <2>1. TAKE c \in Consumer
    <2>2. HAVE pc[c] = "read"
    <2>3. available + writing + 1 <= m_capacity
      BY <1>3, <2>2, Room DEF SlotInv
    <2>4. m_capacity - 1 # available
      BY <1>4, <2>3
    <2>5. slot[c] = At(m_popIndex, m_capacity - 1)
      BY <2>2 DEF SlotInv, ReaderSlot
    <2>6. QED
      BY <1>6, <1>8, <2>4, <2>5
  <1>13. TypeOK'
    <2>1. m_buffer' \in [Index -> Value \cup {NoValue, Moved}]
      BY <1>1, <1>5 DEF SlotInv, TypeOK
    <2>2. free' \in 0 .. Limit /\ available' \in 0 .. Limit
      BY <1>1, <1>4, LimitAssumption, CapacityAssumption DEF SlotInv, TypeOK
    <2>3. /\ m_pushIndex' \in Index /\ m_popIndex' \in Index
          /\ m_pushMutex' \in Producer \cup {NoThread}
          /\ pc' \in [Thread -> {"idle", "write", "read"}]
      BY DEF IndexInv, Positions
    <2>4. QED
      BY <1>1, <2>1, <2>2, <2>3 DEF SlotInv, TypeOK, Index, Thread
  <1>14. WriterSlot'
    <2>1. \A q \in Producer : pc'[q] # "write"
      BY <1>1, ThreadAssumption DEF IndexInv, Positions, Thread
    <2>2. QED
      BY <2>1 DEF WriterSlot
  <1>15. ReaderSlot'
    <2> SUFFICES ASSUME NEW c \in Consumer, pc'[c] = "read"
                 PROVE  /\ slot'[c] = At(m_popIndex', m_capacity - 1)
                        /\ m_buffer'[slot'[c]] \in Value
      BY DEF ReaderSlot, At
    <2>2. pc'[c] = "read"
      OBVIOUS
    <2>3. c \in Thread /\ c # p
      BY <1>2 DEF Thread
    <2>4. pc[c] = "read"
      BY <1>1, <2>2, <2>3 DEF SlotInv, TypeOK
    <2>5. QED
      BY <1>1, <1>12, <2>4 DEF SlotInv, ReaderSlot, At
  <1>16. Contents'
    <2> SUFFICES ASSUME NEW n \in 0 .. available' - 1
                 PROVE  m_buffer'[At(m_popIndex', n)] \in Value
      BY DEF Contents, At
    <2>2. n \in 0 .. available - 1 \/ n = available
      BY <1>1, <1>4
    <2>3. At(m_popIndex, n)' = At(m_popIndex, n)
      BY <1>1 DEF At
    <2>4. QED
      BY <1>5, <1>9, <1>11, <2>2, <1>1 DEF SlotInv, Contents, At
  <1>17. QED
    BY <1>9, <1>11, <1>12, <1>13, <1>14, <1>15, <1>16 DEF SlotInv

LEMMA PopSlots ==
    ASSUME SingleConsumer, SlotInv, IndexInv', NEW c \in Consumer, Pop(c)
    PROVE  /\ SlotInv'
           /\ available > 0 /\ available \in Nat
           /\ slot'[c] = At(m_popIndex, 0)
           /\ \A n \in 0 .. available - 2 : At(m_popIndex', n) = At(m_popIndex, n + 1)
  <1>1. /\ pc[c] = "idle" /\ available > 0 /\ available' = available - 1
        /\ slot' = [slot EXCEPT ![c] = m_popIndex]
        /\ m_popIndex' = (m_popIndex + 1) % m_capacity
        /\ pc' = [pc EXCEPT ![c] = "read"]
        /\ m_buffer' = m_buffer /\ value' = value /\ free' = free
    BY DEF Pop
  <1>2. c \in Thread /\ c \notin Producer
    BY ThreadAssumption DEF Thread
  <1>3. IsFiniteSet(Consumer)
    BY SingleFinite
  <1>4. /\ m_capacity \in Nat \ {0} /\ available \in Nat /\ available <= m_capacity
        /\ m_popIndex \in Index /\ Limit \in Nat
    BY <1>3, Sizes, LimitAssumption, CapacityAssumption DEF SlotInv
  <1>5. m_popIndex' = At(m_popIndex, 1)
    BY <1>1 DEF At
  <1>6. \A n \in Index : At(m_popIndex', n) = At(m_popIndex, n + 1)
    BY <1>4, <1>5, AtShift
  <1>7. m_popIndex = At(m_popIndex, 0) /\ slot'[c] = m_popIndex
    BY <1>1, <1>2, <1>4, AtZero DEF SlotInv, TypeOK
  <1>8. \A n \in 0 .. available - 2 : At(m_popIndex', n) = At(m_popIndex, n + 1)
    <2>1. \A n \in 0 .. available - 2 : n \in Index
      BY <1>4 DEF Index
    <2>2. QED
      BY <1>6, <2>1
  <1>9. TypeOK'
    <2>1. slot' \in [Thread -> Index]
      BY <1>1, <1>4 DEF SlotInv, TypeOK
    <2>2. free' \in 0 .. Limit /\ available' \in 0 .. Limit
      BY <1>1, <1>4 DEF SlotInv, TypeOK
    <2>3. /\ m_pushIndex' \in Index /\ m_popIndex' \in Index
          /\ m_pushMutex' \in Producer \cup {NoThread}
          /\ pc' \in [Thread -> {"idle", "write", "read"}]
      BY DEF IndexInv, Positions
    <2>4. QED
      BY <1>1, <2>1, <2>2, <2>3 DEF SlotInv, TypeOK, Index, Thread
  <1>10. WriterSlot'
    <2> SUFFICES ASSUME NEW q \in Producer, pc'[q] = "write"
                 PROVE  slot'[q] = At(m_popIndex', available') /\ value'[q] \in Value
      BY DEF WriterSlot, At
    <2>1. q \in Thread /\ q # c
      BY <1>2 DEF Thread
    <2>2. pc[q] = "write" /\ slot'[q] = slot[q]
      BY <1>1, <2>1 DEF SlotInv, TypeOK
    <2>3. slot[q] = At(m_popIndex, available) /\ value[q] \in Value
      BY <2>2 DEF SlotInv, WriterSlot
    <2>4. available' \in Index /\ available' + 1 = available
      BY <1>1, <1>4 DEF Index
    <2>5. QED
      BY <1>1, <1>6, <2>2, <2>3, <2>4
  <1>11. ReaderSlot'
    <2> SUFFICES ASSUME NEW d \in Consumer, pc'[d] = "read"
                 PROVE  /\ slot'[d] = At(m_popIndex', m_capacity - 1)
                        /\ m_buffer'[slot'[d]] \in Value
      BY DEF ReaderSlot, At
    <2>1. d = c
      BY DEF SingleConsumer
    <2>2. At(m_popIndex', m_capacity - 1) = m_popIndex
      BY <1>4, <1>5, AtLast
    <2>3. 0 \in 0 .. available - 1
      BY <1>1, <1>4
    <2>4. m_buffer[m_popIndex] \in Value
      BY <1>7, <2>3 DEF SlotInv, Contents
    <2>5. QED
      BY <1>1, <1>7, <2>1, <2>2, <2>4
  <1>12. Contents'
    <2> SUFFICES ASSUME NEW n \in 0 .. available' - 1
                 PROVE  m_buffer'[At(m_popIndex', n)] \in Value
      BY DEF Contents, At
    <2>1. n \in 0 .. available - 2 /\ n + 1 \in 0 .. available - 1
      BY <1>1, <1>4
    <2>2. m_buffer[At(m_popIndex, n + 1)] \in Value
      BY <2>1 DEF SlotInv, Contents
    <2>3. QED
      BY <1>1, <1>8, <2>1, <2>2
  <1>13. QED
    BY <1>1, <1>4, <1>7, <1>8, <1>9, <1>10, <1>11, <1>12 DEF SlotInv

LEMMA ReadSlots ==
    ASSUME SingleConsumer, SlotInv, IndexInv', NEW c \in Consumer, Read(c)
    PROVE  /\ SlotInv'
           /\ \A n \in 0 .. available - 1 :
                 m_buffer'[At(m_popIndex, n)] = m_buffer[At(m_popIndex, n)]
  <1>1. /\ pc[c] = "read" /\ value' = [value EXCEPT ![c] = m_buffer[slot[c]]]
        /\ m_buffer' = [m_buffer EXCEPT ![slot[c]] = Moved]
        /\ pc' = [pc EXCEPT ![c] = "idle"] /\ free' = free + 1
        /\ slot' = slot /\ m_popIndex' = m_popIndex /\ available' = available
    BY DEF Read
  <1>2. c \in Thread /\ c \notin Producer
    BY ThreadAssumption DEF Thread
  <1>3. IsFiniteSet(Consumer)
    BY SingleFinite
  <1>4. /\ m_capacity \in Nat \ {0} /\ available \in Nat /\ m_popIndex \in Index
        /\ free \in 0 .. Limit /\ available \in 0 .. Limit /\ Limit \in Nat
    BY <1>3, Sizes, LimitAssumption, CapacityAssumption DEF SlotInv
  <1>5. available + 1 <= m_capacity /\ free + 1 <= Limit
    <2>1. available + writing + 1 <= m_capacity /\ free + 1 <= Limit
      BY <1>1, <1>3, Room DEF SlotInv
    <2>2. writing \in {0, 1}
      BY DEF writing
    <2>3. QED
      BY <1>4, <2>1, <2>2
  <1>6. slot[c] = At(m_popIndex, m_capacity - 1) /\ m_buffer[slot[c]] \in Value
    BY <1>1 DEF SlotInv, ReaderSlot
  <1>7. m_capacity - 1 \in Index
    BY <1>4 DEF Index
  <1>8. \A n \in 0 .. available - 1 :
            m_buffer'[At(m_popIndex, n)] = m_buffer[At(m_popIndex, n)]
    <2>1. TAKE n \in 0 .. available - 1
    <2>2. n \in Index /\ n # m_capacity - 1 /\ n \in 0 .. m_capacity
      BY <1>4, <1>5 DEF Index
    <2>3. At(m_popIndex, n) # At(m_popIndex, m_capacity - 1)
      BY <1>4, <1>7, <2>2, AtDistinct
    <2>4. At(m_popIndex, n) \in Index
      BY <1>4, <2>2, AtCases
    <2>5. QED
      BY <1>1, <1>6, <2>3, <2>4 DEF SlotInv, TypeOK
  <1>9. TypeOK'
    <2>1. m_buffer' \in [Index -> Value \cup {NoValue, Moved}]
      BY <1>1 DEF SlotInv, TypeOK
    <2>2. value' \in [Thread -> Value \cup {NoValue}]
      BY <1>1, <1>6 DEF SlotInv, TypeOK
    <2>3. free' \in 0 .. Limit /\ available' \in 0 .. Limit
      BY <1>1, <1>4, <1>5
    <2>4. /\ m_pushIndex' \in Index /\ m_popIndex' \in Index
          /\ m_pushMutex' \in Producer \cup {NoThread}
          /\ pc' \in [Thread -> {"idle", "write", "read"}]
      BY DEF IndexInv, Positions
    <2>5. QED
      BY <1>1, <2>1, <2>2, <2>3, <2>4 DEF SlotInv, TypeOK, Index, Thread
  <1>10. WriterSlot'
    <2> SUFFICES ASSUME NEW q \in Producer, pc'[q] = "write"
                 PROVE  slot'[q] = At(m_popIndex', available') /\ value'[q] \in Value
      BY DEF WriterSlot, At
    <2>1. q \in Thread /\ q # c
      BY <1>2 DEF Thread
    <2>2. pc[q] = "write" /\ value'[q] = value[q]
      BY <1>1, <2>1 DEF SlotInv, TypeOK
    <2>3. QED
      BY <1>1, <2>2 DEF SlotInv, WriterSlot
  <1>11. ReaderSlot'
    <2>1. \A d \in Consumer : pc'[d] # "read"
      BY <1>1, <1>2 DEF SingleConsumer, SlotInv, TypeOK
    <2>2. QED
      BY <2>1 DEF ReaderSlot
  <1>12. Contents'
    <2> SUFFICES ASSUME NEW n \in 0 .. available' - 1
                 PROVE  m_buffer'[At(m_popIndex', n)] \in Value
      BY DEF Contents, At
    <2>1. QED
      BY <1>1, <1>8 DEF SlotInv, Contents
  <1>13. QED
    BY <1>8, <1>9, <1>10, <1>11, <1>12 DEF SlotInv

LEMMA SlotStep ==
    ASSUME SingleConsumer, SlotInv, [Next]_vars
    PROVE  SlotInv'
  <1>1. IndexInv'
    BY SingleFinite, IndexStep DEF SlotInv
  <1>2. CASE UNCHANGED vars
    BY <1>1, <1>2 DEF vars, SlotInv, TypeOK, WriterSlot, ReaderSlot, Contents, At
  <1>3. QED
    BY <1>1, <1>2, PushSlots, WriteSlots, PopSlots, ReadSlots DEF Next

----------------------------------------------------------------------------
\* The buffer is well typed: no consumer ever gets a moved-from value.
THEOREM TypeCorrect ==
    ASSUME SingleConsumer
    PROVE  Spec => []TypeOK
  <1>1. SlotInv => TypeOK
    BY DEF SlotInv
  <1>2. QED
    BY <1>1, SlotInit, SlotStep, PTL DEF Spec

\* With one consumer no two threads access the same slot, up to a full
\* buffer and for any number of producers.
THEOREM NoSlotSharedCorrect ==
    ASSUME SingleConsumer
    PROVE  Spec => []NoSlotShared
  <1>1. ASSUME SlotInv, NEW p \in Producer, NEW c \in Consumer,
               pc[p] = "write", pc[c] = "read"
        PROVE  slot[p] # slot[c]
    <2>1. IsFiniteSet(Consumer)
      BY SingleFinite
    <2>2. /\ m_capacity \in Nat \ {0} /\ available \in Nat /\ m_popIndex \in Index
          /\ writing = 1
      BY <1>1, <2>1, Sizes DEF SlotInv
    <2>3. available + writing + 1 <= m_capacity
      BY <1>1, <2>1, Room DEF SlotInv
    <2>4. available \in Index /\ m_capacity - 1 \in Index /\ available # m_capacity - 1
      BY <2>2, <2>3 DEF Index
    <2>5. slot[p] = At(m_popIndex, available) /\ slot[c] = At(m_popIndex, m_capacity - 1)
      BY <1>1 DEF SlotInv, WriterSlot, ReaderSlot
    <2>6. QED
      BY <2>2, <2>4, <2>5, AtDistinct
  <1>2. ASSUME SlotInv
        PROVE  NoSlotShared
    <2> SUFFICES ASSUME NEW t \in Thread, NEW u \in Thread,
                        t # u, pc[t] # "idle", pc[u] # "idle"
                 PROVE  slot[t] # slot[u]
      BY DEF NoSlotShared
    <2>1. \A v \in Thread : pc[v] # "idle" =>
              \/ v \in Producer /\ pc[v] = "write" /\ m_pushMutex = v
              \/ v \in Consumer /\ pc[v] = "read"
      BY <1>2 DEF SlotInv, IndexInv, Positions, Thread
    <2>2. CASE t \in Producer /\ u \in Producer
      BY <2>1, <2>2, ThreadAssumption
    <2>3. CASE t \in Consumer /\ u \in Consumer
      BY <2>3 DEF SingleConsumer
    <2>4. QED
      BY <1>1, <1>2, <2>1, <2>2, <2>3 DEF Thread
  <1>3. QED
    BY <1>2, SlotInit, SlotStep, PTL DEF Spec

----------------------------------------------------------------------------
(***************************************************************************)
(* Part three: the refinement.  The values that can be popped are a        *)
(* sequence; a Write appends to it, a Pop takes its head, and the other    *)
(* steps leave it and what the consumer got alone.                         *)
(***************************************************************************)
ItemsAreContents ==
    /\ Items \in Seq(Value)
    /\ Len(Items) = available
    /\ \A n \in 1 .. available : Items[n] = m_buffer[At(m_popIndex, n - 1)]

LEMMA ItemsNow ==
    SlotInv => ItemsAreContents
  <1> SUFFICES ASSUME SlotInv PROVE ItemsAreContents
    OBVIOUS
  <1>1. available \in Nat
    BY DEF SlotInv, IndexInv, Positions
  <1>2. Items = [n \in 1 .. available |-> m_buffer[At(m_popIndex, n - 1)]]
    BY DEF Items, At
  <1>3. \A n \in 1 .. available : m_buffer[At(m_popIndex, n - 1)] \in Value
    <2>1. TAKE n \in 1 .. available
    <2>2. n - 1 \in 0 .. available - 1
      BY <1>1
    <2>3. QED
      BY <2>2 DEF SlotInv, Contents
  <1>4. Items \in [1 .. available -> Value]
    BY <1>2, <1>3
  <1>5. Items \in Seq(Value)
    BY <1>1, <1>4, SeqDef
  <1>6. Len(Items) = available
    <2>1. DOMAIN Items = 1 .. available /\ DOMAIN Items = 1 .. Len(Items)
      BY <1>2, <1>5, LenProperties
    <2>2. Len(Items) \in Nat
      BY <1>5, LenProperties
    <2>3. QED
      BY <1>1, <2>1, <2>2
  <1>7. QED
    BY <1>2, <1>5, <1>6 DEF ItemsAreContents

LEMMA ItemsNext ==
    SlotInv' => ItemsAreContents'
  BY ItemsNow, PTL

LEMMA RefineInit ==
    ASSUME Init
    PROVE  Queue!Init
  <1>1. Items = <<>>
    BY DEF Init, Items
  <1>2. Got = [c \in Consumer |-> NoValue]
    BY DEF Init, Got, Thread
  <1>3. QED
    BY <1>1, <1>2 DEF Queue!Init

LEMMA RefinePush ==
    ASSUME NEW p \in Producer, NEW v \in Value, SlotInv, Push(p, v)
    PROVE  UNCHANGED <<Items, Got>>
  <1>1. Items' = Items
    BY DEF Push, Items
  <1>2. Got' = Got
    BY ThreadAssumption DEF Push, Got, SlotInv, TypeOK, Thread
  <1>3. QED
    BY <1>1, <1>2

LEMMA RefineWrite ==
    ASSUME SingleConsumer, SlotInv, SlotInv', NEW p \in Producer, Write(p)
    PROVE  Queue!Push(value[p])
  <1>1. /\ \A c \in Consumer : pc[c] = "read" => m_buffer'[slot[c]] = m_buffer[slot[c]]
        /\ \A n \in 0 .. available - 1 :
              m_buffer'[At(m_popIndex, n)] = m_buffer[At(m_popIndex, n)]
        /\ m_buffer'[At(m_popIndex, available)] = value[p]
    BY WriteSlots DEF SlotInv
  <1>2. /\ pc[p] = "write" /\ pc' = [pc EXCEPT ![p] = "idle"] /\ slot' = slot
        /\ value' = value /\ m_popIndex' = m_popIndex /\ available' = available + 1
    BY DEF Write
  <1>3. available \in Nat /\ available + 1 <= Limit /\ value[p] \in Value /\ Limit \in Nat
    BY <1>2, SingleFinite, Sizes, LimitAssumption, CapacityAssumption
    DEF SlotInv, WriterSlot
  <1>4. /\ Items \in Seq(Value) /\ Len(Items) = available
        /\ \A n \in 1 .. available : Items[n] = m_buffer[At(m_popIndex, n - 1)]
    BY ItemsNow DEF ItemsAreContents
  <1>5. /\ Items' \in Seq(Value) /\ Len(Items') = available + 1
        /\ \A n \in 1 .. available + 1 : Items'[n] = m_buffer'[At(m_popIndex, n - 1)]
    BY <1>2, ItemsNext DEF ItemsAreContents, At
  <1>6. /\ Append(Items, value[p]) \in Seq(Value)
        /\ Len(Append(Items, value[p])) = available + 1
        /\ \A n \in 1 .. available : Append(Items, value[p])[n] = Items[n]
        /\ Append(Items, value[p])[available + 1] = value[p]
    BY <1>3, <1>4, AppendProperties
  <1>7. \A n \in 1 .. available + 1 : Items'[n] = Append(Items, value[p])[n]
    <2>1. TAKE n \in 1 .. available + 1
    <2>2. CASE n = available + 1
      <3>1. n - 1 = available
        BY <1>3, <2>2
      <3>2. QED
        BY <1>1, <1>5, <1>6, <2>2, <3>1
    <2>3. CASE n # available + 1
      <3>1. n \in 1 .. available /\ n - 1 \in 0 .. available - 1
        BY <1>3, <2>3
      <3>2. QED
        BY <1>1, <1>4, <1>5, <1>6, <3>1
    <2>4. QED
      BY <2>2, <2>3
  <1>8. Items' = Append(Items, value[p])
    BY <1>5, <1>6, <1>7, SeqEqual
  <1>9. Got' = Got
    <2>1. \A c \in Consumer : pc'[c] = pc[c]
      BY <1>2, ThreadAssumption DEF SlotInv, TypeOK, Thread
    <2>2. QED
      BY <1>1, <1>2, <2>1 DEF Got
  <1>10. Len(Items) < Limit
    BY <1>3, <1>4
  <1>11. QED
    BY <1>8, <1>9, <1>10 DEF Queue!Push

LEMMA RefinePop ==
    ASSUME SingleConsumer, SlotInv, SlotInv', NEW c \in Consumer, Pop(c)
    PROVE  Queue!Pop(c)
  <1>1. /\ available > 0 /\ available \in Nat
        /\ slot'[c] = At(m_popIndex, 0)
        /\ \A n \in 0 .. available - 2 : At(m_popIndex', n) = At(m_popIndex, n + 1)
    BY PopSlots DEF SlotInv
  <1>2. /\ pc' = [pc EXCEPT ![c] = "read"] /\ m_buffer' = m_buffer
        /\ available' = available - 1
    BY DEF Pop
  <1>3. /\ Items \in Seq(Value) /\ Len(Items) = available
        /\ \A n \in 1 .. available : Items[n] = m_buffer[At(m_popIndex, n - 1)]
    BY ItemsNow DEF ItemsAreContents
  <1>4. /\ Items' \in Seq(Value) /\ Len(Items') = available - 1
        /\ \A n \in 1 .. available - 1 : Items'[n] = m_buffer[At(m_popIndex', n - 1)]
    BY <1>2, ItemsNext DEF ItemsAreContents, At
  <1>5. Items # <<>>
    BY <1>1, <1>3
  <1>6. /\ Tail(Items) \in Seq(Value) /\ Len(Tail(Items)) = available - 1
        /\ \A n \in 1 .. available - 1 : Tail(Items)[n] = Items[n + 1]
    BY <1>3, <1>5, HeadTailProperties
  <1>7. \A n \in 1 .. available - 1 : Items'[n] = Tail(Items)[n]
    <2>1. TAKE n \in 1 .. available - 1
    <2>2. /\ n - 1 \in 0 .. available - 2 /\ n + 1 \in 1 .. available
          /\ (n - 1) + 1 = (n + 1) - 1
      BY <1>1
    <2>3. At(m_popIndex', n - 1) = At(m_popIndex, (n + 1) - 1)
      BY <1>1, <2>2
    <2>4. QED
      BY <1>3, <1>4, <1>6, <2>2, <2>3
  <1>8. Items' = Tail(Items)
    BY <1>4, <1>6, <1>7, SeqEqual
  <1>9. Head(Items) = m_buffer[At(m_popIndex, 0)]
    <2>1. 1 \in 1 .. available /\ 1 - 1 = 0 /\ Head(Items) = Items[1]
      BY <1>1, <1>3
    <2>2. QED
      BY <1>3, <2>1
  <1>10. Got' = [Got EXCEPT ![c] = Head(Items)]
    <2>1. Got' = [d \in Consumer |-> m_buffer[At(m_popIndex, 0)]]
      <3>1. \A d \in Consumer : d = c
        BY DEF SingleConsumer
      <3>2. pc'[c] = "read"
        BY <1>2 DEF SlotInv, TypeOK, Thread
      <3>3. QED
        BY <1>1, <1>2, <3>1, <3>2 DEF Got
    <2>2. [Got EXCEPT ![c] = Head(Items)] = [d \in Consumer |-> Head(Items)]
      BY DEF Got, SingleConsumer
    <2>3. QED
      BY <1>9, <2>1, <2>2
  <1>11. QED
    BY <1>5, <1>8, <1>10 DEF Queue!Pop

LEMMA RefineRead ==
    ASSUME SingleConsumer, SlotInv, SlotInv', NEW c \in Consumer, Read(c)
    PROVE  UNCHANGED <<Items, Got>>
  <1>1. \A n \in 0 .. available - 1 :
            m_buffer'[At(m_popIndex, n)] = m_buffer[At(m_popIndex, n)]
    BY ReadSlots DEF SlotInv
  <1>2. /\ pc[c] = "read" /\ value' = [value EXCEPT ![c] = m_buffer[slot[c]]]
        /\ pc' = [pc EXCEPT ![c] = "idle"]
        /\ m_popIndex' = m_popIndex /\ available' = available
    BY DEF Read
  <1>3. Items' = Items
    <2>1. available \in Nat
      BY DEF SlotInv, IndexInv, Positions
    <2>2. \A n \in 1 .. available :
              m_buffer'[At(m_popIndex, n - 1)] = m_buffer[At(m_popIndex, n - 1)]
      <3>1. \A n \in 1 .. available : n - 1 \in 0 .. available - 1
        BY <2>1
      <3>2. QED
        BY <1>1, <3>1
    <2>3. QED
      BY <1>2, <2>2 DEF Items, At
  <1>4. Got' = Got
    <2>1. \A d \in Consumer : d = c
      BY DEF SingleConsumer
    <2>2. c \in Thread
      BY DEF Thread
    <2>3. pc'[c] = "idle" /\ value'[c] = m_buffer[slot[c]]
      BY <1>2, <2>2 DEF SlotInv, TypeOK
    <2>4. QED
      BY <1>2, <2>1, <2>3 DEF Got
  <1>5. QED
    BY <1>3, <1>4

LEMMA RefineStep ==
    ASSUME SingleConsumer, SlotInv, SlotInv', [Next]_vars
    PROVE  [Queue!Next]_(Queue!vars)
  <1>1. ASSUME NEW p \in Producer, NEW v \in Value, Push(p, v)
        PROVE  UNCHANGED Queue!vars
    BY <1>1, RefinePush DEF Queue!vars
  <1>2. ASSUME NEW p \in Producer, Write(p)
        PROVE  Queue!Next
    <2>1. value[p] \in Value
      BY <1>2 DEF Write, SlotInv, WriterSlot
    <2>2. QED
      BY <1>2, <2>1, RefineWrite DEF Queue!Next
  <1>3. ASSUME NEW c \in Consumer, Pop(c)
        PROVE  Queue!Next
    BY <1>3, RefinePop DEF Queue!Next
  <1>4. ASSUME NEW c \in Consumer, Read(c)
        PROVE  UNCHANGED Queue!vars
    BY <1>4, RefineRead DEF Queue!vars
  <1>5. ASSUME UNCHANGED vars
        PROVE  UNCHANGED Queue!vars
    BY <1>5 DEF vars, Queue!vars, Items, Got
  <1>6. QED
    BY <1>1, <1>2, <1>3, <1>4, <1>5 DEF Next

\* With one consumer the buffer is a FIFO of Limit <= m_capacity values, for
\* any number of producers: what is popped is the oldest value, unharmed by
\* the pushes that happen before the consumer has fetched it.
THEOREM FifoCorrect ==
    ASSUME SingleConsumer
    PROVE  Spec => FifoSpec
  <1>1. Init => Queue!Init
    BY RefineInit
  <1>2. SlotInv /\ SlotInv' /\ [Next]_vars => [Queue!Next]_(Queue!vars)
    BY RefineStep
  <1>3. Init => SlotInv
    BY SlotInit
  <1>4. SlotInv /\ [Next]_vars => SlotInv'
    BY SlotStep
  <1>5. QED
    BY <1>1, <1>2, <1>3, <1>4, PTL DEF Spec, FifoSpec, Queue!Spec
=============================================================================
