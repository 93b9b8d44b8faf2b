----------------------------- MODULE EventProofs -----------------------------
(***************************************************************************)
(* The two event managers, of the packages event and event2.               *)
(***************************************************************************)
EXTENDS EventQueue, EventManager, SequenceTheorems, TLAPS

(***************************************************************************)
(* kc::event2::EventManager for any number of events, types and handlers.  *)
(* The stored events are the last ones of all that were emitted; dispatch()*)
(* goes through them by position, so that what handlers emit while it does *)
(* lies beyond its end, and what has been handled lies before it.          *)
(***************************************************************************)
\* The events that were emitted and are not stored any more.
Gone == Len(emitted) - Len(m_events)

\* m_events is the end of emitted, where every event occurs once.
Suffix ==
    /\ Gone \in Nat
    /\ \A n \in 1 .. Len(m_events) : m_events[n] = emitted[Gone + n]
    /\ \A m, n \in 1 .. Len(emitted) : emitted[m] = emitted[n] => m = n

Loop ==
    /\ it >= 1 /\ it <= last + 1 /\ last <= Len(m_events)
    /\ pc = "handler" => it <= last
    /\ pc = "idle" => it = 1 /\ last = 0

\* How far dispatch() has come.
Reached == IF pc = "handler" THEN it ELSE it - 1

Order ==
    /\ \A k \in 1 .. Len(handled) : \E a \in 1 .. Len(emitted) :
           handled[k] = emitted[a] /\ a <= Gone + Reached
    /\ \A m, n \in 1 .. Len(handled), a, b \in 1 .. Len(emitted) :
           m < n /\ handled[m] = emitted[a] /\ handled[n] = emitted[b] => a < b

IsHandled(e) == \E k \in 1 .. Len(handled) : handled[k] = e

\* A promised event has been handled or is still to come.
Promise ==
    /\ pc = "idle" => \A e \in promised : IsHandled(e)
    /\ pc \in {"loop", "handler"} => \A e \in promised :
           /\ TypeOf[e] \in m_handlers
           /\ IsHandled(e) \/ \E n \in 1 .. last : n > Reached /\ m_events[n] = e

Room ==
    /\ capacity >= EventPoolSize
    /\ stale \/ pc = "undefined" => Len(m_events) > EventPoolSize

QueueInv == TypeOK /\ Suffix /\ Loop /\ Order /\ Promise /\ Room

----------------------------------------------------------------------------
\* The elements of a sequence by their positions.
LEMMA Elements ==
    ASSUME NEW s \in Seq(Event)
    PROVE  \A e : e \in ToSet(s) <=> \E n \in 1 .. Len(s) : s[n] = e
  BY DEF ToSet

\* A position that is not the last one is one of the others.
LEMMA NotLast ==
    ASSUME NEW n \in Nat, NEW c \in 1 .. n + 1, c # n + 1
    PROVE  c \in 1 .. n
  OBVIOUS

\* What Append does.
LEMMA Appended ==
    ASSUME NEW s \in Seq(Event), NEW e \in Event
    PROVE  /\ Append(s, e) \in Seq(Event) /\ Len(s) \in Nat
           /\ Len(Append(s, e)) = Len(s) + 1 /\ Append(s, e)[Len(s) + 1] = e
           /\ \A n \in 1 .. Len(s) : Append(s, e)[n] = s[n]
  OBVIOUS

\* The capacity that a full vector gets has room for one more.
LEMMA Doubled ==
    ASSUME NEW n \in Nat
    PROVE  Max({1, 2 * n}) \in Nat /\ Max({1, 2 * n}) >= n + 1
<1>1. \E x \in {1, 2 * n} : \A y \in {1, 2 * n} : x >= y
  <2>1. CASE n = 0
    BY <2>1
  <2>2. CASE n # 0
    BY <2>2
  <2> QED BY <2>1, <2>2
<1>2. Max({1, 2 * n}) \in {1, 2 * n} /\ \A y \in {1, 2 * n} : Max({1, 2 * n}) >= y
  BY <1>1 DEF Max
<1> QED BY <1>2

\* The numbers and sequences of a state.
LEMMA Numbers ==
    ASSUME TypeOK
    PROVE  /\ Len(m_events) \in Nat /\ Len(emitted) \in Nat /\ Len(handled) \in Nat
           /\ it \in Nat /\ last \in Nat /\ capacity \in Nat /\ EventPoolSize \in Nat
           /\ \A n \in 1 .. Len(m_events) : m_events[n] \in Event
  BY EventPoolSizeAssumption DEF TypeOK

LEMMA InitQueueInv == Init => QueueInv
<1> SUFFICES ASSUME Init PROVE QueueInv
  OBVIOUS
<1>1. /\ m_events = <<>> /\ emitted = <<>> /\ handled = <<>> /\ capacity = EventPoolSize
      /\ m_handlers = {} /\ promised = {} /\ pc = "idle" /\ it = 1 /\ last = 0 /\ stale = FALSE
      /\ <<>> \in Seq(Event) /\ Len(<<>>) = 0 /\ EventPoolSize \in Nat
  BY EventPoolSizeAssumption DEF Init
<1>2. TypeOK
  <2>1. m_events \in Seq(Event) /\ emitted \in Seq(Event) /\ handled \in Seq(Event)
    BY <1>1
  <2>2. Len(m_events) <= capacity
    BY <1>1
  <2> QED BY <1>1, <2>1, <2>2 DEF TypeOK
<1>3. Suffix /\ Loop /\ Order
  BY <1>1 DEF Suffix, Loop, Order, Gone
<1>4. Promise /\ Room
  BY <1>1 DEF Promise, Room
<1> QED BY <1>2, <1>3, <1>4 DEF QueueInv

\* on() only adds to the handlers.
LEMMA OnQueueInv == ASSUME QueueInv, NEW type \in Type, On(type) PROVE QueueInv'
<1>1. TypeOK'
  BY DEF QueueInv, On, TypeOK
<1>2. Suffix' /\ Loop' /\ Order' /\ Room'
  BY DEF QueueInv, On, Suffix, Loop, Order, Room, Gone, Reached
<1>3. Promise'
  BY DEF QueueInv, On, Promise, IsHandled, Reached
<1> QED BY <1>1, <1>2, <1>3 DEF QueueInv

\* emit() adds the same event to both sequences, beyond the end of the loop.
LEMMA EmitQueueInv == ASSUME QueueInv, NEW e \in Event, Emit(e) PROVE QueueInv'
<1> USE DEF QueueInv
<1>1. /\ m_events \in Seq(Event) /\ emitted \in Seq(Event) /\ handled \in Seq(Event)
      /\ Len(m_events) \in Nat /\ Len(emitted) \in Nat /\ Len(m_events) <= capacity
      /\ it \in Nat /\ last \in Nat /\ capacity \in Nat /\ EventPoolSize \in Nat
  BY Numbers DEF TypeOK
<1>2. /\ m_events' = Append(m_events, e) /\ emitted' = Append(emitted, e)
      /\ pc \in {"idle", "handler"} /\ pc' = pc /\ it' = it /\ last' = last
      /\ m_handlers' = m_handlers /\ handled' = handled /\ promised' = promised
      /\ e \notin ToSet(emitted)
      /\ capacity' = (IF Len(m_events) < capacity THEN capacity ELSE Max({1, 2 * capacity}))
      /\ stale' = (stale \/ (pc = "handler" /\ Len(m_events) = capacity))
  BY DEF Emit, User
<1>3. /\ m_events' \in Seq(Event) /\ Len(m_events') = Len(m_events) + 1
      /\ m_events'[Len(m_events) + 1] = e
      /\ \A n \in 1 .. Len(m_events) : m_events'[n] = m_events[n]
  BY <1>1, <1>2, Appended
<1>4. /\ emitted' \in Seq(Event) /\ Len(emitted') = Len(emitted) + 1
      /\ emitted'[Len(emitted) + 1] = e
      /\ \A n \in 1 .. Len(emitted) : emitted'[n] = emitted[n] /\ emitted[n] # e
  BY <1>1, <1>2, Appended, Elements
<1>5. Gone' = Gone /\ Gone \in Nat /\ Gone + Len(m_events) = Len(emitted) /\ Reached' = Reached
  BY <1>1, <1>2, <1>3, <1>4 DEF Gone, Reached, Suffix
<1>6. capacity' \in Nat /\ capacity' >= capacity /\ capacity' >= Len(m_events) + 1
  BY <1>1, <1>2, Doubled
<1>7. TypeOK'
  BY <1>1, <1>2, <1>3, <1>4, <1>6 DEF TypeOK
<1>8. Suffix'
  <2>1. ASSUME NEW n \in 1 .. Len(m_events') PROVE m_events'[n] = emitted'[Gone' + n]
    <3>1. CASE n = Len(m_events) + 1
      BY <1>3, <1>4, <1>5, <3>1
    <3>2. CASE n # Len(m_events) + 1
      <4>1. n \in 1 .. Len(m_events) /\ Gone + n \in 1 .. Len(emitted)
        BY <1>1, <1>3, <1>5, <3>2
      <4> QED BY <1>3, <1>4, <1>5, <4>1 DEF Suffix
    <3> QED BY <3>1, <3>2
  <2>2. ASSUME NEW m \in 1 .. Len(emitted'), NEW n \in 1 .. Len(emitted'), emitted'[m] = emitted'[n]
        PROVE  m = n
    <3>1. m \in 1 .. Len(emitted) \/ m = Len(emitted) + 1
      BY <1>1, <1>4
    <3>2. n \in 1 .. Len(emitted) \/ n = Len(emitted) + 1
      BY <1>1, <1>4
    <3> QED BY <1>4, <2>2, <3>1, <3>2 DEF Suffix
  <2> QED BY <1>5, <2>1, <2>2 DEF Suffix
<1>9. Loop'
  BY <1>1, <1>2, <1>3 DEF Loop
<1>10. Order'
  <2>1. ASSUME NEW k \in 1 .. Len(handled')
        PROVE  \E a \in 1 .. Len(emitted') : handled'[k] = emitted'[a] /\ a <= Gone' + Reached'
    <3>1. PICK a \in 1 .. Len(emitted) : handled[k] = emitted[a] /\ a <= Gone + Reached
      BY <1>2 DEF Order
    <3>2. a \in 1 .. Len(emitted')
      BY <1>1, <1>4
    <3> QED BY <1>2, <1>4, <1>5, <3>1, <3>2
  <2>2. ASSUME NEW m \in 1 .. Len(handled'), NEW n \in 1 .. Len(handled'),
               NEW a \in 1 .. Len(emitted'), NEW b \in 1 .. Len(emitted'),
               m < n, handled'[m] = emitted'[a], handled'[n] = emitted'[b]
        PROVE  a < b
    <3>1. ASSUME NEW k \in 1 .. Len(handled), NEW c \in 1 .. Len(emitted'), handled[k] = emitted'[c]
          PROVE  c \in 1 .. Len(emitted) /\ handled[k] = emitted[c]
      <4>1. PICK d \in 1 .. Len(emitted) : handled[k] = emitted[d]
        BY DEF Order
      <4>2. c # Len(emitted) + 1
        BY <1>4, <3>1, <4>1
      <4>3. c \in 1 .. Len(emitted)
        <5>1. c \in 1 .. Len(emitted) + 1
          BY <1>4
        <5>2. Len(emitted) \in Nat
          BY <1>1
        <5> QED BY <4>2, <5>1, <5>2, NotLast
      <4> QED BY <1>4, <3>1, <4>3
    <3>2. /\ a \in 1 .. Len(emitted) /\ handled[m] = emitted[a]
          /\ b \in 1 .. Len(emitted) /\ handled[n] = emitted[b]
      BY <1>2, <2>2, <3>1
    <3> QED BY <1>2, <2>2, <3>2 DEF Order
  <2> QED BY <2>1, <2>2 DEF Order
<1>11. Promise'
  <2>1. \A f : IsHandled(f)' <=> IsHandled(f)
    BY <1>2 DEF IsHandled
  <2>2. ASSUME NEW n \in 1 .. last PROVE m_events'[n] = m_events[n]
    <3>1. n \in 1 .. Len(m_events)
      BY <1>1 DEF Loop
    <3> QED BY <1>3, <3>1
  <2> QED BY <1>2, <1>5, <2>1, <2>2 DEF Promise
<1>12. Room'
  BY <1>1, <1>2, <1>3, <1>6 DEF Room, TypeOK
<1> QED BY <1>7, <1>8, <1>9, <1>10, <1>11, <1>12

\* dispatch() begins: it promises what is stored and has a handler.
LEMMA DispatchQueueInv == QueueInv /\ Dispatch => QueueInv'
<1> SUFFICES ASSUME QueueInv, Dispatch PROVE QueueInv'
  OBVIOUS
<1> USE DEF QueueInv
<1>1. /\ pc = "idle" /\ pc' = "loop" /\ it' = 1 /\ last' = Len(m_events) /\ stale' = FALSE
      /\ it = 1 /\ last = 0
      /\ promised' = {e \in ToSet(m_events) : TypeOf[e] \in m_handlers}
      /\ m_events' = m_events /\ capacity' = capacity /\ m_handlers' = m_handlers
      /\ emitted' = emitted /\ handled' = handled
      /\ m_events \in Seq(Event) /\ Len(m_events) \in Nat
  BY DEF Dispatch, Loop, TypeOK
<1>2. \A e \in promised' : TypeOf[e] \in m_handlers /\ \E n \in 1 .. Len(m_events) : m_events[n] = e
  BY <1>1, Elements
<1>3. TypeOK'
  <2>1. promised' \subseteq Event
    BY <1>1, <1>2
  <2> QED BY <1>1, <2>1 DEF TypeOK
<1>4. Suffix' /\ Order' /\ Room'
  BY <1>1 DEF Suffix, Order, Room, Gone, Reached
<1>5. Loop'
  BY <1>1 DEF Loop
<1>6. Promise'
  <2>1. Reached' = 0 /\ pc' = "loop"
    BY <1>1 DEF Reached
  <2> QED BY <1>1, <1>2, <2>1 DEF Promise
<1> QED BY <1>3, <1>4, <1>5, <1>6

\* An event that is passed over was not promised.
LEMMA SkipQueueInv == QueueInv /\ Skip => QueueInv'
<1> SUFFICES ASSUME QueueInv, Skip PROVE QueueInv'
  OBVIOUS
<1> USE DEF QueueInv
<1>1. /\ pc = "loop" /\ pc' = pc /\ it <= last /\ it' = it + 1 /\ ~ stale
      /\ TypeOf[m_events[it]] \notin m_handlers
      /\ m_events' = m_events /\ capacity' = capacity /\ m_handlers' = m_handlers /\ last' = last
      /\ stale' = stale /\ emitted' = emitted /\ handled' = handled /\ promised' = promised
      /\ it \in Nat /\ last \in Nat
  BY DEF Skip, TypeOK
<1>2. TypeOK' /\ Suffix' /\ Loop' /\ Room'
  BY <1>1 DEF TypeOK, Suffix, Loop, Room, Gone
<1>3. Reached = it - 1 /\ Reached' = it /\ Gone' = Gone /\ Gone \in Nat
  BY <1>1 DEF Reached, Gone, Suffix
<1>4. Order'
  <2>1. ASSUME NEW k \in 1 .. Len(handled)
        PROVE  \E a \in 1 .. Len(emitted) : handled[k] = emitted[a] /\ a <= Gone + it
    <3>1. PICK a \in 1 .. Len(emitted) : handled[k] = emitted[a] /\ a <= Gone + Reached
      BY DEF Order
    <3>2. a <= Gone + it
      <4>1. a \in Int /\ a <= Gone + (it - 1) /\ it \in Nat /\ Gone \in Nat
        BY <1>1, <1>3, <3>1
      <4> QED BY <4>1
    <3> QED BY <3>1, <3>2
  <2> QED BY <1>1, <1>3, <2>1 DEF Order
<1>5. Promise'
  <2>1. ASSUME NEW e \in promised, ~ IsHandled(e)
        PROVE  \E n \in 1 .. last : n > it /\ m_events[n] = e
    <3>1. PICK n \in 1 .. last : n > it - 1 /\ m_events[n] = e
      BY <1>1, <1>3, <2>1 DEF Promise
    <3>2. n # it
      BY <1>1, <3>1 DEF Promise
    <3> QED BY <1>1, <3>1, <3>2
  <2>2. \A e : IsHandled(e)' <=> IsHandled(e)
    BY <1>1 DEF IsHandled
  <2> QED BY <1>1, <1>3, <2>1, <2>2 DEF Promise
<1> QED BY <1>2, <1>4, <1>5

\* The next event is later than all that have been handled.
LEMMA InvokeQueueInv == QueueInv /\ Invoke => QueueInv'
<1> SUFFICES ASSUME QueueInv, Invoke PROVE QueueInv'
  OBVIOUS
<1> USE DEF QueueInv
<1>1. /\ pc = "loop" /\ pc' = "handler" /\ it <= last /\ it' = it /\ ~ stale
      /\ handled' = Append(handled, m_events[it])
      /\ m_events' = m_events /\ capacity' = capacity /\ m_handlers' = m_handlers /\ last' = last
      /\ stale' = stale /\ emitted' = emitted /\ promised' = promised
      /\ it \in Nat /\ last \in Nat /\ it \in 1 .. Len(m_events) /\ Len(m_events) \in Nat
      /\ handled \in Seq(Event) /\ Len(handled) \in Nat /\ Len(emitted) \in Nat
  BY Numbers DEF Invoke, TypeOK, Loop
<1>2. m_events[it] \in Event /\ m_events[it] = emitted[Gone + it]
      /\ Gone \in Nat /\ Gone + it \in 1 .. Len(emitted)
  <2>1. m_events[it] \in Event
    BY <1>1, Numbers
  <2>2. m_events[it] = emitted[Gone + it] /\ Gone \in Nat
    BY <1>1 DEF Suffix
  <2>3. Len(emitted) = Gone + Len(m_events)
    BY <1>1 DEF Gone
  <2> QED BY <1>1, <2>1, <2>2, <2>3
<1>3. /\ handled' \in Seq(Event) /\ Len(handled') = Len(handled) + 1
      /\ handled'[Len(handled) + 1] = m_events[it]
      /\ \A n \in 1 .. Len(handled) : handled'[n] = handled[n]
  <2>1. handled \in Seq(Event) /\ m_events[it] \in Event
    BY <1>1, <1>2
  <2>2. handled' = Append(handled, m_events[it])
    BY <1>1
  <2> QED BY <2>1, <2>2, Appended
<1>4. TypeOK'
  BY <1>1, <1>3 DEF TypeOK
<1>5. Suffix' /\ Loop' /\ Room'
  BY <1>1 DEF Suffix, Loop, Room, Gone
<1>6. Reached = it - 1 /\ Reached' = it /\ Gone' = Gone
  BY <1>1 DEF Reached, Gone
<1>7. Order'
  <2>1. 1 .. Len(handled') = 1 .. Len(handled) + 1
    BY <1>3
  <2>2. ASSUME NEW k \in 1 .. Len(handled'), k # Len(handled) + 1
        PROVE  k \in 1 .. Len(handled) /\ handled'[k] = handled[k]
    <3>1. k \in 1 .. Len(handled)
      BY <1>1, <2>2, <2>1, NotLast
    <3> QED BY <1>3, <3>1
  <2>3. ASSUME NEW k \in 1 .. Len(handled')
        PROVE  \E a \in 1 .. Len(emitted) : handled'[k] = emitted[a] /\ a <= Gone + it
    <3>1. CASE k = Len(handled) + 1
      <4>1. handled'[k] = emitted[Gone + it]
        BY <1>2, <1>3, <3>1
      <4>2. Gone + it \in 1 .. Len(emitted) /\ Gone + it <= Gone + it
        BY <1>1, <1>2
      <4> QED BY <4>1, <4>2
    <3>2. CASE k # Len(handled) + 1
      <4>1. k \in 1 .. Len(handled) /\ handled'[k] = handled[k]
        BY <2>2, <3>2
      <4>2. PICK a \in 1 .. Len(emitted) : handled[k] = emitted[a] /\ a <= Gone + Reached
        BY <4>1 DEF Order
      <4> QED BY <1>1, <1>2, <1>6, <4>1, <4>2
    <3> QED BY <3>1, <3>2
  <2>4. ASSUME NEW m \in 1 .. Len(handled'), NEW n \in 1 .. Len(handled'),
               NEW a \in 1 .. Len(emitted), NEW b \in 1 .. Len(emitted),
               m < n, handled'[m] = emitted[a], handled'[n] = emitted[b]
        PROVE  a < b
    <3>1. m \in 1 .. Len(handled) /\ handled[m] = emitted[a]
      <4>1. m \in 1 .. Len(handled) + 1 /\ n \in 1 .. Len(handled) + 1
        BY <2>4, <2>1
      <4>2. m # Len(handled) + 1
        BY <1>1, <2>4, <4>1
      <4> QED BY <2>2, <2>4, <4>2
    <3>2. CASE n = Len(handled) + 1
      <4>1. emitted[b] = emitted[Gone + it]
        BY <1>2, <1>3, <2>4, <3>2
      <4>2. b = Gone + it
        BY <1>2, <4>1 DEF Suffix
      <4>3. PICK c \in 1 .. Len(emitted) : handled[m] = emitted[c] /\ c <= Gone + Reached
        BY <3>1 DEF Order
      <4>4. c = a
        BY <3>1, <4>3 DEF Suffix
      <4> QED BY <1>1, <1>2, <1>6, <4>2, <4>3, <4>4
    <3>3. CASE n # Len(handled) + 1
      <4>1. n \in 1 .. Len(handled) /\ handled[n] = emitted[b]
        BY <2>2, <2>4, <3>3
      <4> QED BY <2>4, <3>1, <4>1 DEF Order
    <3> QED BY <3>2, <3>3
  <2>5. emitted' = emitted /\ Gone' + Reached' = Gone + it
    BY <1>1, <1>6
  <2>6. \A k \in 1 .. Len(handled') : \E a \in 1 .. Len(emitted') :
            handled'[k] = emitted'[a] /\ a <= Gone' + Reached'
    BY <2>3, <2>5
  <2>7. \A m, n \in 1 .. Len(handled'), a, b \in 1 .. Len(emitted') :
            m < n /\ handled'[m] = emitted'[a] /\ handled'[n] = emitted'[b] => a < b
    BY <2>4, <2>5
  <2> QED BY <2>6, <2>7 DEF Order
<1>8. Promise'
  <2>1. ASSUME NEW e, IsHandled(e) PROVE IsHandled(e)'
    <3>1. PICK k \in 1 .. Len(handled) : handled[k] = e
      BY <2>1 DEF IsHandled
    <3>2. k \in 1 .. Len(handled') /\ handled'[k] = e
      BY <1>1, <1>3, <3>1
    <3> QED BY <3>2 DEF IsHandled
  <2>2. IsHandled(m_events[it])'
    <3>1. Len(handled) + 1 \in 1 .. Len(handled')
      BY <1>1, <1>3
    <3> QED BY <1>1, <1>3, <3>1 DEF IsHandled
  <2>3. ASSUME NEW e \in promised, ~ IsHandled(e)'
        PROVE  \E n \in 1 .. last : n > it /\ m_events[n] = e
    <3>1. PICK n \in 1 .. last : n > it - 1 /\ m_events[n] = e
      BY <1>1, <1>6, <2>1, <2>3 DEF Promise
    <3>2. n # it
      <4>1. IsHandled(m_events[it])' <=> \E k \in 1 .. Len(handled') : handled'[k] = m_events[it]
        BY <1>1 DEF IsHandled
      <4>2. ~ \E k \in 1 .. Len(handled') : handled'[k] = e
        BY <2>3 DEF IsHandled
      <4> QED BY <2>2, <3>1, <4>1, <4>2
    <3> QED BY <1>1, <3>1, <3>2
  <2>4. \A e \in promised : TypeOf[e] \in m_handlers
    BY <1>1 DEF Promise
  <2> QED BY <1>1, <1>6, <2>3, <2>4 DEF Promise
<1> QED BY <1>4, <1>5, <1>7, <1>8

\* A handler returns: the loop has reached the same event as before.
LEMMA HandlerReturnQueueInv == QueueInv /\ HandlerReturn => QueueInv'
<1> SUFFICES ASSUME QueueInv, HandlerReturn PROVE QueueInv'
  OBVIOUS
<1> USE DEF QueueInv
<1>1. /\ pc = "handler" /\ pc' = "loop" /\ it' = it + 1 /\ it <= last
      /\ m_events' = m_events /\ capacity' = capacity /\ m_handlers' = m_handlers /\ last' = last
      /\ stale' = stale /\ emitted' = emitted /\ handled' = handled /\ promised' = promised
      /\ it \in Nat /\ last \in Nat
  BY DEF HandlerReturn, TypeOK, Loop
<1>2. TypeOK' /\ Suffix' /\ Loop' /\ Room'
  BY <1>1 DEF TypeOK, Suffix, Loop, Room, Gone
<1>3. Reached' = Reached /\ Gone' = Gone
  BY <1>1 DEF Reached, Gone
<1>4. Order'
  BY <1>1, <1>3 DEF Order
<1>5. Promise'
  BY <1>1, <1>3 DEF Promise, IsHandled
<1> QED BY <1>2, <1>4, <1>5

\* A handler throws: nothing counts as handled, and nothing is promised.
LEMMA HandlerThrowQueueInv == QueueInv /\ HandlerThrow => QueueInv'
<1> SUFFICES ASSUME QueueInv, HandlerThrow PROVE QueueInv'
  OBVIOUS
<1> USE DEF QueueInv
<1>1. /\ pc' = "idle" /\ it' = 1 /\ last' = 0 /\ stale' = FALSE
      /\ handled' = <<>> /\ promised' = {} /\ <<>> \in Seq(Event) /\ Len(<<>>) = 0
      /\ m_events' = m_events /\ capacity' = capacity /\ m_handlers' = m_handlers
      /\ emitted' = emitted /\ Len(m_events) \in Nat
  BY Numbers DEF HandlerThrow
<1>2. TypeOK'
  <2>1. handled' \in Seq(Event)
    BY <1>1
  <2> QED BY <1>1, <2>1 DEF TypeOK
<1>3. Suffix' /\ Loop' /\ Room'
  BY <1>1 DEF Suffix, Loop, Room, Gone
<1>4. Order' /\ Promise'
  BY <1>1 DEF Order, Promise
<1> QED BY <1>2, <1>3, <1>4

LEMMA ReadStaleQueueInv == QueueInv /\ ReadStale => QueueInv'
<1> SUFFICES ASSUME QueueInv, ReadStale PROVE QueueInv'
  OBVIOUS
<1> USE DEF QueueInv
<1>1. TypeOK' /\ Suffix' /\ Loop' /\ Room' /\ Promise'
  BY DEF ReadStale, TypeOK, Suffix, Loop, Room, Gone, Promise
<1>2. Reached' = Reached /\ Gone' = Gone
  BY DEF ReadStale, Reached, Gone
<1>3. Order'
  <2>1. emitted' = emitted /\ handled' = handled /\ Order
    BY DEF ReadStale
  <2> QED BY <1>2, <2>1 DEF Order
<1> QED BY <1>1, <1>3

\* The loop is over: what was promised has been handled, all events are gone.
LEMMA DispatchReturnQueueInv == QueueInv /\ DispatchReturn => QueueInv'
<1> SUFFICES ASSUME QueueInv, DispatchReturn PROVE QueueInv'
  OBVIOUS
<1> USE DEF QueueInv
<1>1. /\ pc = "loop" /\ pc' = "idle" /\ it > last /\ it' = 1 /\ last' = 0 /\ stale' = FALSE
      /\ m_events' = <<>> /\ capacity' = capacity /\ m_handlers' = m_handlers
      /\ emitted' = emitted /\ handled' = handled /\ promised' = promised
      /\ it \in Nat /\ last \in Nat /\ last <= Len(m_events) /\ it <= last + 1
      /\ Len(m_events) \in Nat /\ Len(emitted) \in Nat
      /\ <<>> \in Seq(Event) /\ Len(<<>>) = 0
  BY Numbers DEF DispatchReturn, Loop
<1>2. TypeOK' /\ Loop' /\ Room'
  <2>1. m_events' \in Seq(Event) /\ Len(m_events') = 0
    BY <1>1
  <2>2. capacity' \in Nat /\ Len(m_events') <= capacity'
    BY <1>1, <2>1, Numbers
  <2>3. TypeOK'
    BY <1>1, <2>1, <2>2 DEF TypeOK
  <2>4. Loop' /\ Room'
    BY <1>1, <2>1 DEF Loop, Room
  <2> QED BY <2>3, <2>4
<1>3. /\ Gone' = Len(emitted) /\ Gone \in Nat /\ Gone + Len(m_events) = Len(emitted)
      /\ Reached = it - 1 /\ Reached' = 0
  BY <1>1 DEF Gone, Reached, Suffix
<1>4. Suffix'
  BY <1>1, <1>3 DEF Suffix
<1>5. Order'
  <2>1. \A a \in 1 .. Len(emitted) : a <= Gone' + Reached'
    BY <1>1, <1>3
  <2> QED BY <1>1, <2>1 DEF Order
<1>6. Promise'
  <2>1. ASSUME NEW e \in promised PROVE IsHandled(e)
    <3>1. ~ \E n \in 1 .. last : n > Reached
      BY <1>1, <1>3
    <3> QED BY <1>1, <3>1 DEF Promise
  <2> QED BY <1>1, <2>1 DEF Promise, IsHandled
<1> QED BY <1>2, <1>4, <1>5, <1>6

LEMMA NextQueueInv == QueueInv /\ [Next]_vars => QueueInv'
<1> SUFFICES ASSUME QueueInv, [Next]_vars PROVE QueueInv'
  OBVIOUS
<1>1. CASE Next
  BY <1>1, OnQueueInv, EmitQueueInv, DispatchQueueInv, SkipQueueInv, InvokeQueueInv, HandlerReturnQueueInv,
     HandlerThrowQueueInv, ReadStaleQueueInv, DispatchReturnQueueInv DEF Next
<1>2. CASE UNCHANGED vars
  <2>1. TypeOK' /\ Suffix' /\ Loop' /\ Room'
    BY <1>2 DEF vars, QueueInv, TypeOK, Suffix, Loop, Room, Gone
  <2>2. Order' /\ Promise'
    BY <1>2 DEF vars, QueueInv, Order, Promise, Gone, Reached, IsHandled
  <2> QED BY <2>1, <2>2 DEF QueueInv
<1> QED BY <1>1, <1>2

LEMMA Invariant == Spec => []QueueInv
  BY InitQueueInv, NextQueueInv, PTL DEF Spec

----------------------------------------------------------------------------
\* The position of an event among those that were emitted.
LEMMA PositionIs ==
    ASSUME Suffix, NEW a \in 1 .. Len(emitted)
    PROVE  Position(emitted[a], emitted) = a
  BY DEF Suffix, Position

\* Handlers see the events in the order of their emission, each once until a
\* handler throws, for any number of events and whatever handlers emit.
THEOREM HandledInOrderCorrect == Spec => []HandledInOrder
<1>1. QueueInv => HandledInOrder
  <2> SUFFICES ASSUME QueueInv, NEW m \in 1 .. Len(handled), NEW n \in 1 .. Len(handled), m < n
               PROVE  Position(handled[m], emitted) < Position(handled[n], emitted)
    BY DEF HandledInOrder
  <2>1. PICK a \in 1 .. Len(emitted) : handled[m] = emitted[a]
    BY DEF QueueInv, Order
  <2>2. PICK b \in 1 .. Len(emitted) : handled[n] = emitted[b]
    BY DEF QueueInv, Order
  <2>3. a < b
    BY <2>1, <2>2 DEF QueueInv, Order
  <2>4. Position(handled[m], emitted) = a /\ Position(handled[n], emitted) = b
    BY <2>1, <2>2, PositionIs DEF QueueInv
  <2> QED BY <2>3, <2>4
<1> QED BY <1>1, Invariant, PTL

\* A dispatch() that returns has passed on every event that was stored when it
\* began and had a handler by then.
THEOREM StoredAreHandledCorrect == Spec => []StoredAreHandled
<1>1. QueueInv => StoredAreHandled
  <2> SUFFICES ASSUME QueueInv, pc = "idle", NEW e \in promised PROVE e \in ToSet(handled)
    BY DEF StoredAreHandled
  <2>1. \E k \in 1 .. Len(handled) : handled[k] = e
    BY DEF QueueInv, Promise, IsHandled
  <2> QED BY <2>1, Elements DEF QueueInv, TypeOK
<1> QED BY <1>1, Invariant, PTL

\* The loop reads freed memory only if more is stored than was reserved.
THEOREM StaleOnlyBeyondPoolCorrect == Spec => []StaleOnlyBeyondPool
<1>1. QueueInv => StaleOnlyBeyondPool
  BY DEF QueueInv, Room, StaleOnlyBeyondPool
<1> QED BY <1>1, Invariant, PTL

(***************************************************************************)
(* kc::event::EventManager for any number of observers and emissions. What *)
(* an emission iterates over are the first slots of the storage; as long as*)
(* none of them is erased and the storage is not replaced they hold the    *)
(* observers it began with, whatever is registered, unregistered and       *)
(* emitted meanwhile.                                                      *)
(***************************************************************************)
Slot == Observer \cup {None}

Emission ==
    [it : Nat, last : Nat, at : {"loop", "onEvent"}, isHandled : BOOLEAN, stale : BOOLEAN,
     start : Seq(Slot), told : Seq(Slot), calm : BOOLEAN]

\* How far the emission e, which began with the first e.last of the slots s, of
\* which n are in use, has come while its observers have stayed where they were.
Follows(e, s, n) ==
    /\ e.at = "loop" => ~ e.isHandled
    /\ e.it >= 1
    /\ e.stale => ~ e.calm
    /\ e.calm =>
         /\ e.last <= n
         /\ Len(e.start) = e.last /\ \A k \in 1 .. e.last : e.start[k] = s[k]
         /\ Len(e.told) = IF e.at = "loop" THEN e.it - 1 ELSE e.it
         /\ Len(e.told) <= e.last
         /\ \A k \in 1 .. Len(e.told) : e.told[k] = e.start[k]

ManagerInv ==
    /\ slots \in Seq(Slot) /\ size \in 0 .. Len(slots)
    /\ \A m, n \in 1 .. size : slots[m] = slots[n] => m = n
    /\ emissions \in Seq(Emission)
    /\ \A n \in 1 .. Len(emissions) : Follows(emissions[n], slots, size)
    /\ \A n \in 1 .. Len(emissions) - 1 : emissions[n].at = "onEvent"

----------------------------------------------------------------------------
\* A sequence without its last element, and the last element.
LEMMA FrontLast ==
    ASSUME NEW S, NEW s \in Seq(S), s # <<>>
    PROVE  /\ Front(s) \in Seq(S) /\ Len(s) \in Nat /\ Len(Front(s)) = Len(s) - 1
           /\ Len(s) \in 1 .. Len(s) /\ Last(s) = s[Len(s)] /\ Last(s) \in S
           /\ \A n \in 1 .. Len(s) - 1 : Front(s)[n] = s[n] /\ n \in 1 .. Len(s)
<1> DEFINE k == Len(s) - 1
<1>1. k \in Nat /\ Len(s) = k + 1 /\ \A n \in 1 .. k + 1 : s[n] \in S
  OBVIOUS
<1>2. Front(s) = SubSeq(s, 1, k) /\ Last(s) = s[k + 1]
  BY <1>1 DEF Front, Last
<1> HIDE DEF k
<1>3. /\ SubSeq(s, 1, k) \in Seq(S)
      /\ Len(SubSeq(s, 1, k)) = (IF 1 <= k THEN k - 1 + 1 ELSE 0)
      /\ \A n \in 1 .. k - 1 + 1 : SubSeq(s, 1, k)[n] = s[1 + n - 1]
  <2>1. \A n \in 1 .. k : s[n] \in S
    BY <1>1
  <2> QED BY <1>1, <2>1, SubSeqProperties
<1> QED BY <1>1, <1>2, <1>3

\* The first n elements of a sequence.
LEMMA FirstOnes ==
    ASSUME NEW S, NEW s \in Seq(S), NEW n \in 0 .. Len(s)
    PROVE  /\ SubSeq(s, 1, n) \in Seq(S) /\ Len(SubSeq(s, 1, n)) = n
           /\ \A k \in 1 .. n : SubSeq(s, 1, n)[k] = s[k]
<1>1. n \in Int /\ n >= 0 /\ \A k \in 1 .. n : s[k] \in S
  OBVIOUS
<1>2. /\ SubSeq(s, 1, n) \in Seq(S)
      /\ Len(SubSeq(s, 1, n)) = (IF 1 <= n THEN n - 1 + 1 ELSE 0)
      /\ \A k \in 1 .. n - 1 + 1 : SubSeq(s, 1, n)[k] = s[1 + k - 1]
  BY <1>1, SubSeqProperties
<1> QED BY <1>1, <1>2

\* The slots after std::erase() of the one at position n of the first z.
Erase(s, z, n) == RemoveAt(SubSeq(s, 1, z), n) \o SubSeq(s, z, Len(s))

LEMMA Erased ==
    ASSUME NEW S, NEW s \in Seq(S), NEW z \in 1 .. Len(s), NEW n \in 1 .. z
    PROVE  /\ Erase(s, z, n) \in Seq(S) /\ Len(Erase(s, z, n)) = Len(s)
           /\ \A k \in 1 .. n - 1 : Erase(s, z, n)[k] = s[k]
           /\ \A k \in n .. z - 1 : Erase(s, z, n)[k] = s[k + 1]
<1> DEFINE a == SubSeq(s, 1, z)
           b == SubSeq(a, 1, n - 1)
           c == SubSeq(a, n + 1, z)
           d == SubSeq(s, z, Len(s))
           t == Erase(s, z, n)
<1>1. a \in Seq(S) /\ Len(a) = z /\ \A k \in 1 .. z : a[k] = s[k]
  BY FirstOnes
<1> HIDE DEF a
<1>2. b \in Seq(S) /\ Len(b) = n - 1 /\ \A k \in 1 .. n - 1 : b[k] = s[k]
  <2>1. n - 1 \in 0 .. Len(a)
    BY <1>1
  <2>2. b \in Seq(S) /\ Len(b) = n - 1 /\ \A k \in 1 .. n - 1 : b[k] = a[k]
    BY <1>1, <2>1, FirstOnes
  <2> QED BY <1>1, <2>2
<1>3. c \in Seq(S) /\ Len(c) = z - n /\ \A k \in 1 .. z - n : c[k] = s[n + k]
  <2>1. \A k \in n + 1 .. z : a[k] \in S
    BY <1>1
  <2>2. n + 1 \in Int /\ z \in Int
    OBVIOUS
  <2>3. /\ c \in Seq(S) /\ Len(c) = (IF n + 1 <= z THEN z - (n + 1) + 1 ELSE 0)
        /\ \A k \in 1 .. z - (n + 1) + 1 : c[k] = a[n + 1 + k - 1]
    BY <2>1, <2>2, SubSeqProperties
  <2> QED BY <1>1, <2>3
<1>4. d \in Seq(S) /\ Len(d) = Len(s) - z + 1
  <2>1. (\A k \in z .. Len(s) : s[k] \in S) /\ z \in Int /\ Len(s) \in Int
    OBVIOUS
  <2>2. d \in Seq(S) /\ Len(d) = (IF z <= Len(s) THEN Len(s) - z + 1 ELSE 0)
    BY <2>1, SubSeqProperties
  <2> QED BY <2>2
<1>5. t = (b \o c) \o d
  BY <1>1 DEF Erase, RemoveAt, a
<1> HIDE DEF b, c, d, t
<1> DEFINE bc == b \o c
<1>6. /\ bc \in Seq(S) /\ Len(bc) = z - 1
      /\ \A k \in 1 .. z - 1 : bc[k] = IF k <= n - 1 THEN b[k] ELSE c[k - (n - 1)]
  <2>1. /\ bc \in Seq(S) /\ Len(bc) = Len(b) + Len(c)
        /\ \A k \in 1 .. Len(b) + Len(c) : bc[k] = IF k <= Len(b) THEN b[k] ELSE c[k - Len(b)]
    BY <1>2, <1>3, ConcatProperties
  <2>2. Len(b) = n - 1 /\ Len(b) + Len(c) = z - 1
    BY <1>2, <1>3
  <2> QED BY <2>1, <2>2
<1>7. /\ t \in Seq(S) /\ Len(t) = Len(s) /\ \A k \in 1 .. z - 1 : t[k] = bc[k]
  <2>1. t = bc \o d
    BY <1>5
  <2> HIDE DEF bc
  <2>2. /\ bc \o d \in Seq(S) /\ Len(bc \o d) = Len(bc) + Len(d)
        /\ \A k \in 1 .. Len(bc) + Len(d) : (bc \o d)[k] = IF k <= Len(bc) THEN bc[k] ELSE d[k - Len(bc)]
    BY <1>4, <1>6, ConcatProperties
  <2>3. Len(bc) = z - 1 /\ Len(d) = Len(s) - z + 1 /\ Len(s) \in Nat /\ z \in Nat
    BY <1>4, <1>6
  <2>4. \A k \in 1 .. z - 1 : k \in 1 .. Len(bc) + Len(d) /\ k <= Len(bc)
    BY <2>3
  <2>5. Len(t) = Len(s)
    BY <2>1, <2>2, <2>3
  <2> QED BY <2>1, <2>2, <2>4, <2>5
<1> HIDE DEF bc
<1>8. ASSUME NEW k \in 1 .. n - 1 PROVE t[k] = s[k]
  BY <1>2, <1>6, <1>7
<1>9. ASSUME NEW k \in n .. z - 1 PROVE t[k] = s[k + 1]
  <2>1. k \in 1 .. z - 1 /\ ~ (k <= n - 1) /\ k - (n - 1) \in 1 .. z - n /\ n + (k - (n - 1)) = k + 1
    OBVIOUS
  <2> QED BY <1>3, <1>6, <1>7, <2>1
<1> QED BY <1>7, <1>8, <1>9 DEF t

----------------------------------------------------------------------------
LEMMA ManagerInitInv == ManagerInit => ManagerInv
  BY DEF ManagerInit, ManagerInv

\* What an emission follows stays where it is if the slots do.
LEMMA FollowsOn ==
    ASSUME NEW e \in Emission, NEW s, NEW n \in Nat, Follows(e, s, n),
           NEW t, NEW m \in Nat,
           e.calm => e.last <= m /\ \A k \in 1 .. e.last : t[k] = s[k]
    PROVE  Follows(e, t, m)
  BY DEF Follows, Emission

\* An emission whose history has ended follows anything.
LEMMA DisturbedFollows ==
    ASSUME NEW e \in Emission, NEW s, NEW n, Follows(e, s, n), NEW t, NEW m
    PROVE  /\ Disturbed(e) \in Emission /\ Follows(Disturbed(e), t, m)
           /\ [Disturbed(e) EXCEPT !.stale = TRUE] \in Emission
           /\ Follows([Disturbed(e) EXCEPT !.stale = TRUE], t, m)
           /\ Disturbed(e).at = e.at /\ [Disturbed(e) EXCEPT !.stale = TRUE].at = e.at
<1>1. <<>> \in Seq(Slot)
  OBVIOUS
<1> QED BY <1>1 DEF Follows, Emission, Disturbed

\* The innermost emission.
LEMMA Innermost ==
    ASSUME ManagerInv, emissions # <<>>
    PROVE  /\ Current \in Emission /\ Follows(Current, slots, size)
           /\ Current = emissions[Len(emissions)]
           /\ Len(emissions) \in Nat /\ Len(emissions) \in 1 .. Len(emissions)
           /\ slots \in Seq(Slot) /\ size \in Nat
<1>1. slots \in Seq(Slot) /\ size \in Nat /\ emissions \in Seq(Emission)
  BY DEF ManagerInv
<1>2. /\ Len(emissions) \in Nat /\ Len(emissions) \in 1 .. Len(emissions)
      /\ Current = emissions[Len(emissions)] /\ Current \in Emission
  BY <1>1, FrontLast DEF Current
<1>3. Follows(Current, slots, size)
  BY <1>2 DEF ManagerInv
<1> QED BY <1>1, <1>2, <1>3

\* The innermost emission goes on.
LEMMA ContinueInv ==
    ASSUME ManagerInv, emissions # <<>>, NEW e \in Emission, Follows(e, slots, size),
           Continue(e), slots' = slots, size' = size
    PROVE  ManagerInv'
<1>1. /\ Len(emissions) \in Nat /\ Len(emissions) \in 1 .. Len(emissions)
      /\ emissions \in Seq(Emission)
  BY Innermost DEF ManagerInv
<1>2. /\ emissions' \in Seq(Emission) /\ Len(emissions') = Len(emissions)
      /\ emissions'[Len(emissions)] = e
      /\ \A n \in 1 .. Len(emissions) : n # Len(emissions) => emissions'[n] = emissions[n]
  BY <1>1 DEF Continue
<1>3. ASSUME NEW n \in 1 .. Len(emissions') PROVE Follows(emissions'[n], slots', size')
  <2>1. CASE n = Len(emissions)
    BY <1>2, <2>1
  <2>2. CASE n # Len(emissions)
    BY <1>2, <2>2 DEF ManagerInv
  <2> QED BY <2>1, <2>2
<1>4. \A n \in 1 .. Len(emissions') - 1 : emissions'[n].at = "onEvent"
  BY <1>1, <1>2 DEF ManagerInv
<1> QED BY <1>2, <1>3, <1>4 DEF ManagerInv

\* The innermost emission is over.
LEMMA LeaveInv ==
    ASSUME ManagerInv, emissions # <<>>, emissions' = Front(emissions), slots' = slots, size' = size
    PROVE  ManagerInv'
<1>1. /\ emissions' \in Seq(Emission) /\ Len(emissions') = Len(emissions) - 1
      /\ \A n \in 1 .. Len(emissions) - 1 : emissions'[n] = emissions[n] /\ n \in 1 .. Len(emissions)
      /\ Len(emissions) \in Nat
  BY FrontLast DEF ManagerInv
<1>2. \A n \in 1 .. Len(emissions') : Follows(emissions'[n], slots', size')
  BY <1>1 DEF ManagerInv
<1>3. \A n \in 1 .. Len(emissions') - 1 : emissions'[n].at = "onEvent"
  BY <1>1 DEF ManagerInv
<1>4. /\ slots' \in Seq(Slot) /\ size' \in 0 .. Len(slots')
      /\ \A m, n \in 1 .. size' : slots'[m] = slots'[n] => m = n
  BY DEF ManagerInv
<1> QED BY <1>1, <1>2, <1>3, <1>4 DEF ManagerInv

\* The list changes and no emission goes on.
LEMMA ListInv ==
    ASSUME ManagerInv, slots' \in Seq(Slot), size' \in 0 .. Len(slots'),
           \A m, n \in 1 .. size' : slots'[m] = slots'[n] => m = n,
           emissions' \in Seq(Emission), Len(emissions') = Len(emissions),
           \A n \in 1 .. Len(emissions) :
             emissions'[n].at = emissions[n].at /\ Follows(emissions'[n], slots', size')
    PROVE  ManagerInv'
<1>1. \A n \in 1 .. Len(emissions) - 1 : n \in 1 .. Len(emissions)
  OBVIOUS
<1> QED BY <1>1 DEF ManagerInv

\* The observers, by their slots.
LEMMA Registered ==
    ASSUME ManagerInv, NEW o
    PROVE  Contains(m_observers, o) <=> \E n \in 1 .. size : slots[n] = o
<1>1. Len(m_observers) = size /\ \A n \in 1 .. size : m_observers[n] = slots[n]
  BY FirstOnes DEF ManagerInv, m_observers
<1> QED BY <1>1 DEF Contains

LEMMA RegisterInv == ASSUME ManagerInv, NEW o \in Observer, Register(o) PROVE ManagerInv'
<1>1. /\ slots \in Seq(Slot) /\ size \in Nat /\ size + 1 \in 1 .. Len(slots) /\ o \in Slot
      /\ slots' = [slots EXCEPT ![size + 1] = o] /\ size' = size + 1 /\ emissions' = emissions
      /\ \A n \in 1 .. size : slots[n] # o
      /\ emissions \in Seq(Emission)
  BY Registered DEF Register, ManagerInv, Slot
<1>2. /\ slots' \in Seq(Slot) /\ Len(slots') = Len(slots) /\ slots'[size + 1] = o
      /\ \A n \in 1 .. size : slots'[n] = slots[n]
  BY <1>1
<1>3. \A m, n \in 1 .. size' : slots'[m] = slots'[n] => m = n
  <2> SUFFICES ASSUME NEW m \in 1 .. size', NEW n \in 1 .. size', slots'[m] = slots'[n] PROVE m = n
    OBVIOUS
  <2>1. (m \in 1 .. size \/ m = size + 1) /\ (n \in 1 .. size \/ n = size + 1)
    BY <1>1
  <2> QED BY <1>1, <1>2, <2>1 DEF ManagerInv
<1>4. ASSUME NEW n \in 1 .. Len(emissions) PROVE Follows(emissions'[n], slots', size')
  <2>1. PICK e \in Emission : e = emissions[n]
    BY <1>1
  <2>2. Follows(e, slots, size)
    BY <2>1 DEF ManagerInv
  <2>3. e.calm => e.last <= size' /\ \A k \in 1 .. e.last : slots'[k] = slots[k]
    <3>1. e.calm => e.last <= size
      BY <2>2 DEF Follows
    <3>2. e.last \in Nat
      BY DEF Emission
    <3> QED BY <1>1, <1>2, <3>1, <3>2
  <2>4. PICK t, z : t = slots' /\ z = size'
    OBVIOUS
  <2>5. z \in Nat /\ (e.calm => e.last <= z /\ \A k \in 1 .. e.last : t[k] = slots[k])
    BY <1>1, <2>3, <2>4
  <2>6. Follows(e, t, z)
    BY <1>1, <2>2, <2>5, FollowsOn
  <2> QED BY <1>1, <2>1, <2>4, <2>6
<1>5. /\ size' \in 0 .. Len(slots') /\ emissions' \in Seq(Emission) /\ Len(emissions') = Len(emissions)
      /\ \A n \in 1 .. Len(emissions) : emissions'[n].at = emissions[n].at
  BY <1>1, <1>2
<1> QED BY <1>2, <1>3, <1>4, <1>5, ListInv

\* A sequence of as many emissions.
LEMMA AsMany ==
    ASSUME NEW s \in Seq(Emission), NEW t, DOMAIN t = DOMAIN s,
           t = [n \in DOMAIN s |-> t[n]], \A n \in 1 .. Len(s) : t[n] \in Emission
    PROVE  t \in Seq(Emission) /\ Len(t) = Len(s)
<1>1. DOMAIN s = 1 .. Len(s) /\ Len(s) \in Nat
  OBVIOUS
<1>2. t \in [1 .. Len(s) -> Emission]
  BY <1>1
<1> QED BY <1>1, <1>2

LEMMA RegisterGrowingInv ==
    ASSUME ManagerInv, NEW o \in Observer, RegisterGrowing(o)
    PROVE  ManagerInv'
<1> DEFINE rest == [n \in 1 .. Max({1, 2 * size}) - size - 1 |-> None]
<1>1. /\ slots \in Seq(Slot) /\ size \in Nat /\ size = Len(slots) /\ o \in Slot
      /\ slots' = Append(slots, o) \o rest /\ size' = size + 1
      /\ emissions' = [n \in DOMAIN emissions |-> [Disturbed(emissions[n]) EXCEPT !.stale = TRUE]]
      /\ \A n \in 1 .. size : slots[n] # o
      /\ emissions \in Seq(Emission)
  BY Registered DEF RegisterGrowing, ManagerInv, Slot
<1>2. rest \in Seq(Slot) /\ Len(rest) \in Nat
  <2>1. size \in Nat
    BY <1>1
  <2>2. PICK m \in Nat : m = Max({1, 2 * size}) /\ m >= size + 1
    BY <2>1, Doubled, Zenon
  <2>3. PICK z \in Nat : z = m - size - 1
    BY <2>1, <2>2
  <2>4. rest = [n \in 1 .. z |-> None]
    BY <2>2, <2>3, Zenon
  <2>5. None \in Slot
    BY DEF Slot
  <2> HIDE DEF rest
  <2>6. rest \in [1 .. z -> Slot]
    BY <2>4, <2>5
  <2> QED BY <2>6
<1> HIDE DEF rest
<1>3. /\ Append(slots, o) \in Seq(Slot) /\ Len(Append(slots, o)) = size + 1
      /\ Append(slots, o)[size + 1] = o /\ \A n \in 1 .. size : Append(slots, o)[n] = slots[n]
  BY <1>1
<1>4. /\ slots' \in Seq(Slot) /\ size' \in 0 .. Len(slots') /\ slots'[size + 1] = o
      /\ \A n \in 1 .. size : slots'[n] = slots[n]
  <2> DEFINE a == Append(slots, o)
  <2>1. a \in Seq(Slot) /\ Len(a) = size + 1
    BY <1>3
  <2>2. slots' = a \o rest
    BY <1>1
  <2> HIDE DEF a
  <2>3. /\ slots' \in Seq(Slot) /\ Len(slots') = size + 1 + Len(rest)
        /\ \A n \in 1 .. size + 1 + Len(rest) : slots'[n] = IF n <= size + 1 THEN a[n] ELSE rest[n - (size + 1)]
    BY <1>2, <2>1, <2>2, ConcatProperties
  <2>4. \A n \in 1 .. size + 1 : slots'[n] = a[n]
    BY <1>1, <1>2, <2>3
  <2> QED BY <1>1, <1>2, <1>3, <2>3, <2>4 DEF a
<1>5. \A m, n \in 1 .. size' : slots'[m] = slots'[n] => m = n
  <2> SUFFICES ASSUME NEW m \in 1 .. size', NEW n \in 1 .. size', slots'[m] = slots'[n] PROVE m = n
    OBVIOUS
  <2>1. (m \in 1 .. size \/ m = size + 1) /\ (n \in 1 .. size \/ n = size + 1)
    BY <1>1
  <2> QED BY <1>1, <1>4, <2>1 DEF ManagerInv
<1>6. ASSUME NEW n \in 1 .. Len(emissions)
      PROVE  /\ emissions'[n] \in Emission /\ emissions'[n].at = emissions[n].at
             /\ Follows(emissions'[n], slots', size')
  <2>1. PICK e, t, z : e = emissions[n] /\ t = slots' /\ z = size'
    OBVIOUS
  <2>2. e \in Emission /\ Follows(e, slots, size)
    BY <2>1 DEF ManagerInv
  <2>3. emissions'[n] = [Disturbed(e) EXCEPT !.stale = TRUE]
    <3>1. n \in DOMAIN emissions
      BY DEF ManagerInv
    <3>2. emissions'[n] = [Disturbed(emissions[n]) EXCEPT !.stale = TRUE]
      BY <1>1, <3>1, Zenon
    <3> QED BY <2>1, <3>2, Zenon
  <2>4. /\ [Disturbed(e) EXCEPT !.stale = TRUE] \in Emission
        /\ [Disturbed(e) EXCEPT !.stale = TRUE].at = e.at
        /\ Follows([Disturbed(e) EXCEPT !.stale = TRUE], t, z)
    BY <2>2, DisturbedFollows, Zenon
  <2> QED BY <2>1, <2>3, <2>4
<1>7. emissions' \in Seq(Emission) /\ Len(emissions') = Len(emissions)
  BY <1>1, <1>6, AsMany
<1> QED BY <1>4, <1>5, <1>6, <1>7, ListInv

\* Erasing an observer that an emission does not know leaves its own in place.
LEMMA UnregisterInv ==
    ASSUME ManagerInv, NEW o \in Observer, Unregister(o)
    PROVE  ManagerInv'
<1>1. PICK p \in 1 .. size :
        slots[p] = o /\ slots' = RemoveAt(m_observers, p) \o SubSeq(slots, size, Len(slots))
  BY DEF Unregister
<1>2. /\ slots \in Seq(Slot) /\ size \in 1 .. Len(slots) /\ size' = size - 1
      /\ emissions \in Seq(Emission)
      /\ \A m, n \in 1 .. size : slots[m] = slots[n] => m = n
  BY <1>1 DEF ManagerInv, Unregister
<1>3. emissions' = [n \in DOMAIN emissions |->
                     IF Contains(emissions[n].start, o) THEN Disturbed(emissions[n]) ELSE emissions[n]]
  BY DEF Unregister
<1>4. /\ slots' \in Seq(Slot) /\ Len(slots') = Len(slots)
      /\ \A k \in 1 .. p - 1 : slots'[k] = slots[k]
      /\ \A k \in p .. size - 1 : slots'[k] = slots[k + 1]
  <2>1. slots' = Erase(slots, size, p)
    BY <1>1 DEF m_observers, Erase
  <2> QED BY <1>2, <2>1, Erased
<1>5. \A m, n \in 1 .. size' : slots'[m] = slots'[n] => m = n
  <2> SUFFICES ASSUME NEW m \in 1 .. size', NEW n \in 1 .. size', slots'[m] = slots'[n] PROVE m = n
    OBVIOUS
  <2>1. PICK k : k = IF m < p THEN m ELSE m + 1
    OBVIOUS
  <2>2. k \in 1 .. size /\ slots'[m] = slots[k]
    <3>1. CASE m < p
      <4>1. m \in 1 .. p - 1 /\ m \in 1 .. size
        BY <1>2, <3>1
      <4> QED BY <1>4, <2>1, <3>1, <4>1
    <3>2. CASE m >= p
      <4>1. m \in p .. size - 1 /\ m + 1 \in 1 .. size /\ ~ (m < p)
        BY <1>2, <3>2
      <4> QED BY <1>4, <2>1, <4>1
    <3> QED BY <1>2, <3>1, <3>2
  <2>3. PICK l : l = IF n < p THEN n ELSE n + 1
    OBVIOUS
  <2>4. l \in 1 .. size /\ slots'[n] = slots[l]
    <3>1. CASE n < p
      <4>1. n \in 1 .. p - 1 /\ n \in 1 .. size
        BY <1>2, <3>1
      <4> QED BY <1>4, <2>3, <3>1, <4>1
    <3>2. CASE n >= p
      <4>1. n \in p .. size - 1 /\ n + 1 \in 1 .. size /\ ~ (n < p)
        BY <1>2, <3>2
      <4> QED BY <1>4, <2>3, <4>1
    <3> QED BY <1>2, <3>1, <3>2
  <2>5. k = l
    BY <1>2, <2>2, <2>4
  <2> QED BY <1>2, <2>1, <2>3, <2>5
<1>6. ASSUME NEW n \in 1 .. Len(emissions)
      PROVE  /\ emissions'[n] \in Emission /\ emissions'[n].at = emissions[n].at
             /\ Follows(emissions'[n], slots', size')
  <2>1. PICK e, t, z : e = emissions[n] /\ t = slots' /\ z = size'
    OBVIOUS
  <2>2. e \in Emission /\ Follows(e, slots, size)
    BY <2>1 DEF ManagerInv
  <2>3. emissions'[n] = IF Contains(e.start, o) THEN Disturbed(e) ELSE e
    <3>1. n \in DOMAIN emissions
      BY DEF ManagerInv
    <3> QED BY <1>3, <2>1, <3>1, Zenon
  <2>4. CASE Contains(e.start, o)
    <3>1. Disturbed(e) \in Emission /\ Disturbed(e).at = e.at /\ Follows(Disturbed(e), t, z)
      BY <2>2, DisturbedFollows, Zenon
    <3> QED BY <2>1, <2>3, <2>4, <3>1
  <2>5. CASE ~ Contains(e.start, o)
    <3>1. e.calm => e.last < p
      <4> SUFFICES ASSUME e.calm, e.last >= p PROVE FALSE
        BY <2>2 DEF Emission
      <4>1. p \in 1 .. e.last /\ p \in Nat
        BY <1>2, <2>2 DEF Emission
      <4>2. e.start[p] = slots[p] /\ Len(e.start) = e.last
        BY <2>2, <4>1 DEF Follows
      <4> QED BY <1>1, <2>5, <4>1, <4>2 DEF Contains
    <3>2. z \in Nat /\ (e.calm => e.last <= z /\ \A k \in 1 .. e.last : t[k] = slots[k])
      <4>1. z \in Nat /\ z = size - 1 /\ e.last \in Nat
        <5>1. e.last \in Nat
          BY <2>2 DEF Emission
        <5> QED BY <1>2, <2>1, <5>1
      <4>2. \A k \in 1 .. p - 1 : t[k] = slots[k]
        BY <1>4, <2>1
      <4>3. ASSUME e.calm, NEW k \in 1 .. e.last PROVE t[k] = slots[k]
        <5>1. k \in 1 .. p - 1
          BY <1>2, <3>1, <4>1, <4>3
        <5> QED BY <4>2, <5>1
      <4>4. e.calm => e.last <= z
        BY <1>2, <3>1, <4>1
      <4> QED BY <4>1, <4>3, <4>4
    <3>3. Follows(e, t, z)
      BY <1>2, <2>2, <3>2, FollowsOn
    <3> QED BY <2>1, <2>2, <2>3, <2>5, <3>3
  <2> QED BY <2>4, <2>5
<1>7. emissions' \in Seq(Emission) /\ Len(emissions') = Len(emissions)
  <2>1. DOMAIN emissions' = DOMAIN emissions /\ emissions' = [n \in DOMAIN emissions |-> emissions'[n]]
    BY <1>3
  <2> QED BY <1>2, <1>6, <2>1, AsMany
<1>8. size' \in 0 .. Len(slots')
  BY <1>2, <1>4
<1> QED BY <1>4, <1>5, <1>6, <1>7, <1>8, ListInv

\* An emission begins, which follows what the list is.
LEMMA EmitEventInv == ASSUME ManagerInv, EmitEvent PROVE ManagerInv'
<1> DEFINE e == [it |-> 1, last |-> size, at |-> "loop", isHandled |-> FALSE, stale |-> FALSE,
                 start |-> m_observers, told |-> <<>>, calm |-> TRUE]
<1>1. /\ slots \in Seq(Slot) /\ size \in 0 .. Len(slots) /\ emissions \in Seq(Emission)
      /\ slots' = slots /\ size' = size /\ emissions' = Append(emissions, e)
      /\ Len(emissions) \in Nat
  BY DEF ManagerInv, EmitEvent
<1>2. /\ m_observers \in Seq(Slot) /\ Len(m_observers) = size
      /\ \A k \in 1 .. size : m_observers[k] = slots[k]
  BY <1>1, FirstOnes DEF m_observers
<1>3. e \in Emission /\ Follows(e, slots, size)
  <2>1. <<>> \in Seq(Slot) /\ Len(<<>>) = 0 /\ size \in Nat
    BY <1>1
  <2>2. e \in Emission
    BY <1>2, <2>1 DEF Emission
  <2>3. Follows(e, slots, size)
    BY <1>2, <2>1 DEF Follows
  <2> QED BY <2>2, <2>3
<1> HIDE DEF e
<1>4. /\ emissions' \in Seq(Emission) /\ Len(emissions') = Len(emissions) + 1
      /\ emissions'[Len(emissions) + 1] = e
      /\ \A n \in 1 .. Len(emissions) : emissions'[n] = emissions[n]
  BY <1>1, <1>3
<1>5. ASSUME NEW n \in 1 .. Len(emissions') PROVE Follows(emissions'[n], slots', size')
  <2>1. CASE n = Len(emissions) + 1
    BY <1>1, <1>3, <1>4, <2>1
  <2>2. CASE n # Len(emissions) + 1
    <3>1. n \in 1 .. Len(emissions)
      BY <1>1, <1>4, <2>2
    <3> QED BY <1>1, <1>4, <3>1 DEF ManagerInv
  <2> QED BY <2>1, <2>2
<1>6. ASSUME NEW n \in 1 .. Len(emissions') - 1 PROVE emissions'[n].at = "onEvent"
  <2>1. n \in 1 .. Len(emissions) /\ emissions # <<>>
    BY <1>1, <1>4
  <2>2. emissions[Len(emissions)].at = "onEvent"
    BY <2>1, Innermost DEF EmitEvent, UserRuns
  <2>3. n = Len(emissions) \/ n \in 1 .. Len(emissions) - 1
    BY <1>1, <2>1
  <2> QED BY <1>4, <2>1, <2>2, <2>3 DEF ManagerInv
<1>7. size' \in 0 .. Len(slots') /\ \A m, n \in 1 .. size' : slots'[m] = slots'[n] => m = n
  BY <1>1 DEF ManagerInv
<1> QED BY <1>1, <1>4, <1>5, <1>6, <1>7 DEF ManagerInv

\* The next observer is told ...
LEMMA OnEventInv == ASSUME ManagerInv, OnEvent PROVE ManagerInv'
<1> DEFINE o == slots[Current.it]
           told == IF Current.calm THEN Append(Current.told, o) ELSE Current.told
           e == [Current EXCEPT !.at = "onEvent", !.told = told]
<1>1. /\ emissions # <<>> /\ Current.at = "loop" /\ Current.it <= Current.last /\ ~ Current.stale
      /\ Continue(e) /\ slots' = slots /\ size' = size
  BY DEF OnEvent, Looping, Told
<1>2. Current \in Emission /\ Follows(Current, slots, size) /\ slots \in Seq(Slot) /\ size \in 0 .. Len(slots)
  BY <1>1, Innermost DEF ManagerInv
<1>3. CASE Current.calm
  <2>1. /\ Current.it \in 1 .. Current.last /\ Current.last \in 0 .. size
        /\ Len(Current.told) = Current.it - 1 /\ Current.told \in Seq(Slot)
        /\ Len(Current.start) = Current.last /\ Current.start[Current.it] = o
        /\ \A k \in 1 .. Current.it - 1 : Current.told[k] = Current.start[k]
    BY <1>1, <1>2, <1>3 DEF Follows, Emission
  <2>2. o \in Slot
    BY <1>2, <2>1
  <2> HIDE DEF o
  <2>3. /\ told \in Seq(Slot) /\ Len(told) = Current.it
        /\ \A k \in 1 .. Current.it : told[k] = Current.start[k]
    <3>1. /\ told = Append(Current.told, o) /\ told \in Seq(Slot) /\ Len(told) = Current.it
          /\ told[Current.it] = o /\ \A k \in 1 .. Current.it - 1 : told[k] = Current.told[k]
      BY <1>3, <2>1, <2>2
    <3> HIDE DEF told
    <3>2. ASSUME NEW k \in 1 .. Current.it PROVE told[k] = Current.start[k]
      <4>1. k = Current.it \/ k \in 1 .. Current.it - 1
        BY <2>1
      <4> QED BY <2>1, <3>1, <4>1
    <3> QED BY <3>1, <3>2
  <2> HIDE DEF told
  <2>4. /\ e \in Emission /\ e.at = "onEvent" /\ e.told = told /\ e.it = Current.it
        /\ e.last = Current.last /\ e.start = Current.start /\ e.calm /\ ~ e.stale
    BY <1>1, <1>2, <1>3, <2>3 DEF Emission
  <2> HIDE DEF e
  <2>5. Follows(e, slots, size)
    BY <1>2, <1>3, <2>1, <2>3, <2>4 DEF Follows
  <2> QED BY <1>1, <2>4, <2>5, ContinueInv
<1>4. CASE ~ Current.calm
  <2>1. told = Current.told
    BY <1>4
  <2> HIDE DEF told
  <2>2. e \in Emission /\ Follows(e, slots, size)
    BY <1>2, <1>4, <2>1 DEF Emission, Follows
  <2> QED BY <1>1, <2>2, ContinueInv
<1> QED BY <1>3, <1>4

\* ... and may handle the event and return, or throw.
LEMMA ReturnInv ==
    ASSUME ManagerInv,
           \/ OnEventStale \/ Handled \/ ObserverReturnHandled \/ ObserverReturn \/ ObserverThrow
           \/ EmitReturn
    PROVE  ManagerInv'
<1>1. CASE OnEventStale
  BY <1>1 DEF OnEventStale, ManagerInv
<1>2. CASE ObserverReturnHandled \/ ObserverThrow \/ EmitReturn
  BY <1>2, LeaveInv DEF ObserverReturnHandled, ObserverThrow, EmitReturn, Looping
<1>3. CASE Handled
  <2>1. /\ emissions # <<>> /\ Current.at = "onEvent" /\ slots' = slots /\ size' = size
        /\ Continue([Current EXCEPT !.isHandled = TRUE])
    BY <1>3 DEF Handled, UserRuns
  <2>2. Current \in Emission /\ Follows(Current, slots, size)
    BY <2>1, Innermost
  <2>3. /\ [Current EXCEPT !.isHandled = TRUE] \in Emission
        /\ Follows([Current EXCEPT !.isHandled = TRUE], slots, size)
    BY <2>1, <2>2 DEF Emission, Follows
  <2> QED BY <2>1, <2>3, ContinueInv
<1>4. CASE ObserverReturn
  <2> DEFINE e == [Current EXCEPT !.at = "loop", !.it = Current.it + 1]
  <2>1. /\ emissions # <<>> /\ Current.at = "onEvent" /\ ~ Current.isHandled
        /\ slots' = slots /\ size' = size /\ Continue(e)
    BY <1>4 DEF ObserverReturn, UserRuns
  <2>2. Current \in Emission /\ Follows(Current, slots, size)
    BY <2>1, Innermost
  <2>3. /\ e \in Emission /\ e.at = "loop" /\ e.told = Current.told /\ e.it = Current.it + 1
        /\ e.last = Current.last /\ e.start = Current.start /\ e.calm = Current.calm
        /\ e.stale = Current.stale /\ ~ e.isHandled /\ Current.it \in Nat
    <3>1. Current.it \in Nat /\ Current.it + 1 \in Nat
      BY <2>2 DEF Emission
    <3> DEFINE next == Current.it + 1
    <3> HIDE DEF next
    <3>2. e = [Current EXCEPT !.at = "loop", !.it = next]
      BY DEF next
    <3> QED BY <2>1, <2>2, <3>1, <3>2 DEF Emission, next
  <2> HIDE DEF e
  <2>4. Follows(e, slots, size)
    BY <2>1, <2>2, <2>3 DEF Follows
  <2> QED BY <2>1, <2>3, <2>4, ContinueInv
<1> QED BY <1>1, <1>2, <1>3, <1>4

LEMMA ManagerNextInv == ManagerInv /\ [ManagerNext]_managerVars => ManagerInv'
<1> SUFFICES ASSUME ManagerInv, [ManagerNext]_managerVars PROVE ManagerInv'
  OBVIOUS
<1>1. CASE UNCHANGED managerVars
  BY <1>1 DEF managerVars, ManagerInv
<1> QED
  BY <1>1, RegisterInv, RegisterGrowingInv, UnregisterInv, EmitEventInv, OnEventInv, ReturnInv
     DEF ManagerNext

----------------------------------------------------------------------------
\* Sequences that agree on the positions of the shorter one.
LEMMA Prefix ==
    ASSUME NEW S, NEW s \in Seq(S), NEW t \in Seq(S), Len(s) <= Len(t),
           \A k \in 1 .. Len(s) : s[k] = t[k]
    PROVE  IsPrefix(s, t) /\ (Len(s) = Len(t) => s = t)
<1>1. Len(s) \in 0 .. Len(s) /\ Len(s) \in 0 .. Len(t)
  OBVIOUS
<1>2. SubSeq(s, 1, Len(s)) = SubSeq(t, 1, Len(s))
  <2>1. /\ SubSeq(s, 1, Len(s)) \in Seq(S) /\ Len(SubSeq(s, 1, Len(s))) = Len(s)
        /\ \A k \in 1 .. Len(s) : SubSeq(s, 1, Len(s))[k] = s[k]
    BY <1>1, FirstOnes
  <2>2. /\ SubSeq(t, 1, Len(s)) \in Seq(S) /\ Len(SubSeq(t, 1, Len(s))) = Len(s)
        /\ \A k \in 1 .. Len(s) : SubSeq(t, 1, Len(s))[k] = t[k]
    BY <1>1, FirstOnes
  <2> QED BY <2>1, <2>2, SeqEqual
<1>3. Len(s) = Len(t) => s = t
  BY SeqEqual
<1> QED BY <1>2, <1>3 DEF IsPrefix

LEMMA FollowsInOrder ==
    ASSUME NEW e \in Emission, NEW s, NEW n, Follows(e, s, n)
    PROVE  /\ e.calm => IsPrefix(e.told, e.start)
           /\ e.at = "loop" /\ e.it > e.last /\ e.calm => e.told = e.start
           /\ e.at = "loop" => ~ e.isHandled
<1>1. e.told \in Seq(Slot) /\ e.start \in Seq(Slot) /\ e.it \in Nat /\ e.last \in Nat
  BY DEF Emission
<1>2. CASE e.calm
  <2>1. Len(e.told) <= Len(e.start) /\ \A k \in 1 .. Len(e.told) : e.told[k] = e.start[k]
    BY <1>2 DEF Follows
  <2>2. e.at = "loop" /\ e.it > e.last => Len(e.told) = Len(e.start)
    BY <1>1, <1>2 DEF Follows
  <2> QED BY <1>1, <2>1, <2>2, Prefix DEF Follows
<1>3. CASE ~ e.calm
  BY <1>3 DEF Follows
<1> QED BY <1>2, <1>3

LEMMA ManagerInvTold == ManagerInv => ToldInOrder /\ EveryoneTold
<1> SUFFICES ASSUME ManagerInv PROVE ToldInOrder /\ EveryoneTold
  OBVIOUS
<1>1. ASSUME NEW n \in DOMAIN emissions
      PROVE  emissions[n] \in Emission /\ Follows(emissions[n], slots, size)
  BY DEF ManagerInv
<1> QED BY <1>1, FollowsInOrder DEF ToldInOrder, EveryoneTold

\* emitEvent() tells the observers in the order of their registration, for any
\* number of observers and of emissions within each other.
THEOREM ToldInOrderCorrect == ManagerSpec => []ToldInOrder
  BY ManagerInvTold, ManagerInitInv, ManagerNextInv, PTL DEF ManagerSpec

\* Its loop ends when everyone has been told, and goes on only while nobody has
\* handled the event.
THEOREM EveryoneToldCorrect == ManagerSpec => []EveryoneTold
  BY ManagerInvTold, ManagerInitInv, ManagerNextInv, PTL DEF ManagerSpec
=============================================================================
