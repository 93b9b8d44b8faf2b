---------------------------- MODULE FutureProofs ----------------------------
(***************************************************************************)
(* The safety of Future for any finite set of consumers and any Ops.       *)
(*                                                                         *)
(* The inductive invariant has one part per piece of the context: who owns *)
(* the mutex, how the value and its flags go together, what each consumer  *)
(* has been through, and who has received the value.                       *)
(***************************************************************************)
EXTENDS Future, FiniteSetTheorems, TLAPS

\* The mutex is owned by the thread that executes a callback.
Holder == \A t \in Thread : m_mutex = t <=> pc[t] = "callback"

\* The promise is fulfilled once; the value is there from then on until it
\* is marked as consumed.
ValueState ==
    /\ pc[Promiser] \in {"task", "idle", "callback"}
    /\ pc[Promiser] = "task" <=> ~ m_valueSet
    /\ \A c \in Consumer : pc[c] # "task"
    /\ ~ m_valueSet => m_value = "null" /\ ~ m_valueConsumed
    /\ m_valueSet => m_value = IF m_valueConsumed THEN "moved" ELSE "value"

\* The life of a callback: not installed, installed and waiting for the
\* value, invoked.
CallbackState ==
    \A c \in Consumer :
        /\ "then" \in left[c] \/ pc[c] = "install" =>
              m_callback # c /\ invocations[c] = 0
        /\ pc[c] = "install" => "then" \notin left[c]
        /\ ~ m_valueSet => invocations[c] = 0
        /\ m_valueSet /\ m_callback = c => invocations[c] = 1
        /\ invocations[c] \in {0, 1}
        /\ invocations[c] = 0 <=> argument[c] = "none"

\* The life of a get(): it is not called twice and not answered early.
GetState ==
    \A c \in Consumer :
        /\ "get" \in left[c] \/ pc[c] \in {"getWait", "getValue"} =>
              result[c] = "none"
        /\ pc[c] \in {"getWait", "getValue"} => "get" \notin left[c]
        /\ pc[c] = "getValue" => m_valueSet

\* Once a wait() has returned, the promise has nothing left to do.
WaitState ==
    \A c \in Consumer :
        "wait" \in Ops[c] \ left[c] /\ pc[c] # "wait" => pc[Promiser] = "idle"

OneReceiver ==
    IF m_valueConsumed THEN \E r \in Receivers : Receivers = {r}
    ELSE Receivers = {}

IInv ==
    /\ TypeOK /\ Holder /\ ValueState /\ CallbackState
    /\ GetState /\ WaitState /\ OneReceiver /\ GetNeverMoved

----------------------------------------------------------------------------
LEMMA InitIInv ==
    ASSUME Init
    PROVE  IInv
  <1> USE OpsAssumption, ThreadAssumption DEF Init
  <1>1. TypeOK
    BY DEF TypeOK, Thread
  <1>2. Holder
    BY DEF Holder, Thread
  <1>3. ValueState
    BY DEF ValueState, Thread
  <1>4. CallbackState
    BY DEF CallbackState, Thread
  <1>5. GetState
    BY DEF GetState, Thread
  <1>6. WaitState
    BY DEF WaitState, Thread
  <1>7. OneReceiver
    BY DEF OneReceiver, Receivers
  <1>8. GetNeverMoved
    BY DEF GetNeverMoved
  <1>9. QED
    BY <1>1, <1>2, <1>3, <1>4, <1>5, <1>6, <1>7, <1>8 DEF IInv

----------------------------------------------------------------------------
(***************************************************************************)
(* Who received the value, as facts about single consumers.                *)
(***************************************************************************)
LEMMA ReceiversAre ==
    \A c \in Consumer :
        /\ <<c, "get">> \in Receivers <=> result[c] = "value"
        /\ <<c, "then">> \in Receivers <=> argument[c] = "value"
  BY DEF Receivers

\* A step that changes neither result nor argument changes no receiver.
LEMMA ReceiversKept ==
    ASSUME OneReceiver, UNCHANGED <<result, argument, m_valueConsumed>>
    PROVE  OneReceiver'
  BY DEF OneReceiver, Receivers

\* The first to consume the value is its only receiver.
LEMMA GetReceives ==
    ASSUME TypeOK, OneReceiver, ~ m_valueConsumed, m_valueConsumed',
           NEW c \in Consumer, result' = [result EXCEPT ![c] = "value"],
           argument' = argument
    PROVE  OneReceiver'
  <1>1. Receivers = {}
    BY DEF OneReceiver
  <1>2. \A d \in Consumer : result[d] # "value" /\ argument[d] # "value"
    BY <1>1, ReceiversAre
  <1>3. {d \in Consumer : result'[d] = "value"} = {c}
    BY <1>2 DEF TypeOK
  <1>4. {d \in Consumer : argument'[d] = "value"} = {}
    BY <1>2
  <1>5. Receivers' = {<<c, "get">>}
    BY <1>3, <1>4 DEF Receivers
  <1>6. QED
    BY <1>5 DEF OneReceiver

LEMMA CallbackReceives ==
    ASSUME TypeOK, OneReceiver, ~ m_valueConsumed, m_valueConsumed',
           NEW c \in Consumer, argument' = [argument EXCEPT ![c] = "value"],
           result' = result
    PROVE  OneReceiver'
  <1>1. Receivers = {}
    BY DEF OneReceiver
  <1>2. \A d \in Consumer : result[d] # "value" /\ argument[d] # "value"
    BY <1>1, ReceiversAre
  <1>3. {d \in Consumer : argument'[d] = "value"} = {c}
    BY <1>2 DEF TypeOK
  <1>4. {d \in Consumer : result'[d] = "value"} = {}
    BY <1>2
  <1>5. Receivers' = {<<c, "then">>}
    BY <1>3, <1>4 DEF Receivers
  <1>6. QED
    BY <1>5 DEF OneReceiver

\* Those who come later change nothing.
LEMMA LateGet ==
    ASSUME TypeOK, OneReceiver, m_valueConsumed, m_valueConsumed',
           NEW c \in Consumer, result[c] = "none",
           result' = [result EXCEPT ![c] = "thrown"], argument' = argument
    PROVE  OneReceiver'
  <1>1. {d \in Consumer : result'[d] = "value"} = {d \in Consumer : result[d] = "value"}
    BY DEF TypeOK
  <1>2. Receivers' = Receivers
    BY <1>1 DEF Receivers
  <1>3. QED
    BY <1>2 DEF OneReceiver

LEMMA LateCallback ==
    ASSUME TypeOK, OneReceiver, m_valueConsumed, m_valueConsumed',
           NEW c \in Consumer, argument[c] = "none",
           argument' = [argument EXCEPT ![c] = "moved"], result' = result
    PROVE  OneReceiver'
  <1>1. {d \in Consumer : argument'[d] = "value"} = {d \in Consumer : argument[d] = "value"}
    BY DEF TypeOK
  <1>2. Receivers' = Receivers
    BY <1>1 DEF Receivers
  <1>3. QED
    BY <1>2 DEF OneReceiver

----------------------------------------------------------------------------
(***************************************************************************)
(* The steps.                                                              *)
(***************************************************************************)
LEMMA SetValueIInv ==
    ASSUME IInv, SetValue
    PROVE  IInv'
  <1> USE ThreadAssumption DEF SetValue, IInv, Goto, Free
  <1>1. /\ Promiser \in Thread /\ Promiser \notin Consumer /\ Nobody \notin Thread
        /\ Consumer \subseteq Thread /\ ~ m_valueSet /\ ~ m_valueConsumed
        /\ m_callback \in Consumer \cup {Nobody}
    BY DEF Thread, ValueState, TypeOK
  <1>2. CASE m_callback # Nobody
    <2> DEFINE cb == m_callback
    <2>0. cb \in Consumer
      BY <1>1, <1>2
    <2>1. /\ m_mutex' = Promiser /\ m_valueConsumed' = TRUE /\ m_value' = "moved"
          /\ argument' = [argument EXCEPT ![cb] = "value"]
          /\ invocations' = [invocations EXCEPT ![cb] = @ + 1]
          /\ pc' = [pc EXCEPT ![Promiser] = "callback"]
          /\ m_valueSet' = TRUE /\ UNCHANGED <<m_callback, left, result>>
          /\ m_mutex = Nobody
      BY <1>2 DEF ExecuteCallback
    <2>2. invocations[cb] = 0 /\ argument[cb] = "none"
      BY <1>1, <2>0 DEF CallbackState
    <2>3. TypeOK'
      BY <1>1, <2>0, <2>1 DEF TypeOK
    <2>4. Holder'
      BY <1>1, <2>1 DEF Holder, TypeOK
    <2>5. ValueState'
      BY <1>1, <2>1 DEF ValueState, TypeOK, Thread
    <2>6. CallbackState'
      <3> SUFFICES ASSUME NEW c \in Consumer
                   PROVE  CallbackState!(c)'
        BY DEF CallbackState
      <3>1. c \in Thread /\ pc'[c] = pc[c]
        BY <1>1, <2>1 DEF TypeOK
      <3>2. CASE c = cb
        BY <1>1, <2>0, <2>1, <2>2, <3>1, <3>2 DEF CallbackState, TypeOK
      <3>3. CASE c # cb
        BY <1>1, <2>0, <2>1, <3>1, <3>3 DEF CallbackState, TypeOK
      <3>4. QED
        BY <3>2, <3>3
    <2>7. GetState'
      BY <1>1, <2>1 DEF GetState, TypeOK
    <2>8. WaitState'
      BY <1>1, <2>1 DEF WaitState, ValueState, TypeOK
    <2>9. OneReceiver'
      BY <1>1, <2>0, <2>1, CallbackReceives
    <2>10. GetNeverMoved'
      BY <2>1 DEF GetNeverMoved
    <2>11. QED
      BY <2>3, <2>4, <2>5, <2>6, <2>7, <2>8, <2>9, <2>10
  <1>3. CASE m_callback = Nobody
    <2>1. /\ m_value' = "value" /\ m_valueSet' = TRUE
          /\ pc' = [pc EXCEPT ![Promiser] = "idle"] /\ pc[Promiser] = "task"
          /\ UNCHANGED <<m_mutex, m_valueConsumed, argument, invocations,
                         m_callback, left, result>>
      BY <1>3
    <2>2. TypeOK'
      BY <1>1, <2>1 DEF TypeOK
    <2>3. Holder'
      BY <1>1, <2>1 DEF Holder, TypeOK
    <2>4. ValueState'
      BY <1>1, <2>1 DEF ValueState, TypeOK, Thread
    <2>5. CallbackState'
      BY <1>1, <1>3, <2>1 DEF CallbackState, TypeOK
    <2>6. GetState'
      BY <1>1, <2>1 DEF GetState, TypeOK
    <2>7. WaitState'
      BY <1>1, <2>1 DEF WaitState, ValueState, TypeOK
    <2>8. OneReceiver' /\ GetNeverMoved'
      BY <2>1, ReceiversKept DEF GetNeverMoved
    <2>9. QED
      BY <2>2, <2>3, <2>4, <2>5, <2>6, <2>7, <2>8
  <1>4. QED
    BY <1>2, <1>3

LEMMA CallbackReturnIInv ==
    ASSUME IInv, NEW t \in Thread, CallbackReturn(t)
    PROVE  IInv'
  <1> USE ThreadAssumption DEF IInv
  <1>1. /\ pc[t] = "callback" /\ m_mutex' = Nobody /\ pc' = [pc EXCEPT ![t] = "idle"]
        /\ UNCHANGED <<m_valueSet, m_callback, m_valueConsumed, m_value, left,
                       result, argument, invocations>>
        /\ m_mutex = t /\ Nobody \notin Thread /\ Promiser \in Thread
        /\ Consumer \subseteq Thread
    BY DEF CallbackReturn, Goto, Holder, Thread
  <1>2. TypeOK'
    BY <1>1 DEF TypeOK
  <1>3. Holder'
    BY <1>1 DEF Holder, TypeOK
  <1>4. ValueState'
    BY <1>1 DEF ValueState, TypeOK
  <1>5. CallbackState'
    BY <1>1 DEF CallbackState, TypeOK
  <1>6. GetState'
    BY <1>1 DEF GetState, TypeOK
  <1>7. WaitState'
    BY <1>1 DEF WaitState, TypeOK
  <1>8. OneReceiver' /\ GetNeverMoved'
    BY <1>1, ReceiversKept DEF GetNeverMoved
  <1>9. QED
    BY <1>2, <1>3, <1>4, <1>5, <1>6, <1>7, <1>8

\* The calls that only move a consumer on: Then, Wait, Get and WaitReturn.
LEMMA MoveIInv ==
    ASSUME IInv, NEW c \in Consumer, Then(c) \/ Wait(c) \/ Get(c) \/ WaitReturn(c)
    PROVE  IInv'
  <1> USE ThreadAssumption, OpsAssumption DEF IInv
  <1>1. /\ UNCHANGED <<m_mutex, m_valueSet, m_callback, m_valueConsumed, m_value,
                       result, argument, invocations>>
        /\ \E label \in {"idle", "install", "wait", "getWait", "getValue"} :
              pc' = [pc EXCEPT ![c] = label]
        /\ pc[c] \in {"idle", "wait", "getWait"}
        /\ c \in Thread /\ c # Promiser
        /\ Nobody \notin Thread /\ Promiser \in Thread /\ Consumer \subseteq Thread
    BY DEF Then, Wait, Get, WaitReturn, Begin, Goto, Thread
  <1>2. \/ left' = left
        \/ \E op \in {"then", "wait", "get"} : left' = [left EXCEPT ![c] = @ \ {op}]
    BY DEF Then, Wait, Get, WaitReturn, Begin
  <1>3. TypeOK'
    BY <1>1, <1>2 DEF TypeOK
  <1>4. \A d \in Thread : d # c => pc'[d] = pc[d]
    BY <1>1 DEF TypeOK
  <1>5. \A d \in Consumer : d # c => left'[d] = left[d]
    BY <1>2 DEF TypeOK
  <1>6. pc'[c] \notin {"task", "callback"}
    BY <1>1 DEF TypeOK
  <1>7. Holder'
    BY <1>1, <1>4, <1>6 DEF Holder
  <1>8. ValueState'
    BY <1>1, <1>4, <1>6 DEF ValueState
  <1>9. left'[c] \subseteq left[c]
    BY <1>2 DEF TypeOK
  <1>10. CallbackState'
    <2>1. pc'[c] = "install" => "then" \in left[c] /\ "then" \notin left'[c]
      BY DEF Then, Wait, Get, WaitReturn, Begin, Goto, TypeOK, Thread
    <2>2. QED
      BY <1>1, <1>4, <1>5, <1>9, <2>1 DEF CallbackState
  <1>11. GetState'
    <2>1. pc'[c] \in {"getWait", "getValue"} =>
              /\ result[c] = "none" /\ "get" \notin left'[c]
              /\ pc'[c] = "getValue" => m_valueSet
      BY DEF Then, Wait, Get, WaitReturn, Begin, Goto, TypeOK, Thread, GetState
    <2>2. QED
      BY <1>1, <1>4, <1>5, <1>9, <2>1 DEF GetState
  <1>12. WaitState'
    <2>1. "wait" \in Ops[c] \ left'[c] /\ pc'[c] # "wait" =>
              \/ "wait" \in Ops[c] \ left[c] /\ pc[c] # "wait"
              \/ m_mutex = Nobody /\ m_valueSet
      BY DEF Then, Wait, Get, WaitReturn, Begin, Goto, TypeOK, Thread, Free
    <2>2. m_mutex = Nobody /\ m_valueSet => pc[Promiser] = "idle"
      BY <1>1 DEF Holder, ValueState
    <2>3. QED
      BY <1>1, <1>4, <1>5, <2>1, <2>2 DEF WaitState
  <1>13. OneReceiver' /\ GetNeverMoved'
    BY <1>1, ReceiversKept DEF GetNeverMoved
  <1>14. QED
    BY <1>3, <1>7, <1>8, <1>10, <1>11, <1>12, <1>13

LEMMA SetCallbackIInv ==
    ASSUME IInv, NEW c \in Consumer, SetCallback(c)
    PROVE  IInv'
  <1> USE ThreadAssumption DEF IInv
  <1>1. /\ pc[c] = "install" /\ m_mutex = Nobody /\ m_callback' = c
        /\ UNCHANGED <<m_valueSet, left, result>>
        /\ c \in Thread /\ c # Promiser /\ Nobody \notin Thread
        /\ Promiser \in Thread /\ Consumer \subseteq Thread
        /\ "then" \notin left[c] /\ invocations[c] = 0 /\ argument[c] = "none"
    BY DEF SetCallback, Free, Thread, CallbackState
  <1>2. CASE m_valueSet
    <2>1. /\ m_mutex' = c /\ m_valueConsumed' = TRUE /\ m_value' = "moved"
          /\ argument' = [argument EXCEPT ![c] = m_value]
          /\ invocations' = [invocations EXCEPT ![c] = @ + 1]
          /\ pc' = [pc EXCEPT ![c] = "callback"]
      BY <1>2 DEF SetCallback, ExecuteCallback, Goto
    <2>2. m_value = IF m_valueConsumed THEN "moved" ELSE "value"
      BY <1>2 DEF ValueState
    <2>3. TypeOK'
      BY <1>1, <2>1, <2>2 DEF TypeOK
    <2>4. Holder'
      BY <1>1, <2>1 DEF Holder, TypeOK
    <2>5. ValueState'
      BY <1>1, <1>2, <2>1 DEF ValueState, TypeOK
    <2>6. CallbackState'
      <3> SUFFICES ASSUME NEW d \in Consumer
                   PROVE  CallbackState!(d)'
        BY DEF CallbackState
      <3>1. CASE d = c
        BY <1>1, <1>2, <2>1, <2>2, <3>1 DEF CallbackState, TypeOK
      <3>2. CASE d # c
        BY <1>1, <1>2, <2>1, <3>2 DEF CallbackState, TypeOK
      <3>3. QED
        BY <3>1, <3>2
    <2>7. GetState'
      BY <1>1, <2>1 DEF GetState, TypeOK
    <2>8. WaitState'
      BY <1>1, <2>1 DEF WaitState, TypeOK
    <2>9. OneReceiver'
      <3>1. CASE m_valueConsumed
        BY <1>1, <2>1, <2>2, <3>1, LateCallback
      <3>2. CASE ~ m_valueConsumed
        BY <1>1, <2>1, <2>2, <3>2, CallbackReceives
      <3>3. QED
        BY <3>1, <3>2
    <2>10. GetNeverMoved'
      BY <1>1 DEF GetNeverMoved
    <2>11. QED
      BY <2>3, <2>4, <2>5, <2>6, <2>7, <2>8, <2>9, <2>10
  <1>3. CASE ~ m_valueSet
    <2>1. /\ pc' = [pc EXCEPT ![c] = "idle"]
          /\ UNCHANGED <<m_mutex, m_valueConsumed, m_value, argument, invocations>>
      BY <1>3 DEF SetCallback, Goto
    <2>2. TypeOK'
      BY <1>1, <2>1 DEF TypeOK
    <2>3. Holder'
      BY <1>1, <2>1 DEF Holder, TypeOK
    <2>4. ValueState'
      BY <1>1, <2>1 DEF ValueState, TypeOK
    <2>5. CallbackState'
      BY <1>1, <1>3, <2>1 DEF CallbackState, TypeOK
    <2>6. GetState'
      BY <1>1, <2>1 DEF GetState, TypeOK
    <2>7. WaitState'
      BY <1>1, <2>1 DEF WaitState, TypeOK
    <2>8. OneReceiver' /\ GetNeverMoved'
      BY <1>1, <2>1, ReceiversKept DEF GetNeverMoved
    <2>9. QED
      BY <2>2, <2>3, <2>4, <2>5, <2>6, <2>7, <2>8
  <1>4. QED
    BY <1>2, <1>3

LEMMA GetValueIInv ==
    ASSUME IInv, NEW c \in Consumer, GetValue(c)
    PROVE  IInv'
  <1> USE ThreadAssumption DEF IInv
  <1>1. /\ pc[c] = "getValue" /\ m_mutex = Nobody /\ pc' = [pc EXCEPT ![c] = "idle"]
        /\ UNCHANGED <<m_mutex, m_valueSet, m_callback, left, argument, invocations>>
        /\ c \in Thread /\ c # Promiser /\ Nobody \notin Thread
        /\ Promiser \in Thread /\ Consumer \subseteq Thread
        /\ m_valueSet /\ result[c] = "none" /\ "get" \notin left[c]
        /\ m_valueConsumed \in BOOLEAN
    BY DEF GetValue, Free, Goto, Thread, GetState, TypeOK
  <1>2. m_value = IF m_valueConsumed THEN "moved" ELSE "value"
    BY <1>1 DEF ValueState
  <1>3. /\ m_valueConsumed' = TRUE /\ m_value' = "moved"
        /\ m_valueConsumed => result' = [result EXCEPT ![c] = "thrown"]
        /\ ~ m_valueConsumed => result' = [result EXCEPT ![c] = "value"]
    BY <1>1, <1>2 DEF GetValue
  <1>4. TypeOK'
    BY <1>1, <1>3 DEF TypeOK
  <1>5. Holder'
    BY <1>1 DEF Holder, TypeOK
  <1>6. ValueState'
    BY <1>1, <1>3 DEF ValueState, TypeOK
  <1>7. CallbackState'
    BY <1>1 DEF CallbackState, TypeOK
  <1>8. \A d \in Consumer : d # c => result'[d] = result[d] /\ pc'[d] = pc[d]
    BY <1>1, <1>3 DEF TypeOK
  <1>9. GetState'
    BY <1>1, <1>8 DEF GetState, TypeOK
  <1>10. WaitState'
    BY <1>1 DEF WaitState, TypeOK
  <1>11. OneReceiver'
    <2>1. CASE m_valueConsumed
      BY <1>1, <1>3, <2>1, LateGet
    <2>2. CASE ~ m_valueConsumed
      BY <1>1, <1>3, <2>2, GetReceives
    <2>3. QED
      BY <2>1, <2>2
  <1>12. GetNeverMoved'
    BY <1>1, <1>3, <1>8 DEF GetNeverMoved, TypeOK
  <1>13. QED
    BY <1>4, <1>5, <1>6, <1>7, <1>9, <1>10, <1>11, <1>12

LEMMA NextIInv ==
    ASSUME IInv, [Next]_vars
    PROVE  IInv'
  <1>1. CASE UNCHANGED vars
    BY <1>1 DEF vars, IInv, TypeOK, Holder, ValueState, CallbackState, GetState,
       WaitState, OneReceiver, Receivers, GetNeverMoved
  <1>2. CASE Next
    BY <1>2, SetValueIInv, CallbackReturnIInv, MoveIInv, SetCallbackIInv, GetValueIInv
    DEF Next, ConsumerStep, Thread
  <1>3. QED
    BY <1>1, <1>2

LEMMA Invariant == Spec => []IInv
  BY InitIInv, NextIInv, PTL DEF Spec

----------------------------------------------------------------------------
\* The context is well typed.
THEOREM TypeCorrect == Spec => []TypeOK
  BY Invariant, PTL DEF IInv

\* However many threads get() the value or install callbacks, and whenever
\* the promise is fulfilled, the value is received once.
THEOREM ReceivedOnceCorrect == Spec => []ReceivedOnce
  <1>1. IInv => ReceivedOnce
    <2>1. ASSUME IInv
          PROVE  ReceivedOnce
      <3>1. CASE m_valueConsumed
        <4>1. PICK r \in Receivers : Receivers = {r}
          BY <2>1, <3>1 DEF IInv, OneReceiver
        <4>2. Cardinality({r}) = 1
          BY FS_Singleton
        <4>3. QED
          BY <3>1, <4>1, <4>2 DEF ReceivedOnce
      <3>2. CASE ~ m_valueConsumed
        BY <2>1, <3>2, FS_EmptySet DEF IInv, OneReceiver, ReceivedOnce
      <3>3. QED
        BY <3>1, <3>2
    <2>2. QED
      BY <2>1
  <1>2. QED
    BY <1>1, Invariant, PTL

\* get() returns the value or throws.
THEOREM GetNeverMovedCorrect == Spec => []GetNeverMoved
  BY Invariant, PTL DEF IInv

\* No interleaving of setValue() and setCallback() loses a callback or runs
\* one twice.
THEOREM CallbackNotLostCorrect == Spec => []CallbackNotLost
  <1>1. IInv => CallbackNotLost
    BY DEF IInv, TypeOK, CallbackState, CallbackNotLost
  <1>2. QED
    BY <1>1, Invariant, PTL

\* wait() after then() returns after the callback did.
THEOREM WaitIncludesCallbackCorrect == Spec => []WaitIncludesCallback
  <1>1. ASSUME IInv, NEW c \in Consumer, m_callback = c,
               "wait" \in Ops[c], {"then", "wait"} \cap left[c] = {}, pc[c] = "idle"
        PROVE  invocations[c] = 1 /\ pc[Promiser] # "callback"
    <2>1. pc[Promiser] = "idle"
      BY <1>1 DEF IInv, WaitState
    <2>2. m_valueSet
      BY <1>1, <2>1 DEF IInv, ValueState
    <2>3. QED
      BY <1>1, <2>1, <2>2 DEF IInv, CallbackState
  <1>2. IInv => WaitIncludesCallback
    BY <1>1 DEF WaitIncludesCallback
  <1>3. QED
    BY <1>2, Invariant, PTL
=============================================================================
