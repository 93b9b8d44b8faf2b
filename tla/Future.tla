------------------------------- MODULE Future -------------------------------
(***************************************************************************)
(* kc::async::Future<T>, Promise<T> and the Context<T> they share, for one *)
(* context.  The promise's thread sets the value once; every consumer      *)
(* thread has a copy of the future and calls then(), wait() and get(), at  *)
(* most once each and in any order Ops allows.                             *)
(*                                                                         *)
(* Every access to the context happens under its mutex, so one action is   *)
(* one critical section, except that a callback is executed while the      *)
(* mutex is held: its invocation and its return are separate actions.      *)
(* A callback is named by the consumer that installed it.  It does not use *)
(* the future it belongs to (that would lock the mutex twice).             *)
(***************************************************************************)
EXTENDS Naturals, FiniteSets

CONSTANTS
    Consumer,   \* the threads that hold a copy of the future
    Ops,        \* Ops[c]: which of "then", "wait", "get" consumer c calls
    Promiser,   \* the thread that fulfils the promise
    Nobody      \* "no thread", "no callback"

Thread == Consumer \cup {Promiser}

ASSUME OpsAssumption == Ops \in [Consumer -> SUBSET {"then", "wait", "get"}]
ASSUME ThreadAssumption == Promiser \notin Consumer /\ Nobody \notin Thread

VARIABLES
    m_mutex,            \* the thread executing a callback under the mutex
    m_valueSet,
    m_callback,         \* the callback installed last, or Nobody
    m_valueConsumed,
    m_value,            \* std::optional<T>: "null", "value", or "moved" from
    pc,                 \* pc[t]: where thread t is
    left,               \* left[c]: the operations c has still to call
    result,             \* result[c]: what c's get() returned, "none" before
    argument,           \* argument[c]: the argument of c's callback
    invocations         \* invocations[c]: how often c's callback was invoked

vars == <<m_mutex, m_valueSet, m_callback, m_valueConsumed, m_value, pc, left,
          result, argument, invocations>>

TypeOK ==
    /\ m_mutex \in Thread \cup {Nobody}
    /\ m_valueSet \in BOOLEAN
    /\ m_callback \in Consumer \cup {Nobody}
    /\ m_valueConsumed \in BOOLEAN
    /\ m_value \in {"null", "value", "moved"}
    /\ pc \in [Thread -> {"task", "idle", "callback", "install", "wait",
                          "getWait", "getValue"}]
    /\ left \in [Consumer -> SUBSET {"then", "wait", "get"}]
    /\ result \in [Consumer -> {"none", "value", "moved", "thrown"}]
    /\ argument \in [Consumer -> {"none", "value", "moved"}]
    /\ invocations \in [Consumer -> Nat]

Init ==
    /\ m_mutex = Nobody
    /\ m_valueSet = FALSE
    /\ m_callback = Nobody
    /\ m_valueConsumed = FALSE
    /\ m_value = "null"
    /\ pc = [t \in Thread |-> IF t = Promiser THEN "task" ELSE "idle"]
    /\ left = Ops
    /\ result = [c \in Consumer |-> "none"]
    /\ argument = [c \in Consumer |-> "none"]
    /\ invocations = [c \in Consumer |-> 0]

Free == m_mutex = Nobody
Goto(t, label) == pc' = [pc EXCEPT ![t] = label]

\* Mutant: the lock is released before the callback is invoked.
ExecuteCallbackUnlocked(t, cb, v) ==
    /\ m_valueConsumed' = TRUE
    /\ m_value' = "moved"
    /\ argument' = [argument EXCEPT ![cb] = v]
    /\ invocations' = [invocations EXCEPT ![cb] = @ + 1]
    /\ Goto(t, "callback")
    /\ UNCHANGED m_mutex

(***************************************************************************)
(* executeCallback() in thread t, for the callback cb and the value v: the *)
(* value counts as consumed and is moved into the argument.  It does not   *)
(* look whether it was consumed before.                                    *)
(***************************************************************************)
ExecuteCallback(t, cb, v) ==
    /\ m_mutex' = t
    /\ m_valueConsumed' = TRUE
    /\ m_value' = "moved"
    /\ argument' = [argument EXCEPT ![cb] = v]
    /\ invocations' = [invocations EXCEPT ![cb] = @ + 1]
    /\ Goto(t, "callback")

\* Mutant: the lock outlives the callback.
CallbackReturnLocked(t) ==
    /\ pc[t] = "callback"
    /\ Goto(t, "idle")
    /\ UNCHANGED <<m_mutex, m_valueSet, m_callback, m_valueConsumed, m_value,
                   left, result, argument, invocations>>

\* The callback returns and the lock goes out of scope.
CallbackReturn(t) ==
    /\ pc[t] = "callback"
    /\ m_mutex' = Nobody
    /\ Goto(t, "idle")
    /\ UNCHANGED <<m_valueSet, m_callback, m_valueConsumed, m_value, left,
                   result, argument, invocations>>

----------------------------------------------------------------------------
\* Promise::setValue, when the task has returned its value.
SetValue ==
    /\ pc[Promiser] = "task" /\ Free
    /\ m_valueSet' = TRUE
    /\ IF m_callback # Nobody
         THEN ExecuteCallback(Promiser, m_callback, "value")
         ELSE /\ m_value' = "value"
              /\ Goto(Promiser, "idle")
              /\ UNCHANGED <<m_mutex, m_valueConsumed, argument, invocations>>
    /\ UNCHANGED <<m_callback, left, result>>

----------------------------------------------------------------------------
Begin(c, op, label) ==
    /\ pc[c] = "idle" /\ op \in left[c]
    /\ left' = [left EXCEPT ![c] = @ \ {op}]
    /\ Goto(c, label)

\* then(), first critical section: hasCallback().  The assertion throws if
\* there is one.
Then(c) ==
    /\ Free
    /\ Begin(c, "then", IF m_callback = Nobody THEN "install" ELSE "idle")
    /\ UNCHANGED <<m_mutex, m_valueSet, m_callback, m_valueConsumed, m_value,
                   result, argument, invocations>>

\* Mutant: a callback that comes after the value is only stored.
SetCallbackOnly(c) ==
    /\ pc[c] = "install" /\ Free
    /\ m_callback' = c
    /\ Goto(c, "idle")
    /\ UNCHANGED <<m_mutex, m_valueSet, m_valueConsumed, m_value, left, result,
                   argument, invocations>>

\* then(), second critical section: setCallback().
SetCallback(c) ==
    /\ pc[c] = "install" /\ Free
    /\ m_callback' = c
    /\ IF m_valueSet
         THEN ExecuteCallback(c, c, m_value)
         ELSE /\ Goto(c, "idle")
              /\ UNCHANGED <<m_mutex, m_valueConsumed, m_value, argument,
                             invocations>>
    /\ UNCHANGED <<m_valueSet, left, result>>

Wait(c) ==
    /\ Begin(c, "wait", "wait")
    /\ UNCHANGED <<m_mutex, m_valueSet, m_callback, m_valueConsumed, m_value,
                   result, argument, invocations>>

Get(c) ==
    /\ Begin(c, "get", "getWait")
    /\ UNCHANGED <<m_mutex, m_valueSet, m_callback, m_valueConsumed, m_value,
                   result, argument, invocations>>

\* The poll of wait() that finds the value set; one that does not changes
\* nothing and sleeps 10 ms.
WaitReturn(c) ==
    /\ pc[c] \in {"wait", "getWait"} /\ Free /\ m_valueSet
    /\ Goto(c, IF pc[c] = "wait" THEN "idle" ELSE "getValue")
    /\ UNCHANGED <<m_mutex, m_valueSet, m_callback, m_valueConsumed, m_value,
                   left, result, argument, invocations>>

\* Mutants: the assertion is dropped; the consumption is not recorded.
GetValueUnchecked(c) ==
    /\ pc[c] = "getValue" /\ Free
    /\ result' = [result EXCEPT ![c] = m_value]
    /\ m_valueConsumed' = TRUE
    /\ m_value' = "moved"
    /\ Goto(c, "idle")
    /\ UNCHANGED <<m_mutex, m_valueSet, m_callback, left, argument,
                   invocations>>

GetValueUnrecorded(c) ==
    /\ pc[c] = "getValue" /\ Free
    /\ result' = [result EXCEPT ![c] = IF m_valueConsumed THEN "thrown" ELSE "value"]
    /\ Goto(c, "idle")
    /\ UNCHANGED <<m_mutex, m_valueSet, m_callback, m_valueConsumed, m_value,
                   left, argument, invocations>>

GetValue(c) ==
    /\ pc[c] = "getValue" /\ Free
    /\ IF m_valueConsumed
         THEN /\ result' = [result EXCEPT ![c] = "thrown"]
              /\ UNCHANGED <<m_valueConsumed, m_value>>
         ELSE /\ result' = [result EXCEPT ![c] = m_value]
              /\ m_valueConsumed' = TRUE
              /\ m_value' = "moved"
    /\ Goto(c, "idle")
    /\ UNCHANGED <<m_mutex, m_valueSet, m_callback, left, argument,
                   invocations>>

ConsumerStep(c) ==
    \/ SetCallback(c) \/ CallbackReturn(c) \/ WaitReturn(c) \/ GetValue(c)

Next ==
    \/ SetValue \/ CallbackReturn(Promiser)
    \/ \E c \in Consumer : Then(c) \/ Wait(c) \/ Get(c) \/ ConsumerStep(c)

Spec == Init /\ [][Next]_vars

(***************************************************************************)
(* The task returns, callbacks return, and a thread inside a call is not   *)
(* suspended for ever; nobody has to call an operation.                    *)
(***************************************************************************)
FairSpec ==
    /\ Spec
    /\ WF_vars(SetValue \/ CallbackReturn(Promiser))
    /\ \A c \in Consumer : WF_vars(ConsumerStep(c))

----------------------------------------------------------------------------
\* Who received the value as the task returned it.
Receivers ==
    {<<c, "get">> : c \in {d \in Consumer : result[d] = "value"}}
      \cup {<<c, "then">> : c \in {d \in Consumer : argument[d] = "value"}}

\* However get() and then() race, with each other and with the promise, the
\* value reaches exactly one of them once it is marked as consumed, nobody
\* before.  (Others may see an exception, or a moved-from argument.)
ReceivedOnce ==
    Cardinality(Receivers) = IF m_valueConsumed THEN 1 ELSE 0

\* get() returns the value or throws; it never returns a moved-from or an
\* absent one.
GetNeverMoved == \A c \in Consumer : result[c] \in {"none", "value", "thrown"}

\* The race of setCallback() with setValue() loses no callback and executes
\* none twice: whenever the mutex is free and the value is set, the installed
\* callback has been invoked, once.
CallbackNotLost ==
    /\ m_valueSet /\ m_callback # Nobody /\ Free
         => invocations[m_callback] = 1
    /\ \A c \in Consumer : invocations[c] <= 1

\* .then(f).wait() returns after f did, as the tests rely on: hasValue() needs
\* the mutex that is held around the callback.
WaitIncludesCallback ==
    \A c \in Consumer :
        (/\ m_callback = c
         /\ "wait" \in Ops[c] /\ {"then", "wait"} \cap left[c] = {}
         /\ pc[c] = "idle")
        => invocations[c] = 1 /\ pc[Promiser] # "callback"

\* Every get() and wait() ends, and an installed callback is executed.
CallsReturn ==
    \A c \in Consumer :
        /\ pc[c] # "idle" ~> pc[c] = "idle"
        /\ m_callback = c ~> (invocations[c] = 1 \/ m_callback # c)

\* "Value has been already consumed": the assertion of getValue() is meant
\* to keep every consumer from a value that was moved away.
ValueNotConsumedTwice == \A c \in Consumer : argument[c] # "moved"

\* "Callback already set, cannot set it twice": no callback takes the place
\* of another.
CallbackSetOnce ==
    [][m_callback # Nobody => m_callback' = m_callback]_vars

============================================================================
