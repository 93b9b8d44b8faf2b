------------------------ MODULE TaskSchedulerProofs ------------------------
(***************************************************************************)
(* Theorems about TaskScheduler, for any number of workers, any clients    *)
(* and any tasks.  What holds of the queues, whoever uses them, comes from *)
(* ThreadSafeQueueProofs.                                                  *)
(*                                                                         *)
(* First part: types, mutexes and notifications.  Second part: every task  *)
(* passed to call() is executed once.  Third part: no deque is left behind *)
(* with a task in it.  Fourth part: the scheduler implements TaskPool.     *)
(* Fifth part: no deadlock.                                                *)
(***************************************************************************)
EXTENDS TaskScheduler, FiniteSetTheorems, SequenceTheorems, TLAPS

QP == INSTANCE ThreadSafeQueueProofs
        WITH Queue <- Worker, Element <- Task, NoElement <- NoTask

LEMMA WorkerFacts ==
    /\ Worker \subseteq Nat
    /\ \A n \in Nat : n % WorkerCount \in Worker
    /\ \A w \in Worker : w # Owner /\ w \notin Client
BY WorkerCountAssumption, ThreadAssumption DEF Worker

LEMMA ThreadsFinite == IsFiniteSet(Thread) /\ QP!IsFiniteSet(Thread)
<1>1. IsFiniteSet(Worker)
      BY WorkerCountAssumption, FS_Interval DEF Worker
<1>2. IsFiniteSet(Worker \cup Client)
      BY <1>1, ThreadAssumption, FS_Union
<1>3. IsFiniteSet(Thread)
      BY <1>2, FS_AddElement DEF Thread
<1>. QED BY <1>3 DEF IsFiniteSet, QP!IsFiniteSet

----------------------------------------------------------------------------
(***************************************************************************)
(* The queue steps of the scheduler are those of ThreadSafeQueueProofs.    *)
(***************************************************************************)
LEMMA SameStep ==
    ASSUME NEW t \in Thread,
           \/ \E q \in Worker : Q!CallStep(t, q)
           \/ Q!Continue(t) \/ Q!SpuriousWakeup(t)
    PROVE  QP!QueueStep
<1>1. ASSUME NEW q \in Worker
      PROVE  Q!CallStep(t, q) <=> QP!CallStep(t, q)
      BY DEF Q!CallStep, QP!CallStep, Q!TryPush, QP!TryPush, Q!Push, QP!Push,
             Q!TryPop, QP!TryPop, Q!Pop, QP!Pop, Q!Done, QP!Done, Q!GetSize,
             QP!GetSize, Q!TryLock, QP!TryLock, Q!Lock, QP!Lock, Q!Enter,
             QP!Enter
<1>2. Q!Continue(t) <=> QP!Continue(t)
      BY DEF Q!Continue, QP!Continue, Q!PushBack, QP!PushBack, Q!NotifyOne,
             QP!NotifyOne, Q!Take, QP!Take, Q!CheckLeave, QP!CheckLeave,
             Q!CheckStay, QP!CheckStay, Q!Wait, QP!Wait, Q!Reacquire,
             QP!Reacquire, Q!NotifyAll, QP!NotifyAll, Q!ReturnSize,
             QP!ReturnSize, Q!Unlock, QP!Unlock, Q!Return, QP!Return,
             Q!GetFrontElement, QP!GetFrontElement, Q!Lock, QP!Lock,
             Q!m_ready, QP!m_ready
<1>3. Q!SpuriousWakeup(t) <=> QP!SpuriousWakeup(t)
      BY DEF Q!SpuriousWakeup, QP!SpuriousWakeup
<1>. QED BY <1>1, <1>2, <1>3 DEF QP!QueueStep

LEMMA SameType == Q!TypeOK <=> QP!TypeOK
BY DEF Q!TypeOK, QP!TypeOK, Q!Label, QP!Label, Q!Critical, QP!Critical

LEMMA SameMutex == MutexDiscipline <=> QP!MutexDiscipline
BY DEF MutexDiscipline, Q!MutexDiscipline, QP!MutexDiscipline, Q!Critical,
       QP!Critical

LEMMA QueueAssumptions ==
    /\ QP!IsFiniteSet(Thread) /\ NoThread \notin Thread
    /\ NoQueue \notin Worker /\ NoTask \notin Task
BY ThreadsFinite, ThreadAssumption, NoQueueAssumption, NoTaskAssumption

\* What the queues guarantee after every step of theirs.
QueueInv ==
    /\ QP!TypeOK /\ QP!InCall /\ QP!MutexDiscipline /\ QP!SleepEmpty
    /\ QP!NoStrandedElement

LEMMA QueueInvStep == QueueInv /\ QP!QueueStep => QueueInv'
<1> SUFFICES ASSUME QueueInv, QP!QueueStep PROVE QueueInv' OBVIOUS
<1>1. QP!TypeOK' /\ QP!InCall'
      BY QP!TypeStep, QueueAssumptions DEF QueueInv
<1>2. QP!MutexDiscipline'
      BY QP!MutexStep, QueueAssumptions DEF QueueInv
<1>3. QP!SleepEmpty'
      BY QP!SleepEmptyStep, QueueAssumptions DEF QueueInv
<1>4. QP!NoStrandedElement'
      BY QP!NotStrandedStep, QueueAssumptions
         DEF QueueInv, QP!NoStrandedElement, QP!NotStranded
<1>. QED BY <1>1, <1>2, <1>3, <1>4 DEF QueueInv

LEMMA QueueInvStutter == QueueInv /\ UNCHANGED queueVars => QueueInv'
<1> SUFFICES ASSUME QueueInv, UNCHANGED queueVars PROVE QueueInv' OBVIOUS
<1>1. QP!TypeOK' /\ QP!InCall'
      BY DEF queueVars, QueueInv, QP!TypeOK, QP!InCall
<1>2. QP!MutexDiscipline' /\ QP!SleepEmpty'
      BY DEF queueVars, QueueInv, QP!MutexDiscipline, QP!SleepEmpty
<1>3. QP!NoStrandedElement'
      BY DEF queueVars, QueueInv, QP!NoStrandedElement, QP!m_ready, QP!Attending
<1>. QED BY <1>1, <1>2, <1>3 DEF QueueInv

----------------------------------------------------------------------------
(***************************************************************************)
(* The invariant.  Roles: which functions of the scheduler a thread is     *)
(* ever in.  Outside: a thread that is in none of them that uses a queue   *)
(* is in no queue operation and holds no task.  PopOwn: nobody but worker  *)
(* w sleeps on queue w.  OwnerOnlyNotifies: the destructor never takes a   *)
(* mutex.  Bounds: how far the loops count.                                *)
(***************************************************************************)
SchedulerType ==
    /\ m_currentWorkerId \in Nat
    /\ stage \in [Thread -> Stage]
    /\ start \in [Thread -> Nat]
    /\ index \in [Thread -> 0 .. 2 * WorkerCount + 1]
    /\ running \in [Worker -> Task \cup {NoTask}]
    /\ called \subseteq Task
    /\ completed \subseteq Task

Roles ==
    /\ \A c \in Client : stage[c] \in {"client", "call"}
    /\ \A w \in Worker : stage[w] \in {"find", "run", "call", "exited"}
    /\ stage[Owner] \in {"alive", "destroying", "joining", "destroyed"}

Outside ==
    \A t \in Thread :
        stage[t] \in {"client", "run", "exited", "alive", "joining", "destroyed"}
            => pc[t] = "idle" /\ element[t] = NoTask

PopState == {"check", "sleep", "waiting", "woken"}
PopOwn == \A t \in Thread : pc[t] \in PopState => t \in Worker /\ at[t] = t

OwnerOnlyNotifies == pc[Owner] \in {"idle", "notifyAll"} /\ element[Owner] = NoTask

Executing == \A w \in Worker : stage[w] \in {"run", "call"} => running[w] \in Task

Bounds ==
    /\ \A t \in Thread : stage[t] \in {"run", "client"} => index[t] = 0
    /\ \A w \in Worker : stage[w] = "find" => index[w] <= WorkerCount + 1
    /\ index[Owner] <= WorkerCount

IInv ==
    /\ QueueInv /\ SchedulerType /\ Roles /\ Outside /\ PopOwn
    /\ OwnerOnlyNotifies /\ Executing /\ Bounds

\* What a step inside a queue operation of thread t does to the threads.
LEMMA ContinueEffect ==
    ASSUME QueueInv, NEW t \in Thread, Q!Continue(t) \/ Q!SpuriousWakeup(t)
    PROVE  /\ pc[t] # "idle"
           /\ \A u \in Thread \ {t} :
                 /\ at'[u] = at[u] /\ element'[u] = element[u]
                 /\ pc'[u] = pc[u] \/ (pc[u] = "waiting" /\ pc'[u] = "woken")
           /\ pc'[t] \in PopState => pc[t] \in PopState /\ at'[t] = at[t]
           /\ pc[t] = "notifyAll" => pc'[t] = "idle" /\ element'[t] = element[t]
<1> USE QueueAssumptions DEF QueueInv, QP!TypeOK, QP!Label, QP!Critical, PopState
<1>1. CASE Q!PushBack(t)
      BY <1>1 DEF Q!PushBack
<1>2. CASE Q!NotifyOne(t)
      BY <1>2 DEF Q!NotifyOne, Q!m_ready
<1>3. CASE Q!Take(t)
      BY <1>3 DEF Q!Take, Q!Return, Q!GetFrontElement
<1>4. CASE Q!CheckLeave(t)
      BY <1>4 DEF Q!CheckLeave, Q!Return, Q!GetFrontElement
<1>5. CASE Q!CheckStay(t) \/ Q!Wait(t) \/ Q!Reacquire(t) \/ Q!SpuriousWakeup(t)
      BY <1>5 DEF Q!CheckStay, Q!Wait, Q!Reacquire, Q!SpuriousWakeup
<1>6. CASE Q!NotifyAll(t)
      BY <1>6 DEF Q!NotifyAll, Q!m_ready
<1>7. CASE Q!ReturnSize(t)
      BY <1>7 DEF Q!ReturnSize, Q!Return
<1>. QED BY <1>1, <1>2, <1>3, <1>4, <1>5, <1>6, <1>7 DEF Q!Continue

LEMMA InitIInv == Init => IInv
<1> SUFFICES ASSUME Init PROVE IInv OBVIOUS
<1>1. QueueInv
  <2>1. QP!Init
        BY DEF Init, Q!Init, QP!Init
  <2>2. QP!IInv
        BY <2>1, QP!InitIInv, QueueAssumptions
  <2>. QED BY <2>2 DEF QP!IInv, QueueInv
<1>2. SchedulerType
      BY WorkerCountAssumption DEF Init, SchedulerType, Stage
<1>4. Roles /\ Executing
      BY WorkerFacts, ThreadAssumption DEF Init, Roles, Executing, Thread
<1>3. Outside /\ PopOwn /\ OwnerOnlyNotifies /\ Bounds
      BY WorkerCountAssumption DEF Init, Q!Init, Outside, PopOwn, PopState, OwnerOnlyNotifies, Bounds, Thread
<1>. QED BY <1>1, <1>2, <1>3, <1>4 DEF IInv

\* A step inside a queue operation.
LEMMA QueueStepIInv ==
    ASSUME IInv, NEW t \in Thread, Q!Continue(t) \/ Q!SpuriousWakeup(t),
           UNCHANGED <<callVars, stage, index, running, completed>>
    PROVE  IInv'
<1>1. QueueInv'
      BY SameStep, QueueInvStep DEF IInv
<1>2. SchedulerType' /\ Roles' /\ Executing' /\ Bounds'
      BY DEF IInv, SchedulerType, Roles, Executing, Bounds, callVars
<1>3. Outside'
      BY ContinueEffect DEF IInv, Outside
<1>4. PopOwn'
      BY ContinueEffect DEF IInv, PopOwn, PopState
<1>5. OwnerOnlyNotifies'
      BY ContinueEffect DEF IInv, OwnerOnlyNotifies, Thread
<1>. QED BY <1>1, <1>2, <1>3, <1>4, <1>5 DEF IInv

----------------------------------------------------------------------------
\* A step that begins a queue operation.
LEMMA CallQueueInv ==
    ASSUME QueueInv, NEW t \in Thread, NEW q \in Worker, Q!CallStep(t, q)
    PROVE  QueueInv'
BY SameStep, QueueInvStep

LEMMA CallStepEffect ==
    ASSUME QueueInv, NEW t \in Thread, NEW q \in Worker, Q!CallStep(t, q)
    PROVE  /\ pc[t] = "idle"
           /\ UNCHANGED element
           /\ \A u \in Thread \ {t} : pc'[u] = pc[u] /\ at'[u] = at[u]
<1> USE DEF QueueInv, QP!TypeOK
<1>1. CASE Q!TryPush(t, q) \/ Q!TryPop(t, q)
      BY <1>1 DEF Q!TryPush, Q!TryPop, Q!TryLock, Q!Enter
<1>2. CASE Q!Push(t, q) \/ Q!Pop(t, q) \/ Q!GetSize(t, q) \/ Q!Done(t, q)
      BY <1>2 DEF Q!Push, Q!Pop, Q!GetSize, Q!Done, Q!Enter
<1>. QED BY <1>1, <1>2 DEF Q!CallStep

LEMMA CallIInv ==
    ASSUME IInv, NEW t \in Client \cup Worker, NEW k \in Task, Call(t, k)
    PROVE  IInv'
<1> USE WorkerFacts, ThreadAssumption DEF IInv, Thread
<1>1. t \in Thread /\ t # Owner OBVIOUS
<1>2. pc[t] = "idle" /\ element[t] = NoTask
      BY <1>1 DEF Call, MayCall, Outside
<1>3. QueueInv'
  <2>1. /\ UNCHANGED <<m_buffer, m_mutex, m_done, pc, at>>
        /\ element' = [element EXCEPT ![t] = k]
        BY DEF Call
  <2>2. QP!TypeOK' /\ QP!InCall'
        BY <1>1, <1>2, <2>1 DEF QueueInv, QP!TypeOK, QP!InCall, QP!Label, QP!Critical
  <2>3. QP!MutexDiscipline' /\ QP!SleepEmpty'
        BY <2>1 DEF QueueInv, QP!MutexDiscipline, QP!SleepEmpty
  <2>4. QP!NoStrandedElement'
        BY <2>1 DEF QueueInv, QP!NoStrandedElement, QP!m_ready, QP!Attending
  <2>. QED BY <2>2, <2>3, <2>4 DEF QueueInv
<1>4. SchedulerType'
      BY <1>1, WorkerCountAssumption DEF Call, SchedulerType, Stage, Move, SetIndex
<1>5. Roles'
      BY <1>1 DEF Call, MayCall, Roles, SchedulerType, Move
<1>6. Outside' /\ PopOwn'
      BY <1>1, <1>2 DEF Call, Outside, PopOwn, PopState, SchedulerType, QueueInv,
         QP!TypeOK, Move
<1>7. OwnerOnlyNotifies'
      BY <1>1 DEF Call, OwnerOnlyNotifies, QueueInv, QP!TypeOK
<1>8. Executing'
  <2>1. t \in Worker => running[t] \in Task
        BY <1>1 DEF Call, MayCall, Executing
  <2>. QED BY <1>1, <2>1 DEF Call, Executing, SchedulerType, Move
<1>9. Bounds'
      BY <1>1 DEF Call, Bounds, SchedulerType, Move, SetIndex, Roles
<1>. QED BY <1>3, <1>4, <1>5, <1>6, <1>7, <1>8, <1>9 DEF IInv

LEMMA CallStepIInv ==
    ASSUME IInv, NEW t \in Client \cup Worker, CallStep(t)
    PROVE  IInv'
<1> USE WorkerFacts, ThreadAssumption, WorkerCountAssumption DEF Thread
<1>1. t \in Thread /\ t # Owner OBVIOUS
<1>2. ASSUME CallTryPush(t) \/ CallPush(t) PROVE IInv'
  <2>1. PICK q \in Worker : Q!CallStep(t, q) /\ ~ (pc'[t] \in PopState)
    <3>1. start[t] \in Nat /\ index[t] \in Nat
          BY <1>1 DEF IInv, SchedulerType
    <3>2. /\ (start[t] + index[t]) % WorkerCount \in Worker
          /\ start[t] % WorkerCount \in Worker
          BY <3>1
    <3>3. \A q \in Worker : Q!TryPush(t, q) \/ Q!Push(t, q)
             => Q!CallStep(t, q) /\ ~ (pc'[t] \in PopState)
          BY <1>1 DEF Q!TryPush, Q!Push, Q!CallStep, Q!TryLock, Q!Enter, IInv,
             QueueInv, QP!TypeOK, PopState
    <3>. QED BY <1>2, <3>2, <3>3 DEF CallTryPush, CallPush
  <2>2. QueueInv'
        BY <1>1, <2>1, CallQueueInv DEF IInv
  <2>3. /\ stage[t] = "call" /\ UNCHANGED <<callVars, stage, running, completed>>
        /\ \/ UNCHANGED index
           \/ index[t] < WorkerCount * 2 /\ SetIndex(t, index[t] + 1)
        BY <1>2 DEF CallTryPush, CallPush, scale
  <2>4. SchedulerType'
    <3>1. CASE UNCHANGED index
          BY <2>3, <3>1 DEF IInv, SchedulerType, callVars
    <3>2. ASSUME index[t] < WorkerCount * 2, SetIndex(t, index[t] + 1)
          PROVE  index' \in [Thread -> 0 .. 2 * WorkerCount + 1]
      <4>1. index \in [Thread -> 0 .. 2 * WorkerCount + 1]
            BY DEF IInv, SchedulerType
      <4>2. WorkerCount * 2 = 2 * WorkerCount /\ 2 * WorkerCount \in Nat
            OBVIOUS
      <4>3. index[t] \in 0 .. 2 * WorkerCount + 1
            BY <1>1, <4>1
      <4>4. index[t] + 1 \in 0 .. 2 * WorkerCount + 1
            BY <3>2, <4>2, <4>3
      <4>. QED BY <3>2, <4>1, <4>4 DEF SetIndex
    <3>. QED BY <2>3, <3>1, <3>2 DEF IInv, SchedulerType, callVars
  <2>5. Roles' /\ Executing'
        BY <2>3 DEF IInv, Roles, Executing, callVars
  <2>6. /\ UNCHANGED element
        /\ \A u \in Thread \ {t} : pc'[u] = pc[u] /\ at'[u] = at[u]
        BY <1>1, <2>1, CallStepEffect DEF IInv
  <2>8. Outside'
        BY <1>1, <2>3, <2>6 DEF IInv, Outside
  <2>9. PopOwn' /\ OwnerOnlyNotifies'
        BY <1>1, <2>1, <2>6 DEF IInv, PopOwn, OwnerOnlyNotifies
  <2>7. Bounds'
        BY <1>1, <2>3 DEF IInv, Bounds, SchedulerType, SetIndex
  <2>. QED BY <2>2, <2>4, <2>5, <2>7, <2>8, <2>9 DEF IInv
<1>3. CASE CallReturn(t)
  <2> USE <1>1, <1>3 DEF CallReturn, IInv
  <2>1. QueueInv'
        BY QueueInvStutter
  <2>2. SchedulerType' /\ Roles' /\ Bounds'
        BY DEF SchedulerType, Stage, Roles, Bounds, Move, SetIndex
  <2>3. Outside' /\ PopOwn' /\ OwnerOnlyNotifies'
        BY DEF Outside, PopOwn, OwnerOnlyNotifies, queueVars, SchedulerType, Move
  <2>4. Executing'
        BY DEF Executing, SchedulerType, Move
  <2>. QED BY <2>1, <2>2, <2>3, <2>4
<1>. QED BY <1>2, <1>3 DEF CallStep

LEMMA WorkerStepIInv ==
    ASSUME IInv, NEW w \in Worker, WorkerStep(w)
    PROVE  IInv'
<1> USE WorkerFacts, ThreadAssumption, WorkerCountAssumption DEF Thread
<1>1. w \in Thread /\ w # Owner /\ w \notin Client OBVIOUS
<1>2. ASSUME FindTryPop(w) \/ FindPop(w) PROVE IInv'
  <2>1. PICK q \in Worker : Q!CallStep(w, q) /\ (pc'[w] \in PopState => at'[w] = w)
    <3>1. index[w] \in Nat /\ (w + index[w]) % WorkerCount \in Worker
          BY <1>1 DEF IInv, SchedulerType
    <3>2. \A q \in Worker : Q!TryPop(w, q) \/ (q = w /\ Q!Pop(w, q))
             => Q!CallStep(w, q) /\ (pc'[w] \in PopState => at'[w] = w)
          BY <1>1 DEF Q!TryPop, Q!Pop, Q!CallStep, Q!TryLock, Q!Enter, IInv,
             QueueInv, QP!TypeOK, PopState
    <3>. QED BY <1>2, <3>1, <3>2 DEF FindTryPop, FindPop
  <2>2. QueueInv'
        BY <1>1, <2>1, CallQueueInv DEF IInv
  <2>3. /\ stage[w] = "find" /\ UNCHANGED <<callVars, stage, running, completed>>
        /\ \E i \in 0 .. WorkerCount + 1 : SetIndex(w, i)
    <3>1. index[w] \in Nat
          BY <1>1 DEF IInv, SchedulerType
    <3>. QED BY <1>2, <3>1 DEF FindTryPop, FindPop
  <2>4. SchedulerType'
        BY <1>1, <2>3 DEF IInv, SchedulerType, SetIndex, callVars
  <2>5. Roles' /\ Executing'
        BY <2>3 DEF IInv, Roles, Executing, callVars
  <2>6. /\ UNCHANGED element
        /\ \A u \in Thread \ {w} : pc'[u] = pc[u] /\ at'[u] = at[u]
        BY <1>1, <2>1, CallStepEffect DEF IInv
  <2>7. Outside'
        BY <1>1, <2>3, <2>6 DEF IInv, Outside
  <2>8. PopOwn' /\ OwnerOnlyNotifies'
        BY <1>1, <2>1, <2>6 DEF IInv, PopOwn, OwnerOnlyNotifies
  <2>9. Bounds'
        BY <1>1, <2>3 DEF IInv, Bounds, SchedulerType, SetIndex
  <2>. QED BY <2>2, <2>4, <2>5, <2>7, <2>8, <2>9 DEF IInv
<1>3. CASE StartTask(w)
  <2> USE <1>1, <1>3 DEF StartTask, IInv
  <2>1. element[w] \in Task
        BY DEF QueueInv, QP!TypeOK
  <2>2. /\ UNCHANGED <<m_buffer, m_mutex, m_done, pc, at>>
        /\ element' = [element EXCEPT ![w] = NoTask] /\ pc[w] = "idle"
        OBVIOUS
  <2>3. QP!TypeOK'
        BY <2>2 DEF QueueInv, QP!TypeOK
  <2>10. QP!InCall'
        BY <2>2, QueueAssumptions DEF QueueInv, QP!TypeOK, QP!InCall
  <2>4. QP!MutexDiscipline' /\ QP!SleepEmpty'
        BY <2>2 DEF QueueInv, QP!MutexDiscipline, QP!SleepEmpty
  <2>5. QP!NoStrandedElement'
        BY <2>2 DEF QueueInv, QP!NoStrandedElement, QP!m_ready, QP!Attending
  <2>6. SchedulerType'
        BY <2>1 DEF SchedulerType, Stage, Move, SetIndex, callVars
  <2>7. Roles' /\ Bounds'
        BY DEF Roles, Bounds, SchedulerType, Move, SetIndex
  <2>8. Outside' /\ PopOwn' /\ OwnerOnlyNotifies'
        BY <2>2 DEF Outside, PopOwn, OwnerOnlyNotifies, SchedulerType, QueueInv,
           QP!TypeOK, Move
  <2>9. Executing'
        BY <2>1 DEF Executing, SchedulerType, Move
  <2>. QED BY <2>3, <2>4, <2>5, <2>6, <2>7, <2>8, <2>9, <2>10 DEF QueueInv
<1>4. ASSUME FinishTask(w) \/ Exit(w) PROVE IInv'
  <2>1. /\ UNCHANGED queueVars
        /\ pc[w] = "idle" /\ element[w] = NoTask
        /\ stage' = [stage EXCEPT ![w] = "find"] \/ stage' = [stage EXCEPT ![w] = "exited"]
        BY <1>1, <1>4 DEF FinishTask, Exit, Move, IInv, Outside
  <2>2. QueueInv'
        BY <2>1, QueueInvStutter DEF IInv
  <2>3. /\ index' = [index EXCEPT ![w] = 0]
        /\ UNCHANGED callVars
    <3>1. CASE FinishTask(w)
          BY <1>1, <3>1 DEF FinishTask, IInv, Bounds, SchedulerType
    <3>2. CASE Exit(w)
          BY <3>2 DEF Exit, SetIndex
    <3>. QED BY <1>4, <3>1, <3>2
  <2>4. /\ running' \in [Worker -> Task \cup {NoTask}]
        /\ completed' \subseteq Task
    <3>1. CASE FinishTask(w)
      <4>1. running[w] \in Task
            BY <3>1 DEF FinishTask, IInv, Executing
      <4>. QED BY <3>1, <4>1 DEF FinishTask, IInv, SchedulerType
    <3>2. CASE Exit(w)
          BY <3>2 DEF Exit, IInv, SchedulerType
    <3>. QED BY <1>4, <3>1, <3>2
  <2>5. SchedulerType'
    <3>1. stage' \in [Thread -> Stage]
          BY <2>1 DEF IInv, SchedulerType, Stage
    <3>2. index' \in [Thread -> 0 .. 2 * WorkerCount + 1]
          BY <2>3 DEF IInv, SchedulerType
    <3>. QED BY <2>3, <2>4, <3>1, <3>2 DEF IInv, SchedulerType, callVars
  <2>6. Roles'
        BY <1>1, <2>1 DEF IInv, Roles, SchedulerType
  <2>7. Bounds'
        BY <1>1, <2>1, <2>3 DEF IInv, Bounds, SchedulerType
  <2>8. Outside' /\ PopOwn' /\ OwnerOnlyNotifies'
        BY <1>1, <2>1 DEF IInv, Outside, PopOwn, OwnerOnlyNotifies, queueVars,
           SchedulerType
  <2>9. \A v \in Worker \ {w} : running'[v] = running[v]
        BY <1>4 DEF FinishTask, Exit, IInv, SchedulerType
  <2>10. Executing'
        BY <1>1, <2>1, <2>9 DEF IInv, Executing, SchedulerType
  <2>. QED BY <2>2, <2>5, <2>6, <2>7, <2>8, <2>10 DEF IInv
<1>. QED BY <1>2, <1>3, <1>4 DEF WorkerStep

LEMMA OwnerStepIInv ==
    ASSUME IInv, Destroy \/ OwnerStep
    PROVE  IInv'
<1> USE WorkerFacts, ThreadAssumption, WorkerCountAssumption DEF Thread
<1>1. Owner \in Thread OBVIOUS
<1>2. index[Owner] \in 0 .. WorkerCount
      BY <1>1 DEF IInv, SchedulerType, Bounds
<1>3. \A i \in 0 .. WorkerCount : SetIndex(Owner, i) =>
        /\ index' \in [Thread -> 0 .. 2 * WorkerCount + 1]
        /\ \A t \in Thread \ {Owner} : index'[t] = index[t]
        /\ index'[Owner] = i
      BY <1>1 DEF IInv, SchedulerType, SetIndex
<1>4. CASE DestroyDone
  <2> USE <1>4 DEF DestroyDone
  <2>1. index[Owner] \in Worker /\ index[Owner] + 1 \in 0 .. WorkerCount
        BY <1>2 DEF Worker
  <2>2. Q!CallStep(Owner, index[Owner])
        BY DEF Q!CallStep
  <2>3. QueueInv'
        BY <1>1, <2>1, <2>2, CallQueueInv DEF IInv
  <2>4. SchedulerType'
        BY <1>3, <2>1 DEF IInv, SchedulerType, callVars
  <2>5. Roles' /\ Executing'
        BY DEF IInv, Roles, Executing, callVars
  <2>6. Bounds'
        BY <1>3, <2>1 DEF IInv, Bounds, Roles
  <2>7. /\ UNCHANGED element /\ pc'[Owner] = "notifyAll"
        /\ \A u \in Thread \ {Owner} : pc'[u] = pc[u] /\ at'[u] = at[u]
        BY <1>1, <2>1, <2>2, CallStepEffect DEF Q!Done, Q!Enter, IInv, QueueInv, QP!TypeOK
  <2>8. Outside' /\ PopOwn' /\ OwnerOnlyNotifies'
        BY <1>1, <2>7 DEF IInv, Outside, PopOwn, PopState, OwnerOnlyNotifies
  <2>. QED BY <2>3, <2>4, <2>5, <2>6, <2>8 DEF IInv
<1>5. ASSUME Destroy \/ DestroyJoin \/ Join \/ Destroyed PROVE IInv'
  <2>1. /\ UNCHANGED <<queueVars, callVars, running, completed>>
        /\ pc[Owner] = "idle"
        /\ \E x \in {"destroying", "joining", "destroyed"} :
              stage' = [stage EXCEPT ![Owner] = x]
    <3>1. CASE Destroy
          BY <1>1, <3>1 DEF Destroy, Move, IInv, Outside
    <3>2. CASE DestroyJoin
          BY <3>2 DEF DestroyJoin, Move
    <3>3. CASE Join
          BY <1>1, <3>3 DEF Join, IInv, Outside, SchedulerType
    <3>4. CASE Destroyed
          BY <1>1, <3>4 DEF Destroyed, Move, IInv, Outside
    <3>. QED BY <1>5, <3>1, <3>2, <3>3, <3>4
  <2>2. \E i \in 0 .. WorkerCount : SetIndex(Owner, i)
    <3>1. UNCHANGED index => SetIndex(Owner, index[Owner])
          BY DEF SetIndex, IInv, SchedulerType
    <3>. QED BY <1>2, <1>5, <3>1 DEF Destroy, DestroyJoin, Join, Destroyed
  <2>3. QueueInv'
        BY <2>1, QueueInvStutter DEF IInv
  <2>4. SchedulerType'
        BY <1>1, <1>3, <2>1, <2>2 DEF IInv, SchedulerType, Stage, callVars
  <2>5. Roles' /\ Executing'
        BY <1>1, <2>1 DEF IInv, Roles, Executing, SchedulerType
  <2>6. Outside' /\ PopOwn' /\ OwnerOnlyNotifies'
        BY <1>1, <2>1 DEF IInv, Outside, PopOwn, OwnerOnlyNotifies, queueVars,
           SchedulerType
  <2>7. Bounds'
        BY <1>1, <1>3, <2>1, <2>2 DEF IInv, Bounds, Roles, SchedulerType
  <2>. QED BY <2>1, <2>3, <2>4, <2>5, <2>6, <2>7 DEF IInv
<1>. QED BY <1>4, <1>5 DEF OwnerStep

LEMMA NextIInv == IInv /\ [Next]_vars => IInv'
<1> SUFFICES ASSUME IInv, [Next]_vars PROVE IInv' OBVIOUS
<1>1. ASSUME NEW t \in Client \cup Worker, NEW k \in Task, Call(t, k) PROVE IInv'
      BY <1>1, CallIInv
<1>2. ASSUME NEW t \in Client \cup Worker, CallStep(t) PROVE IInv'
      BY <1>2, CallStepIInv
<1>3. ASSUME NEW w \in Worker, WorkerStep(w) PROVE IInv'
      BY <1>3, WorkerStepIInv
<1>4. CASE Destroy \/ OwnerStep
      BY <1>4, OwnerStepIInv
<1>5. ASSUME NEW t \in Thread, QueueStep(t) PROVE IInv'
      BY <1>5, QueueStepIInv DEF QueueStep
<1>6. ASSUME NEW w \in Worker, SpuriousWakeup(w) PROVE IInv'
      BY <1>6, QueueStepIInv DEF SpuriousWakeup, Thread
<1>7. CASE UNCHANGED vars
  <2> USE <1>7 DEF vars, IInv
  <2>1. QueueInv' BY QueueInvStutter
  <2>2. SchedulerType' /\ Roles' /\ Executing' /\ Bounds'
        BY DEF SchedulerType, Roles, Executing, Bounds, callVars
  <2>3. Outside' /\ PopOwn' /\ OwnerOnlyNotifies'
        BY DEF Outside, PopOwn, OwnerOnlyNotifies, queueVars
  <2>. QED BY <2>1, <2>2, <2>3
<1>. QED BY <1>1, <1>2, <1>3, <1>4, <1>5, <1>6, <1>7 DEF Next

\* A sleeping worker is the only one that attends to its queue, so the
\* elements counted by NoStrandedElement are pushes about to notify it.
LEMMA IInvNoStrandedTask == IInv => NoStrandedTask
<1> SUFFICES ASSUME IInv, NEW w \in Worker, pc[w] = "waiting", m_buffer[w] # <<>>
             PROVE  \E t \in Thread : pc[t] = "notify" /\ at[t] = w
    BY DEF NoStrandedTask
<1>1. w \in Thread BY DEF Thread
<1>2. at[w] = w BY <1>1 DEF IInv, PopOwn, PopState
<1>3. Len(m_buffer[w]) <= QP!Cardinality(QP!Attending(w))
      BY <1>1, <1>2 DEF IInv, QueueInv, QP!NoStrandedElement, QP!m_ready
<1>4. Len(m_buffer[w]) \in Nat \ {0}
      BY DEF IInv, QueueInv, QP!TypeOK
<1>5. QP!Cardinality({}) = 0
      BY FS_EmptySet DEF Cardinality, QP!Cardinality, IsFiniteSet, QP!IsFiniteSet
<1>6. QP!Attending(w) # {}
  <2>1. QP!Attending(w) = {} => Len(m_buffer[w]) <= 0
        BY <1>3, <1>5
  <2>. QED BY <1>4, <2>1
<1>7. PICK t \in QP!Attending(w) : TRUE
      BY <1>6
<1>. QED BY <1>1, <1>7 DEF QP!Attending, IInv, PopOwn, PopState

----------------------------------------------------------------------------
\* The types of the scheduler's and the queues' state.
THEOREM TypeCorrect == Spec => []TypeOK
<1>1. IInv => TypeOK
      BY SameType DEF IInv, QueueInv, SchedulerType, TypeOK
<1>. QED BY <1>1, InitIInv, NextIInv, PTL DEF Spec

\* No two threads are inside the critical section of a queue.
THEOREM MutexCorrect == Spec => []MutexDiscipline
<1>1. IInv => MutexDiscipline
      BY SameMutex DEF IInv, QueueInv
<1>. QED BY <1>1, InitIInv, NextIInv, PTL DEF Spec

\* No worker sleeps in front of a task that nobody is about to announce,
\* however many workers, clients and tasks there are.
THEOREM NoStrandedTaskCorrect == Spec => []NoStrandedTask
BY IInvNoStrandedTask, InitIInv, NextIInv, PTL DEF Spec

----------------------------------------------------------------------------
(***************************************************************************)
(* The second part.  A task is in exactly one place: with a thread, in a   *)
(* slot of one deque, with the worker that runs it, or done.  Five kinds   *)
(* of steps move a task from one of these to the next; no other step       *)
(* touches any of them.                                                    *)
(***************************************************************************)
InHand(k) == \E t \in Thread : element[t] = k
Queued(k) == \E q \in Worker : \E n \in 1 .. Len(m_buffer[q]) : m_buffer[q][n] = k
Runs(k) == \E w \in Worker : running[w] = k

HandsDiffer ==
    \A t, u \in Thread : element[t] = element[u] /\ element[t] \in Task => t = u

SlotsDiffer ==
    \A q, r \in Worker : \A m \in 1 .. Len(m_buffer[q]), n \in 1 .. Len(m_buffer[r]) :
        m_buffer[q][m] = m_buffer[r][n] => q = r /\ m = n

RunsDiffer ==
    \A v, w \in Worker : running[v] = running[w] /\ running[v] \in Task => v = w

\* At most one of the four, and one of them exactly for the tasks submitted.
Placed ==
    \A k \in Task :
        /\ k \in called <=> InHand(k) \/ Queued(k) \/ Runs(k) \/ k \in completed
        /\ InHand(k) => ~ Queued(k) /\ ~ Runs(k) /\ k \notin completed
        /\ Queued(k) => ~ Runs(k) /\ k \notin completed
        /\ Runs(k) => k \notin completed

\* A worker that looks for a task runs none.
Free == \A w \in Worker : stage[w] \in {"find", "exited"} => running[w] = NoTask

Once == HandsDiffer /\ SlotsDiffer /\ RunsDiffer /\ Placed /\ Free

----------------------------------------------------------------------------
(***************************************************************************)
(* What the steps do to one of the places.                                 *)
(***************************************************************************)

\* The types of what holds tasks.
LEMMA PlaceTypes ==
    ASSUME IInv
    PROVE  /\ element \in [Thread -> Task \cup {NoTask}]
           /\ m_buffer \in [Worker -> Seq(Task)]
           /\ running \in [Worker -> Task \cup {NoTask}]
           /\ Worker \subseteq Thread
BY DEF IInv, QueueInv, QP!TypeOK, SchedulerType, Thread

\* A thread gives a task away.
LEMMA HandOff ==
    ASSUME element \in [Thread -> Task \cup {NoTask}], HandsDiffer,
           NEW t \in Thread, NEW e \in Task, element[t] = e,
           element' = [element EXCEPT ![t] = NoTask]
    PROVE  /\ HandsDiffer'
           /\ \A k \in Task : InHand(k)' <=> InHand(k) /\ k # e
BY QP!HandOff, QueueAssumptions DEF InHand, QP!InHand, HandsDiffer, QP!HandsDiffer

\* A thread takes a task that no thread holds.
LEMMA HandOn ==
    ASSUME element \in [Thread -> Task \cup {NoTask}], HandsDiffer,
           NEW t \in Thread, NEW e \in Task, element[t] = NoTask, ~ InHand(e),
           element' = [element EXCEPT ![t] = e]
    PROVE  /\ HandsDiffer'
           /\ \A k \in Task : InHand(k)' <=> InHand(k) \/ k = e
BY QP!HandOn, QueueAssumptions DEF InHand, QP!InHand, HandsDiffer, QP!HandsDiffer

\* A worker starts and finishes a task.
LEMMA RunOn ==
    ASSUME running \in [Worker -> Task \cup {NoTask}], RunsDiffer,
           NEW w \in Worker, NEW e \in Task, running[w] = NoTask, ~ Runs(e),
           running' = [running EXCEPT ![w] = e]
    PROVE  /\ RunsDiffer'
           /\ \A k \in Task : Runs(k)' <=> Runs(k) \/ k = e
<1>1. running'[w] = e /\ \A v \in Worker \ {w} : running'[v] = running[v]
  OBVIOUS
<1>2. RunsDiffer'
  BY <1>1 DEF RunsDiffer, Runs
<1>3. ASSUME NEW k \in Task PROVE Runs(k)' <=> Runs(k) \/ k = e
  BY <1>1, NoTaskAssumption DEF Runs
<1> QED BY <1>2, <1>3

LEMMA RunOff ==
    ASSUME running \in [Worker -> Task \cup {NoTask}], RunsDiffer,
           NEW w \in Worker, NEW e \in Task, running[w] = e,
           running' = [running EXCEPT ![w] = NoTask]
    PROVE  /\ RunsDiffer'
           /\ \A k \in Task : Runs(k)' <=> Runs(k) /\ k # e
<1>1. running'[w] = NoTask /\ \A v \in Worker \ {w} : running'[v] = running[v]
  OBVIOUS
<1>2. RunsDiffer'
  BY <1>1, NoTaskAssumption DEF RunsDiffer
<1>3. ASSUME NEW k \in Task PROVE Runs(k)' <=> Runs(k) /\ k # e
  BY <1>1, NoTaskAssumption DEF RunsDiffer, Runs
<1> QED BY <1>2, <1>3

\* push_back of a task that is in no deque.
LEMMA QueueOn ==
    ASSUME m_buffer \in [Worker -> Seq(Task)], SlotsDiffer,
           NEW q \in Worker, NEW e \in Task, ~ Queued(e),
           m_buffer' = [m_buffer EXCEPT ![q] = Append(@, e)]
    PROVE  /\ SlotsDiffer'
           /\ \A k \in Task : Queued(k)' <=> Queued(k) \/ k = e
BY QP!QueueOn, QueueAssumptions DEF Queued, QP!Queued, SlotsDiffer, QP!SlotsDiffer

\* The first task of a deque is taken out of it, the others move up.
LEMMA QueueOff ==
    ASSUME m_buffer \in [Worker -> Seq(Task)], SlotsDiffer,
           NEW q \in Worker, m_buffer[q] # <<>>,
           m_buffer' = [m_buffer EXCEPT ![q] = Tail(@)]
    PROVE  /\ SlotsDiffer'
           /\ Head(m_buffer[q]) \in Task /\ Queued(Head(m_buffer[q]))
           /\ \A k \in Task : Queued(k)' <=> Queued(k) /\ k # Head(m_buffer[q])
BY QP!QueueOff, QueueAssumptions DEF Queued, QP!Queued, SlotsDiffer, QP!SlotsDiffer

----------------------------------------------------------------------------
(***************************************************************************)
(* The steps.                                                              *)
(***************************************************************************)

\* Steps that leave all the places alone.
LEMMA Unmoved ==
    ASSUME Once, UNCHANGED <<element, m_buffer, running, completed, called>>, Free'
    PROVE  Once'
<1>1. HandsDiffer' /\ SlotsDiffer' /\ RunsDiffer'
  BY DEF Once, HandsDiffer, SlotsDiffer, RunsDiffer
<1>2. \A k : (InHand(k)' <=> InHand(k)) /\ (Queued(k)' <=> Queued(k)) /\ (Runs(k)' <=> Runs(k))
  BY DEF InHand, Queued, Runs
<1>3. Placed'
  BY <1>2 DEF Once, Placed
<1> QED BY <1>1, <1>3 DEF Once

\* call() is handed the task: it is with the calling thread.
LEMMA CallOnce ==
    ASSUME IInv, Once, NEW t \in Client \cup Worker, NEW k \in Task, Call(t, k)
    PROVE  Once'
<1>1. /\ t \in Thread /\ k \notin called /\ element[t] = NoTask
      /\ element' = [element EXCEPT ![t] = k] /\ called' = called \cup {k}
      /\ m_buffer' = m_buffer /\ running' = running /\ completed' = completed
      /\ stage' = [stage EXCEPT ![t] = "call"] /\ stage \in [Thread -> Stage]
  BY DEF Call, MayCall, Move, IInv, Outside, SchedulerType, Thread
<1>2. ~ InHand(k) /\ ~ Queued(k) /\ ~ Runs(k) /\ k \notin completed
  BY <1>1 DEF Once, Placed
<1>3. HandsDiffer' /\ \A j \in Task : InHand(j)' <=> InHand(j) \/ j = k
  BY <1>1, <1>2, PlaceTypes, HandOn DEF Once
<1>4. \A j \in Task : (Queued(j)' <=> Queued(j)) /\ (Runs(j)' <=> Runs(j))
  BY <1>1 DEF Queued, Runs
<1>5. Placed'
  BY <1>1, <1>2, <1>3, <1>4 DEF Once, Placed
<1>6. SlotsDiffer' /\ RunsDiffer' /\ Free'
  BY <1>1 DEF Once, SlotsDiffer, RunsDiffer, Free, Thread
<1> QED BY <1>3, <1>5, <1>6 DEF Once

\* push_back moves the task from the thread to the deque.
LEMMA PushBackOnce ==
    ASSUME IInv, Once, NEW t \in Thread, Q!PushBack(t),
           UNCHANGED <<called, stage, running, completed>>
    PROVE  Once'
<1> DEFINE e == element[t]
<1>1. /\ at[t] \in Worker /\ e \in Task
      /\ m_buffer' = [m_buffer EXCEPT ![at[t]] = Append(@, e)]
      /\ element' = [element EXCEPT ![t] = NoTask]
  BY DEF Q!PushBack, IInv, QueueInv, QP!InCall
<1> HIDE DEF e
<1>2. e = element[t] /\ InHand(e)
  BY DEF e, InHand
<1>3. ~ Queued(e) /\ ~ Runs(e) /\ e \notin completed /\ e \in called
  BY <1>1, <1>2 DEF Once, Placed
<1>4. HandsDiffer' /\ \A k \in Task : InHand(k)' <=> InHand(k) /\ k # e
  BY <1>1, <1>2, PlaceTypes, HandOff DEF Once
<1>5. SlotsDiffer' /\ \A k \in Task : Queued(k)' <=> Queued(k) \/ k = e
  BY <1>1, <1>3, PlaceTypes, QueueOn DEF Once
<1>6. \A k \in Task : Runs(k)' <=> Runs(k)
  BY DEF Runs
<1>7. Placed'
  BY <1>3, <1>4, <1>5, <1>6 DEF Once, Placed
<1>8. RunsDiffer' /\ Free'
  BY DEF Once, RunsDiffer, Free
<1> QED BY <1>4, <1>5, <1>7, <1>8 DEF Once

\* getFrontElement() moves the task from the deque to the thread.
LEMMA GetOnce ==
    ASSUME IInv, Once, NEW t \in Thread, at[t] \in Worker, element[t] = NoTask,
           m_buffer[at[t]] # <<>>, Q!GetFrontElement(t),
           UNCHANGED <<called, stage, running, completed>>
    PROVE  Once'
<1> DEFINE e == Head(m_buffer[at[t]])
<1>1. /\ element' = [element EXCEPT ![t] = e]
      /\ m_buffer' = [m_buffer EXCEPT ![at[t]] = Tail(@)]
  BY DEF Q!GetFrontElement
<1>2. /\ SlotsDiffer' /\ e \in Task /\ Queued(e)
      /\ \A k \in Task : Queued(k)' <=> Queued(k) /\ k # e
  BY <1>1, PlaceTypes, QueueOff DEF Once
<1> HIDE DEF e
<1>3. ~ InHand(e) /\ ~ Runs(e) /\ e \notin completed /\ e \in called
  BY <1>2 DEF Once, Placed
<1>4. HandsDiffer' /\ \A k \in Task : InHand(k)' <=> InHand(k) \/ k = e
  BY <1>1, <1>2, <1>3, PlaceTypes, HandOn DEF Once
<1>5. \A k \in Task : Runs(k)' <=> Runs(k)
  BY DEF Runs
<1>6. Placed'
  BY <1>2, <1>3, <1>4, <1>5 DEF Once, Placed
<1>7. RunsDiffer' /\ Free'
  BY DEF Once, RunsDiffer, Free
<1> QED BY <1>2, <1>4, <1>6, <1>7 DEF Once

\* A step inside a queue operation.
LEMMA QueueStepOnce ==
    ASSUME IInv, Once, NEW t \in Thread, Q!Continue(t) \/ Q!SpuriousWakeup(t),
           UNCHANGED <<callVars, stage, index, running, completed>>
    PROVE  Once'
<1>1. /\ called' = called /\ stage' = stage /\ running' = running /\ completed' = completed
      /\ Free'
  BY DEF callVars, Once, Free
<1>2. CASE Q!PushBack(t)
  BY <1>1, <1>2, PushBackOnce
<1>3. CASE UNCHANGED <<element, m_buffer>>
  BY <1>1, <1>3, Unmoved
<1>4. CASE Q!Take(t) \/ Q!CheckLeave(t)
  <2>1. at[t] \in Worker /\ element[t] = NoTask
    BY <1>4 DEF Q!Take, Q!CheckLeave, IInv, QueueInv, QP!InCall
  <2>2. \/ UNCHANGED <<element, m_buffer>>
        \/ m_buffer[at[t]] # <<>> /\ Q!GetFrontElement(t)
    BY <1>4 DEF Q!Take, Q!CheckLeave
  <2> QED BY <1>1, <1>3, <2>1, <2>2, GetOnce
<1>5. CASE \/ Q!NotifyOne(t) \/ Q!CheckStay(t) \/ Q!Wait(t) \/ Q!Reacquire(t)
           \/ Q!NotifyAll(t) \/ Q!ReturnSize(t) \/ Q!SpuriousWakeup(t)
  BY <1>3, <1>5 DEF Q!NotifyOne, Q!CheckStay, Q!Wait, Q!Reacquire, Q!NotifyAll,
     Q!ReturnSize, Q!SpuriousWakeup
<1> QED BY <1>2, <1>4, <1>5 DEF Q!Continue

\* The steps of call() begin a queue operation, or end.
LEMMA CallStepOnce ==
    ASSUME IInv, Once, NEW t \in Client \cup Worker, CallStep(t)
    PROVE  Once'
<1>1. UNCHANGED <<element, m_buffer, running, completed, called>>
  BY DEF CallStep, CallTryPush, CallPush, CallReturn, Q!TryPush, Q!Push, callVars, queueVars
<1>2. Free'
  <2>1. stage' = stage \/ \E s \in {"run", "client"} : stage' = [stage EXCEPT ![t] = s]
    BY DEF CallStep, CallTryPush, CallPush, CallReturn, Move
  <2>2. stage \in [Thread -> Stage] /\ Worker \subseteq Thread /\ t \in Thread
    BY DEF IInv, SchedulerType, Thread
  <2> QED BY <1>1, <2>1, <2>2 DEF Once, Free
<1> QED BY <1>1, <1>2, Unmoved

\* A task is started and finished by the worker that took it.
LEMMA WorkerStepOnce ==
    ASSUME IInv, Once, NEW w \in Worker, WorkerStep(w)
    PROVE  Once'
<1>1. w \in Thread /\ stage \in [Thread -> Stage] /\ Worker \subseteq Thread
  BY DEF IInv, SchedulerType, Thread
<1>2. CASE FindTryPop(w) \/ FindPop(w)
  <2>1. UNCHANGED <<element, m_buffer, running, completed, called>> /\ stage' = stage
    BY <1>2 DEF FindTryPop, FindPop, Q!TryPop, Q!Pop, callVars
  <2>2. Free'
    BY <2>1 DEF Once, Free
  <2> QED BY <2>1, <2>2, Unmoved
<1>3. CASE StartTask(w)
  <2> DEFINE e == element[w]
  <2>1. /\ e \in Task /\ stage[w] = "find" /\ running[w] = NoTask
        /\ running' = [running EXCEPT ![w] = e] /\ element' = [element EXCEPT ![w] = NoTask]
        /\ m_buffer' = m_buffer /\ completed' = completed /\ called' = called
        /\ stage' = [stage EXCEPT ![w] = "run"]
    BY <1>1, <1>3, PlaceTypes DEF StartTask, Once, Free, Move, callVars
  <2>2. InHand(e)
    BY <1>1 DEF InHand
  <2>3. ~ Queued(e) /\ ~ Runs(e) /\ e \notin completed /\ e \in called
    BY <2>1, <2>2 DEF Once, Placed
  <2>4. HandsDiffer' /\ \A k \in Task : InHand(k)' <=> InHand(k) /\ k # e
    BY <1>1, <2>1, PlaceTypes, HandOff DEF Once
  <2>5. RunsDiffer' /\ \A k \in Task : Runs(k)' <=> Runs(k) \/ k = e
    BY <2>1, <2>3, PlaceTypes, RunOn DEF Once
  <2> HIDE DEF e
  <2>6. \A k \in Task : Queued(k)' <=> Queued(k)
    BY <2>1 DEF Queued
  <2>7. Placed'
    BY <2>1, <2>3, <2>4, <2>5, <2>6 DEF Once, Placed
  <2>8. SlotsDiffer'
    BY <2>1 DEF Once, SlotsDiffer
  <2>9. Free'
    BY <1>1, <2>1, PlaceTypes DEF Once, Free
  <2> QED BY <2>4, <2>5, <2>7, <2>8, <2>9 DEF Once
<1>4. CASE FinishTask(w)
  <2> DEFINE e == running[w]
  <2>1. /\ e \in Task
        /\ running' = [running EXCEPT ![w] = NoTask] /\ completed' = completed \cup {e}
        /\ element' = element /\ m_buffer' = m_buffer /\ called' = called
        /\ stage' = [stage EXCEPT ![w] = "find"]
    BY <1>4 DEF FinishTask, IInv, Executing, Move, callVars, queueVars
  <2>2. Runs(e)
    BY DEF Runs
  <2>3. ~ InHand(e) /\ ~ Queued(e) /\ e \in called
    BY <2>1, <2>2 DEF Once, Placed
  <2>4. RunsDiffer' /\ \A k \in Task : Runs(k)' <=> Runs(k) /\ k # e
    BY <2>1, PlaceTypes, RunOff DEF Once
  <2> HIDE DEF e
  <2>5. \A k \in Task : (InHand(k)' <=> InHand(k)) /\ (Queued(k)' <=> Queued(k))
    BY <2>1 DEF InHand, Queued
  <2>6. Placed'
    BY <2>1, <2>2, <2>3, <2>4, <2>5 DEF Once, Placed
  <2>7. HandsDiffer' /\ SlotsDiffer'
    BY <2>1 DEF Once, HandsDiffer, SlotsDiffer
  <2>8. Free'
    BY <1>1, <2>1, PlaceTypes DEF Once, Free
  <2> QED BY <2>4, <2>6, <2>7, <2>8 DEF Once
<1>5. CASE Exit(w)
  <2>1. /\ UNCHANGED <<element, m_buffer, running, completed, called>>
        /\ stage[w] = "find" /\ stage' = [stage EXCEPT ![w] = "exited"]
    BY <1>5 DEF Exit, Move, callVars, queueVars
  <2>2. Free'
    BY <1>1, <2>1 DEF Once, Free
  <2> QED BY <2>1, <2>2, Unmoved
<1> QED BY <1>2, <1>3, <1>4, <1>5 DEF WorkerStep

\* The destructor touches no task.
LEMMA OwnerStepOnce == ASSUME IInv, Once, Destroy \/ OwnerStep PROVE Once'
<1>1. UNCHANGED <<element, m_buffer, running, completed, called>>
  BY DEF Destroy, OwnerStep, DestroyDone, DestroyJoin, Join, Destroyed, Q!Done, callVars, queueVars
<1>2. \A w \in Worker : stage'[w] = stage[w]
  <2>1. stage' = stage \/ \E s \in Stage : stage' = [stage EXCEPT ![Owner] = s]
    BY DEF Destroy, OwnerStep, DestroyDone, DestroyJoin, Join, Destroyed, Move, Stage
  <2> QED BY <2>1, WorkerFacts DEF IInv, SchedulerType, Thread
<1>3. Free'
  BY <1>1, <1>2 DEF Once, Free
<1> QED BY <1>1, <1>3, Unmoved

LEMMA InitOnce == Init => Once
<1> SUFFICES ASSUME Init PROVE Once
  OBVIOUS
<1>1. /\ element = [t \in Thread |-> NoTask] /\ m_buffer = [q \in Worker |-> <<>>]
      /\ running = [w \in Worker |-> NoTask] /\ called = {} /\ completed = {}
  BY DEF Init, Q!Init
<1>2. \A k \in Task : ~ InHand(k) /\ ~ Queued(k) /\ ~ Runs(k)
  BY <1>1, NoTaskAssumption DEF InHand, Queued, Runs
<1>3. HandsDiffer /\ SlotsDiffer /\ RunsDiffer /\ Free
  BY <1>1, NoTaskAssumption DEF HandsDiffer, SlotsDiffer, RunsDiffer, Free
<1> QED BY <1>1, <1>2, <1>3 DEF Once, Placed

LEMMA NextOnce == IInv /\ Once /\ [Next]_vars => Once'
<1> SUFFICES ASSUME IInv, Once, [Next]_vars PROVE Once'
  OBVIOUS
<1>1. ASSUME NEW t \in Client \cup Worker, NEW k \in Task, Call(t, k) PROVE Once'
  BY <1>1, CallOnce
<1>2. ASSUME NEW t \in Client \cup Worker, CallStep(t) PROVE Once'
  BY <1>2, CallStepOnce
<1>3. ASSUME NEW w \in Worker, WorkerStep(w) PROVE Once'
  BY <1>3, WorkerStepOnce
<1>4. CASE Destroy \/ OwnerStep
  BY <1>4, OwnerStepOnce
<1>5. ASSUME NEW t \in Thread, QueueStep(t) PROVE Once'
  BY <1>5, QueueStepOnce DEF QueueStep
<1>6. ASSUME NEW w \in Worker, SpuriousWakeup(w) PROVE Once'
  BY <1>6, QueueStepOnce DEF SpuriousWakeup, Thread
<1>7. CASE UNCHANGED vars
  <2>1. Free'
    BY <1>7 DEF vars, Once, Free
  <2> QED BY <1>7, <2>1, Unmoved DEF vars, queueVars, callVars
<1> QED BY <1>1, <1>2, <1>3, <1>4, <1>5, <1>6, <1>7 DEF Next

----------------------------------------------------------------------------
\* The set of the places of a task has one element, or none.
LEMMA OnceExactly == IInv /\ Once => ExactlyOnce
<1> SUFFICES ASSUME IInv, Once, NEW k \in Task
             PROVE  IF k \in called THEN \E p \in Places(k) : Places(k) = {p} ELSE Places(k) = {}
  BY DEF ExactlyOnce
<1> DEFINE Hands == {<<"hand", t>> : t \in {u \in Thread : element[u] = k}}
           SlotsOf(q) == {<<"slot", q, i>> : i \in {n \in 1 .. Len(m_buffer[q]) : m_buffer[q][n] = k}}
           Slots == UNION {SlotsOf(q) : q \in Worker}
           Runners == {<<"runs", w>> : w \in {v \in Worker : running[v] = k}}
           Done == {<<"done">> : x \in {k} \cap completed}
<1>1. Places(k) = Hands \cup Slots \cup Runners \cup Done
  BY DEF Places
<1>2. ~ InHand(k) => Hands = {}
  BY DEF InHand
<1>3. ~ Queued(k) => Slots = {}
  BY DEF Queued
<1>4. ~ Runs(k) => Runners = {}
  BY DEF Runs
<1>5. k \notin completed => Done = {}
  OBVIOUS
<1>6. k \in completed => Done = {<<"done">>}
  OBVIOUS
<1>7. ASSUME InHand(k) PROVE \E p : Hands = {p}
  <2>1. PICK t \in Thread : element[t] = k
    BY <1>7 DEF InHand
  <2>2. {u \in Thread : element[u] = k} = {t}
    BY <2>1 DEF Once, HandsDiffer
  <2>3. Hands = {<<"hand", t>>}
    BY <2>2
  <2> QED BY <2>3
<1>8. ASSUME Queued(k) PROVE \E p : Slots = {p}
  <2>0. PICK q \in Worker : \E n \in 1 .. Len(m_buffer[q]) : m_buffer[q][n] = k
    BY <1>8 DEF Queued
  <2>1. PICK n \in 1 .. Len(m_buffer[q]) : m_buffer[q][n] = k
    BY <2>0
  <2>2. \A r \in Worker : \A m \in 1 .. Len(m_buffer[r]) : m_buffer[r][m] = k => r = q /\ m = n
    BY <2>1 DEF Once, SlotsDiffer
  <2>3. SlotsOf(q) = {<<"slot", q, n>>}
    BY <2>1, <2>2
  <2>4. \A r \in Worker : r # q => SlotsOf(r) = {}
    BY <2>2
  <2> HIDE DEF SlotsOf
  <2>5. Slots = {<<"slot", q, n>>}
    BY <2>3, <2>4
  <2> QED BY <2>5
<1>9. ASSUME Runs(k) PROVE \E p : Runners = {p}
  <2>1. PICK w \in Worker : running[w] = k
    BY <1>9 DEF Runs
  <2>2. {v \in Worker : running[v] = k} = {w}
    BY <2>1 DEF Once, RunsDiffer
  <2>3. Runners = {<<"runs", w>>}
    BY <2>2
  <2> QED BY <2>3
<1> HIDE DEF Hands, Slots, Runners, Done
<1>10. ASSUME NEW p, Places(k) = {p} PROVE \E x \in Places(k) : Places(k) = {x}
  BY <1>10
<1>11. CASE InHand(k)
  <2>1. k \in called /\ Places(k) = Hands
    BY <1>1, <1>3, <1>4, <1>5, <1>11 DEF Once, Placed
  <2> QED BY <1>7, <1>10, <1>11, <2>1
<1>12. CASE Queued(k)
  <2>1. k \in called /\ Places(k) = Slots
    BY <1>1, <1>2, <1>4, <1>5, <1>12 DEF Once, Placed
  <2> QED BY <1>8, <1>10, <1>12, <2>1
<1>13. CASE Runs(k)
  <2>1. k \in called /\ Places(k) = Runners
    BY <1>1, <1>2, <1>3, <1>5, <1>13 DEF Once, Placed
  <2> QED BY <1>9, <1>10, <1>13, <2>1
<1>14. CASE k \in completed
  <2>1. k \in called /\ Places(k) = {<<"done">>}
    BY <1>1, <1>2, <1>3, <1>4, <1>6, <1>14 DEF Once, Placed
  <2> QED BY <1>10, <2>1
<1>15. CASE ~ InHand(k) /\ ~ Queued(k) /\ ~ Runs(k) /\ k \notin completed
  <2>1. k \notin called /\ Places(k) = {}
    BY <1>1, <1>2, <1>3, <1>4, <1>5, <1>15 DEF Once, Placed
  <2> QED BY <2>1
<1> QED BY <1>11, <1>12, <1>13, <1>14, <1>15

\* A task is executed at most once and never dropped, for any number of
\* workers, clients and tasks, whatever races of tryPush and tryPop are lost.
THEOREM ExactlyOnceCorrect == Spec => []ExactlyOnce
BY OnceExactly, InitIInv, NextIInv, InitOnce, NextOnce, PTL DEF Spec

----------------------------------------------------------------------------
(***************************************************************************)
(* The third part.  A worker leaves its deque for good when pop() returns *)
(* nothing, which needs done(), which needs that no client is in call() or *)
(* will be (Quiet).  Tasks can still come, but only from running tasks,    *)
(* and the worker that runs them will try every deque before it sleeps     *)
(* again: whoever finds a deque locked and passes it by leaves it to the   *)
(* thread that locked it.                                                  *)
(***************************************************************************)

\* Which operation of a queue each function of the scheduler uses.
Doing ==
    \A t \in Thread :
        /\ pc[t] # "size"
        /\ pc[t] \in {"append", "notify"} => stage[t] = "call"
        /\ pc[t] = "take" => stage[t] = "find" /\ index[t] <= WorkerCount
        /\ pc[t] \in PopState => stage[t] = "find" /\ index[t] = WorkerCount + 1
        /\ pc[t] = "notifyAll" => stage[t] = "destroying"

\* Worker w has come back from pop() with nothing: it looks into no deque again.
Left(w) ==
    \/ stage[w] = "exited"
    \/ /\ stage[w] = "find" /\ index[w] = WorkerCount + 1
       /\ pc[w] = "idle" /\ element[w] = NoTask

LeftDone == \A w \in Worker : Left(w) => m_done[w]
DoneAfter == \A w \in Worker : m_done[w] => stage[Owner] # "alive"

Quiet ==
    stage[Owner] # "alive" =>
        \A c \in Client : stage[c] = "client" /\ \A k \in Task : Caller[k] = c => k \in called

\* Deque q is one of those that the loop of findTask() in w has yet to try.
Ahead(w, q) == \E i \in Worker : q = (w + i) % WorkerCount /\ index[w] <= i

\* Worker w will still look into deque q.
Searches(w, q) ==
    \/ stage[w] \in {"run", "call"}
    \/ stage[w] = "find" /\ element[w] # NoTask
    \/ stage[w] = "find" /\ Ahead(w, q)
    \/ stage[w] = "find" /\ pc[w] = "take" /\ at[w] = q

\* A deque that its own worker has left is empty, or another one comes by.
Attended ==
    \A q \in Worker : Left(q) /\ m_buffer[q] # <<>> => \E w \in Worker : Searches(w, q)

Joined ==
    /\ stage[Owner] = "joining" => \A w \in Worker : w < index[Owner] => stage[w] = "exited"
    /\ stage[Owner] = "destroyed" => \A w \in Worker : stage[w] = "exited"

\* A task has submitted what it submits by the time it returns.
Nested == \A k \in Task : Caller[k] \in completed => k \in called

DInv == Doing /\ LeftDone /\ DoneAfter /\ Quiet /\ Attended /\ Joined /\ Nested

\* The loop of findTask() comes to every deque.
LEMMA EveryDeque ==
    ASSUME NEW w \in Worker, NEW q \in Worker
    PROVE  \E i \in Worker : q = (w + i) % WorkerCount
<1> DEFINE i == IF q >= w THEN q - w ELSE (q - w) + WorkerCount
<1>1. /\ w \in Nat /\ q \in Nat /\ WorkerCount \in Nat \ {0}
      /\ w < WorkerCount /\ q < WorkerCount
  BY WorkerCountAssumption DEF Worker
<1>2. i \in Worker
  BY <1>1 DEF Worker
<1>3. w + i = q \/ w + i = q + WorkerCount
  BY <1>1
<1>4. q % WorkerCount = q /\ (q + WorkerCount) % WorkerCount = q
  BY <1>1, SMTT(30)
<1> QED BY <1>2, <1>3, <1>4

\* Steps after which every worker still looks where it looked before, no
\* worker has left and no deque has gained a task.
LEMMA AttendedKept ==
    ASSUME Attended,
           \A q \in Worker : Left(q)' => Left(q),
           \A q \in Worker : m_buffer'[q] # <<>> => m_buffer[q] # <<>>,
           \A w, q \in Worker : Searches(w, q) => Searches(w, q)'
    PROVE  Attended'
<1> SUFFICES ASSUME NEW q \in Worker, Left(q)', m_buffer'[q] # <<>>
             PROVE  \E w \in Worker : Searches(w, q)'
  BY DEF Attended
<1>1. PICK w \in Worker : Searches(w, q)
  BY DEF Attended
<1> QED BY <1>1

\* A worker none of whose variables changes.
LEMMA SearchesKept ==
    ASSUME NEW w \in Worker, NEW q \in Worker, Searches(w, q), stage'[w] = stage[w],
           index'[w] = index[w], element'[w] = element[w], pc'[w] = pc[w], at'[w] = at[w]
    PROVE  Searches(w, q)'
<1>1. Ahead(w, q) => Ahead(w, q)'
  BY DEF Ahead
<1> QED BY <1>1 DEF Searches

\* What the other steps of a queue operation do to the label of their thread.
LEMMA ContinueLabels ==
    ASSUME QueueInv, NEW t \in Thread, Q!Continue(t) \/ Q!SpuriousWakeup(t)
    PROVE  /\ pc'[t] \notin {"size", "append", "take", "notifyAll"}
           /\ pc'[t] = "notify" => pc[t] = "append"
           /\ UNCHANGED m_done
<1> USE QueueAssumptions DEF QueueInv, QP!TypeOK, QP!Label, QP!Critical
<1>1. CASE Q!PushBack(t)
      BY <1>1 DEF Q!PushBack
<1>2. CASE Q!NotifyOne(t)
      BY <1>2 DEF Q!NotifyOne, Q!m_ready
<1>3. CASE Q!Take(t)
      BY <1>3 DEF Q!Take, Q!Return
<1>4. CASE Q!CheckLeave(t)
      BY <1>4 DEF Q!CheckLeave, Q!Return
<1>5. CASE Q!CheckStay(t) \/ Q!Wait(t) \/ Q!Reacquire(t) \/ Q!SpuriousWakeup(t)
      BY <1>5 DEF Q!CheckStay, Q!Wait, Q!Reacquire, Q!SpuriousWakeup
<1>6. CASE Q!NotifyAll(t)
      BY <1>6 DEF Q!NotifyAll, Q!m_ready
<1>7. CASE Q!ReturnSize(t)
      BY <1>7 DEF Q!ReturnSize, Q!Return
<1>. QED BY <1>1, <1>2, <1>3, <1>4, <1>5, <1>6, <1>7 DEF Q!Continue

\* What happens to the deques and to the elements in such a step.
LEMMA ContinueMoves ==
    ASSUME QueueInv, NEW t \in Thread, Q!Continue(t) \/ Q!SpuriousWakeup(t)
    PROVE  \/ Q!PushBack(t)
           \/ /\ pc[t] \in {"take", "check"} /\ at[t] \in Worker /\ element[t] = NoTask
              /\ m_buffer[at[t]] # <<>> /\ Q!GetFrontElement(t)
           \/ /\ UNCHANGED <<m_buffer, element>>
              /\ pc[t] = "take" => m_buffer[at[t]] = <<>>
              /\ pc[t] \in PopState /\ pc'[t] = "idle" =>
                    m_buffer[at[t]] = <<>> /\ m_done[at[t]]
<1>1. CASE Q!Take(t) \/ Q!CheckLeave(t)
  <2>1. pc[t] \in {"take", "check"} /\ at[t] \in Worker /\ element[t] = NoTask
    BY <1>1 DEF Q!Take, Q!CheckLeave, QueueInv, QP!InCall
  <2>2. \/ m_buffer[at[t]] = <<>> /\ UNCHANGED <<m_buffer, element>>
           /\ (pc[t] = "check" => m_done[at[t]])
        \/ m_buffer[at[t]] # <<>> /\ Q!GetFrontElement(t)
    BY <1>1 DEF Q!Take, Q!CheckLeave
  <2> QED BY <2>1, <2>2 DEF PopState
<1>2. CASE \/ Q!NotifyOne(t) \/ Q!CheckStay(t) \/ Q!Wait(t) \/ Q!Reacquire(t)
           \/ Q!NotifyAll(t) \/ Q!ReturnSize(t) \/ Q!SpuriousWakeup(t)
  BY <1>2 DEF Q!NotifyOne, Q!CheckStay, Q!Wait, Q!Reacquire, Q!NotifyAll,
     Q!ReturnSize, Q!SpuriousWakeup, QueueInv, QP!TypeOK, PopState
<1> QED BY <1>1, <1>2 DEF Q!Continue

LEMMA QueueStepDInv ==
    ASSUME IInv, DInv, NEW t \in Thread, Q!Continue(t) \/ Q!SpuriousWakeup(t),
           UNCHANGED <<callVars, stage, index, running, completed>>
    PROVE  DInv'
<1>1. /\ stage' = stage /\ index' = index /\ called' = called /\ completed' = completed
      /\ m_done' = m_done /\ pc[t] # "idle"
  BY ContinueEffect, ContinueLabels DEF callVars, IInv
<1>2. \A u \in Thread \ {t} :
         /\ at'[u] = at[u] /\ element'[u] = element[u]
         /\ pc'[u] = pc[u] \/ (pc[u] = "waiting" /\ pc'[u] = "woken")
  BY ContinueEffect DEF IInv
<1>3. Doing'
  <2>1. ASSUME NEW u \in Thread \ {t}
        PROVE  pc'[u] = pc[u] \/ (pc[u] \in PopState /\ pc'[u] \in PopState)
    BY <1>2 DEF PopState
  <2>2. /\ pc'[t] \notin {"size", "append", "take", "notifyAll"}
        /\ pc'[t] = "notify" => pc[t] = "append"
        /\ pc'[t] \in PopState => pc[t] \in PopState
    BY ContinueEffect, ContinueLabels DEF IInv
  <2> QED BY <1>1, <2>1, <2>2 DEF DInv, Doing, PopState
\* The only step that makes a worker leave is a check that finds its deque
\* empty and m_done set.
<1>4. ASSUME NEW w \in Worker, Left(w)', ~ Left(w)
      PROVE  w = t /\ m_done[w] /\ m_buffer[w] = <<>> /\ m_buffer'[w] = <<>>
  <2>1. w \in Thread
    BY DEF Thread
  <2>2. stage[w] = "find" /\ index[w] = WorkerCount + 1 /\ pc'[w] = "idle" /\ element'[w] = NoTask
    BY <1>1, <1>4 DEF Left
  <2>3. w = t
    BY <1>2, <1>4, <2>1, <2>2 DEF Left
  <2>4. pc[t] \in PopState
    <3>1. index[t] \in Nat /\ pc[t] \in QP!Label /\ WorkerCount \in Nat
      BY WorkerCountAssumption DEF IInv, SchedulerType, QueueInv, QP!TypeOK
    <3>2. ~ (index[t] <= WorkerCount)
      BY <2>2, <2>3, <3>1
    <3> QED BY <1>1, <2>2, <2>3, <3>1, <3>2 DEF DInv, Doing, PopState, QP!Label, QP!Critical
  <2>5. at[t] = t
    BY <2>4 DEF IInv, PopOwn
  <2>6. CASE Q!PushBack(t)
    BY <2>4, <2>6 DEF Q!PushBack, PopState
  <2>7. CASE m_buffer[at[t]] # <<>> /\ Q!GetFrontElement(t)
    <3>1. m_buffer[t] \in Seq(Task)
      BY <2>3 DEF IInv, QueueInv, QP!TypeOK
    <3>2. element'[t] = Head(m_buffer[t])
      BY <2>5, <2>7 DEF Q!GetFrontElement, IInv, QueueInv, QP!TypeOK
    <3>3. Head(m_buffer[t]) \in Task
      BY <2>5, <2>7, <3>1
    <3> QED BY <2>2, <2>3, <3>2, <3>3, NoTaskAssumption
  <2>8. CASE UNCHANGED <<m_buffer, element>> /\ m_buffer[at[t]] = <<>> /\ m_done[at[t]]
    BY <2>3, <2>5, <2>8
  <2> QED BY <2>2, <2>3, <2>4, <2>6, <2>7, <2>8, ContinueMoves DEF IInv
<1>5. LeftDone'
  BY <1>1, <1>4 DEF DInv, LeftDone
<1>6. DoneAfter' /\ Quiet' /\ Joined' /\ Nested'
  BY <1>1 DEF DInv, DoneAfter, Quiet, Joined, Nested
<1>7. Attended'
  <2>1. CASE Q!PushBack(t)
    <3> SUFFICES ASSUME NEW q \in Worker, Left(q)', m_buffer'[q] # <<>>
                 PROVE  \E w \in Worker : Searches(w, q)'
      BY DEF Attended
    <3>1. stage[t] = "call"
      BY <2>1 DEF Q!PushBack, DInv, Doing
    <3>2. stage[Owner] # "alive"
      BY <1>1, <1>5, <1>6 DEF LeftDone, DoneAfter
    <3>3. t \in Worker
      BY <3>1, <3>2 DEF DInv, Quiet, IInv, Roles, Thread
    <3> QED BY <1>1, <3>1, <3>3 DEF Searches
  <2>2. CASE ~ Q!PushBack(t)
    <3>1. \A q \in Worker : m_buffer'[q] # <<>> => m_buffer[q] # <<>>
      BY <2>2, ContinueMoves DEF IInv, QueueInv, QP!TypeOK, Q!GetFrontElement
    <3>2. ASSUME NEW w \in Worker, NEW q \in Worker, Searches(w, q), m_buffer[q] # <<>>
          PROVE  Searches(w, q)'
      <4>0. w \in Thread
        BY DEF Thread
      <4>1. CASE w # t
        <5>1. Ahead(w, q) => Ahead(w, q)'
          BY <1>1 DEF Ahead
        <5>2. pc[w] = "take" => pc'[w] = "take"
          BY <1>2, <4>0, <4>1
        <5> QED BY <1>1, <1>2, <3>2, <4>0, <4>1, <5>1, <5>2 DEF Searches
      <4>2. CASE w = t
        <5>1. stage[w] # "run"
          BY <1>1, <4>0, <4>2 DEF IInv, Outside
        <5>2. CASE stage[w] = "call"
          BY <1>1, <5>2 DEF Searches
        <5>3. CASE stage[w] = "find" /\ Ahead(w, q)
          BY <1>1, <5>3 DEF Searches, Ahead
        <5>4. CASE stage[w] = "find" /\ element[w] # NoTask
          <6>1. pc[w] \in {"take"} \cup PopState
            <7>1. pc[w] \in QP!Label
              BY <4>0 DEF IInv, QueueInv, QP!TypeOK
            <7> QED BY <1>1, <4>0, <4>2, <5>4, <7>1 DEF DInv, Doing, PopState, QP!Label, QP!Critical
          <6>2. element[w] = NoTask
            BY <4>0, <6>1 DEF IInv, QueueInv, QP!InCall, PopState
          <6> QED BY <5>4, <6>2
        <5>5. CASE stage[w] = "find" /\ pc[w] = "take" /\ at[w] = q
          <6>1. Q!GetFrontElement(t)
            BY <2>2, <3>2, <4>2, <5>5, ContinueMoves DEF IInv
          <6>2. element'[w] = Head(m_buffer[q]) /\ m_buffer[q] \in Seq(Task)
            BY <4>0, <4>2, <5>5, <6>1 DEF Q!GetFrontElement, IInv, QueueInv, QP!TypeOK
          <6>3. Head(m_buffer[q]) \in Task
            BY <3>2, <6>2
          <6> QED BY <1>1, <5>5, <6>2, <6>3, NoTaskAssumption DEF Searches
        <5> QED BY <3>2, <5>1, <5>2, <5>3, <5>4, <5>5 DEF Searches
      <4> QED BY <4>1, <4>2
    <3> SUFFICES ASSUME NEW q \in Worker, Left(q)', m_buffer'[q] # <<>>
                 PROVE  \E w \in Worker : Searches(w, q)'
      BY DEF Attended
    <3>3. Left(q) /\ m_buffer[q] # <<>>
      BY <1>4, <3>1
    <3>4. PICK w \in Worker : Searches(w, q)
      BY <3>3 DEF DInv, Attended
    <3> QED BY <3>2, <3>3, <3>4
  <2> QED BY <2>1, <2>2
<1> QED BY <1>3, <1>5, <1>6, <1>7 DEF DInv

LEMMA CallDInv ==
    ASSUME IInv, DInv, NEW t \in Client \cup Worker, NEW k \in Task, Call(t, k)
    PROVE  DInv'
<1>1. /\ t \in Thread /\ t # Owner /\ Worker \subseteq Thread
      /\ pc[t] = "idle" /\ stage[t] \in {"client", "run"} /\ stage'[t] = "call"
      /\ \A u \in Thread \ {t} : stage'[u] = stage[u] /\ index'[u] = index[u]
                                 /\ element'[u] = element[u]
      /\ UNCHANGED <<m_buffer, m_done, pc, at, completed>> /\ called' = called \cup {k}
  BY WorkerFacts, ThreadAssumption
     DEF Call, MayCall, Move, SetIndex, IInv, Outside, SchedulerType, QueueInv, QP!TypeOK, Thread
<1>2. stage'[Owner] = stage[Owner] /\ index'[Owner] = index[Owner]
  BY <1>1 DEF Thread
<1>3. Doing'
  BY <1>1 DEF DInv, Doing, PopState
<1>4. \A w \in Worker : Left(w)' => Left(w)
  BY <1>1 DEF Left
<1>5. LeftDone' /\ DoneAfter'
  BY <1>1, <1>2, <1>4 DEF DInv, LeftDone, DoneAfter
<1>6. Quiet'
  <2>1. stage[Owner] # "alive" => t \notin Client
    BY DEF Call, MayCall, DInv, Quiet
  <2> QED BY <1>1, <1>2, <2>1 DEF DInv, Quiet, Thread
<1>7. Joined'
  <2>1. t \in Worker => stage[t] # "exited"
    BY <1>1
  <2> QED BY <1>1, <1>2, <2>1 DEF DInv, Joined
<1>8. Nested'
  BY <1>1 DEF DInv, Nested
<1>9. \A w, q \in Worker : Searches(w, q) => Searches(w, q)'
  <2>1. \A q \in Worker : t \in Worker => Searches(t, q)'
    BY <1>1 DEF Searches
  <2> QED BY <1>1, <2>1, SearchesKept
<1>10. Attended'
  BY <1>1, <1>4, <1>9, AttendedKept DEF DInv
<1> QED BY <1>3, <1>5, <1>6, <1>7, <1>8, <1>10 DEF DInv

LEMMA CallStepDInv ==
    ASSUME IInv, DInv, NEW t \in Client \cup Worker, CallStep(t)
    PROVE  DInv'
<1>1. /\ t \in Thread /\ t # Owner /\ Worker \subseteq Thread /\ Owner \in Thread
      /\ stage[t] = "call" /\ stage'[t] \in {"call", "run", "client"}
      /\ t \in Worker => stage'[t] \in {"call", "run"}
      /\ pc'[t] \in {pc[t], "append"} /\ (stage'[t] # "call" => pc'[t] = "idle")
      /\ pc'[t] = "append" => stage'[t] = "call"
      /\ \A u \in Thread \ {t} : stage'[u] = stage[u] /\ index'[u] = index[u]
                                 /\ pc'[u] = pc[u] /\ at'[u] = at[u]
      /\ UNCHANGED <<m_buffer, m_done, element, completed, called>>
  <2>1. /\ t \in Thread /\ t # Owner /\ Worker \subseteq Thread /\ Owner \in Thread
    BY WorkerFacts, ThreadAssumption DEF Thread
  <2>2. CASE CallTryPush(t)
    BY <2>1, <2>2 DEF CallTryPush, Q!TryPush, Q!TryLock, Q!Lock, Q!Enter, SetIndex, IInv,
       SchedulerType, QueueInv, QP!TypeOK, callVars
  <2>3. CASE CallPush(t)
    BY <2>1, <2>3 DEF CallPush, Q!Push, Q!Lock, Q!Enter, IInv, SchedulerType, QueueInv,
       QP!TypeOK, callVars
  <2>4. CASE CallReturn(t)
    BY <2>1, <2>4 DEF CallReturn, Move, SetIndex, IInv, SchedulerType, queueVars
  <2> QED BY <2>1, <2>2, <2>3, <2>4 DEF CallStep
<1>2. stage'[Owner] = stage[Owner] /\ index'[Owner] = index[Owner]
  BY <1>1
<1>3. Doing'
  BY <1>1 DEF DInv, Doing, PopState
<1>4. \A w \in Worker : Left(w)' => Left(w)
  BY <1>1 DEF Left
<1>5. LeftDone' /\ DoneAfter'
  BY <1>1, <1>2, <1>4 DEF DInv, LeftDone, DoneAfter
<1>6. Quiet'
  <2>1. stage[Owner] # "alive" => t \notin Client
    BY <1>1 DEF DInv, Quiet
  <2> QED BY <1>1, <1>2, <2>1 DEF DInv, Quiet, Thread
<1>7. Joined'
  BY <1>1, <1>2 DEF DInv, Joined
<1>8. Nested'
  BY <1>1 DEF DInv, Nested
<1>9. \A w, q \in Worker : Searches(w, q) => Searches(w, q)'
  <2>1. \A q \in Worker : t \in Worker => Searches(t, q)'
    BY <1>1 DEF Searches
  <2> QED BY <1>1, <2>1, SearchesKept
<1>10. Attended'
  BY <1>1, <1>4, <1>9, AttendedKept DEF DInv
<1> QED BY <1>3, <1>5, <1>6, <1>7, <1>8, <1>10 DEF DInv

\* Nobody but a worker that will look into deque q itself keeps its mutex once
\* worker q has left it.
LEMMA LockedByOther ==
    ASSUME IInv, DInv, NEW q \in Worker, Left(q), m_mutex[q] # NoThread
    PROVE  \E u \in Worker : pc[u] # "idle" /\ Searches(u, q)
<1>1. m_mutex[q] \in Thread
  BY DEF IInv, QueueInv, QP!TypeOK
<1>2. PICK u \in Thread : m_mutex[q] = u
  BY <1>1
<1>3. pc[u] \in Q!Critical /\ at[u] = q
  BY <1>2, SameMutex DEF IInv, QueueInv, MutexDiscipline, Q!MutexDiscipline
<1>4. stage[Owner] # "alive"
  BY DEF DInv, LeftDone, DoneAfter
<1>5. CASE pc[u] = "append"
  <2>1. stage[u] = "call"
    BY <1>5 DEF DInv, Doing
  <2>2. u \in Worker
    BY <1>4, <2>1 DEF DInv, Quiet, IInv, Roles, Thread
  <2> QED BY <1>5, <2>1, <2>2 DEF Searches
<1>6. CASE pc[u] = "take"
  <2>1. stage[u] = "find"
    BY <1>6 DEF DInv, Doing
  <2>2. u \in Worker
    BY <2>1 DEF IInv, Roles, Thread
  <2> QED BY <1>3, <1>6, <2>1, <2>2 DEF Searches
<1>7. CASE pc[u] \in PopState
  <2>1. u = q
    BY <1>3, <1>7 DEF IInv, PopOwn
  <2>2. stage[q] = "find" /\ pc[q] # "idle"
    BY <1>7, <2>1 DEF DInv, Doing, PopState
  <2> QED BY <2>2 DEF Left
<1>8. pc[u] # "size"
  BY DEF DInv, Doing
<1> QED BY <1>3, <1>5, <1>6, <1>7, <1>8 DEF Q!Critical, PopState

LEMMA WorkerStepDInv ==
    ASSUME IInv, DInv, NEW w \in Worker, WorkerStep(w)
    PROVE  DInv'
<1>1. w \in Thread /\ w # Owner /\ Worker \subseteq Thread /\ Owner \in Thread /\ w \notin Client
  BY WorkerFacts DEF Thread
<1>2. /\ index[w] \in Nat /\ WorkerCount \in Nat
      /\ \A i \in Worker : i \in Nat /\ i < WorkerCount
  BY <1>1, WorkerCountAssumption DEF IInv, SchedulerType, Worker
\* What every step of a worker leaves alone.
<1>3. /\ UNCHANGED <<m_buffer, m_done, called>>
      /\ \A u \in Thread \ {w} : stage'[u] = stage[u] /\ index'[u] = index[u]
              /\ element'[u] = element[u] /\ pc'[u] = pc[u] /\ at'[u] = at[u]
  <2>1. CASE FindTryPop(w)
    BY <1>1, <2>1 DEF FindTryPop, Q!TryPop, Q!TryLock, Q!Enter, SetIndex, IInv,
       SchedulerType, QueueInv, QP!TypeOK, callVars
  <2>2. CASE FindPop(w)
    BY <1>1, <2>2 DEF FindPop, Q!Pop, Q!Enter, SetIndex, IInv, SchedulerType, QueueInv,
       QP!TypeOK, callVars
  <2>3. CASE StartTask(w) \/ FinishTask(w) \/ Exit(w)
    BY <1>1, <2>3 DEF StartTask, FinishTask, Exit, Move, SetIndex, IInv, SchedulerType,
       QueueInv, QP!TypeOK, callVars, queueVars
  <2> QED BY <2>1, <2>2, <2>3 DEF WorkerStep
<1>4. stage'[Owner] = stage[Owner] /\ index'[Owner] = index[Owner]
  BY <1>1, <1>3
<1>5. DoneAfter' /\ Quiet'
  BY <1>1, <1>3, <1>4 DEF DInv, DoneAfter, Quiet, Thread
<1>6. \A v \in Worker \ {w} : /\ Left(v)' => Left(v)
                              /\ \A q \in Worker : Searches(v, q) => Searches(v, q)'
  BY <1>1, <1>3, SearchesKept DEF Left
<1>7. CASE FindTryPop(w)
  <2> DEFINE r == (w + index[w]) % WorkerCount
  <2>1. /\ stage[w] = "find" /\ index[w] < WorkerCount /\ pc[w] = "idle" /\ element[w] = NoTask
        /\ stage'[w] = "find" /\ index'[w] = index[w] + 1 /\ element'[w] = NoTask
        /\ completed' = completed
        /\ \/ pc'[w] = "take" /\ at'[w] = r
           \/ m_mutex[r] # NoThread /\ pc'[w] = "idle"
    BY <1>1, <1>7 DEF FindTryPop, Q!TryPop, Q!TryLock, Q!Lock, Q!Enter, SetIndex, IInv,
       SchedulerType, QueueInv, QP!TypeOK
  <2>2. Doing'
    BY <1>1, <1>2, <1>3, <2>1 DEF DInv, Doing, PopState
  <2>3. ~ Left(w)'
    BY <1>2, <2>1 DEF Left
  <2>4. LeftDone'
    BY <1>3, <1>6, <2>3 DEF DInv, LeftDone
  <2>5. Joined' /\ Nested'
    BY <1>1, <1>3, <1>4, <2>1 DEF DInv, Joined, Nested
  <2>6. ASSUME NEW q \in Worker, Left(q)', m_buffer'[q] # <<>>
        PROVE  \E v \in Worker : Searches(v, q)'
    <3>1. Left(q) /\ m_buffer[q] # <<>>
      BY <1>3, <1>6, <2>3, <2>6
    <3>2. PICK v \in Worker : Searches(v, q)
      BY <3>1 DEF DInv, Attended
    <3>3. CASE v = w
      <4>1. PICK i \in Worker : q = (w + i) % WorkerCount /\ index[w] <= i
        BY <2>1, <3>2, <3>3 DEF Searches, Ahead
      <4>2. CASE index[w] + 1 <= i
        BY <2>1, <4>1, <4>2 DEF Searches, Ahead
      <4>3. CASE index[w] = i
        <5>1. q = r
          BY <4>1, <4>3
        <5>2. CASE pc'[w] = "take" /\ at'[w] = r
          BY <2>1, <5>1, <5>2 DEF Searches
        <5>3. CASE m_mutex[r] # NoThread
          <6>1. PICK u \in Worker : pc[u] # "idle" /\ Searches(u, q)
            BY <3>1, <5>1, <5>3, LockedByOther
          <6> QED BY <1>6, <2>1, <6>1
        <5> QED BY <2>1, <5>2, <5>3
      <4> QED BY <1>2, <4>1, <4>2, <4>3
    <3> QED BY <1>6, <3>2, <3>3
  <2> QED BY <1>5, <2>2, <2>4, <2>5, <2>6 DEF DInv, Attended
<1>8. CASE FindPop(w)
  <2>1. /\ stage[w] = "find" /\ index[w] = WorkerCount /\ pc[w] = "idle" /\ element[w] = NoTask
        /\ stage'[w] = "find" /\ index'[w] = WorkerCount + 1 /\ pc'[w] = "check"
        /\ completed' = completed
    BY <1>1, <1>8 DEF FindPop, Q!Pop, Q!Enter, SetIndex, IInv, SchedulerType, QueueInv,
       QP!TypeOK
  <2>2. Doing'
    BY <1>1, <1>3, <2>1 DEF DInv, Doing, PopState
  <2>3. ~ Left(w)'
    BY <2>1 DEF Left
  <2>4. LeftDone'
    BY <1>3, <1>6, <2>3 DEF DInv, LeftDone
  <2>5. Joined' /\ Nested'
    BY <1>1, <1>3, <1>4, <2>1 DEF DInv, Joined, Nested
  <2>6. \A q \in Worker : ~ Searches(w, q)
    BY <1>2, <2>1 DEF Searches, Ahead
  <2>7. Attended'
    BY <1>3, <1>6, <2>3, <2>6, AttendedKept DEF DInv
  <2> QED BY <1>5, <2>2, <2>4, <2>5, <2>7 DEF DInv
<1>9. CASE StartTask(w)
  <2>1. stage'[w] = "run" /\ pc'[w] = "idle" /\ completed' = completed
    BY <1>1, <1>9 DEF StartTask, Move, IInv, SchedulerType
  <2>2. Doing'
    BY <1>1, <1>3, <2>1 DEF DInv, Doing, PopState
  <2>3. ~ Left(w)' /\ stage[w] # "exited"
    BY <1>9, <2>1 DEF Left, StartTask
  <2>4. LeftDone'
    BY <1>3, <1>6, <2>3 DEF DInv, LeftDone
  <2>5. Joined' /\ Nested'
    BY <1>1, <1>3, <1>4, <2>1, <2>3 DEF DInv, Joined, Nested
  <2>6. \A q \in Worker : Searches(w, q)'
    BY <2>1 DEF Searches
  <2>7. Attended'
    BY <1>3, <1>6, <2>3, <2>6, AttendedKept DEF DInv
  <2> QED BY <1>5, <2>2, <2>4, <2>5, <2>7 DEF DInv
<1>10. CASE FinishTask(w)
  <2>1. /\ stage[w] = "run" /\ stage'[w] = "find" /\ pc'[w] = "idle" /\ index'[w] = 0
        /\ completed' = completed \cup {running[w]}
        /\ \A k \in Task : Caller[k] = running[w] => k \in called
    BY <1>1, <1>10 DEF FinishTask, MayCall, Move, IInv, SchedulerType, Outside, Bounds, queueVars
  <2>2. Doing'
    BY <1>1, <1>3, <2>1 DEF DInv, Doing, PopState
  <2>3. ~ Left(w)'
    BY <1>2, <2>1 DEF Left
  <2>4. LeftDone'
    BY <1>3, <1>6, <2>3 DEF DInv, LeftDone
  <2>5. Joined'
    BY <1>1, <1>3, <1>4, <2>1 DEF DInv, Joined
  <2>6. Nested'
    BY <1>3, <2>1 DEF DInv, Nested
  <2>7. \A q \in Worker : Searches(w, q)'
    <3>1. \A i \in Worker : 0 <= i
      BY <1>2
    <3> QED BY <2>1, <3>1, EveryDeque DEF Searches, Ahead
  <2>8. Attended'
    BY <1>3, <1>6, <2>3, <2>7, AttendedKept DEF DInv
  <2> QED BY <1>5, <2>2, <2>4, <2>5, <2>6, <2>8 DEF DInv
<1>11. CASE Exit(w)
  <2>1. /\ stage[w] = "find" /\ pc[w] = "idle" /\ element[w] = NoTask
        /\ index[w] = WorkerCount + 1 /\ stage'[w] = "exited" /\ pc'[w] = "idle"
        /\ completed' = completed
    BY <1>1, <1>11 DEF Exit, Move, IInv, SchedulerType, queueVars
  <2>2. Doing'
    BY <1>1, <1>3, <2>1 DEF DInv, Doing, PopState
  <2>3. Left(w)
    BY <2>1 DEF Left
  <2>4. LeftDone'
    BY <1>3, <1>6, <2>3 DEF DInv, LeftDone
  <2>5. Joined' /\ Nested'
    BY <1>1, <1>3, <1>4, <2>1 DEF DInv, Joined, Nested
  <2>6. \A q \in Worker : ~ Searches(w, q)
    BY <1>2, <2>1 DEF Searches, Ahead
  <2>7. Attended'
    BY <1>3, <1>6, <2>3, <2>6, AttendedKept DEF DInv
  <2> QED BY <1>5, <2>2, <2>4, <2>5, <2>7 DEF DInv
<1> QED BY <1>7, <1>8, <1>9, <1>10, <1>11 DEF WorkerStep

LEMMA OwnerStepDInv ==
    ASSUME IInv, DInv, Destroy \/ OwnerStep
    PROVE  DInv'
<1>1. Owner \in Thread /\ Owner \notin Worker /\ Owner \notin Client /\ Worker \subseteq Thread
  BY WorkerFacts, ThreadAssumption DEF Thread
<1>2. index[Owner] \in Nat /\ WorkerCount \in Nat /\ \A w \in Worker : w \in Nat
  BY <1>1, WorkerCountAssumption, WorkerFacts DEF IInv, SchedulerType
<1>3. /\ UNCHANGED <<m_buffer, called, completed, element>>
      /\ stage'[Owner] # "alive"
      /\ \A w \in Worker : m_done[w] => m_done'[w]
      /\ \A u \in Thread \ {Owner} : stage'[u] = stage[u] /\ index'[u] = index[u]
              /\ pc'[u] = pc[u] /\ at'[u] = at[u]
      /\ pc'[Owner] \in {"idle", "notifyAll"}
      /\ pc'[Owner] = "notifyAll" => stage'[Owner] = "destroying"
  <2>1. CASE Destroy
    BY <1>1, <2>1 DEF Destroy, Move, IInv, Outside, SchedulerType, queueVars, callVars
  <2>2. CASE DestroyDone
    BY <1>1, <2>2 DEF DestroyDone, Q!Done, Q!Enter, SetIndex, IInv, SchedulerType, QueueInv,
       QP!TypeOK, callVars
  <2>3. CASE DestroyJoin
    BY <1>1, <2>3 DEF DestroyJoin, Move, SetIndex, IInv, SchedulerType, queueVars, callVars
  <2>4. CASE Join
    BY <1>1, <2>4 DEF Join, SetIndex, IInv, Outside, SchedulerType, queueVars, callVars
  <2>5. CASE Destroyed
    BY <1>1, <2>5 DEF Destroyed, Move, SetIndex, IInv, Outside, SchedulerType, queueVars, callVars
  <2> QED BY <2>1, <2>2, <2>3, <2>4, <2>5 DEF OwnerStep
<1>4. Doing'
  BY <1>1, <1>3 DEF DInv, Doing, PopState
<1>5. \A w \in Worker : Left(w)' => Left(w)
  BY <1>1, <1>3 DEF Left
<1>6. LeftDone' /\ DoneAfter'
  BY <1>3, <1>5 DEF DInv, LeftDone, DoneAfter
<1>7. Quiet'
  <2>1. \A c \in Client : stage[c] = "client" /\ \A k \in Task : Caller[k] = c => k \in called
    <3>1. CASE stage[Owner] # "alive"
      BY <3>1 DEF DInv, Quiet
    <3>2. CASE stage[Owner] = "alive"
      BY <3>2 DEF Destroy, OwnerStep, DestroyDone, DestroyJoin, Join, Destroyed,
         ClientsFinished, MayCall
    <3> QED BY <3>1, <3>2
  <2> QED BY <1>1, <1>3, <2>1 DEF Quiet, Thread
<1>8. Joined'
  <2>1. CASE Destroy \/ DestroyDone
    BY <1>1, <2>1 DEF Destroy, DestroyDone, Move, Joined, IInv, SchedulerType
  <2>2. CASE DestroyJoin
    <3>1. stage'[Owner] = "joining" /\ index'[Owner] = 0
      BY <1>1, <2>2 DEF DestroyJoin, Move, SetIndex, IInv, SchedulerType
    <3> QED BY <1>2, <3>1 DEF Joined
  <2>3. CASE Join
    <3>1. /\ stage'[Owner] = "joining" /\ index'[Owner] = index[Owner] + 1
          /\ stage[Owner] = "joining" /\ stage[index[Owner]] = "exited"
      BY <1>1, <2>3 DEF Join, SetIndex, IInv, SchedulerType
    <3>2. ASSUME NEW w \in Worker, w < index[Owner] + 1 PROVE stage[w] = "exited"
      <4>1. w < index[Owner] \/ w = index[Owner]
        BY <1>2, <3>2
      <4> QED BY <3>1, <4>1 DEF DInv, Joined
    <3> QED BY <1>1, <1>3, <3>1, <3>2 DEF Joined
  <2>4. CASE Destroyed
    <3>1. stage'[Owner] = "destroyed" /\ stage[Owner] = "joining" /\ index[Owner] = WorkerCount
      BY <1>1, <2>4 DEF Destroyed, Move, IInv, SchedulerType
    <3>2. \A w \in Worker : w < index[Owner]
      BY <3>1, WorkerCountAssumption DEF Worker
    <3> QED BY <1>1, <1>3, <3>1, <3>2 DEF DInv, Joined
  <2> QED BY <2>1, <2>2, <2>3, <2>4 DEF OwnerStep
<1>9. Nested'
  BY <1>3 DEF DInv, Nested
<1>10. \A w, q \in Worker : Searches(w, q) => Searches(w, q)'
  BY <1>1, <1>3, SearchesKept
<1>11. Attended'
  BY <1>3, <1>5, <1>10, AttendedKept DEF DInv
<1> QED BY <1>4, <1>6, <1>7, <1>8, <1>9, <1>11 DEF DInv

LEMMA InitDInv == Init => DInv
<1> SUFFICES ASSUME Init PROVE DInv
  OBVIOUS
<1>1. Worker \subseteq Thread /\ Owner \in Thread /\ Owner \notin Worker
  BY WorkerFacts DEF Thread
<1>2. /\ pc = [t \in Thread |-> "idle"] /\ m_buffer = [q \in Worker |-> <<>>]
      /\ m_done = [q \in Worker |-> FALSE] /\ called = {} /\ completed = {}
      /\ stage[Owner] = "alive" /\ index = [t \in Thread |-> 0]
      /\ \A w \in Worker : stage[w] = "find"
  BY <1>1 DEF Init, Q!Init
<1>3. Doing /\ DoneAfter /\ Quiet /\ Attended /\ Joined /\ Nested
  BY <1>1, <1>2 DEF Doing, PopState, DoneAfter, Quiet, Attended, Joined, Nested
<1>4. LeftDone
  <2>1. WorkerCount + 1 # 0
    BY WorkerCountAssumption
  <2> QED BY <1>1, <1>2, <2>1 DEF LeftDone, Left
<1> QED BY <1>3, <1>4 DEF DInv

LEMMA NextDInv == IInv /\ DInv /\ [Next]_vars => DInv'
<1> SUFFICES ASSUME IInv, DInv, [Next]_vars PROVE DInv'
  OBVIOUS
<1>1. ASSUME NEW t \in Client \cup Worker, NEW k \in Task, Call(t, k) PROVE DInv'
  BY <1>1, CallDInv
<1>2. ASSUME NEW t \in Client \cup Worker, CallStep(t) PROVE DInv'
  BY <1>2, CallStepDInv
<1>3. ASSUME NEW w \in Worker, WorkerStep(w) PROVE DInv'
  BY <1>3, WorkerStepDInv
<1>4. CASE Destroy \/ OwnerStep
  BY <1>4, OwnerStepDInv
<1>5. ASSUME NEW t \in Thread, QueueStep(t) PROVE DInv'
  BY <1>5, QueueStepDInv DEF QueueStep
<1>6. ASSUME NEW w \in Worker, SpuriousWakeup(w) PROVE DInv'
  BY <1>6, QueueStepDInv DEF SpuriousWakeup, Thread
<1>7. CASE UNCHANGED vars
  <2>1. \A w \in Worker : Left(w)' = Left(w)
    BY <1>7 DEF vars, queueVars, Left
  <2>2. \A w, q \in Worker : Searches(w, q) => Searches(w, q)'
    BY <1>7, SearchesKept DEF vars, queueVars
  <2>3. Attended'
    BY <1>7, <2>1, <2>2, AttendedKept DEF vars, queueVars, DInv
  <2>4. Doing' /\ LeftDone' /\ DoneAfter' /\ Quiet' /\ Joined' /\ Nested'
    BY <1>7, <2>1 DEF vars, queueVars, callVars, DInv, Doing, LeftDone, DoneAfter, Quiet,
       Joined, Nested
  <2> QED BY <2>3, <2>4 DEF DInv
<1> QED BY <1>1, <1>2, <1>3, <1>4, <1>5, <1>6, <1>7 DEF Next

\* When all workers have left, nothing is left to do.
LEMMA AllDone ==
    ASSUME IInv, Once, DInv, stage[Owner] # "alive", \A w \in Worker : stage[w] = "exited"
    PROVE  /\ completed = Task
           /\ \A t \in Thread \ {Owner} : pc[t] = "idle"
<1>1. \A t \in Thread \ {Owner} : pc[t] = "idle" /\ element[t] = NoTask
  BY DEF DInv, Quiet, IInv, Outside, Thread
<1>2. \A k \in Task : ~ InHand(k)
  BY <1>1, NoTaskAssumption DEF InHand, IInv, OwnerOnlyNotifies
<1>3. \A k \in Task : ~ Runs(k)
  BY NoTaskAssumption DEF Once, Free, Runs
<1>4. \A q \in Worker : m_buffer[q] = <<>>
  BY DEF DInv, Attended, Left, Searches
<1>5. \A k \in Task : ~ Queued(k)
  BY <1>4 DEF Queued
<1>6. \A k \in Task : k \in called <=> k \in completed
  BY <1>2, <1>3, <1>5 DEF Once, Placed
<1>7. \A k \in Task : Caller[k] \in Client \cup completed => k \in completed
  BY <1>6 DEF DInv, Quiet, Nested
<1>8. completed \in SUBSET Task
  BY DEF IInv, SchedulerType
<1> QED BY <1>1, <1>7, <1>8, CallerFounded

LEMMA IInvDestroyedClean == IInv /\ Once /\ DInv => DestroyedClean
<1> SUFFICES ASSUME IInv, Once, DInv, stage[Owner] = "destroyed"
             PROVE  completed = Task /\ \A t \in Thread : pc[t] = "idle"
  BY DEF DestroyedClean
<1>1. \A w \in Worker : stage[w] = "exited"
  BY DEF DInv, Joined
<1>2. pc[Owner] = "idle"
  BY DEF IInv, Outside, Thread
<1> QED BY <1>1, <1>2, AllDone

\* ~TaskScheduler() abandons no task and leaves nobody inside a queue, for any
\* number of workers: stealing makes up for the deques whose worker has left.
THEOREM DestroyedCleanCorrect == Spec => []DestroyedClean
BY IInvDestroyedClean, InitIInv, NextIInv, InitOnce, NextOnce, InitDInv, NextDInv, PTL DEF Spec


----------------------------------------------------------------------------
(***************************************************************************)
(* The fourth part. PoolStatus is the status of the refinement mapping;    *)
(* a worker has Found a task when it took it out of a deque and is still   *)
(* in findTask().                                                          *)
(***************************************************************************)
Found(k) == \E w \in Worker : stage[w] = "find" /\ element[w] = k

Status(k) ==
    IF k \in completed THEN "done"
    ELSE IF Runs(k) THEN "running"
    ELSE IF Queued(k) THEN "queued"
    ELSE IF Found(k) THEN "running"
    ELSE "new"

PoolStatus == [k \in Task |-> Status(k)]
PoolDestroyed == stage[Owner] = "destroyed"

\* The invariant of the refinement.
PInv == IInv /\ Once /\ DInv

LEMMA Mapping ==
    /\ Pool!Init <=> PoolStatus = [k \in Task |-> "new"] /\ PoolDestroyed = FALSE
    /\ Pool!Idle <=> \A k \in Task : PoolStatus[k] \in {"new", "done"}
    /\ \A k \in Task : \A from, to :
          Pool!Advance(k, from, to) <=>
             /\ ~ PoolDestroyed /\ PoolStatus[k] = from
             /\ PoolStatus' = [PoolStatus EXCEPT ![k] = to]
             /\ UNCHANGED PoolDestroyed
    /\ Pool!Destroy <=> Pool!Idle /\ PoolDestroyed' = TRUE /\ UNCHANGED PoolStatus
    /\ UNCHANGED Pool!vars <=> UNCHANGED <<PoolStatus, PoolDestroyed>>
<1>1. ASSUME NEW k \in Task
      PROVE  Status(k) = IF k \in completed THEN "done"
                         ELSE IF \E w \in Worker : running[w] = k THEN "running"
                         ELSE IF \E w \in Worker : QueuedIn(w, k) THEN "queued"
                         ELSE IF \E w \in Worker : stage[w] = "find" /\ element[w] = k
                           THEN "running"
                         ELSE "new"
  BY DEF Status, Runs, Queued, QueuedIn, Found
<1> QED BY <1>1 DEF Pool!Init, Pool!Idle, Pool!Advance, Pool!Destroy, Pool!vars, PoolStatus, PoolDestroyed, Status, Runs, Queued, QueuedIn, Found

\* A step after which only task e has another status, and one after which none
\* has.
LEMMA MoveOne ==
    ASSUME NEW e \in Task, NEW from, NEW to, ~ PoolDestroyed, UNCHANGED PoolDestroyed,
           Status(e) = from, Status(e)' = to, \A k \in Task \ {e} : Status(k)' = Status(k)
    PROVE  Pool!Advance(e, from, to)
<1>1. PoolStatus[e] = from /\ PoolStatus' = [PoolStatus EXCEPT ![e] = to]
  BY DEF PoolStatus
<1> QED BY <1>1, Mapping

LEMMA MoveNone ==
    ASSUME \A k \in Task : Status(k)' = Status(k), UNCHANGED PoolDestroyed
    PROVE  UNCHANGED Pool!vars
<1>1. UNCHANGED PoolStatus
  BY DEF PoolStatus
<1> QED BY <1>1, Mapping

LEMMA PlacesKept ==
    ASSUME NEW k \in Task, k \in completed' <=> k \in completed,
           Runs(k)' <=> Runs(k), Queued(k)' <=> Queued(k), Found(k)' <=> Found(k)
    PROVE  Status(k)' = Status(k)
BY DEF Status

\* As long as somebody does something the pool exists.
LEMMA Exists ==
    ASSUME PInv, \/ \E w \in Worker : stage[w] # "exited"
                 \/ \E t \in Thread \ {Owner} : pc[t] # "idle"
    PROVE  ~ PoolDestroyed
<1>1. PoolDestroyed => \A w \in Worker : stage[w] = "exited"
  BY DEF PInv, DInv, Joined, PoolDestroyed
<1>2. PoolDestroyed => stage[Owner] # "alive"
  BY DEF PoolDestroyed
<1> QED BY <1>1, <1>2, AllDone DEF PInv

\* push_back is Submit.
LEMMA PushBackPool ==
    ASSUME PInv, NEW t \in Thread, Q!PushBack(t), UNCHANGED <<stage, running, completed>>
    PROVE  \E k \in Task : Pool!Submit(k)
<1>0. PICK e \in Task : e = element[t]
  BY DEF Q!PushBack, PInv, IInv, QueueInv, QP!InCall
<1>1. /\ at[t] \in Worker /\ element[t] = e /\ stage[t] = "call" /\ pc[t] = "append"
      /\ m_buffer' = [m_buffer EXCEPT ![at[t]] = Append(@, e)]
      /\ element' = [element EXCEPT ![t] = NoTask]
  BY <1>0 DEF Q!PushBack, PInv, IInv, QueueInv, QP!InCall, DInv, Doing
<1>2. InHand(e) /\ \A u \in Thread : element[u] = e => u = t
  BY <1>1 DEF InHand, PInv, Once, HandsDiffer
<1>3. ~ Queued(e) /\ ~ Runs(e) /\ e \notin completed
  BY <1>1, <1>2 DEF PInv, Once, Placed
<1>4. ~ Found(e)
  BY <1>1, <1>2 DEF Found, Thread
<1>5. Status(e) = "new"
  BY <1>3, <1>4 DEF Status
<1>6. \A k \in Task : Queued(k)' <=> Queued(k) \/ k = e
  BY <1>1, <1>3, PlaceTypes, QueueOn DEF PInv, Once
<1>7. \A k \in Task : Runs(k)' <=> Runs(k)
  BY DEF Runs
<1>8. \A k \in Task : Found(k)' <=> Found(k)
  <2>1. \A w \in Worker : stage[w] = "find" => element'[w] = element[w]
    BY <1>1 DEF PInv, IInv, QueueInv, QP!TypeOK, Thread
  <2> QED BY <2>1 DEF Found
<1>9. Status(e)' = "queued"
  BY <1>1, <1>3, <1>6, <1>7 DEF Status
<1>10. \A k \in Task \ {e} : Status(k)' = Status(k)
  BY <1>6, <1>7, <1>8, PlacesKept
<1>11. ~ PoolDestroyed /\ UNCHANGED PoolDestroyed
  <2>1. t # Owner
    BY <1>1 DEF PInv, IInv, Roles
  <2> QED BY <1>1, <2>1, Exists DEF PoolDestroyed
<1>12. Pool!Advance(e, "new", "queued")
  BY <1>1, <1>5, <1>9, <1>10, <1>11, MoveOne
<1> QED BY <1>1, <1>12 DEF Pool!Submit

\* Taking a task out of a deque is Start.
LEMMA GetPool ==
    ASSUME PInv, NEW t \in Thread, pc[t] \in {"take", "check"}, at[t] \in Worker,
           element[t] = NoTask, m_buffer[at[t]] # <<>>, Q!GetFrontElement(t),
           UNCHANGED <<stage, running, completed>>
    PROVE  \E k \in Task : Pool!Start(k)
<1>0. PICK e \in Task : e = Head(m_buffer[at[t]])
  BY PlaceTypes DEF PInv
<1>1. /\ element' = [element EXCEPT ![t] = e] /\ element \in [Thread -> Task \cup {NoTask}]
      /\ m_buffer' = [m_buffer EXCEPT ![at[t]] = Tail(@)]
  BY <1>0, PlaceTypes DEF Q!GetFrontElement, PInv
<1>2. /\ Queued(e)
      /\ \A k \in Task : Queued(k)' <=> Queued(k) /\ k # e
  BY <1>0, <1>1, PlaceTypes, QueueOff DEF PInv, Once
<1>3. ~ InHand(e) /\ ~ Runs(e) /\ e \notin completed
  BY <1>2 DEF PInv, Once, Placed
<1>4. t \in Worker /\ stage[t] = "find"
  BY DEF PInv, DInv, Doing, PopState, IInv, Roles, Thread
<1>5. \A k \in Task : Runs(k)' <=> Runs(k)
  BY DEF Runs
<1>6. \A k \in Task : Found(k)' <=> Found(k) \/ k = e
  <2>1. element'[t] = e /\ \A w \in Worker \ {t} : element'[w] = element[w]
    BY <1>1 DEF Thread
  <2> QED BY <1>4, <2>1, NoTaskAssumption DEF Found
<1>7. Status(e) = "queued" /\ Status(e)' = "running"
  BY <1>2, <1>3, <1>5, <1>6 DEF Status
<1>8. \A k \in Task \ {e} : Status(k)' = Status(k)
  BY <1>2, <1>5, <1>6, PlacesKept
<1>9. ~ PoolDestroyed /\ UNCHANGED PoolDestroyed
  BY <1>4, Exists DEF PoolDestroyed
<1>10. Pool!Advance(e, "queued", "running")
  BY <1>2, <1>7, <1>8, <1>9, MoveOne
<1> QED BY <1>2, <1>10 DEF Pool!Start

LEMMA QueueStepPool ==
    ASSUME PInv, NEW t \in Thread, Q!Continue(t) \/ Q!SpuriousWakeup(t),
           UNCHANGED <<callVars, stage, index, running, completed>>
    PROVE  [Pool!Next]_(Pool!vars)
<1>1. CASE UNCHANGED <<m_buffer, element>>
  <2>1. \A k \in Task : Status(k)' = Status(k)
    BY <1>1 DEF Status, Runs, Queued, Found
  <2> QED BY <2>1, MoveNone DEF PoolDestroyed
<1>2. CASE Q!PushBack(t)
  BY <1>2, PushBackPool DEF Pool!Next
<1>3. CASE /\ pc[t] \in {"take", "check"} /\ at[t] \in Worker /\ element[t] = NoTask
           /\ m_buffer[at[t]] # <<>> /\ Q!GetFrontElement(t)
  BY <1>3, GetPool DEF Pool!Next
<1> QED BY <1>1, <1>2, <1>3, ContinueMoves DEF PInv, IInv

\* handleTask() ending is Finish; the other steps of a worker are not seen.
LEMMA WorkerStepPool ==
    ASSUME PInv, NEW w \in Worker, WorkerStep(w)
    PROVE  [Pool!Next]_(Pool!vars)
<1>1. w \in Thread /\ Worker \subseteq Thread /\ w # Owner /\ Owner \in Thread
  BY WorkerFacts DEF Thread
<1>2. UNCHANGED PoolDestroyed /\ UNCHANGED m_buffer
  BY <1>1 DEF WorkerStep, FindTryPop, FindPop, StartTask, FinishTask, Exit, Q!TryPop, Q!Pop, Move,
     PoolDestroyed, PInv, IInv, SchedulerType, queueVars
<1>3. CASE FindTryPop(w) \/ FindPop(w)
  <2>1. UNCHANGED <<stage, running, completed, element>>
    BY <1>3 DEF FindTryPop, FindPop, Q!TryPop, Q!Pop
  <2>2. \A k \in Task : Status(k)' = Status(k)
    BY <1>2, <2>1 DEF Status, Runs, Queued, Found
  <2> QED BY <1>2, <2>2, MoveNone
<1>4. CASE StartTask(w)
  <2>0. PICK e \in Task : e = element[w]
    BY <1>1, <1>4, PlaceTypes DEF StartTask, PInv
  <2>1. /\ e = element[w] /\ stage[w] = "find" /\ running[w] = NoTask
        /\ running' = [running EXCEPT ![w] = e] /\ element' = [element EXCEPT ![w] = NoTask]
        /\ completed' = completed /\ stage' = [stage EXCEPT ![w] = "run"]
        /\ stage \in [Thread -> Stage] /\ element \in [Thread -> Task \cup {NoTask}]
    BY <1>4, <2>0, PlaceTypes DEF StartTask, Move, PInv, IInv, SchedulerType, Once, Free
  <2>2. InHand(e) /\ Found(e)
    BY <1>1, <2>1 DEF InHand, Found
  <2>3. ~ Queued(e) /\ ~ Runs(e) /\ e \notin completed
    BY <2>1, <2>2 DEF PInv, Once, Placed
  <2>4. \A k \in Task : Runs(k)' <=> Runs(k) \/ k = e
    BY <2>1, <2>3, PlaceTypes, RunOn DEF PInv, Once
  <2>5. \A k \in Task : Queued(k)' <=> Queued(k)
    BY <1>2 DEF Queued
  <2>6. \A k \in Task \ {e} : Found(k)' <=> Found(k)
    <3>1. /\ stage'[w] = "run" /\ element[w] = e
          /\ \A v \in Worker \ {w} : stage'[v] = stage[v] /\ element'[v] = element[v]
      BY <1>1, <2>1
    <3> QED BY <3>1 DEF Found
  <2>7. Status(e) = "running" /\ Status(e)' = "running"
    BY <2>1, <2>2, <2>3, <2>4 DEF Status
  <2>8. \A k \in Task \ {e} : Status(k)' = Status(k)
    BY <2>1, <2>4, <2>5, <2>6, PlacesKept
  <2> QED BY <1>2, <2>7, <2>8, MoveNone
<1>5. CASE FinishTask(w)
  <2>0. PICK e \in Task : e = running[w]
    BY <1>5 DEF FinishTask, PInv, IInv, Executing
  <2>1. /\ e = running[w] /\ stage[w] = "run" /\ element[w] = NoTask
        /\ running' = [running EXCEPT ![w] = NoTask] /\ completed' = completed \cup {e}
        /\ element' = element /\ stage' = [stage EXCEPT ![w] = "find"]
        /\ stage \in [Thread -> Stage]
    BY <1>1, <1>5, <2>0 DEF FinishTask, Move, PInv, IInv, Executing, Outside, SchedulerType, queueVars
  <2>2. Runs(e) /\ ~ Queued(e) /\ e \notin completed
    <3>1. Runs(e)
      BY <2>1 DEF Runs
    <3> QED BY <2>1, <3>1 DEF PInv, Once, Placed
  <2>3. \A k \in Task : Runs(k)' <=> Runs(k) /\ k # e
    BY <2>1, PlaceTypes, RunOff DEF PInv, Once
  <2>4. \A k \in Task : Queued(k)' <=> Queued(k)
    BY <1>2 DEF Queued
  <2>5. \A k \in Task : Found(k)' <=> Found(k)
    <3>1. /\ element'[w] = NoTask /\ stage[w] # "find"
          /\ \A v \in Worker \ {w} : stage'[v] = stage[v] /\ element'[v] = element[v]
      BY <1>1, <2>1
    <3> QED BY <3>1, NoTaskAssumption DEF Found
  <2>6. Status(e) = "running" /\ Status(e)' = "done"
    BY <2>1, <2>2 DEF Status
  <2>7. \A k \in Task \ {e} : Status(k)' = Status(k)
    BY <2>1, <2>3, <2>4, <2>5, PlacesKept
  <2>8. ~ PoolDestroyed
    BY <2>1, Exists
  <2>9. Pool!Advance(e, "running", "done")
    BY <1>2, <2>1, <2>6, <2>7, <2>8, MoveOne
  <2> QED BY <2>1, <2>9 DEF Pool!Finish, Pool!Next
<1>6. CASE Exit(w)
  <2>1. /\ UNCHANGED <<running, completed, element>> /\ element[w] = NoTask
        /\ stage' = [stage EXCEPT ![w] = "exited"] /\ stage \in [Thread -> Stage]
    BY <1>6 DEF Exit, Move, queueVars, PInv, IInv, SchedulerType
  <2>2. \A k \in Task : Found(k)' <=> Found(k)
    <3>1. \A v \in Worker \ {w} : stage'[v] = stage[v]
      BY <1>1, <2>1
    <3> QED BY <2>1, <3>1, NoTaskAssumption DEF Found
  <2>3. \A k \in Task : Status(k)' = Status(k)
    BY <1>2, <2>1, <2>2 DEF Status, Runs, Queued
  <2> QED BY <1>2, <2>3, MoveNone
<1> QED BY <1>3, <1>4, <1>5, <1>6 DEF WorkerStep

\* call() is not seen until its push_back.
LEMMA CallPool ==
    ASSUME PInv, NEW t \in Client \cup Worker,
           CallStep(t) \/ \E k \in Task : Call(t, k)
    PROVE  UNCHANGED Pool!vars
<1>1. t \in Thread /\ t # Owner /\ Owner \in Thread /\ Worker \subseteq Thread
  BY WorkerFacts, ThreadAssumption DEF Thread
<1>2. /\ UNCHANGED <<m_buffer, running, completed>> /\ stage[t] # "find" /\ stage'[t] # "find"
      /\ \A u \in Thread \ {t} : stage'[u] = stage[u] /\ element'[u] = element[u]
  <2>1. CASE \E k \in Task : Call(t, k)
    BY <1>1, <2>1 DEF Call, MayCall, Move, PInv, IInv, SchedulerType, QueueInv, QP!TypeOK
  <2>2. CASE CallTryPush(t) \/ CallPush(t)
    BY <1>1, <2>2 DEF CallTryPush, CallPush, Q!TryPush, Q!Push
  <2>3. CASE CallReturn(t)
    BY <1>1, <2>3 DEF CallReturn, Move, queueVars, PInv, IInv, SchedulerType
  <2> QED BY <2>1, <2>2, <2>3 DEF CallStep
<1>3. \A k \in Task : Found(k)' <=> Found(k)
  BY <1>1, <1>2 DEF Found
<1>4. \A k \in Task : Status(k)' = Status(k)
  BY <1>2, <1>3 DEF Status, Runs, Queued
<1>5. UNCHANGED PoolDestroyed
  BY <1>1, <1>2 DEF PoolDestroyed
<1> QED BY <1>4, <1>5, MoveNone

\* The last step of the destructor is Destroy; the others are not seen.
LEMMA OwnerStepPool ==
    ASSUME PInv, Destroy \/ OwnerStep
    PROVE  [Pool!Next]_(Pool!vars)
<1>1. Owner \in Thread /\ Owner \notin Worker /\ Worker \subseteq Thread
  BY WorkerFacts DEF Thread
<1>2. /\ UNCHANGED <<m_buffer, element, running, completed>>
      /\ \A w \in Worker : stage'[w] = stage[w]
  BY <1>1 DEF Destroy, OwnerStep, DestroyDone, DestroyJoin, Join, Destroyed, Q!Done, Move,
     queueVars, PInv, IInv, SchedulerType
<1>3. \A k \in Task : Status(k)' = Status(k)
  BY <1>2 DEF Status, Runs, Queued, Found
<1>4. CASE Destroy \/ DestroyDone \/ DestroyJoin \/ Join
  <2>1. UNCHANGED PoolDestroyed
    BY <1>1, <1>4 DEF Destroy, DestroyDone, DestroyJoin, Join, Move, PoolDestroyed, PInv, IInv,
       SchedulerType
  <2> QED BY <1>3, <2>1, MoveNone
<1>5. CASE Destroyed
  <2>1. stage[Owner] = "joining" /\ index[Owner] = WorkerCount /\ PoolDestroyed'
    BY <1>1, <1>5 DEF Destroyed, Move, PoolDestroyed, PInv, IInv, SchedulerType
  <2>2. \A w \in Worker : w < index[Owner]
    BY <2>1, WorkerCountAssumption DEF Worker
  <2>3. completed = Task
    BY <2>1, <2>2, AllDone DEF PInv, DInv, Joined
  <2>4. Pool!Idle
    BY <2>3, Mapping DEF PoolStatus, Status
  <2>5. UNCHANGED PoolStatus
    BY <1>3 DEF PoolStatus
  <2>6. PoolDestroyed' = TRUE
    BY <2>1 DEF PoolDestroyed
  <2> QED BY <2>4, <2>5, <2>6, Mapping DEF Pool!Next
<1> QED BY <1>4, <1>5 DEF OwnerStep

LEMMA InitPool == Init => Pool!Init
<1> SUFFICES ASSUME Init PROVE Pool!Init
  OBVIOUS
<1>1. /\ element = [t \in Thread |-> NoTask] /\ m_buffer = [q \in Worker |-> <<>>]
      /\ running = [w \in Worker |-> NoTask] /\ completed = {}
  BY DEF Init, Q!Init
<1>2. \A k \in Task : Status(k) = "new"
  BY <1>1, NoTaskAssumption DEF Status, Runs, Queued, Found, Thread
<1>3. PoolStatus = [k \in Task |-> "new"]
  BY <1>2 DEF PoolStatus
<1>4. PoolDestroyed = FALSE
  <2>1. stage[Owner] = "alive"
    BY WorkerFacts DEF Init, Thread
  <2> QED BY <2>1 DEF PoolDestroyed
<1> QED BY <1>3, <1>4, Mapping

LEMMA NextPool == PInv /\ [Next]_vars => [Pool!Next]_(Pool!vars)
<1> SUFFICES ASSUME PInv, [Next]_vars PROVE [Pool!Next]_(Pool!vars)
  OBVIOUS
<1>1. ASSUME NEW t \in Client \cup Worker, CallStep(t) \/ \E k \in Task : Call(t, k)
      PROVE  [Pool!Next]_(Pool!vars)
  BY <1>1, CallPool
<1>2. ASSUME NEW w \in Worker, WorkerStep(w) PROVE [Pool!Next]_(Pool!vars)
  BY <1>2, WorkerStepPool
<1>3. CASE Destroy \/ OwnerStep
  BY <1>3, OwnerStepPool
<1>4. ASSUME NEW t \in Thread, QueueStep(t) PROVE [Pool!Next]_(Pool!vars)
  BY <1>4, QueueStepPool DEF QueueStep
<1>5. ASSUME NEW w \in Worker, SpuriousWakeup(w) PROVE [Pool!Next]_(Pool!vars)
  BY <1>5, QueueStepPool DEF SpuriousWakeup, Thread
<1>6. CASE UNCHANGED vars
  <2>1. \A k \in Task : Status(k)' = Status(k)
    BY <1>6 DEF vars, queueVars, Status, Runs, Queued, Found
  <2>2. UNCHANGED PoolDestroyed
    BY <1>6 DEF vars, PoolDestroyed
  <2> QED BY <2>1, <2>2, MoveNone
<1> QED BY <1>1, <1>2, <1>3, <1>4, <1>5, <1>6 DEF Next

\* The scheduler implements the abstract pool: behind the queues, the locks and
\* the stealing, every task is submitted, started and finished, once and in this
\* order, and the destructor returns only when there is nothing left to do.
THEOREM PoolSpecCorrect == Spec => PoolSpec
<1>1. Init => PInv
  BY InitIInv, InitOnce, InitDInv DEF PInv
<1>2. PInv /\ [Next]_vars => PInv'
  BY NextIInv, NextOnce, NextDInv DEF PInv
<1> QED BY <1>1, <1>2, InitPool, NextPool, PTL DEF Spec, PoolSpec, Pool!Spec

----------------------------------------------------------------------------
(***************************************************************************)
(* The fifth part: no deadlock.  In a state without a next step no mutex   *)
(* is owned, for its owner would have one; so every thread sleeps, waits   *)
(* for its tasks or is done.  What a sleeping worker has in its deque is   *)
(* about to be announced (NoStrandedTask), what a worker that has left has *)
(* in its deque is about to be stolen (Attended), and nobody is about to   *)
(* do anything.                                                            *)
(***************************************************************************)

\* How far the destructor has come with done().
DoneSoFar ==
    /\ stage[Owner] = "alive" => index[Owner] = 0
    /\ stage[Owner] = "destroying" => \A w \in Worker : w < index[Owner] => m_done[w]
    /\ stage[Owner] = "joining" => \A w \in Worker : m_done[w]

\* Only the owner stores m_done, and only it changes its stage and its index.
LEMMA NotOwnersStep ==
    ASSUME IInv, Next, ~ (Destroy \/ OwnerStep)
    PROVE  m_done' = m_done /\ stage'[Owner] = stage[Owner] /\ index'[Owner] = index[Owner]
<1>1. Owner \in Thread /\ Owner \notin Worker /\ Owner \notin Client /\ Worker \subseteq Thread
  BY WorkerFacts, ThreadAssumption DEF Thread
<1>2. stage \in [Thread -> Stage] /\ index \in [Thread -> 0 .. 2 * WorkerCount + 1] /\ QueueInv
  BY DEF IInv, SchedulerType
<1>3. ASSUME NEW t \in Client \cup Worker, NEW k \in Task, Call(t, k)
      PROVE  m_done' = m_done /\ stage'[Owner] = stage[Owner] /\ index'[Owner] = index[Owner]
  BY <1>1, <1>2, <1>3 DEF Call, Move, SetIndex
<1>4. ASSUME NEW t \in Client \cup Worker, CallStep(t)
      PROVE  m_done' = m_done /\ stage'[Owner] = stage[Owner] /\ index'[Owner] = index[Owner]
  <2>1. CASE CallTryPush(t) \/ CallPush(t)
    BY <1>1, <1>2, <2>1 DEF CallTryPush, CallPush, Q!TryPush, Q!Push, SetIndex
  <2>2. CASE CallReturn(t)
    BY <1>1, <1>2, <2>2 DEF CallReturn, Move, SetIndex, queueVars
  <2> QED BY <1>4, <2>1, <2>2 DEF CallStep
<1>5. ASSUME NEW w \in Worker, WorkerStep(w)
      PROVE  m_done' = m_done /\ stage'[Owner] = stage[Owner] /\ index'[Owner] = index[Owner]
  <2>1. CASE FindTryPop(w) \/ FindPop(w)
    BY <1>1, <1>2, <2>1 DEF FindTryPop, FindPop, Q!TryPop, Q!Pop, SetIndex
  <2>2. CASE StartTask(w) \/ FinishTask(w) \/ Exit(w)
    BY <1>1, <1>2, <2>2 DEF StartTask, FinishTask, Exit, Move, SetIndex, queueVars
  <2> QED BY <1>5, <2>1, <2>2 DEF WorkerStep
<1>6. ASSUME NEW t \in Thread, Q!Continue(t) \/ Q!SpuriousWakeup(t), UNCHANGED <<stage, index>>
      PROVE  m_done' = m_done /\ stage'[Owner] = stage[Owner] /\ index'[Owner] = index[Owner]
  BY <1>2, <1>6, ContinueLabels
<1> QED BY <1>1, <1>3, <1>4, <1>5, <1>6 DEF Next, QueueStep, SpuriousWakeup

LEMMA InitDoneSoFar == Init => DoneSoFar
BY WorkerFacts DEF Init, DoneSoFar, Thread

LEMMA NextDoneSoFar == IInv /\ DoneSoFar /\ [Next]_vars => DoneSoFar'
<1> SUFFICES ASSUME IInv, DoneSoFar, [Next]_vars PROVE DoneSoFar'
  OBVIOUS
<1>1. Owner \in Thread /\ Owner \notin Worker
  BY WorkerFacts DEF Thread
<1>2. /\ stage \in [Thread -> Stage] /\ index \in [Thread -> 0 .. 2 * WorkerCount + 1]
      /\ m_done \in [Worker -> BOOLEAN]
  BY DEF IInv, SchedulerType, QueueInv, QP!TypeOK
<1>3. CASE UNCHANGED vars
  BY <1>3 DEF vars, queueVars, DoneSoFar
<1>4. CASE Next /\ ~ (Destroy \/ OwnerStep)
  BY <1>4, NotOwnersStep DEF DoneSoFar
<1>5. CASE Destroy
  <2>1. stage'[Owner] = "destroying" /\ index'[Owner] = 0 /\ m_done' = m_done
    BY <1>1, <1>2, <1>5 DEF Destroy, Move, queueVars, DoneSoFar
  <2> QED BY <2>1, WorkerFacts DEF DoneSoFar
<1>6. CASE DestroyDone
  <2>1. /\ stage'[Owner] = "destroying" /\ index'[Owner] = index[Owner] + 1
        /\ index[Owner] \in Nat /\ m_done' = [m_done EXCEPT ![index[Owner]] = TRUE]
        /\ stage[Owner] = "destroying"
    BY <1>1, <1>2, <1>6 DEF DestroyDone, Q!Done, SetIndex
  <2>2. ASSUME NEW w \in Worker, w < index[Owner] + 1 PROVE m_done'[w]
    <3>1. w < index[Owner] \/ w = index[Owner]
      BY <2>1, <2>2, WorkerFacts
    <3> QED BY <1>2, <2>1, <3>1 DEF DoneSoFar
  <2> QED BY <2>1, <2>2 DEF DoneSoFar
<1>7. CASE DestroyJoin
  <2>1. stage'[Owner] = "joining" /\ m_done' = m_done
        /\ stage[Owner] = "destroying" /\ index[Owner] = WorkerCount
    BY <1>1, <1>2, <1>7 DEF DestroyJoin, Move, queueVars
  <2> QED BY <2>1, WorkerCountAssumption DEF DoneSoFar, Worker
<1>8. CASE Join
  BY <1>8 DEF Join, DoneSoFar, queueVars
<1>9. CASE Destroyed
  BY <1>1, <1>2, <1>9 DEF Destroyed, Move, DoneSoFar, queueVars
<1> QED BY <1>3, <1>4, <1>5, <1>6, <1>7, <1>8, <1>9 DEF OwnerStep

\* In a state without a next step nobody is inside a critical section.
LEMMA HaltedUnlocked ==
    ASSUME IInv, Halted
    PROVE  /\ \A q \in Worker : m_mutex[q] = NoThread
           /\ \A t \in Thread : pc[t] \in {"idle", "waiting"}
<1>1. ASSUME NEW q \in Worker PROVE m_mutex[q] = NoThread
  <2> SUFFICES ASSUME m_mutex[q] \in Thread PROVE FALSE
    BY DEF IInv, QueueInv, QP!TypeOK
  <2>1. pc[m_mutex[q]] \in QP!Critical
    BY DEF IInv, QueueInv, QP!MutexDiscipline
  <2> QED BY <2>1 DEF Halted, CanStep, QP!Critical
<1>2. ASSUME NEW t \in Thread PROVE pc[t] \in {"idle", "waiting"}
  <2>1. pc[t] \in {"idle", "waiting", "woken"}
    BY DEF Halted, CanStep
  <2>2. pc[t] = "woken" => at[t] \in Worker
    BY DEF IInv, QueueInv, QP!InCall
  <2> QED BY <1>1, <2>1, <2>2 DEF Halted, CanStep
<1> QED BY <1>1, <1>2

\* What the threads of such a state are doing.
LEMMA HaltedThreads ==
    ASSUME IInv, DInv, Halted
    PROVE  /\ \A c \in Client : stage[c] = "client"
           /\ \A w \in Worker :
                 \/ stage[w] = "exited"
                 \/ Blocked(w)
                 \/ /\ stage[w] = "find" /\ pc[w] = "waiting" /\ index[w] = WorkerCount + 1
                    /\ m_buffer[w] = <<>> /\ element[w] = NoTask
<1>1. /\ \A q \in Worker : m_mutex[q] = NoThread
      /\ \A t \in Thread : pc[t] \in {"idle", "waiting"}
  BY HaltedUnlocked
<1>2. ASSUME NEW t \in Thread PROVE stage[t] # "call"
  <2>1. pc[t] = "waiting" => stage[t] = "find"
    BY DEF DInv, Doing, PopState
  <2>2. start[t] % WorkerCount \in Worker
    BY WorkerFacts DEF IInv, SchedulerType
  <2> QED BY <1>1, <2>1, <2>2 DEF Halted, CanStep
<1>3. ASSUME NEW w \in Worker, stage[w] = "find"
      PROVE  /\ pc[w] = "waiting" /\ index[w] = WorkerCount + 1
             /\ m_buffer[w] = <<>> /\ element[w] = NoTask
  <2>1. w \in Thread
    BY DEF Thread
  <2>2. pc[w] = "waiting"
    BY <1>1, <1>3, <2>1 DEF Halted, CanStep
  <2>3. index[w] = WorkerCount + 1 /\ element[w] = NoTask
    BY <2>1, <2>2 DEF DInv, Doing, PopState, IInv, QueueInv, QP!InCall
  <2>4. m_buffer[w] = <<>>
    BY <1>1, <2>2, IInvNoStrandedTask DEF NoStrandedTask
  <2> QED BY <2>2, <2>3, <2>4
<1>4. ASSUME NEW w \in Worker, stage[w] = "run" PROVE Blocked(w)
  BY <1>4 DEF Halted, CanStep, Thread
<1> QED BY <1>2, <1>3, <1>4 DEF IInv, Roles, Thread

\* If no task waits for another one, all that were submitted have been executed.
LEMMA HaltedCompleted ==
    ASSUME IInv, Once, DInv, Halted, \A w \in Worker : ~ Blocked(w)
    PROVE  completed = called
<1>1. /\ \A c \in Client : stage[c] = "client"
      /\ \A w \in Worker :
            \/ stage[w] = "exited"
            \/ /\ stage[w] = "find" /\ pc[w] = "waiting" /\ index[w] = WorkerCount + 1
               /\ m_buffer[w] = <<>> /\ element[w] = NoTask
  BY HaltedThreads
<1>2. \A t \in Thread : element[t] = NoTask
  BY <1>1 DEF IInv, Outside, OwnerOnlyNotifies, Thread
<1>3. \A k \in Task : ~ InHand(k)
  BY <1>2, NoTaskAssumption DEF InHand
<1>4. \A k \in Task : ~ Runs(k)
  BY <1>1, NoTaskAssumption DEF Once, Free, Runs
<1>5. \A w, q \in Worker : ~ Searches(w, q)
  <2> SUFFICES ASSUME NEW w \in Worker, NEW q \in Worker, Searches(w, q) PROVE FALSE
    OBVIOUS
  <2>1. Ahead(w, q) => index[w] # WorkerCount + 1
    BY WorkerCountAssumption DEF Ahead, Worker
  <2> QED BY <1>1, <2>1 DEF Searches
<1>6. \A q \in Worker : m_buffer[q] = <<>>
  BY <1>1, <1>5 DEF DInv, Attended, Left
<1>7. \A k \in Task : ~ Queued(k)
  BY <1>6 DEF Queued
<1>8. \A k \in Task : k \in called <=> k \in completed
  BY <1>3, <1>4, <1>7 DEF Once, Placed
<1> QED BY <1>8 DEF IInv, SchedulerType

LEMMA HaltsDone == IInv /\ Once /\ DInv /\ DoneSoFar => HaltsOnlyWhenDone
<1> SUFFICES ASSUME IInv, Once, DInv, DoneSoFar, Halted, ~ Stuck
             PROVE  /\ completed = called
                    /\ \/ stage[Owner] \in {"alive", "destroyed"}
                       \/ \E w \in Worker : pc[w] = "waiting" /\ m_done[w]
  BY DEF HaltsOnlyWhenDone
<1>1. \A w \in Worker :
         \/ stage[w] = "exited"
         \/ Blocked(w)
         \/ /\ stage[w] = "find" /\ pc[w] = "waiting" /\ index[w] = WorkerCount + 1
            /\ m_buffer[w] = <<>> /\ element[w] = NoTask
  BY HaltedThreads
<1>2. \A w \in Worker : ~ Blocked(w)
  BY <1>1 DEF Stuck
<1>3. completed = called
  BY <1>2, HaltedCompleted
<1>4. stage[Owner] # "destroying"
  <2>1. Owner \in Thread /\ pc[Owner] = "idle"
    BY HaltedUnlocked DEF IInv, OwnerOnlyNotifies, Thread
  <2> QED BY <2>1 DEF Halted, CanStep
<1>5. CASE stage[Owner] = "joining"
  <2>1. index[Owner] \in Nat /\ index[Owner] <= WorkerCount /\ index[Owner] # WorkerCount
        /\ stage[index[Owner]] # "exited"
    BY <1>5 DEF Halted, CanStep, IInv, SchedulerType, Bounds, Thread
  <2>2. index[Owner] \in Worker
    BY <2>1, WorkerCountAssumption DEF Worker
  <2>3. pc[index[Owner]] = "waiting" /\ m_done[index[Owner]]
    BY <1>1, <1>2, <1>5, <2>1, <2>2 DEF DoneSoFar
  <2> QED BY <1>3, <2>2, <2>3
<1> QED BY <1>3, <1>4, <1>5 DEF IInv, Roles

\* The scheduler never deadlocks, for any number of workers, clients and tasks,
\* apart from tasks that wait for each other and the wakeup that done() may lose.
THEOREM HaltsOnlyWhenDoneCorrect == Spec => []HaltsOnlyWhenDone
BY HaltsDone, InitIInv, NextIInv, InitOnce, NextOnce, InitDInv, NextDInv,
   InitDoneSoFar, NextDoneSoFar, PTL DEF Spec
=============================================================================
