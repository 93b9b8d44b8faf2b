--------------------------- MODULE TaskScheduler ---------------------------
(***************************************************************************)
(* kc::async::TaskScheduler: W worker threads, each with a queue of its    *)
(* own, stealing from the others.  call() distributes the tasks over the   *)
(* queues; the destructor marks every queue done and joins the workers.    *)
(*                                                                         *)
(* The threads are the workers, the clients that submit tasks and the      *)
(* owner that destroys the scheduler.  A running task may submit tasks     *)
(* itself: Caller[k] says who calls call() for task k, a client or the     *)
(* body of another task.  Every queue operation is that of                 *)
(* ThreadSafeQueue (TaskQueue's own tryPush and push are the same steps,   *)
(* with the task wrapped together with its promise).                       *)
(*                                                                         *)
(* What the owner must respect, as for any C++ object: destruction begins  *)
(* when no client is, or will be, inside call().                           *)
(***************************************************************************)
EXTENDS Naturals, Sequences, FiniteSets

CONSTANTS
    WorkerCount,  \* m_workerCount
    Client,       \* the threads that submit tasks
    Owner,        \* the thread that runs the destructor
    Task,         \* the functions passed to call()
    Caller,       \* Caller[k]: the client, or the task, that submits task k
    Waits,        \* the tasks that wait for the futures of those they submit
    NoThread, NoQueue, NoTask

Worker == 0 .. WorkerCount - 1
Thread == Worker \cup Client \cup {Owner}

ASSUME WorkerCountAssumption == WorkerCount \in Nat \ {0}
ASSUME ThreadAssumption ==
    /\ IsFiniteSet(Client)
    /\ Worker \cap Client = {}
    /\ Owner \notin Worker \cup Client
    /\ NoThread \notin Thread
ASSUME NoQueueAssumption == NoQueue \notin Worker
ASSUME NoTaskAssumption == NoTask \notin Task
ASSUME CallerAssumption == Caller \in [Task -> Client \cup Task]
\* Whoever submits a task runs: following the callers of a task, one comes to
\* a client in the end.
ASSUME CallerFounded ==
    \A S \in SUBSET Task :
        (\A k \in Task : Caller[k] \in Client \cup S => k \in S) => S = Task
ASSUME WaitsAssumption == Waits \subseteq Task

VARIABLES
    m_buffer, m_mutex, m_done,  \* the queues, one per worker
    pc, at, element,            \* the threads inside a queue operation
    m_currentWorkerId,          \* the round-robin counter of call()
    stage,      \* stage[t]: which of the scheduler's functions t is in
    start,      \* start[t]: startQueueIndex of the call() t is in
    index,      \* index[t]: the loop variable of the loop t is in
    running,    \* running[w]: the task worker w executes
    called,     \* the tasks whose call() has begun
    completed   \* the tasks whose promise holds its value

queueVars == <<m_buffer, m_mutex, m_done, pc, at, element>>
callVars == <<m_currentWorkerId, start, called>>
vars == <<queueVars, callVars, stage, index, running, completed>>

Q == INSTANCE ThreadSafeQueue
       WITH Queue <- Worker, Element <- Task, NoElement <- NoTask

Stage == {"client", "call", "find", "run", "exited",
          "alive", "destroying", "joining", "destroyed"}

TypeOK ==
    /\ Q!TypeOK
    /\ m_currentWorkerId \in Nat
    /\ stage \in [Thread -> Stage]
    /\ start \in [Thread -> Nat]
    /\ index \in [Thread -> 0 .. 2 * WorkerCount + 1]
    /\ running \in [Worker -> Task \cup {NoTask}]
    /\ called \subseteq Task
    /\ completed \subseteq Task

Init ==
    /\ Q!Init
    /\ m_currentWorkerId = 0
    /\ stage = [t \in Thread |-> IF t \in Worker THEN "find"
                                 ELSE IF t = Owner THEN "alive" ELSE "client"]
    /\ start = [t \in Thread |-> 0]
    /\ index = [t \in Thread |-> 0]
    /\ running = [w \in Worker |-> NoTask]
    /\ called = {}
    /\ completed = {}

Move(t, s) == stage' = [stage EXCEPT ![t] = s]
SetIndex(t, i) == index' = [index EXCEPT ![t] = i]

----------------------------------------------------------------------------
(***************************************************************************)
(* call(): 2 * m_workerCount attempts that never block, then one that      *)
(* does.                                                                   *)
(***************************************************************************)
scale == 2

\* The tasks thread t submits at this point: a client its own, a worker
\* those of the task it runs.
MayCall(t, k) ==
    /\ k \notin called
    /\ \/ t \in Client /\ stage[t] = "client" /\ Caller[k] = t
       \/ t \in Worker /\ stage[t] = "run" /\ Caller[k] = running[t]

Call(t, k) ==
    /\ MayCall(t, k)
    /\ element' = [element EXCEPT ![t] = k]
    /\ start' = [start EXCEPT ![t] = m_currentWorkerId]
    /\ m_currentWorkerId' = m_currentWorkerId + 1
    /\ called' = called \cup {k}
    /\ Move(t, "call") /\ SetIndex(t, 0)
    /\ UNCHANGED <<m_buffer, m_mutex, m_done, pc, at, running, completed>>

CallTryPush(t) ==
    /\ stage[t] = "call" /\ index[t] < WorkerCount * scale
    /\ Q!TryPush(t, (start[t] + index[t]) % WorkerCount)
    /\ SetIndex(t, index[t] + 1)
    /\ UNCHANGED <<callVars, stage, running, completed>>

CallPush(t) ==
    /\ stage[t] = "call" /\ index[t] = WorkerCount * scale
    /\ Q!Push(t, start[t] % WorkerCount)
    /\ UNCHANGED <<callVars, stage, index, running, completed>>

\* The task was moved into a queue and its future is returned; the locals
\* of call() go out of scope.
CallReturn(t) ==
    /\ stage[t] = "call" /\ pc[t] = "idle" /\ element[t] = NoTask
    /\ Move(t, IF t \in Worker THEN "run" ELSE "client")
    /\ start' = [start EXCEPT ![t] = 0]
    /\ SetIndex(t, 0)
    /\ UNCHANGED <<queueVars, m_currentWorkerId, called, running, completed>>

----------------------------------------------------------------------------
(***************************************************************************)
(* run(): the loop of a worker around findTask(), which tries every queue  *)
(* once without blocking and then sleeps on the worker's own.              *)
(***************************************************************************)
\* Mutant: a worker only tries its own queue.
FindTryPopOwn(w) ==
    /\ stage[w] = "find" /\ index[w] < WorkerCount
    /\ Q!TryPop(w, w)
    /\ SetIndex(w, index[w] + 1)
    /\ UNCHANGED <<callVars, stage, running, completed>>

FindTryPop(w) ==
    /\ stage[w] = "find" /\ index[w] < WorkerCount
    /\ Q!TryPop(w, (w + index[w]) % WorkerCount)
    /\ SetIndex(w, index[w] + 1)
    /\ UNCHANGED <<callVars, stage, running, completed>>

FindPop(w) ==
    /\ stage[w] = "find" /\ index[w] = WorkerCount
    /\ Q!Pop(w, w)
    /\ SetIndex(w, WorkerCount + 1)
    /\ UNCHANGED <<callVars, stage, running, completed>>

\* findTask() returns a task: std::invoke(task.value()) begins.
StartTask(w) ==
    /\ stage[w] = "find" /\ pc[w] = "idle" /\ element[w] # NoTask
    /\ running' = [running EXCEPT ![w] = element[w]]
    /\ element' = [element EXCEPT ![w] = NoTask]
    /\ Move(w, "run") /\ SetIndex(w, 0)
    /\ UNCHANGED <<m_buffer, m_mutex, m_done, pc, at, callVars, completed>>

\* The task that w runs waits, in wait() or get(), for a future that has no value.
Blocked(w) ==
    /\ stage[w] = "run" /\ running[w] \in Waits
    /\ \E k \in called \ completed : Caller[k] = running[w]

\* Mutant: the promise fulfilled is that of the moved-from task.
FinishTaskMovedFrom(w) ==
    /\ stage[w] = "run"
    /\ \A k \in Task : ~ MayCall(w, k)
    /\ ~ Blocked(w)
    /\ completed' = completed \cup {element[w]}
    /\ running' = [running EXCEPT ![w] = NoTask]
    /\ Move(w, "find")
    /\ UNCHANGED <<queueVars, callVars, index>>

\* handleTask(): the task returns, its promise gets the value (one atomic
\* step here; module Future looks inside) and the loop goes round.
FinishTask(w) ==
    /\ stage[w] = "run"
    /\ \A k \in Task : ~ MayCall(w, k)
    /\ ~ Blocked(w)
    /\ completed' = completed \cup {running[w]}
    /\ running' = [running EXCEPT ![w] = NoTask]
    /\ Move(w, "find")
    /\ UNCHANGED <<queueVars, callVars, index>>

\* findTask() returns nothing: only the blocking pop() can end the loop.
Exit(w) ==
    /\ stage[w] = "find" /\ pc[w] = "idle" /\ element[w] = NoTask
    /\ index[w] = WorkerCount + 1
    /\ Move(w, "exited") /\ SetIndex(w, 0)
    /\ UNCHANGED <<queueVars, callVars, running, completed>>

----------------------------------------------------------------------------
(***************************************************************************)
(* ~TaskScheduler(): for every queue done(), then for every worker join(). *)
(***************************************************************************)
ClientsFinished ==
    \A c \in Client : stage[c] = "client" /\ \A k \in Task : ~ MayCall(c, k)

Destroy ==
    /\ stage[Owner] = "alive" /\ ClientsFinished
    /\ Move(Owner, "destroying")
    /\ UNCHANGED <<queueVars, callVars, index, running, completed>>

DestroyDone ==
    /\ stage[Owner] = "destroying" /\ index[Owner] < WorkerCount
    /\ Q!Done(Owner, index[Owner])
    /\ SetIndex(Owner, index[Owner] + 1)
    /\ UNCHANGED <<callVars, stage, running, completed>>

DestroyJoin ==
    /\ stage[Owner] = "destroying" /\ pc[Owner] = "idle"
    /\ index[Owner] = WorkerCount
    /\ Move(Owner, "joining") /\ SetIndex(Owner, 0)
    /\ UNCHANGED <<queueVars, callVars, running, completed>>

\* join() returns once the worker it waits for has left run().
Join ==
    /\ stage[Owner] = "joining" /\ index[Owner] < WorkerCount
    /\ stage[index[Owner]] = "exited"
    /\ SetIndex(Owner, index[Owner] + 1)
    /\ UNCHANGED <<queueVars, callVars, stage, running, completed>>

Destroyed ==
    /\ stage[Owner] = "joining" /\ index[Owner] = WorkerCount
    /\ Move(Owner, "destroyed") /\ SetIndex(Owner, 0)
    /\ UNCHANGED <<queueVars, callVars, running, completed>>

----------------------------------------------------------------------------
QueueStep(t) ==
    /\ Q!Continue(t)
    /\ UNCHANGED <<callVars, stage, index, running, completed>>

SpuriousWakeup(w) ==
    /\ Q!SpuriousWakeup(w)
    /\ UNCHANGED <<callVars, stage, index, running, completed>>

CallStep(t) == CallTryPush(t) \/ CallPush(t) \/ CallReturn(t)

WorkerStep(w) ==
    FindTryPop(w) \/ FindPop(w) \/ StartTask(w) \/ FinishTask(w) \/ Exit(w)

OwnerStep == DestroyDone \/ DestroyJoin \/ Join \/ Destroyed

Next ==
    \/ \E t \in Client \cup Worker, k \in Task : Call(t, k)
    \/ \E t \in Client \cup Worker : CallStep(t)
    \/ \E w \in Worker : WorkerStep(w)
    \/ Destroy \/ OwnerStep
    \/ \E t \in Thread : QueueStep(t)
    \/ \E w \in Worker : SpuriousWakeup(w)

Spec == Init /\ [][Next]_vars

(***************************************************************************)
(* Fairness: no thread is suspended for ever (weak fairness of each        *)
(* thread), a task makes its own calls and returns, and spurious wakeups   *)
(* do not go on for ever.  Nobody is forced to submit a task or to destroy *)
(* the scheduler.  A mutex need not be fair: try_lock never blocks, and    *)
(* only a call() that lost 2 * m_workerCount races waits for one.  But a   *)
(* worker that leaves relies on try_lock failing on owned mutexes only, as *)
(* Q!TryLock assumes: it has found each deque empty, or in use.            *)
(***************************************************************************)
Fairness ==
    /\ \A t \in Thread : WF_vars(QueueStep(t))
    /\ \A t \in Client \cup Worker : WF_vars(CallStep(t))
    /\ \A w \in Worker : WF_vars(WorkerStep(w) \/ \E k \in Task : Call(w, k))
    /\ WF_vars(OwnerStep)
    /\ <>[][\A w \in Worker : ~ SpuriousWakeup(w)]_vars

FairSpec == Spec /\ Fairness

----------------------------------------------------------------------------
\* One lock per queue, held by the thread inside the critical section.
MutexDiscipline == Q!MutexDiscipline

QueuedIn(q, k) == \E i \in 1 .. Len(m_buffer[q]) : m_buffer[q][i] = k

\* Where task k is: in the hands of a thread, in a slot of a queue, being
\* executed by a worker, or executed.
Places(k) ==
    {<<"hand", t>> : t \in {u \in Thread : element[u] = k}}
      \cup (UNION {{<<"slot", q, i>> : i \in {n \in 1 .. Len(m_buffer[q]) :
                                              m_buffer[q][n] = k}} : q \in Worker})
      \cup {<<"runs", w>> : w \in {v \in Worker : running[v] = k}}
      \cup {<<"done">> : x \in {k} \cap completed}

\* call() hands every task to exactly one place: the retries of tryPush do
\* not enqueue it twice and no two workers, whether stealing or not, get
\* the same task, so a task is executed once, and none drops out.
ExactlyOnce ==
    \A k \in Task :
        IF k \in called THEN \E p \in Places(k) : Places(k) = {p}
        ELSE Places(k) = {}

\* No lost wakeup for tasks: only worker w sleeps on queue w, and when it
\* does in front of a task, the push that brought it has yet to notify.
NoStrandedTask ==
    \A w \in Worker :
        pc[w] = "waiting" /\ m_buffer[w] # <<>>
            => \E t \in Thread : pc[t] = "notify" /\ at[t] = w

\* ~TaskScheduler() returns only when every task ever submitted, those
\* submitted by other tasks included, was executed, and no thread is inside
\* a queue whose mutex is about to be destroyed.
DestroyedClean ==
    stage[Owner] = "destroyed" =>
        /\ completed = Task
        /\ \A t \in Thread : pc[t] = "idle"

\* The scheduler implements TaskPool: a task is queued when push_back has
\* happened, and runs from the moment it is taken out of a deque.
Pool ==
    INSTANCE TaskPool WITH
        status <- [k \in Task |->
            IF k \in completed THEN "done"
            ELSE IF \E w \in Worker : running[w] = k THEN "running"
            ELSE IF \E w \in Worker : QueuedIn(w, k) THEN "queued"
            ELSE IF \E w \in Worker : stage[w] = "find" /\ element[w] = k
              THEN "running"
            ELSE "new"],
        destroyed <- stage[Owner] = "destroyed"

PoolSpec == Pool!Spec

\* Tasks that wait for others can stop everything, although workers are idle:
\* each worker is blocked by its task, asleep in front of its own empty queue,
\* from where it does not look into the others any more, or gone.
Stuck ==
    /\ \E w \in Worker : Blocked(w)
    /\ \A w \in Worker :
         Blocked(w) \/ stage[w] = "exited" \/ (pc[w] = "waiting" /\ m_buffer[w] = <<>>)

\* Thread t has a next step, calls of clients and the destruction aside, which
\* nobody is forced to begin: it is inside a queue operation and does not sleep,
\* or at a point of its function where it waits for nobody.
CanStep(t) ==
    \/ pc[t] \notin {"idle", "waiting", "woken"}
    \/ pc[t] = "woken" /\ m_mutex[at[t]] = NoThread
    \/ pc[t] = "idle" /\ stage[t] = "call"
         /\ \/ element[t] = NoTask \/ index[t] < WorkerCount * scale
            \/ m_mutex[start[t] % WorkerCount] = NoThread
    \/ pc[t] = "idle" /\ stage[t] = "find"
         /\ (element[t] # NoTask \/ index[t] # WorkerCount \/ m_mutex[t] = NoThread)
    \/ stage[t] = "run" /\ (~ Blocked(t) \/ \E k \in Task : MayCall(t, k))
    \/ pc[t] = "idle" /\ stage[t] = "destroying"
    \/ stage[t] = "joining" /\ (index[t] = WorkerCount \/ stage[index[t]] = "exited")

Halted == \A t \in Thread : ~ CanStep(t)

\* No deadlock: whatever holds the mutexes and sleeps, nothing comes to a halt
\* before every task submitted is executed and the destructor, if it has begun,
\* has returned, but for the two ways that the code leaves open: tasks that wait
\* for each other, and a worker that went to sleep behind the notification of
\* done().
HaltsOnlyWhenDone ==
    Halted =>
        \/ Stuck
        \/ /\ completed = called
           /\ \/ stage[Owner] \in {"alive", "destroyed"}
              \/ \E w \in Worker : pc[w] = "waiting" /\ m_done[w]

\* With fairness the scheduler keeps the promise of TaskPool that every task
\* submitted is started and finished, destruction included; the only thing that
\* can keep it from doing so is that it is stuck for ever.
PoolFairSpec == Pool!Spec /\ (<>[]Stuck \/ Pool!Fair)

\* call() returns: a caller that loses every race still gets its task in.
CallReturns ==
    \A t \in Client \cup Worker : stage[t] = "call" ~> stage[t] # "call"

\* ~TaskScheduler() returns.
DestructorReturns ==
    stage[Owner] = "destroying" ~> stage[Owner] = "destroyed"

\* What can keep the destructor from returning: a worker that found m_done unset
\* before done() stored it and went to sleep after the notification, and tasks
\* that wait for each other.
DestructorReturnsUnlessWakeupLost ==
    stage[Owner] = "destroying" ~>
        \/ stage[Owner] = "destroyed"
        \/ \E w \in Worker : pc[w] = "waiting" /\ m_done[w]
                             /\ stage[Owner] = "joining"
        \/ Stuck
============================================================================
