# Formal models of libkc

libkc is a C++ utility library: the multithreaded `async` package with the
containers it uses, a set of parts that one thread uses alone, and `modelgen`, a
program that generates classes for models and their JSON. This directory holds
TLA+ specifications written from the source, TLC configurations that check
them on small instances, and proofs of the main safety properties for
instances of every size.

Paths below are relative to the repository (`src/kc/...`, `test/...`).

## 1. Inventory

| Component | State it keeps | Operations | Interacts with | What makes it correct |
|---|---|---|---|---|
| `containers/ThreadSafeQueue.hpp` | deque, mutex, condition variable, atomic `m_done` | `tryPush`, `push`, `tryPop`, `pop`, `getSize`, `done`, `isDone` | any threads | nothing lost or duplicated; no consumer sleeps in front of an element; `pop` ends after `done` |
| `async/TaskScheduler.{hpp,cpp}` | one queue per worker, round-robin counter, worker threads | constructor, `call`, `findTask`/`run` in each worker, destructor | a `TaskQueue` per worker, `Future` for results | a task runs exactly once; `call` returns; the destructor drains and returns |
| `async/Future.hpp` | shared context: mutex, value set / consumed, value, callback | `setValue`, `then`, `wait`, `get`, `FutureCollection::wait` | fulfilled by a worker, used by clients | the value is received once; no callback is lost or run twice; `wait` ends |
| `async/Utils.cpp` | the bounds of the ranges | `loop` | one scheduler task per worker, waits on their futures | each iteration executed exactly once |
| `containers/RingBuffer.hpp` | slots, push and pop index, a mutex each | `push`, `pop`, `isEmpty` | producers and consumers | FIFO, emptiness test |
| `event/` | registered observers | register, unregister, `emitEvent` | calls back into observers | every observer is told, in order, until one handles the event |
| `event2/` | stored events, one handler per type | `on`, `emit`, `dispatch` | calls back into handlers | every emitted event is handled once, in order |
| `mem/` | an owned object, its memory, its allocator | construct, move, assign, emplace, clear, destroy | allocators | each object destroyed once, its memory freed once |
| `core/Countable`, `Singleton` | numbers and the vector of free ones; one pointer | construct, destroy | base classes of others | living instances have numbers of their own; the pointer is the one that is alive |
| `core/Scope` | the number of uncaught exceptions at creation | leave the scope | the exceptions in flight | fail and success guards call back exactly when they should |
| `prof/` | label table, chain of ids, indent, order | `createTimer`, `pushRegionTimer`, `popRegionTimer` | clock | labels are the tree of the timed calls |
| `sig/` | one handler pointer | set up, reset, signal | the OS | a signal finds a handler |
| `json/Json.cpp` | the text so far, commas | builder calls | JSON library | the document is what the calls describe |
| `json/Utils.hpp` | name and value of a field | `fieldFrom` and its chain of checks | JSON library | the value passed every check; errors are those asked for |
| `modelgen/` | tokens, position, collected models | tokenize, parse, generate | files; generated code uses `json/` | models are what was written; generated classes include what they need and survive a round trip |
| `core/String`, `Range`, `Enumerate`, `Zip` | iterators | iteration, splitting | - | agrees with the reference definition |
| `core/ConfigLoader`, `math/`, `parallel/`, `cv/`, `core/{Clock,Log,Uuid,FileSystem,Profiler}`, `model/` | - | pure computation or I/O | OS, OpenCL | not modelled (section 6) |

The hard behaviours are in the first four rows: threads that take a mutex,
sleep on a condition variable and are notified outside of it, `try_lock`
retries, tasks that submit tasks, destruction under load, and callbacks that
race with the value they wait for. In the rest of the library it is user code that
runs in the middle of an operation (observers, handlers, callbacks of guards,
constructors that throw, signals) and long sequences of legal calls. `PROJECT.json`
lists every hazard at its line.

## 2. Modules

```
MCThreadSafeQueue --> ThreadSafeQueue <-- ThreadSafeQueueProofs
                            ^                      ^
                            | INSTANCE             | INSTANCE
MCTaskScheduler*  --> TaskScheduler   <-- TaskSchedulerProofs
                            | implements
                            v
                        TaskPool  (what a scheduler promises)
                            ^
                            | uses the promise
MCParallel        --> ParallelLoop    <-- ParallelLoopProofs

MCFuture          --> Future          <-- FutureProofs

MCParallel,
MCRingBuffer      --> RingBuffer      <-- RingBufferProofs
                            | implements
                            v
                          Fifo

MCSingleThreaded  --> EventManager    <--+
                  --> EventQueue      <--+-- EventProofs       (packages event, event2)
                  --> Instances       <--+
                  --> ScopeGuards     <--+
                  --> Signal          <--+-- ComponentProofs
                  --> SmartPointers   <--+
                  --> Profiler        <--+
                  --> Algorithms      <--+
                            |
                            v
                         Strings

MCModelgen --+--> GeneratedCode --> Generator --> Parser --> Tokenizer
             |         |                |
             |         +---> Json       +--> Strings
             |               ^  |
             +--> JsonBuilder   +--> Fields
             |                         ^
             +--> JsonField -----------+

ModelgenProofs --> Generator, JsonBuilder, JsonField, Algorithms
```

### Threads

`ThreadSafeQueue` describes a family of queues used by a set of threads. An
action is the largest step no other thread can see into: taking the mutex,
the body of a critical section together with the unlock, the check of
`pop()`'s condition, going to sleep (release and block, atomically), being
notified, reacquiring, the atomic store of `m_done`, `notify_one`,
`notify_all`. `pc[t]` and `at[t]` say where thread `t` is and in which queue.
`done()` takes no mutex, which is why the check of the condition (`CheckStay`)
and the sleep (`Wait`) are two actions. `element[t]` is the argument of a push
until it is moved into the deque, then the result of a pop; a `tryPush` that
fails leaves it where it was. The two `push` operations of `TaskQueue` in
`TaskScheduler.hpp` have the same steps, so `TaskScheduler` reuses the module.

`TaskScheduler` composes the queues with the workers (`run`, `findTask`), the
clients that `call`, and an owner that runs the destructor. `stage[t]` is the
function a thread is in, `index[t]` its loop variable. Tasks are model values;
`Caller[k]` says who submits task `k`: a client, or the body of another task. The
tasks in `Waits` wait for the futures of those they submit, as the body of an
`async::loop` does that runs another one. The constructor is the initial state:
the members are initialised before the first thread starts, and no call is
possible before it returns. `m_currentWorkerId++` is one atomic step. Assigning
the promise its value is one step here; `Future` takes it apart.

`TaskPool` is the abstract specification: a task goes from new to queued to
running to done, and the pool disappears only when none is in between.
`TaskScheduler!Pool` is the refinement mapping. `PoolSpec` (safety) and
`PoolFairSpec` (with fairness) are checked as properties of `TaskScheduler`.

`Future` models one `Context<T>`, its promise and any number of copies of its
future, each held by one thread that may call `then`, `wait` and `get`. A
critical section is one action, except that a callback runs while the mutex
is held, so its start and its return are separate. `then()` is two critical
sections, as in the code. `m_value` tells apart the value, nothing, and what a
move left behind. A failed `ASSERT` ends the call by an exception.
`Context<void>` is the same machine without a value to consume.

`ParallelLoop` is `async::loop(...).wait()` on top of a `TaskPool`: a scheduler
task per range. `int` variables wrap at `IntRange` values. (`++rangeEnd` at the
largest int would be undefined behaviour; wrapping is the outcome modelled.)

`RingBuffer` has two steps for `push` (the index, then the slot, both under the
push mutex) and, for `pop`, the exchange of the index and the move out of the
slot. The second is done by the caller of `pop()`: it gets a reference, and by
then the pop mutex is free. The class refuses nothing, so its callers must
know how many values are outstanding. `free` and `available` are their
count, as two semaphores would keep it: `free` goes down before a push and up
when a popped value has left its slot, `available` goes up after a push and down
before a pop. `Limit` is the most they allow. `Fifo` is the abstract queue.

### One thread

The next eight components share no state and are used by one thread each, so
`MCSingleThreaded` puts them side by side: a behaviour shows one of them,
`chosen` at its beginning, and the run is the sum of their state spaces, not the
product.

`EventManager` is `kc::event::EventManager`. `emissions` is the stack of the calls
of `emitEvent()` under way, each with the iterator and the end its loop took
once. User code runs outside of emissions or in the `onEvent()` of the innermost
one; `ObserverThrow` leaves the innermost emission by an exception, which its caller, the
program or another observer, catches or passes on. `slots` is the
vector's storage, `size` its length: what `std::erase()` leaves behind the new end
is still there for a loop that goes too far. `RegisterGrowing` doubles the
storage, as the usual growth of a vector does, and marks every loop's iterators
as stale; reading through one sets `undefined` and nothing is claimed of what
follows.

`EventQueue` is `kc::event2::EventManager`. Handlers may call `emit()` and `on()`,
and throw; `dispatch()` is one loop with its iterators taken once. `capacity`
decides whether `push_back()` moves the storage away under the loop.

`SmartPointers`: `OwningPtr` and `LocalPtr` over objects that are new, alive or dead,
and memory that belongs to one of several allocators. Pointers are created,
moved, assigned, cleared and destroyed in any order, and constructors may throw.
An `OwningPtr` has a type, `type[p]`, and a pointer to a derived class can be converted
to one to a base (`Base`). What that does to the pointer is in two operators. The address that
`deallocate()` gets is the one that was allocated only if the base lies at the beginning of the
object (`AtBeginning`; `Displaced` are the bases that do not). `~T()` destroys all of the object
only if `T` is its own class or has a virtual destructor (`DestroysAll`); otherwise
the object ends up `"partly"` destroyed. `corrupted` says that a destructor or a deallocation was called
wrongly. One history variable, `misused`, marks what ends badly by the pointer's own
code (section 3); another, `replaced`, marks the objects whose pointers were assigned to, of which
the property says what happens to them.

`Instances`: `Countable`, whose static vector of free numbers is used as a stack, and
`Singleton`, whose constructor may refuse. `ScopeGuards`: the three macros over a
stack of open scopes, `try` blocks and callbacks; `uncaught` is
`std::uncaught_exceptions()`, and a callback that runs while the stack is unwound
may open scopes and throw and catch exceptions of its own.

`Profiler`: a label is looked up by the chain of the running timers' ids and its
name. Timers of scopes and of regions may overlap instead of nesting. `Signal`:
setting up is three steps and a signal may arrive between them; the wrapper tests
the pointer and uses it in two steps. `Algorithms` runs a range-based `for`
over `range()`, `withStep`, `indicesOf`, `enumerate` and `zip` one iterator step at a
time, with unsigned numbers that wrap at `Modulus`, and calls the functions of `Strings`.

### modelgen and JSON

`Tokenizer` turns words into tokens. A word is a sequence of atoms: an identifier or
one character, as the tokenizer only asks whether a character is allowed, is
punctuation or ends a word. `Parser` is the recursive descent, one step per token, with the
errors each step can throw. The files are given, or written while they are
read: a word is chosen when the parser first looks at it, so that all files up to
`MaxWords` words are covered without enumerating them first. `Generator` generates and
registers the enums, registers the models and generates them, in the order of the
code, and describes each generated file by what its code does: includes, field
types, and the statements of `toJson()` and `fromJson()`. `GeneratedCode` runs these on
values of the fields: of built-in types, models, vectors and maps. Which generated classes a compiler takes
is `Compiles`: a model in a vector, for one, must be brought along by an included header.

`Json` has the operations of `JsonBuilder` as operators on the text and its
commas, and the reader of the JSON library (external), token by token with a stack of
what is open, so that theorems can be about it. What `addField()` writes depends on the overload that
the type of its argument selects (`Written`): a `std::string` gets its quotes, a `bool` is written as
`1` or `0`, a string literal or a character takes the overload for any other type and is written
as it stands, which may be a document or a word that is none (`<<"word">>`), and a
`Json::Value` is written whole. Numbers are those that the six digits of a stream
write exactly, names and strings need no escaping, and a literal is one
document or one word, not a part of a document. `JsonBuilder` is the machine that
calls the operations in any order. `JsonField` is a chain of calls on `fieldFrom()` with any
names, types and limits, `Store` being a caller that keeps the intermediate value in
a variable. What passes as a value of which C++ type is in `Fields`, which generated code needs
as well. `MCModelgen` composes them as `MCSingleThreaded` does, while the operators of `Json`
also run inside of the generated code.

Operators introduced by a comment "Mutant" are variants of the operator that
follows, each with a plausible bug. They are no part of any specification;
substituting one must make a stated property fail, which shows that the
property depends on that line of the code.

## 3. What TLC checks

| Run | Instance | States | Shows |
|---|---|---|---|
| `thread_safe_queue` | 4 threads, 2 queues, 3 elements, symmetric | 47 811 | `NoStrandedElement`, `NothingLost` |
| `task_scheduler` | 2 workers, 2 clients, 3 tasks, one of them nested and not waited for | 825 388 | `TypeOK`, `ExactlyOnce`, `NoStrandedTask`, `DestroyedClean`, `HaltsOnlyWhenDone`, implements `TaskPool` (`PoolSpec`) |
| `task_scheduler_live` | 2 workers, 1 client, 1 task that submits another and waits for it | 9 821 | `CallReturns`, `DestructorReturnsUnlessWakeupLost`, implements `TaskPool` with fairness (`PoolFairSpec`) |
| `task_scheduler_destructor` | 1 worker, no task | 43 | finding: the destructor may hang |
| `future` | 3 threads, two of them with all operations | 7 235 | `ReceivedOnce`, `GetNeverMoved`, `CallbackNotLost`, `WaitIncludesCallback`, `CallsReturn` |
| `future_consumed` | same | stops at it | finding: a callback may get a moved-from value |
| `future_callback` | same | stops at it | finding: a second callback may replace the first |
| `parallel` | the loop: 3 workers, 0..7 iterations, 4-bit int; or the buffer: capacity 4, 3 of it used, 2 producers, 1 consumer, 3 values | 52 095 | `FairDivision`, `EachIterationOnce`, `WaitReturns`; `NoSlotShared`, `EmptyIsEmpty`, implements `Fifo` (`FifoSpec`) |
| `ring_buffer_full` | capacity 3, all of it used | stops at it | finding: a full buffer is reported as empty |
| `single_threaded` | one of eight components at a time | 562 529 | `ToldInOrder`, `EveryoneTold`, `HandledInOrder`, `StoredAreHandled`, `StaleOnlyBeyondPool`, `DestroyedOnce`, `IdentityKept`, `GuardsRun`, `CallTree`, `HandlerCalled`, `LoopsExact`, `StringsExact` |
| `modelgen` | given files, and any files of up to 9 words | 1 498 188 | `ParsedIsSource`, `GivenAccepted`, `GeneratesDeclared`, `RoundTrip`, `BuilderFaithful`, `FieldChecked` |
| `modelgen_example` | `examples/ExampleModel.kcm` | stops at it | finding: the example is rejected |

**Bounds of the threads.** Four threads on a queue are enough for two consumers
and two producers, or a consumer asleep, one on its way, a producer and a thread
calling `done`; three elements fill a deque beyond what the threads can hold
attended. Two workers are the least with stealing, and make `call()` try each
queue twice before it blocks; the blocking `push` is reached when other threads
hold both mutexes. A nested task makes a worker submit to a queue whose owner has
left its loop, and one that waits can block its worker for ever. One that nobody waits
for (`task_scheduler`) has to be found by the worker that runs its caller, before
that worker leaves as well. Three copies of a
future let `get`, `then` and another `get` meet. A 4-bit int has 7 as its largest
value, so `parallel` covers every number of iterations that fits. No counter
is cut off by a guard there: the number of tasks bounds the runs. A capacity of
four with two producers, up to three values outstanding and no bound on the
number of pushes makes the indices wrap in every relative position.

**Bounds of `single_threaded`.** Three observers are a first, a middle and a last one,
which is what erasing tells apart, and their storage is replaced at one, two and
four; `MaxNesting` = 3 bounds the emissions under way at once, not how many
there are. Four events in a pool of three outgrow it from inside a handler, and
each event is emitted once so that order and repetition can be told. Three
`OwningPtr`s and two `LocalPtr`s with two objects move in every direction, themselves
included; an object that has died is not made again, pointers may be. The objects are of one class with three
bases: one that is right, one at an offset, and one without a virtual destructor. Three
instances let a number be given back out of order. `MaxDepth` = 5 fits a callback
in a scope in a callback with an exception for each. `MaxTimers` = 5 fits a name
under itself, beside itself and again after both. Eight numbers (`Modulus`) show a step
that passes the end and one that would wrap; strings of up to four of `a`, `/`
and `.` have separators at both ends, together and apart.

**Bounds of `modelgen`.** The given files contain a declaration of every kind, types used
before and after their declaration, declared twice, not at all and inside of
themselves, vectors and maps of built-in types and of models, fields of every built-in type, several files,
and punctuation with and without spaces. They are in the grammar that the parser has, and are
accepted (`GivenAccepted`). The repository's own example is accepted with semicolons and not as it is (`modelgen_example`). Objects have
up to two elements in a vector and one in a map. The files
written while they are read (`MaxWords` = 9) are long enough for a model with a field
and the beginning of another declaration, and hold words in the wrong place,
misspelt and not allowed. A builder gets up to four calls (`MaxCalls`), in each
of two rounds, with an argument of every kind: a number, a string, a bool, a literal that is a word and a
`Json::Value` that is an empty object; a chain of `fieldFrom` up to four (`MaxChecks`), with limits below,
at and above the values, and two names in documents that have one of them, both, or others. `IntMax` = 14 halves makes 7 the largest int, so that a number
can be too large.

The scheduler and the future come to an end, so their runs do not
check for deadlock. That the scheduler is not stuck before its end is
`HaltsOnlyWhenDone`: `CanStep(t)` lists what lets a thread go on (a mutex that is
free, a future that is fulfilled, a worker that has left), and in a state in which
no thread can, everything submitted has been executed and the destructor, if it has
begun, has returned, but for the two ways described below. Tasks that wait occur in
`task_scheduler_live` and in the theorem, not in `task_scheduler`. For the others it is
what the liveness properties say. The single-threaded components and `modelgen` can stop too:
each event is emitted once, a program ends with an error. The queues and the ring
buffer, whose threads never stop, are checked for deadlock, and so is the loop, which `MCParallel` lets stand
still once `wait()` has returned. `MCParallel` shows one of the two in a behaviour, as `MCSingleThreaded` does,
and requires fairness of those that show the loop.

**Fairness.** Threads are scheduled by the OS: weak fairness of each thread's next
step. A mutex need not be fair: nothing assumes that a thread waiting for a
mutex eventually gets it while others keep taking it. This is enough because
the other threads' calls end and the number of tasks is finite. Tasks and
callbacks return. A condition variable may wake a thread for no
reason, but not for ever (`<>[][~SpuriousWakeup]`): the lost wakeup of the
destructor would otherwise be healed by a wakeup that the standard allows but
does not promise. Nobody is obliged to submit a task, to destroy the
scheduler, or to call an operation of a future. As for every C++ object, the
owner destroys the scheduler only when no client is inside `call()` or will be.
The ring buffer and everything of one thread are checked for safety only.

**try_lock.** `std::mutex::try_lock` is assumed to fail only if the mutex is owned. The standard
allows it to fail on a free mutex; implementations on top of pthreads do not do it. The
scheduler depends on this: a worker that leaves has looked into every deque once, and one failure for no
reason can make it miss a task that was submitted by its own last task to the queue of a worker
that has left already. With a `TryLock` that may fail at any time, TLC finds this loss
(`DestroyedClean`) on the instance of `task_scheduler`; what relies on the assumption is
`DestroyedClean`, `HaltsOnlyWhenDone`, `PoolSpec`'s destruction and `PoolFairSpec`, and the theorems about the first three.

**Waiting tasks.** A task that waits for one it has submitted can wait for ever, even if
another worker is idle: that worker sleeps on its own queue and does not steal
from the one the task went to, which belongs to a worker that waits itself.
While the scheduler is destroyed, the worker of that queue may also have left.
`PoolFairSpec` and `DestructorReturnsUnlessWakeupLost` say that this is the only
way (`Stuck`): in every other fair behaviour all tasks are completed, and the
destructor returns unless the wakeup below is lost.

Findings:

* **The destructor can hang** (`DestructorReturns`). `done()`
  (`ThreadSafeQueue.hpp:57-60`) stores the flag and notifies without the mutex.
  Worker: finds the deque empty and `m_done` false. Owner: stores, notifies.
  Worker: sleeps. Owner: joins. `DestructorReturnsUnlessWakeupLost` shows that, waiting
  tasks aside, this is the only way: in every fair behaviour the destructor returns
  or a worker sleeps on a queue that is done.
* **A callback can get a moved-from value** (`ValueNotConsumedTwice`):
  `executeCallback()` does not check `m_valueConsumed` as `getValue()` does.
* **A callback can be replaced** (`CallbackSetOnce`): `then()` checks and sets
  under two separate locks. Each callback still runs at most once, and the one
  installed last is never lost (`CallbackNotLost`).
* **A full ring buffer says it is empty** (`EmptyIsEmpty` of `ring_buffer_full`).
* **The example of `modelgen` is rejected** (`GivenAccepted` of `modelgen_example`):
  `examples/ExampleModel.kcm` separates fields by commas, the parser expects semicolons.

Limits of the promises. These came up while modelling; the properties above are
stated so that they end where the code's promise ends.

* `async::loop` takes a `std::size_t` and computes in `int`: beyond the largest
  int the bounds wrap and iterations are lost. `MaxIterations = MaxInt` is the
  largest instance for which `EachIterationOnce` holds.
* `RingBuffer::pop()` returns a reference to a slot that no mutex protects any
  more. With two consumers, one of them slow to move its value out, a producer
  may overwrite that slot although the outstanding values fit (`NoSlotShared`
  fails for `Consumer = {c1, c2}`). The checks and proofs are for one consumer.
* An observer that unregisters one (itself included) from `onEvent()` moves the
  following ones down under the loop: the next is skipped, and slots behind the
  end of the vector are read. Hence `Calm` in `ToldInOrder` and `EveryoneTold`.
* An event emitted by a handler of `event2` is destroyed by the `clear()` at the
  end of the same `dispatch()`. Hence `StoredAreHandled` speaks of the events
  stored when `dispatch()` began. Beyond the reserved pool the loop's iterators
  dangle as well (`StaleOnlyBeyondPool`). A handler that throws leaves the events
  stored, so that the next `dispatch()` passes on the handled ones again:
  `HandledInOrder` starts anew there.
* An object whose `OwningPtr` is assigned to (`replaced`) is never destroyed. `DestroyedOnce` says so, and that
  its memory goes back exactly once, to its own allocator; the test at `test/mem/OwningPtrTests.cpp:163` expects
  one destructor call for two objects (line 185), although its name says `shouldDestructTwice`. A constructor that throws in
  `makeOwningPtr` leaks its memory.
* Nothing is claimed after these uses of pointers (`misused`): an `OwningPtr` that owns an object is converted to one of a base
  at an offset or without a virtual destructor, which would free another address, or destroy only a part
  (the constructor only asks for `std::derived_from`); an `OwningPtr` is assigned to itself, and refers to freed
  memory; a `LocalPtr` is moved from an empty one, or an empty one is assigned to, and refers to a
  buffer without an object.
* A label of the profiler gets a new order at every call: `prepareLabel()` looks
  for the bare name, which is never a key. `CallTree` therefore compares running
  timers only, and only as long as timers nest. `popRegionTimer()` on an empty
  stack is undefined and is not called (`End`).
* After `resetSignalHandler()` the wrapper stays installed and throws out of a
  signal handler (`isReset` in `HandlerCalled`).
* `indicesOf()` leaves out the last index and wraps for an empty container
  (`Expected` and `Proper`); a range that begins behind its end wraps; `strip()` of an
  empty string is undefined and is not called.
* `JsonBuilder` writes a `bool` as a number and a string literal without quotes; `BuilderFaithful` takes that to be what such
  a call means. It cannot be used again after `asJsonObject()` unless the caller opens an object
  (`used` in `BuilderFaithful`). A value of `fieldFrom` kept in a
  variable refers to a name that is gone (`stored` in `FieldChecked`).
* In generated code, `bool` fields are written as numbers and refused when they are read, and
  maps are read from all members of the document. `RoundTrip` says that an object comes
  back if and only if it holds neither: no object of `ExampleModel`, the class of the repository's
  example, does. Fields of an enum have no conversion, elements can be of no other
  built-in type than `int` and `str`, and the type inside a vector or map is not
  included: such classes do not compile (`Compiles`), unless the model is included for another field,
  and are not run. A model that has the name of
  a built-in type is never included, and of two models with one name only the last is
  written.
* `modelgen` reads behind the tokens for `[int,]` and for empty files, does not allow the letter
  `Y`, and rejects its example (above).

## 4. What is proved

The proofs hold for every value of the constants that satisfies the named
assumptions of the modules: finitely many threads at the queues, model values
distinct from the sets they mark, at least one worker, a positive capacity or
pool. The properties are those that TLC checks on the instances above.

* `ThreadSafeQueueProofs`: `TypeCorrect`, `MutexCorrect`,
  `NoStrandedElementCorrect`. The last is the absence of lost wakeups on the
  data path. It is a statement about cardinalities: while a thread sleeps, the
  deque is no longer than the set of threads that attend to it. It is not
  inductive alone. The invariant `IInv` adds that a thread inside a call is at a
  queue, the mutex discipline, and `SleepEmpty`: between the check and the
  sleep the deque is empty, because its owner holds the mutex. The step that
  matters is `NotifyOne`: the notifier leaves the set and either the woken
  thread takes its place or nobody sleeps any more; a push adds one element and
  one attending thread; a consumer that takes an element removes both.
* `TaskSchedulerProofs`, its first part: `TypeCorrect`, `MutexCorrect` and
  `NoStrandedTaskCorrect`. Every step of the scheduler is a step of its queues
  or leaves them alone, so the lemmas about the queues are used through
  `INSTANCE` and not proved again. What the scheduler adds is who does what: only
  worker `w` calls `pop` on queue `w` (`PopOwn`), the owner only notifies
  (`OwnerOnlyNotifies`), and roles, stages and loop variables fit together. From
  these, the attending threads of a queue on which its only consumer sleeps can
  only be notifying pushes.
* `TaskSchedulerProofs`, its next parts: `ExactlyOnceCorrect`, `DestroyedCleanCorrect`, `PoolSpecCorrect`.
  A task is with a thread, in a slot of a deque, run by a worker or completed.
  `Once` says that no place holds a task twice (`HandsDiffer`, `SlotsDiffer`,
  `RunsDiffer`), that a submitted task is in exactly one of the four (`Placed`) and
  that a worker that searches runs none (`Free`). Lemmas say what putting into and
  taking from each kind of place does; every action moves one task from one place to
  the next or touches none. `DestroyedClean` needs more (`DInv`): why workers that
  leave for good strand no task although others may still push to their deques. A worker
  leaves when `pop()` returns nothing, which needs `done()`, and by then no client
  is in `call()` or will be (`Quiet`). Tasks can still come, but only from running
  tasks, and the worker that runs them tries every deque before it sleeps again
  (`Attended`). A completed task has submitted what it submits (`Nested`), so by
  `CallerFounded` all are completed. `PoolSpecCorrect` is the refinement proof: `PushBack` is
  the pool's `Submit`, the step that takes a task out of a deque its `Start`, the
  end of the task its `Finish`, and the end of the destructor its `Destroy`, which is
  allowed because all tasks are done by then; every other step stutters.
* `TaskSchedulerProofs`, its last part: `HaltsOnlyWhenDoneCorrect`, the absence of
  deadlock. Where no thread can go on, nobody is inside of a critical section, so no mutex
  is owned, and no client is in `call()`; a worker sleeps, has left, or waits for a task.
  The deque of one that sleeps is empty by `NoStrandedTask`, that of one that has left by
  `Attended`. So a task that is not executed lies in front of a worker that waits, which is
  what `Stuck` describes, and if none is left the owner can only be in a `join()` of a worker that
  sleeps although its queue is done (`DoneSoFar`): the lost wakeup.
* `FutureProofs`: `TypeCorrect`, `ReceivedOnceCorrect`, `GetNeverMovedCorrect`,
  `CallbackNotLostCorrect`, `WaitIncludesCallbackCorrect`, for any set of holders
  (of the types there is the theorem alone, no run).
  The inductive invariant `IInv` is a conjunction of what the state of the
  context implies: who holds the mutex (`Holder`), how `m_value`, `m_valueSet` and
  `m_valueConsumed` go together (`ValueState`), which stages the callbacks can be
  in (`CallbackState`), and what a thread that has passed a check may rely on
  (`GetState`, `WaitState`). `OneReceiver` strengthens `ReceivedOnce`: whoever has
  the value, it is consumed.
* `RingBufferProofs`: `TypeCorrect` (for every capacity), `NoSlotSharedCorrect` and `FifoCorrect` for one
  consumer, `EmptyIsEmptyCorrect` for finitely many consumers with `Limit` below
  the capacity; any capacity and any set of producers. The consumer's assumption
  is stated in each theorem and cannot be dropped: with two of them TLC finds a
  counterexample to `NoSlotShared`. The capacity may be used in full. The
  argument: the outstanding values occupy an interval of slots, modulo the
  capacity; it begins with the slot the consumer is reading, if it is, followed by
  the available ones from the pop index on, and by the one being written just
  before the push index. The interval is no longer than `Limit`, so its slots are
  distinct. `FifoCorrect` is the refinement proof: `Write` is the abstract push,
  `Pop` the abstract pop, all else stutters.
* `ParallelLoopProofs`: `FairDivisionCorrect` and `EachIterationOnceCorrect`, if
  `MaxIterations <= MaxInt`, so that the iterations can be counted in the code's `int`. Range
  `i` begins at `i * share + min(i, remainder)`; the invariant says that the loop
  variables of the division agree with that, that a range's iterations up to its
  own position have been executed and no others. No wrapped value ever appears.
* `EventProofs`: for `event2`, `HandledInOrderCorrect`, `StoredAreHandledCorrect` and
  `StaleOnlyBeyondPoolCorrect`. The stored events are the last ones of all that were
  emitted (`Suffix`), so that a position in the vector is a time of emission.
  What has been handled lies in front of the loop's iterator (`Order`), a promised
  event has been handled or lies between the iterator and the end (`Promise`), and
  the capacity never falls below the pool (`Room`). For `event`,
  `ToldInOrderCorrect` and `EveryoneToldCorrect`, for any depth of nested emissions: while
  no observer leaves and the storage stays, the vector only grows at its end,
  so that what an emission has told is exactly the vector up to its iterator.
* `ComponentProofs`: the other components of one thread, in this order.
  `IdentityAlwaysKept`: the numbers below the counter are those of living instances and
  those in the vector, each once, so their count is the counter (`Below`); a new number
  is only taken when the vector is empty, and then the counter is the number of
  living instances. This is what bounds the numbers by the most instances alive at once.
  `GuardsAlwaysRun`, for any depth (TLC checks five): a guard remembers the
  exceptions in flight around it (`Nested`), and the current number exceeds what is
  around the innermost frame by one exactly while an exception is leaving it (`Counted`).
  `HandlerAlwaysCalled`: until the first reset the pointer is set whenever the wrapper
  is installed or running.
  `DestroyedOnceCorrect`, for any classes, wherever their bases lie and whichever destructors are virtual: what a
  pointer holds is alive, in memory of the allocator the pointer
  knows (`HeldAlive`), of a type that destroys all of it and lies where it begins; it is
  held by no other pointer (`OneHolder`), and what is alive and not replaced is held
  (`AliveHeld`). The type is what a conversion could break, and what is carried along by
  every move; a conversion that breaks it is marked as misused at once.
  `CallTreeCorrect`, for any names and any depth: the running timers are a path through the
  tree of labels (`OnPath`), whose ids are distinct and whose keys are those of the label
  above them extended by one id (`Tree`). That equal paths mean equal labels (`PathsDiffer`)
  needs no induction over their length: a new label lies under the
  newest running timer, whose path no other label has, so it repeats a path only if
  its key is not new.
  `LoopsExactCorrect`, for numbers of any width and containers of any size: the iterator stays on the grid
  of the steps and never wraps (`Visiting`), and what has been visited is the grid in front of
  it; `withStep` compares with `>=`, so that an end between two steps is not
  jumped over. The arithmetic of steps is in `GridSteps`.

* `ModelgenProofs`: `FieldCheckedCorrect`, for any documents, names and limits and any length of
  the chain. Only the first call gives the name (`Named`), so the member that the calls before the type and the
  checks behind it speak of is the same one; the value is that member, and a check is reached only
  with the type it was extracted as (`Extracted`). As long as nothing is thrown all calls
  are satisfied, and what is thrown is about the last of them.
  `GeneratesDeclaredCorrect`, for any words in any files. The parser is needed for what it collects
  (`ParserOK`) and because its end is final (`ParserEnds`): it never adds a model while the generator runs.
  Every file so far is that of the enum or model it should be (`IsFileOf`), and what is registered
  (`Known`) grows from the enums so far to everything that is declared before the first model is
  generated; that is why no order of the declarations matters. The last file of a name is then
  the largest of its positions.

  `StringsExactCorrect`, for strings of any length over any characters. The prover has no
  induction principle that could be applied to a loop, but the well-foundedness of the numbers
  below a bound can be cited: `Rounds` derives from it that the states of a recursively defined loop
  are those of a function over its rounds, and every statement
  about a loop is proved by an induction over the rounds that went before. `split()` has collected what lies
  in front of the last separator it passed, and holds the stretch behind it;
  the parts of the reference are numbered by the places at which they
  start (`Starts`, `Rank`), so that a loop that passes the end of a part adds the next one
  (`PartAdded`). `join()` puts a separator behind every part but the last. `strip()` and
  `extractNameFromPath()` need no induction but the greatest and the smallest element of a set of places.
  Assumed is that the bound on the length is a number (`LengthAssumption`).

  `ParsedIsSourceCorrect`, for any files. The text of the tokens behind the parser is that of the models and
  enums it has completed, in some order, followed by what has been read of the one under
  construction (`Agrees`, in `SourceInv`): one lemma for each step of the parser, in which a token goes from what is
  in front of the parser to what has begun, or what has begun to what is completed. That the
  order is one of those the property allows (`OrdersGrow`) is a matter of cardinalities: an order is given by the
  places of the models, and the new one comes last. What the tokenizer reads, word by word, is the
  text of its tokens (`TokenTexts`, `ReadTokens`). At the end nothing is under construction and all tokens
  have been passed. `Opening`, `Closing` and `End` name the characters `{`, `}`
  and `;`, which the SMT backend cannot encode in a string.

  `BuilderFaithfulCorrect`, for any names, arguments of every kind (`ValueAssumption`) and any number of calls, in any order. What
  an argument means, in the document that the calls describe (`Meaning`), is stated apart from what is written for it
  (`Written`): `WrittenMeans` relates the two, `ReadStanding` deals with a word, which no document contains. The
  property compares two machines that are fed with different things: the reader with the tokens
  of a text, `Described` with the calls. The invariant (`BuilderInv`) says that reading what is
  written so far leaves the reader where the calls say (`Follows`): with the same containers open
  and the same contents, expecting a comma exactly if `m_shouldInsertComma` is set, or with
  the same document, or error, for good. Each call then is one lemma (`FollowsBegin`, ..., `FollowsAddArray`)
  about the one to six tokens it writes; the error that a misplaced call
  means is the one the reader makes of the first of its tokens that does not fit. Both machines are
  recursive functions, which `ReadAppend` and `DescribedAppend` turn into a step per token and
  per call. A builder that is used again writes into an empty text
  (`Abandoned`): unless its caller opens an object, the first token ends the document without one or
  opens an array, and nothing that follows can replace the outermost container (`NoObject`).

`NothingLostCorrect` of `ThreadSafeQueueProofs` has an action property in it: no element is ever
in two places, and none disappears in a step other than its holder's `Discard`.

Assumptions, each named in the module that declares the constants: in `TaskScheduler`, that
following the callers of a task leads to a client (`CallerFounded`; no task submits
itself); in `Instances` and `Signal`, that `NoInstance` and `NoHandler` are none; in `Algorithms`,
that sizes are numbers below `Modulus` (`NumberAssumption`); in `SmartPointers`,
that the values for nothing are no objects, memory, allocators or classes, that the bases at an offset are bases, and that no class is
a base of itself; in `JsonField`, that
numbers, limits and sizes are numbers (`DocumentAssumption`, `LimitAssumption`); in `Parser`, that words are
sequences of strings (`WordAssumption`); in `JsonBuilder`, that arguments are of the kinds that `Written` knows and that the marks of a reader without a
document are no documents (`ValueAssumption`); in `Algorithms`, that there is a longest string to be checked (`LengthAssumption`). The theorems
on `ParallelLoop` and `RingBuffer` state their further hypotheses themselves. What is assumed without a name is
the behaviour of `try_lock` (section 3), which is built into `TryLock`.

Only model-checked: everything temporal under fairness (`CallsReturn`, `CallReturns`,
`DestructorReturnsUnlessWakeupLost`, `WaitReturns`, `PoolFairSpec`), which the prover
does not support; `RoundTrip`, because the module `GeneratedCode` needs `RECURSIVE`.

## 5. Plan

Done: all modules, and the proofs above. Left: `RoundTrip` for every depth of models inside of
models, which needs `toJson()` and `fromJson()` as functions over a bounded depth instead of
recursive operators, and an induction over that depth. What the safety part of
`DestructorReturnsUnlessWakeupLost` amounts to, that nothing but the lost wakeup and tasks that
wait for each other can halt the destructor, is `HaltsOnlyWhenDone`.

## 6. Not modelled

`math` (floating-point geometry and random numbers), `parallel` and `cv` (wrappers of
OpenCL and OpenCV, whose state lives outside of the library), `core` file, clock, log
and UUID helpers (I/O without a protocol), `core::Profiler` (the predecessor of `prof`: a map
of measured times), the configuration loaders (a file passed to `fieldFrom()`) and
`model` (interfaces) have no behaviour a model checker could enumerate. Of the
modelled components these are left out:

* a task that throws (it terminates the program in every order), and a callback of
  a future that throws;
* a callback that uses its own future: it locks its own mutex again;
* a scheduler without workers: `WorkerCountAssumption` excludes it, and the code
  computes modulo zero;
* a handler of `event2` that calls `dispatch()`;
* measured times and `format()` of the profiler, the postfix `++` of iterators,
  `indexOf()` and `contains()`;
* the text of generated files and messages, beyond what it does when it is compiled and run.
