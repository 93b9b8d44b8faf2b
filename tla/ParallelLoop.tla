---------------------------- MODULE ParallelLoop ----------------------------
(***************************************************************************)
(* kc::async::loop(ts, iterations, worker).wait(): the iterations are cut  *)
(* into one range per worker thread, each range becomes a task of the      *)
(* scheduler, and the caller waits for all the futures.  The scheduler is  *)
(* the TaskPool that TaskScheduler implements; its tasks are the ranges.   *)
(*                                                                         *)
(* `iterations' is a std::size_t, the bounds of the ranges are ints of     *)
(* IntRange = 2^width values: what is assigned to an int wraps.            *)
(***************************************************************************)
EXTENDS Integers

CONSTANTS
    WorkerCount,    \* ts.getWorkerCount()
    MaxIterations,  \* the largest argument of loop()
    IntRange        \* how many values an int has

MaxInt == (IntRange \div 2) - 1

ASSUME WorkerCountAssumption == WorkerCount \in Nat \ {0}
ASSUME MaxIterationsAssumption == MaxIterations \in Nat
ASSUME IntRangeAssumption ==
    /\ IntRange \in Nat /\ IntRange % 2 = 0
    /\ WorkerCount <= MaxInt

\* Conversion of a std::size_t to int.
ToInt(n) == ((n + MaxInt + 1) % IntRange) - (MaxInt + 1)

Chunk == 0 .. WorkerCount - 1

VARIABLES
    status, destroyed,  \* the scheduler, as a TaskPool of the chunks
    iterations,         \* the argument of loop()
    i,                  \* the loop variable of loop()
    rangeEnd,
    remainder,
    begin, end,         \* begin[c], end[c]: what the lambda of chunk c captured
    j,                  \* j[c]: the loop variable of the lambda of chunk c
    executed,           \* {<<c, n>>: chunk c has called worker(n)}
    awaited             \* how many of the futures wait() has gone through

callVars == <<iterations, i, rangeEnd, remainder, begin, end>>
loopVars == <<status, destroyed, callVars, j, executed, awaited>>

Pool == INSTANCE TaskPool WITH Task <- Chunk

IntValue == -(MaxInt + 1) .. MaxInt

LoopInit ==
    /\ Pool!Init
    /\ iterations \in 0 .. MaxIterations
    /\ i = 0
    /\ rangeEnd = 0
    /\ remainder = ToInt(iterations % WorkerCount)
    /\ begin = [c \in Chunk |-> 0]
    /\ end = [c \in Chunk |-> 0]
    /\ j = [c \in Chunk |-> 0]
    /\ executed = {}
    /\ awaited = 0

batch == iterations \div WorkerCount

----------------------------------------------------------------------------
\* Mutant: one remainder too many is handed out.
CallChunkExtra ==
    /\ i < WorkerCount
    /\ LET newEnd == IF remainder >= 0 THEN ToInt(ToInt(rangeEnd + batch) + 1)
                     ELSE ToInt(rangeEnd + batch)
       IN  /\ rangeEnd' = newEnd
           /\ begin' = [begin EXCEPT ![i] = rangeEnd]
           /\ end' = [end EXCEPT ![i] = newEnd]
    /\ remainder' = remainder - 1
    /\ Pool!Submit(i)
    /\ i' = i + 1
    /\ UNCHANGED <<iterations, j, executed, awaited>>

\* One iteration of the for loop: the next range is computed and the lambda
\* that captures it is passed to call().
CallChunk ==
    /\ i < WorkerCount
    /\ LET newEnd == IF remainder > 0 THEN ToInt(ToInt(rangeEnd + batch) + 1)
                     ELSE ToInt(rangeEnd + batch)
       IN  /\ rangeEnd' = newEnd
           /\ begin' = [begin EXCEPT ![i] = rangeEnd]
           /\ end' = [end EXCEPT ![i] = newEnd]
    /\ remainder' = remainder - 1
    /\ Pool!Submit(i)
    /\ i' = i + 1
    /\ UNCHANGED <<iterations, j, executed, awaited>>

----------------------------------------------------------------------------
\* The lambda: for (int j = rangeBegin; j < rangeEnd; ++j) worker(j).
StartChunk(c) ==
    /\ Pool!Start(c)
    /\ j' = [j EXCEPT ![c] = begin[c]]
    /\ UNCHANGED <<callVars, executed, awaited>>

\* Mutant: the upper bound is inclusive.
CallWorkerInclusive(c) ==
    /\ status[c] = "running" /\ j[c] <= end[c]
    /\ executed' = executed \cup {<<c, j[c]>>}
    /\ j' = [j EXCEPT ![c] = @ + 1]
    /\ UNCHANGED <<callVars, status, destroyed, awaited>>

CallWorker(c) ==
    /\ status[c] = "running" /\ j[c] < end[c]
    /\ executed' = executed \cup {<<c, j[c]>>}
    /\ j' = [j EXCEPT ![c] = @ + 1]
    /\ UNCHANGED <<callVars, status, destroyed, awaited>>

\* Mutant: the promise is fulfilled by the last iteration of the range.
FinishChunkByIteration(c) ==
    /\ j[c] >= end[c] /\ j[c] > begin[c]
    /\ Pool!Finish(c)
    /\ UNCHANGED <<callVars, j, executed, awaited>>

FinishChunk(c) ==
    /\ j[c] >= end[c]
    /\ Pool!Finish(c)
    /\ UNCHANGED <<callVars, j, executed, awaited>>

ChunkStep(c) == StartChunk(c) \/ CallWorker(c) \/ FinishChunk(c)

----------------------------------------------------------------------------
\* Mutant: the state of the future is not looked at.
WaitNextBlind ==
    /\ i = WorkerCount /\ awaited < WorkerCount
    /\ awaited' = awaited + 1
    /\ UNCHANGED <<callVars, status, destroyed, j, executed>>

\* FutureCollection::wait(), one future after the other.
WaitNext ==
    /\ i = WorkerCount /\ awaited < WorkerCount
    /\ status[awaited] = "done"
    /\ awaited' = awaited + 1
    /\ UNCHANGED <<callVars, status, destroyed, j, executed>>

LoopNext == CallChunk \/ WaitNext \/ \E c \in Chunk : ChunkStep(c)

LoopSpec == LoopInit /\ [][LoopNext]_loopVars

\* The caller is not suspended for ever, nor is a task that was submitted
\* (TaskPool!FairSpec), nor does a call of worker(n) fail to return.
LoopFairness ==
    WF_loopVars(CallChunk \/ WaitNext) /\ \A c \in Chunk : WF_loopVars(ChunkStep(c))

----------------------------------------------------------------------------
Returned == awaited = WorkerCount

\* The bounds of the first n chunks in closed form.
Bound(n) ==
    n * batch + (IF n < iterations % WorkerCount THEN n
                 ELSE iterations % WorkerCount)

\* Each range is the one a fair division gives: ranges are adjacent, and
\* their lengths differ by one at most.
FairDivision ==
    \A c \in Chunk : c < i => begin[c] = Bound(c) /\ end[c] = Bound(c + 1)

\* worker(n) is never called twice for the same n, by whichever threads, and
\* never for an n that is no iteration; when wait() has returned, it has been
\* called for every iteration.
EachIterationOnce ==
    /\ \A x, y \in executed : x[2] = y[2] => x = y
    /\ \A x \in executed : x[2] \in 0 .. iterations - 1
    /\ Returned => \A n \in 0 .. iterations - 1 : \E c \in Chunk : <<c, n>> \in executed

\* Once loop() has passed a range to the scheduler, wait() returns.
WaitReturns == i > 0 ~> Returned

=============================================================================
