------------------------- MODULE ParallelLoopProofs -------------------------
(***************************************************************************)
(* async::loop() for any number of workers and of iterations that an int   *)
(* can count: the ranges are adjacent and together they are the iterations,*)
(* so that what the workers execute, each going through its own range, is  *)
(* every iteration once.                                                   *)
(***************************************************************************)
EXTENDS ParallelLoop, TLAPS

Status == {"new", "queued", "running", "done"}

LoopOK ==
    /\ iterations \in 0 .. MaxIterations /\ i \in 0 .. WorkerCount
    /\ begin \in [Chunk -> Int] /\ end \in [Chunk -> Int] /\ j \in [Chunk -> Int]
    /\ status \in [Chunk -> Status] /\ awaited \in 0 .. WorkerCount
    /\ executed \subseteq Chunk \X Int

\* How far loop() has divided the iterations.
Divided ==
    /\ rangeEnd = Bound(i)
    /\ remainder = (iterations % WorkerCount) - i
    /\ FairDivision

\* The chunk c has gone through the numbers from its first one to before n.
WentTo(c, n) == \A m \in Int : <<c, m>> \in executed <=> begin[c] <= m /\ m < n

\* How far chunk c has come.
Progress(c) ==
    /\ status[c] # "new" => c < i
    /\ status[c] \in {"new", "queued"} => \A m \in Int : <<c, m>> \notin executed
    /\ status[c] = "running" => begin[c] <= j[c] /\ j[c] <= end[c] /\ WentTo(c, j[c])
    /\ status[c] = "done" => WentTo(c, end[c])

LoopInv ==
    /\ LoopOK
    /\ Divided
    /\ \A c \in Chunk : Progress(c)
    /\ \A c \in Chunk : c < awaited => status[c] = "done"

----------------------------------------------------------------------------
\* Division with a remainder.
LEMMA Remainder ==
    ASSUME NEW a \in Nat, NEW b \in Nat \ {0}
    PROVE  \E q \in Nat, r \in 0 .. b - 1 : q = a \div b /\ r = a % b /\ a = q * b + r
<1>1. a \div b \in Nat /\ a % b \in 0 .. b - 1
  OBVIOUS
<1>2. PICK q \in Nat, r \in 0 .. b - 1 : q = a \div b /\ r = a % b
  BY <1>1
<1>3. a = q * b + r
  BY <1>2
<1> QED BY <1>2, <1>3

\* The bounds of the chunks of t iterations, with b in each and one more in the
\* first r of them: they grow from chunk to chunk, and between two of them is
\* every number that is between the first and the last.
At(b, r, n) == n * b + (IF n < r THEN n ELSE r)

LEMMA AtNext ==
    ASSUME NEW b \in Nat, NEW r \in Nat, NEW n \in Nat
    PROVE  /\ At(b, r, n) \in Nat
           /\ At(b, r, n + 1) = At(b, r, n) + b + (IF n < r THEN 1 ELSE 0)
<1>1. n * b \in Nat /\ (n + 1) * b = n * b + b
  OBVIOUS
<1> QED BY <1>1 DEF At

LEMMA AtGrows ==
    ASSUME NEW b \in Nat, NEW r \in Nat, NEW m \in Nat, NEW n \in Nat, m <= n
    PROVE  At(b, r, m) <= At(b, r, n)
<1>1. m * b <= n * b /\ m * b \in Nat /\ n * b \in Nat
  OBVIOUS
<1> QED BY <1>1 DEF At

LEMMA AtCovers ==
    ASSUME NEW b \in Nat, NEW w \in Nat \ {0}, NEW r \in 0 .. w - 1,
           NEW k \in Nat, k < At(b, r, w)
    PROVE  \E c \in 0 .. w - 1 : At(b, r, c) <= k /\ k < At(b, r, c + 1)
<1>1. r * (b + 1) = r * b + r /\ r * b \in Nat /\ w * b \in Nat /\ At(b, r, w) = w * b + r
  BY DEF At
<1>2. CASE k < r * (b + 1)
  <2>1. PICK c \in Nat, m \in 0 .. b : k = c * (b + 1) + m
    <3>1. PICK d \in Nat \ {0} : d = b + 1 /\ d - 1 = b
      OBVIOUS
    <3>2. PICK q \in Nat, s \in 0 .. d - 1 : k = q * d + s
      BY Remainder, ZenonT(30)
    <3> QED BY <3>1, <3>2
  <2>2. c < r
    <3>1. ASSUME c >= r PROVE c * (b + 1) >= r * (b + 1)
      BY <3>1
    <3> QED BY <1>2, <2>1, <3>1
  <2>3. c * (b + 1) = c * b + c /\ c * b \in Nat
    OBVIOUS
  <2>4. At(b, r, c) = c * b + c
    BY <2>2 DEF At
  <2>5. At(b, r, c) <= k /\ k < At(b, r, c + 1)
    <3>1. At(b, r, c + 1) = At(b, r, c) + b + 1
      BY <2>2, AtNext
    <3> QED BY <2>1, <2>3, <2>4, <3>1
  <2> QED BY <2>2, <2>5
<1>3. CASE k >= r * (b + 1)
  <2>1. b # 0
    <3>1. b = 0 => w * b = 0 /\ r * b = 0
      OBVIOUS
    <3> QED BY <1>1, <1>3, <3>1
  <2>2. PICK d \in Nat, m \in 0 .. b - 1 : k - (r * b + r) = d * b + m
    <3>1. k - (r * b + r) \in Nat /\ b \in Nat \ {0}
      BY <1>1, <1>3, <2>1
    <3> QED BY <3>1, Remainder
  <2> DEFINE c == r + d
  <2>3. c * b = r * b + d * b /\ c \in Nat /\ c >= r /\ c * b \in Nat /\ d * b \in Nat
    OBVIOUS
  <2> HIDE DEF c
  <2>4. k = c * b + r + m
    BY <1>1, <2>2, <2>3
  <2>5. At(b, r, c) = c * b + r
    BY <2>3 DEF At
  <2>6. At(b, r, c) <= k /\ k < At(b, r, c + 1)
    <3>1. At(b, r, c + 1) = At(b, r, c) + b
      <4>1. c \in Nat /\ ~ (c < r) /\ r \in Nat
        BY <2>3
      <4>2. At(b, r, c + 1) = At(b, r, c) + b + 0 /\ At(b, r, c) \in Nat
        BY <4>1, AtNext
      <4> QED BY <4>2
    <3> QED BY <2>2, <2>3, <2>4, <2>5, <3>1
  <2>7. c < w
    <3>1. ASSUME c >= w PROVE w * b <= c * b
      BY <2>3, <3>1
    <3> QED BY <1>1, <2>2, <2>3, <2>4, <3>1
  <2> QED BY <2>3, <2>6, <2>7
<1> QED BY <1>2, <1>3

\* A number that fits into an int is not changed by becoming one.
LEMMA Fits == ASSUME NEW n \in 0 .. MaxInt PROVE ToInt(n) = n
<1>1. IntRange \in Nat /\ IntRange % 2 = 0 /\ MaxInt \in Nat /\ IntRange = 2 * (MaxInt + 1)
  BY IntRangeAssumption, WorkerCountAssumption DEF MaxInt
<1>2. n + MaxInt + 1 \in 0 .. IntRange - 1
  BY <1>1
<1>3. \A m \in 0 .. IntRange - 1 : m % IntRange = m
  BY <1>1
<1> QED BY <1>1, <1>2, <1>3 DEF ToInt

\* The bounds of the chunks.
LEMMA Bounds ==
    ASSUME iterations \in Nat
    PROVE  /\ batch \in Nat /\ iterations % WorkerCount \in 0 .. WorkerCount - 1
           /\ Bound(0) = 0 /\ Bound(WorkerCount) = iterations
           /\ \A n \in Nat :
                /\ Bound(n) \in Nat
                /\ Bound(n + 1) = Bound(n) + batch + (IF n < iterations % WorkerCount THEN 1 ELSE 0)
           /\ \A m, n \in Nat : m <= n => Bound(m) <= Bound(n)
           /\ \A k \in 0 .. iterations - 1 : \E c \in Chunk : Bound(c) <= k /\ k < Bound(c + 1)
<1> DEFINE r == iterations % WorkerCount
<1>1. /\ batch \in Nat /\ r \in 0 .. WorkerCount - 1 /\ r \in Nat
      /\ iterations = batch * WorkerCount + r
  BY WorkerCountAssumption, Remainder DEF batch
<1>2. \A n : Bound(n) = At(batch, r, n)
  BY DEF Bound, At
<1> HIDE DEF r
<1>3. Bound(0) = 0 /\ Bound(WorkerCount) = iterations
  <2>1. 0 * batch = 0 /\ WorkerCount * batch = batch * WorkerCount /\ WorkerCount \in Nat
    BY <1>1, WorkerCountAssumption
  <2> QED BY <1>1, <1>2, <2>1 DEF At
<1>4. \A n \in Nat : Bound(n) \in Nat /\ Bound(n + 1) = Bound(n) + batch + (IF n < r THEN 1 ELSE 0)
  BY <1>1, <1>2, AtNext
<1>5. \A m, n \in Nat : m <= n => Bound(m) <= Bound(n)
  BY <1>1, <1>2, AtGrows
<1>6. \A k \in 0 .. iterations - 1 : \E c \in Chunk : Bound(c) <= k /\ k < Bound(c + 1)
  <2> SUFFICES ASSUME NEW k \in 0 .. iterations - 1
               PROVE  \E c \in Chunk : Bound(c) <= k /\ k < Bound(c + 1)
    OBVIOUS
  <2>1. k \in Nat /\ k < At(batch, r, WorkerCount)
    BY <1>2, <1>3
  <2>2. PICK c \in 0 .. WorkerCount - 1 : At(batch, r, c) <= k /\ k < At(batch, r, c + 1)
    BY <1>1, <2>1, AtCovers, WorkerCountAssumption
  <2> QED BY <1>2, <2>2 DEF Chunk
<1> QED BY <1>1, <1>3, <1>4, <1>5, <1>6 DEF r

----------------------------------------------------------------------------
LEMMA LoopInitInv == LoopInit => LoopInv
<1> SUFFICES ASSUME LoopInit PROVE LoopInv
  OBVIOUS
<1>1. /\ status = [c \in Chunk |-> "new"] /\ iterations \in 0 .. MaxIterations /\ i = 0
      /\ rangeEnd = 0 /\ remainder = ToInt(iterations % WorkerCount)
      /\ begin = [c \in Chunk |-> 0] /\ end = [c \in Chunk |-> 0] /\ j = [c \in Chunk |-> 0]
      /\ executed = {} /\ awaited = 0
  BY DEF LoopInit, Pool!Init
<1>2. LoopOK
  BY <1>1, WorkerCountAssumption DEF LoopOK, Status
<1>3. iterations \in Nat /\ WorkerCount \in Nat
  BY <1>1, MaxIterationsAssumption, WorkerCountAssumption
<1>4. iterations % WorkerCount \in 0 .. WorkerCount - 1 /\ Bound(0) = 0
  BY <1>3, Bounds
<1>5. remainder = iterations % WorkerCount
  BY <1>1, <1>3, <1>4, Fits, IntRangeAssumption DEF MaxInt
<1>6. Divided
  BY <1>1, <1>4, <1>5 DEF Divided, FairDivision, Chunk
<1>7. \A c \in Chunk : Progress(c)
  BY <1>1 DEF Progress
<1>8. \A c \in Chunk : ~ (c < awaited)
  BY <1>1 DEF Chunk
<1> QED BY <1>2, <1>6, <1>7, <1>8 DEF LoopInv

\* As long as the argument stays what it is the bounds do.
LEMMA BoundsStay ==
    ASSUME iterations' = iterations
    PROVE  batch' = batch /\ \A n : Bound(n)' = Bound(n)
  BY DEF batch, Bound

\* The next range begins where the last one has ended.
LEMMA CallChunkInv ==
    ASSUME MaxIterations <= MaxInt, LoopInv, CallChunk
    PROVE  LoopInv'
<1> DEFINE b == Bound(i)
           e == Bound(i + 1)
<1>1. /\ i \in Nat /\ i \in Chunk /\ i < WorkerCount /\ WorkerCount \in Nat
      /\ iterations \in Nat /\ iterations <= MaxInt /\ MaxInt \in Nat
      /\ i' = i + 1 /\ iterations' = iterations /\ remainder' = remainder - 1
      /\ j' = j /\ executed' = executed /\ awaited' = awaited
      /\ status[i] = "new" /\ status' = [status EXCEPT ![i] = "queued"]
  BY WorkerCountAssumption, MaxIterationsAssumption, IntRangeAssumption
     DEF CallChunk, LoopInv, LoopOK, Chunk, Pool!Submit, Pool!Advance, MaxInt
<1>2. /\ b \in Nat /\ e \in Nat /\ e <= iterations /\ batch \in Nat
      /\ iterations % WorkerCount \in 0 .. WorkerCount - 1
      /\ e = b + batch + (IF i < iterations % WorkerCount THEN 1 ELSE 0)
  BY <1>1, Bounds
<1>3. rangeEnd = b /\ remainder = (iterations % WorkerCount) - i
  BY DEF LoopInv, Divided
<1> HIDE DEF b, e
<1>4. (IF remainder > 0 THEN ToInt(ToInt(rangeEnd + batch) + 1) ELSE ToInt(rangeEnd + batch)) = e
  <2>1. b + batch \in 0 .. MaxInt /\ e \in 0 .. MaxInt
    BY <1>1, <1>2
  <2>2. ToInt(b + batch) = b + batch /\ ToInt(e) = e
    BY <2>1, Fits
  <2>3. CASE remainder > 0
    <3>1. e = b + batch + 1
      BY <1>1, <1>2, <1>3, <2>3
    <3> QED BY <1>3, <2>2, <2>3, <3>1
  <2>4. CASE ~ (remainder > 0)
    <3>1. e = b + batch
      BY <1>1, <1>2, <1>3, <2>4
    <3> QED BY <1>3, <2>2, <2>4, <3>1
  <2> QED BY <2>3, <2>4
<1>5. rangeEnd' = e /\ begin' = [begin EXCEPT ![i] = b] /\ end' = [end EXCEPT ![i] = e]
  BY <1>3, <1>4 DEF CallChunk
<1>6. LoopOK'
  BY <1>1, <1>2, <1>5 DEF LoopInv, LoopOK, Status
<1>7. Divided'
  <2>1. rangeEnd' = Bound(i)'
    BY <1>1, <1>5 DEF e, Bound, batch
  <2>2. remainder' = (iterations' % WorkerCount) - i'
    BY <1>1, <1>2, <1>3
  <2>3. ASSUME NEW c \in Chunk, c < i + 1
        PROVE  begin'[c] = Bound(c) /\ end'[c] = Bound(c + 1)
    <3>1. CASE c = i
      BY <1>1, <1>5, <3>1 DEF LoopInv, LoopOK, b, e
    <3>2. CASE c # i
      <4>1. c < i
        BY <1>1, <2>3, <3>2 DEF Chunk
      <4>2. begin'[c] = begin[c] /\ end'[c] = end[c]
        BY <1>5, <3>2 DEF LoopInv, LoopOK
      <4> QED BY <4>1, <4>2 DEF LoopInv, Divided, FairDivision
    <3> QED BY <3>1, <3>2
  <2>4. FairDivision'
    BY <1>1, <2>3, BoundsStay DEF FairDivision
  <2> QED BY <2>1, <2>2, <2>4 DEF Divided
<1>8. ASSUME NEW c \in Chunk PROVE Progress(c)'
  <2>1. CASE c = i
    <3>1. status'[c] = "queued" /\ \A m \in Int : <<c, m>> \notin executed
      BY <1>1, <2>1 DEF LoopInv, LoopOK, Progress
    <3> QED BY <1>1, <2>1, <3>1 DEF Progress
  <2>2. CASE c # i
    <3>1. status'[c] = status[c] /\ begin'[c] = begin[c] /\ end'[c] = end[c] /\ Progress(c)
      BY <1>1, <1>5, <2>2 DEF LoopInv, LoopOK
    <3>2. c < i => c < i'
      BY <1>1 DEF Chunk
    <3> QED BY <1>1, <3>1, <3>2 DEF Progress, WentTo
  <2> QED BY <2>1, <2>2
<1>9. \A c \in Chunk : c < awaited' => status'[c] = "done"
  BY <1>1 DEF LoopInv, LoopOK
<1> QED BY <1>6, <1>7, <1>8, <1>9 DEF LoopInv

\* The other steps leave the division alone.
LEMMA DividedStays ==
    ASSUME LoopInv, UNCHANGED callVars
    PROVE  Divided' /\ iterations' = iterations /\ i' = i /\ begin' = begin /\ end' = end
<1>1. Divided'
  BY BoundsStay DEF callVars, LoopInv, Divided, FairDivision, Bound, batch
<1> QED BY <1>1 DEF callVars

\* A range that has been computed does not end before it begins.
LEMMA ChunkBounds ==
    ASSUME LoopInv, NEW c \in Chunk, c < i
    PROVE  begin[c] <= end[c]
<1>1. iterations \in Nat /\ c \in Nat
  BY MaxIterationsAssumption DEF LoopInv, LoopOK, Chunk
<1>2. Bound(c) <= Bound(c + 1)
  BY <1>1, Bounds
<1> QED BY <1>2 DEF LoopInv, Divided, FairDivision

\* What a step of one chunk does to the others is nothing.
LEMMA StartChunkInv == ASSUME LoopInv, NEW c \in Chunk, StartChunk(c) PROVE LoopInv'
<1>1. /\ UNCHANGED callVars /\ executed' = executed /\ awaited' = awaited
      /\ status[c] = "queued" /\ status' = [status EXCEPT ![c] = "running"]
      /\ j' = [j EXCEPT ![c] = begin[c]]
  BY DEF StartChunk, Pool!Start, Pool!Advance
<1>2. Divided' /\ iterations' = iterations /\ i' = i /\ begin' = begin /\ end' = end
  BY <1>1, DividedStays
<1>3. LoopOK'
  BY <1>1, <1>2 DEF LoopInv, LoopOK, Status
<1>4. ASSUME NEW d \in Chunk PROVE Progress(d)'
  <2>1. CASE d = c
    <3>1. c < i /\ (\A m \in Int : <<c, m>> \notin executed) /\ begin[c] \in Int /\ end[c] \in Int
      BY <1>1 DEF LoopInv, LoopOK, Progress
    <3>2. begin[c] <= end[c]
      BY <3>1, ChunkBounds
    <3>3. status'[c] = "running" /\ j'[c] = begin[c]
      BY <1>1 DEF LoopInv, LoopOK
    <3> QED BY <1>1, <1>2, <2>1, <3>1, <3>2, <3>3 DEF Progress, WentTo
  <2>2. CASE d # c
    <3>1. status'[d] = status[d] /\ j'[d] = j[d] /\ Progress(d)
      BY <1>1, <2>2 DEF LoopInv, LoopOK
    <3> QED BY <1>1, <1>2, <3>1 DEF Progress, WentTo
  <2> QED BY <2>1, <2>2
<1>5. \A d \in Chunk : d < awaited' => status'[d] = "done"
  BY <1>1 DEF LoopInv, LoopOK
<1> QED BY <1>2, <1>3, <1>4, <1>5 DEF LoopInv

LEMMA CallWorkerInv == ASSUME LoopInv, NEW c \in Chunk, CallWorker(c) PROVE LoopInv'
<1>1. /\ UNCHANGED callVars /\ status' = status /\ awaited' = awaited
      /\ status[c] = "running" /\ j[c] < end[c] /\ j[c] \in Int /\ end[c] \in Int
      /\ executed' = executed \cup {<<c, j[c]>>} /\ j' = [j EXCEPT ![c] = j[c] + 1]
  BY DEF CallWorker, LoopInv, LoopOK
<1>2. Divided' /\ iterations' = iterations /\ i' = i /\ begin' = begin /\ end' = end
  BY <1>1, DividedStays
<1>3. LoopOK'
  BY <1>1, <1>2 DEF LoopInv, LoopOK
<1>4. ASSUME NEW d \in Chunk PROVE Progress(d)'
  <2>1. CASE d = c
    <3>1. /\ c < i /\ begin[c] <= j[c] /\ begin[c] \in Int
          /\ \A m \in Int : <<c, m>> \in executed <=> begin[c] <= m /\ m < j[c]
      BY <1>1 DEF LoopInv, LoopOK, Progress, WentTo
    <3>2. j'[c] = j[c] + 1
      BY <1>1 DEF LoopInv, LoopOK
    <3>3. \A m \in Int : <<c, m>> \in executed' <=> <<c, m>> \in executed \/ m = j[c]
      BY <1>1
    <3>4. \A m \in Int : <<c, m>> \in executed' <=> begin[c] <= m /\ m < j[c] + 1
      BY <1>1, <3>1, <3>3
    <3> QED BY <1>1, <1>2, <2>1, <3>1, <3>2, <3>4 DEF Progress, WentTo
  <2>2. CASE d # c
    <3>1. j'[d] = j[d] /\ Progress(d) /\ \A m : <<d, m>> \in executed' <=> <<d, m>> \in executed
      BY <1>1, <2>2 DEF LoopInv, LoopOK
    <3> QED BY <1>1, <1>2, <3>1 DEF Progress, WentTo
  <2> QED BY <2>1, <2>2
<1>5. \A d \in Chunk : d < awaited' => status'[d] = "done"
  BY <1>1 DEF LoopInv
<1> QED BY <1>2, <1>3, <1>4, <1>5 DEF LoopInv

LEMMA FinishChunkInv == ASSUME LoopInv, NEW c \in Chunk, FinishChunk(c) PROVE LoopInv'
<1>1. /\ UNCHANGED callVars /\ executed' = executed /\ awaited' = awaited /\ j' = j
      /\ status[c] = "running" /\ status' = [status EXCEPT ![c] = "done"]
      /\ j[c] >= end[c] /\ j[c] \in Int /\ end[c] \in Int
  BY DEF FinishChunk, Pool!Finish, Pool!Advance, LoopInv, LoopOK
<1>2. Divided' /\ iterations' = iterations /\ i' = i /\ begin' = begin /\ end' = end
  BY <1>1, DividedStays
<1>3. LoopOK'
  BY <1>1, <1>2 DEF LoopInv, LoopOK, Status
<1>4. ASSUME NEW d \in Chunk PROVE Progress(d)'
  <2>1. CASE d = c
    <3>1. c < i /\ j[c] = end[c] /\ WentTo(c, j[c])
      BY <1>1 DEF LoopInv, Progress
    <3>2. status'[c] = "done"
      BY <1>1 DEF LoopInv, LoopOK
    <3> QED BY <1>1, <1>2, <2>1, <3>1, <3>2 DEF Progress, WentTo
  <2>2. CASE d # c
    <3>1. status'[d] = status[d] /\ Progress(d)
      BY <1>1, <2>2 DEF LoopInv, LoopOK
    <3> QED BY <1>1, <1>2, <3>1 DEF Progress, WentTo
  <2> QED BY <2>1, <2>2
<1>5. \A d \in Chunk : d < awaited' => status'[d] = "done"
  BY <1>1 DEF LoopInv, LoopOK
<1> QED BY <1>2, <1>3, <1>4, <1>5 DEF LoopInv

LEMMA WaitNextInv == ASSUME LoopInv, WaitNext PROVE LoopInv'
<1>1. /\ UNCHANGED callVars /\ executed' = executed /\ j' = j /\ status' = status
      /\ awaited \in Nat /\ awaited < WorkerCount /\ awaited' = awaited + 1
      /\ status[awaited] = "done" /\ WorkerCount \in Nat
  BY WorkerCountAssumption DEF WaitNext, LoopInv, LoopOK
<1>2. Divided' /\ iterations' = iterations /\ i' = i /\ begin' = begin /\ end' = end
  BY <1>1, DividedStays
<1>3. LoopOK'
  BY <1>1, <1>2 DEF LoopInv, LoopOK
<1>4. \A c \in Chunk : Progress(c)'
  BY <1>1, <1>2 DEF LoopInv, Progress, WentTo
<1>5. ASSUME NEW c \in Chunk, c < awaited' PROVE status'[c] = "done"
  BY <1>1, <1>5 DEF LoopInv, Chunk
<1> QED BY <1>2, <1>3, <1>4, <1>5 DEF LoopInv

LEMMA LoopNextInv ==
    ASSUME MaxIterations <= MaxInt
    PROVE  LoopInv /\ [LoopNext]_loopVars => LoopInv'
<1> SUFFICES ASSUME LoopInv, [LoopNext]_loopVars PROVE LoopInv'
  OBVIOUS
<1>1. CASE UNCHANGED loopVars
  <2>1. UNCHANGED callVars /\ j' = j /\ executed' = executed /\ awaited' = awaited /\ status' = status
    BY <1>1 DEF loopVars
  <2>2. Divided' /\ iterations' = iterations /\ i' = i /\ begin' = begin /\ end' = end
    BY <2>1, DividedStays
  <2> QED BY <2>1, <2>2 DEF LoopInv, LoopOK, Progress, WentTo
<1> QED
  BY <1>1, CallChunkInv, WaitNextInv, StartChunkInv, CallWorkerInv, FinishChunkInv
     DEF LoopNext, ChunkStep

----------------------------------------------------------------------------
\* What has been executed for a chunk lies between its bounds.
LEMMA ExecutedBetween ==
    ASSUME LoopInv, NEW c \in Chunk, NEW m \in Int, <<c, m>> \in executed
    PROVE  Bound(c) <= m /\ m < Bound(c + 1)
<1>1. /\ status[c] \in Status /\ Progress(c) /\ end[c] \in Int /\ j[c] \in Int
  BY DEF LoopInv, LoopOK
<1>2. c < i /\ begin[c] <= m /\ m < end[c]
  <2>1. CASE status[c] = "running"
    BY <1>1, <2>1 DEF Progress, WentTo
  <2>2. CASE status[c] = "done"
    BY <1>1, <2>2 DEF Progress, WentTo
  <2> QED BY <1>1, <2>1, <2>2 DEF Progress, Status
<1> QED BY <1>2 DEF LoopInv, Divided, FairDivision

LEMMA LoopInvOnce == LoopInv => EachIterationOnce
<1> SUFFICES ASSUME LoopInv PROVE EachIterationOnce
  OBVIOUS
<1>1. /\ iterations \in Nat /\ executed \subseteq Chunk \X Int /\ WorkerCount \in Nat
      /\ \A c \in Chunk : c \in Nat /\ c + 1 \in Nat /\ c + 1 <= WorkerCount
  BY WorkerCountAssumption, MaxIterationsAssumption DEF LoopInv, LoopOK, Chunk
<1>2. /\ Bound(0) = 0 /\ Bound(WorkerCount) = iterations
      /\ \A n \in Nat : Bound(n) \in Nat
      /\ \A m, n \in Nat : m <= n => Bound(m) <= Bound(n)
  BY <1>1, Bounds
<1>3. ASSUME NEW x \in executed, NEW y \in executed, x[2] = y[2] PROVE x = y
  <2>1. PICK c \in Chunk, m \in Int : x = <<c, m>>
    BY <1>1
  <2>2. PICK d \in Chunk, n \in Int : y = <<d, n>>
    BY <1>1
  <2>3. m = n
    BY <1>3, <2>1, <2>2
  <2>4. Bound(c) <= m /\ m < Bound(c + 1) /\ Bound(d) <= m /\ m < Bound(d + 1)
    BY <2>1, <2>2, <2>3, ExecutedBetween
  <2>5. ~ (c + 1 <= d) /\ ~ (d + 1 <= c)
    BY <1>1, <1>2, <2>4
  <2>6. c = d
    BY <1>1, <2>5
  <2> QED BY <2>1, <2>2, <2>3, <2>6
<1>4. ASSUME NEW x \in executed PROVE x[2] \in 0 .. iterations - 1
  <2>1. PICK c \in Chunk, m \in Int : x = <<c, m>>
    BY <1>1
  <2>2. Bound(c) <= m /\ m < Bound(c + 1)
    BY <2>1, ExecutedBetween
  <2>3. Bound(c) \in Nat /\ Bound(c + 1) \in Nat /\ Bound(c + 1) <= iterations
    BY <1>1, <1>2
  <2> QED BY <1>1, <2>1, <2>2, <2>3
<1>5. ASSUME Returned, NEW n \in 0 .. iterations - 1 PROVE \E c \in Chunk : <<c, n>> \in executed
  <2>1. PICK c \in Chunk : Bound(c) <= n /\ n < Bound(c + 1)
    BY <1>1, Bounds
  <2>2. status[c] = "done"
    BY <1>1, <1>5 DEF Returned, LoopInv, Chunk
  <2>3. c < i /\ WentTo(c, end[c])
    BY <2>2 DEF LoopInv, Progress
  <2>4. begin[c] = Bound(c) /\ end[c] = Bound(c + 1)
    BY <2>3 DEF LoopInv, Divided, FairDivision
  <2> QED BY <2>1, <2>3, <2>4 DEF WentTo
<1> QED BY <1>3, <1>4, <1>5 DEF EachIterationOnce

\* loop() divides the iterations fairly: for every number of workers, and of
\* iterations that does not exceed the largest int, the ranges it computes with
\* ints are adjacent and differ by one at most.
THEOREM FairDivisionCorrect == ASSUME MaxIterations <= MaxInt PROVE LoopSpec => []FairDivision
<1>1. LoopInv => FairDivision
  BY DEF LoopInv, Divided
<1>2. LoopInv /\ [LoopNext]_loopVars => LoopInv'
  BY LoopNextInv
<1> QED BY <1>1, <1>2, LoopInitInv, PTL DEF LoopSpec

\* Whichever threads execute the ranges and in whatever order, no iteration is
\* executed twice, nothing else is executed, and when wait() returns every
\* iteration has been.
THEOREM EachIterationOnceCorrect ==
    ASSUME MaxIterations <= MaxInt PROVE LoopSpec => []EachIterationOnce
<1>1. LoopInv /\ [LoopNext]_loopVars => LoopInv'
  BY LoopNextInv
<1> QED BY <1>1, LoopInvOnce, LoopInitInv, PTL DEF LoopSpec
=============================================================================
