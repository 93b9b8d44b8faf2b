----------------------------- MODULE Algorithms -----------------------------
(***************************************************************************)
(* kc::core's ranges under a range-based for loop (Range.hpp, Zip.hpp,     *)
(* Enumerate.hpp), step by step, and its functions on strings (Strings),   *)
(* in one step each.                                                       *)
(*                                                                         *)
(* The values of a range are unsigned numbers, which wrap at Modulus. A    *)
(* container is represented by its size, an iterator of it by its position.*)
(***************************************************************************)
EXTENDS Strings, Integers

CONSTANTS
    Modulus,    \* how many numbers there are to iterate over: 2 to the width of the type
    MaxSize,    \* bound: the size of a container
    Char,       \* the characters of the strings; "/" and "." among them
    MaxLength   \* bound: the length of a string

ASSUME NumberAssumption == Modulus \in Nat \ {0} /\ MaxSize \in 0 .. Modulus - 1
ASSUME LengthAssumption == MaxLength \in Nat

VARIABLES
    expression, \* what is iterated over or evaluated: a tag and its arguments
    iterator,   \* the loop's iterator: its values or positions
    visited,    \* the values of the loop's variable so far, or the result
    running

algorithmVars == <<expression, iterator, visited, running>>

Number == 0 .. Modulus - 1
Size == 0 .. MaxSize
String == BoundedSeq(Char, MaxLength)

Loop ==
    {<<"range", begin, end>> : begin, end \in Number}
        \cup {<<"withStep", begin, end, step>> : begin, end \in Number, step \in Number \ {0}}
        \cup {<<"indicesOf", size>> : size \in Size}
        \cup {<<"enumerate", size>> : size \in Size}
        \cup {<<"zip", a, b, c>> : a, b, c \in Size}

Call ==
    {<<"strip", str>> : str \in String \ {<<>>}}
        \cup {<<"split", str>> : str \in String}
        \cup {<<"extractNameFromPath", str, mode>> : str \in String, mode \in BOOLEAN}
        \cup {<<"joinSplit", str>> : str \in String}

tag == expression[1]
IsLoop == tag \in {"range", "withStep", "indicesOf", "enumerate", "zip"}

\* begin(): range() and its step, indicesOf(), enumerate() and zip().
begin == CASE tag \in {"range", "withStep"} -> <<expression[2]>>
           [] tag = "indicesOf" -> <<0>>
           [] tag = "enumerate" -> <<0, 0>>
           [] OTHER -> <<0, 0, 0>>

\* end(): indicesOf() leaves out the last index, and wraps for an empty container.
end == CASE tag \in {"range", "withStep"} -> <<expression[3]>>
         [] tag = "indicesOf" -> <<(expression[2] - 1) % Modulus>>
         [] tag = "enumerate" -> <<expression[2], expression[2]>>
         [] OTHER -> <<expression[2], expression[3], expression[4]>>

AlgorithmsInit ==
    /\ expression \in Loop \cup Call
    /\ iterator = begin
    /\ visited = <<>>
    /\ running = TRUE

\* Mutant: zip() ends when all of its members are at their ends.
IsAtEndAll ==
    IF tag = "withStep" THEN iterator[1] >= end[1]
    ELSE \A n \in DOMAIN iterator : iterator[n] = end[n]

\* operator==: a stepping iterator is at the end when it has passed it, those
\* of enumerate() and zip() when one of their members is at its end (any_match).
IsAtEnd ==
    IF tag = "withStep" THEN iterator[1] >= end[1]
    ELSE \E n \in DOMAIN iterator : iterator[n] = end[n]

step == IF tag = "withStep" THEN expression[4] ELSE 1

\* The body of the loop and ++. A loop that has made more steps than there are
\* numbers goes on for ever, or outside of its containers.
Step ==
    /\ running /\ IsLoop
    /\ ~ IsAtEnd /\ Len(visited) <= Modulus
    /\ visited' = Append(visited, iterator)
    /\ iterator' = [n \in DOMAIN iterator |-> (iterator[n] + step) % Modulus]
    /\ UNCHANGED <<expression, running>>

EndOfLoop ==
    /\ running /\ IsLoop
    /\ IsAtEnd
    /\ running' = FALSE
    /\ UNCHANGED <<expression, iterator, visited>>

Evaluate ==
    /\ running /\ ~ IsLoop
    /\ visited' = CASE tag = "strip" -> strip(expression[2], ".")
                    [] tag = "split" -> split(expression[2], "/")
                    [] tag = "joinSplit" -> join(split(expression[2], "/"), <<"/">>)
                    [] OTHER -> extractNameFromPath(expression[2], expression[3])
    /\ running' = FALSE
    /\ UNCHANGED <<expression, iterator>>

AlgorithmsNext == Step \/ EndOfLoop \/ Evaluate

AlgorithmsSpec == AlgorithmsInit /\ [][AlgorithmsNext]_algorithmVars

----------------------------------------------------------------------------
\* The numbers of a range: none of its values and steps may exceed Number, a
\* range without a step must not begin behind its end, and a container whose
\* indices are asked for must not be empty.
Proper ==
    CASE tag = "range" -> expression[2] <= expression[3]
      [] tag = "withStep" -> expression[3] + expression[4] <= Modulus
      [] tag = "indicesOf" -> expression[2] > 0
      [] OTHER -> TRUE

\* The values that a loop stands for, as the loop's iterators.
Values ==
    CASE tag = "range" -> {<<v>> : v \in expression[2] .. expression[3] - 1}
      [] tag = "withStep" ->
            {<<v>> : v \in {n \in expression[2] .. expression[3] - 1 :
                                (n - expression[2]) % expression[4] = 0}}
      [] tag = "indicesOf" -> {<<n>> : n \in 0 .. expression[2] - 2}
      [] tag = "enumerate" -> {<<n, n>> : n \in 0 .. expression[2] - 1}
      [] tag = "zip" ->
            {<<n, n, n>> : n \in {m \in Number : \A k \in 2 .. 4 : m < expression[k]}}

\* The parts of a string between its separators, those without characters left
\* out, in the order of the places where they start.
Starts(str) == {n \in DOMAIN str : str[n] # "/" /\ (n > 1 => str[n - 1] = "/")}

Rank(str, start) == Cardinality({n \in Starts(str) : n <= start})

PartFrom(str, start) ==
    LET ends == {n \in DOMAIN str : str[n] = "/"} \cup {Len(str) + 1}
    IN SubSeq(str, start, Min({n \in ends : n > start}) - 1)

Parts(str) ==
    [n \in 1 .. Cardinality(Starts(str)) |->
        PartFrom(str, CHOOSE start \in Starts(str) : Rank(str, start) = n)]

\* What follows the last separator; without its extension, up to its last dot.
FileName(path, withExtension) ==
    LET separators == {n \in DOMAIN path : path[n] = "/"}
        name == SubSeq(path, Max(separators) + 1, Len(path))
        extensions == {n \in DOMAIN name : name[n] = "."}
    IN IF separators = {} THEN path
       ELSE IF withExtension \/ extensions = {} THEN name
       ELSE SubSeq(name, 1, Max(extensions) - 1)

\* The loops visit exactly the values that the range stands for, in order: a
\* stepping range does not miss an end that it jumps over, enumerate() and
\* zip() stop in front of the end of the shortest container.
LoopsExact ==
    IsLoop /\ Proper =>
        /\ \A m, n \in DOMAIN visited : m < n => visited[m][1] < visited[n][1]
        /\ ToSet(visited) \subseteq Values
        /\ ~ running => Values \subseteq ToSet(visited)

\* strip() takes all of its characters off the end, but leaves one character;
\* split() yields the parts, whatever separators stand together or at the ends,
\* and join() puts them together so that they are the same parts again; the
\* name of a file is what follows the last separator, and its extension ends
\* that name, not the one of a directory.
StringsExact ==
    ~ IsLoop /\ ~ running =>
        LET str == expression[2]
            dots == [n \in 1 .. Len(str) - Len(visited) |-> "."]
        IN CASE tag = "strip" ->
                    /\ str = visited \o dots
                    /\ visited # <<>> /\ (Len(visited) > 1 => Last(visited) # ".")
             [] tag = "split" -> visited = Parts(str)
             [] tag = "joinSplit" -> Parts(visited) = Parts(str)
             [] OTHER -> visited = FileName(str, expression[3])
=============================================================================
