------------------------------ MODULE Strings ------------------------------
(***************************************************************************)
(* kc::core's functions on strings (String.cpp) and containers             *)
(* (Utils.hpp). A string is a sequence of characters.                      *)
(***************************************************************************)
EXTENDS Naturals, Sequences, SequencesExt, FiniteSetsExt

\* Mutant: the first character is stripped as well.
stripAll(str, characterToStrip) ==
    SubSeq(str, 1, Max({0} \cup {n \in DOMAIN str : str[n] # characterToStrip}))

\* strip(), for a string that is not empty (size() - 1 wraps for an empty one,
\* and the loop reads str[n] far outside): the loop stops at the first
\* character, whatever that is.
strip(str, characterToStrip) ==
    SubSeq(str, 1, Max({1} \cup {n \in DOMAIN str : str[n] # characterToStrip}))

\* split(): each delimiter ends a part, which is kept if it has characters; the
\* inner loop only skips delimiters that would end an empty part. The state of
\* the outer loop, beginIndex and output, after all characters.
splitLoop(str, delimiter) ==
    LET state[n \in 0 .. Len(str)] ==
            IF n = 0 THEN [begin |-> 0, output |-> <<>>]
            ELSE LET last == state[n - 1]
                 IN IF str[n] # delimiter THEN last
                    ELSE [begin |-> n,
                          output |-> IF n - 1 > last.begin
                                     THEN Append(last.output, SubSeq(str, last.begin + 1, n - 1))
                                     ELSE last.output]
    IN state[Len(str)]

\* At the end the rest is kept if there is one.
split(str, delimiter) ==
    LET last == splitLoop(str, delimiter)
    IN IF last.begin = Len(str) THEN last.output
       ELSE Append(last.output, SubSeq(str, last.begin + 1, Len(str)))

find_last_of(str, character) == Max({0} \cup {n \in DOMAIN str : str[n] = character})

\* extractNameFromPath(): without a separator the path is returned as it is. A
\* dot in front of the separator makes the length of the name wrap, and substr()
\* cuts it to what there is.
extractNameFromPath(path, withExtension) ==
    LET position == find_last_of(path, "/")
        beginOfExtension == find_last_of(path, ".")
    IN CASE position = 0 -> path
         [] position # 0 /\ (withExtension \/ beginOfExtension < position) ->
                SubSeq(path, position + 1, Len(path))
         [] OTHER -> SubSeq(path, position + 1, beginOfExtension - 1)

\* join(): what the loop writes to the stream, ...
joinLoop(container, separator) ==
    LET stream[n \in 0 .. Len(container)] ==
            IF n = 0 THEN <<>> ELSE stream[n - 1] \o container[n] \o separator
    IN stream[Len(container)]

\* ... of which the separator behind the last value is cut off again. For an
\* empty container the length to keep wraps, and substr() returns the empty string.
join(container, separator) ==
    LET output == joinLoop(container, separator)
    IN IF container = <<>> THEN output
       ELSE SubSeq(output, 1, Len(output) - Len(separator))
=============================================================================
