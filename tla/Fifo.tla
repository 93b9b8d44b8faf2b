-------------------------------- MODULE Fifo --------------------------------
(***************************************************************************)
(* What a ring buffer promises callers that count: values come out in the  *)
(* order in which they went in, each to one consumer, and at most Limit of *)
(* them are on their way.                                                  *)
(***************************************************************************)
EXTENDS Naturals, Sequences

CONSTANTS Value, Consumer, Limit, NoValue

VARIABLES
    items,  \* the values pushed and not popped
    got     \* got[c]: the value consumer c popped last, NoValue before

vars == <<items, got>>

Init ==
    /\ items = <<>>
    /\ got = [c \in Consumer |-> NoValue]

Push(v) ==
    /\ Len(items) < Limit
    /\ items' = Append(items, v)
    /\ UNCHANGED got

Pop(c) ==
    /\ items # <<>>
    /\ got' = [got EXCEPT ![c] = Head(items)]
    /\ items' = Tail(items)

Next == (\E v \in Value : Push(v)) \/ (\E c \in Consumer : Pop(c))

Spec == Init /\ [][Next]_vars
=============================================================================
