---------------------------- MODULE MCRingBuffer ----------------------------
EXTENDS RingBuffer, TLC

\* Producers, consumers and values are interchangeable.
Symmetry ==
    Permutations(Producer) \cup Permutations(Consumer) \cup Permutations(Value)
=============================================================================
