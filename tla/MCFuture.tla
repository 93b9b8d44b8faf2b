------------------------------ MODULE MCFuture ------------------------------
EXTENDS Future, TLC

CONSTANTS c1, c2, c3

\* Two consumers may call everything, in any order; one calls get() only.
MCOps ==
    (c1 :> {"then", "wait", "get"}) @@ (c2 :> {"then", "wait", "get"})
      @@ (c3 :> {"get"})
=============================================================================
