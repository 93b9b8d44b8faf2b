----------------------------- MODULE ScopeGuards -----------------------------
(***************************************************************************)
(* ON_SCOPE_EXIT, ON_SCOPE_FAIL and ON_SCOPE_SUCCESS of kc::core: guards   *)
(* whose destructors call back depending on how their scope is left. They  *)
(* compare std::uncaught_exceptions() with its value at their creation.    *)
(* One thread runs scopes with a guard each, try blocks and exceptions; a  *)
(* callback is code like any other, also while an exception unwinds the    *)
(* stack below it. An exception that leaves a callback leaves a destructor *)
(* and terminates the program.                                             *)
(***************************************************************************)
EXTENDS Naturals, Sequences, SequencesExt

CONSTANT MaxDepth   \* bound: scopes, try blocks and callbacks open at once

VARIABLES
    scopes,     \* what is open, the innermost last
    uncaught,   \* std::uncaught_exceptions()
    control,    \* "running", "unwinding" or "terminated"
    destroyed   \* history: how the last guard was left and what it has done

scopeVars == <<scopes, uncaught, control, destroyed>>

Guard == {"exit", "fail", "success"}

ScopesInit ==
    /\ scopes = <<>> /\ uncaught = 0 /\ control = "running"
    /\ destroyed = [kind |-> "exit", thrown |-> FALSE, called |-> TRUE]

Running == control = "running"
Unwinding == control = "unwinding"
Innermost == Last(scopes)
Inside(kind) == scopes # <<>> /\ Innermost.kind = kind

\* Only a guard uses uncaught, uncaughtExceptionsAtCreation; only a callback
\* uses thrown: whether it has been called while the stack is unwound.
Frame(kind, thrown) == [kind |-> kind, uncaught |-> uncaught, thrown |-> thrown]

Open(kind) ==
    /\ Running /\ Len(scopes) < MaxDepth
    /\ scopes' = Append(scopes, Frame(kind, FALSE))
    /\ UNCHANGED <<uncaught, control, destroyed>>

Throw ==
    /\ Running
    /\ control' = "unwinding" /\ uncaught' = uncaught + 1
    /\ UNCHANGED <<scopes, destroyed>>

----------------------------------------------------------------------------
\* Mutant: the guards ask whether there is any exception at all.
ConditionAny(guard) ==
    CASE guard.kind = "exit" -> TRUE
      [] guard.kind = "fail" -> uncaught # 0
      [] guard.kind = "success" -> uncaught = 0

\* m_condition of the three guards.
Condition(guard) ==
    CASE guard.kind = "exit" -> TRUE
      [] guard.kind = "fail" -> guard.uncaught # uncaught
      [] guard.kind = "success" -> guard.uncaught = uncaught

\* ~ScopeGuard(), when its scope ends or an exception leaves it: the callback
\* begins in its place, or it is gone.
DestroyGuard ==
    /\ control # "terminated" /\ scopes # <<>> /\ Innermost.kind \in Guard
    /\ destroyed' = [kind |-> Innermost.kind, thrown |-> Unwinding, called |-> Condition(Innermost)]
    /\ IF Condition(Innermost)
       THEN scopes' = Append(Front(scopes), Frame("callback", Unwinding)) /\ control' = "running"
       ELSE scopes' = Front(scopes) /\ UNCHANGED control
    /\ UNCHANGED uncaught

\* The callback returns: the unwinding goes on if there was one.
CallbackReturn ==
    /\ Running /\ Inside("callback")
    /\ scopes' = Front(scopes)
    /\ control' = IF Innermost.thrown THEN "unwinding" ELSE "running"
    /\ UNCHANGED <<uncaught, destroyed>>

\* An exception leaves a callback, or nothing catches it.
Terminate ==
    /\ Unwinding /\ (Inside("callback") \/ scopes = <<>>)
    /\ control' = "terminated"
    /\ UNCHANGED <<scopes, uncaught, destroyed>>

LeaveTry ==
    /\ Running /\ Inside("try")
    /\ scopes' = Front(scopes)
    /\ UNCHANGED <<uncaught, control, destroyed>>

Catch ==
    /\ Unwinding /\ Inside("try")
    /\ scopes' = Front(scopes) /\ control' = "running" /\ uncaught' = uncaught - 1
    /\ UNCHANGED destroyed

ScopesNext ==
    \/ \E kind \in Guard \cup {"try"} : Open(kind)
    \/ Throw \/ DestroyGuard \/ CallbackReturn \/ Terminate \/ LeaveTry \/ Catch

ScopesSpec == ScopesInit /\ [][ScopesNext]_scopeVars

----------------------------------------------------------------------------
\* ON_SCOPE_FAIL calls back if an exception leaves the scope, ON_SCOPE_SUCCESS
\* if none does, ON_SCOPE_EXIT always; also for scopes inside of callbacks that
\* run while another exception unwinds the stack, with exceptions of their own.
GuardsRun ==
    destroyed.called <=>
        \/ destroyed.kind = "exit"
        \/ destroyed.kind = "fail" /\ destroyed.thrown
        \/ destroyed.kind = "success" /\ ~ destroyed.thrown
=============================================================================
