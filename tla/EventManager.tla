---------------------------- MODULE EventManager ----------------------------
(***************************************************************************)
(* kc::event::EventManager: emitEvent() tells the registered observers of  *)
(* an event, in the order of their registration, until one of them marks   *)
(* it as handled. One thread; an observer that is being told may call the  *)
(* manager again: register and unregister observers, and emit events, so   *)
(* that emissions nest.                                                    *)
(*                                                                         *)
(* The range-based for loop of emitEvent() takes begin() and end() of the  *)
(* vector once. std::erase() moves the elements behind the erased one down *)
(* and leaves the storage in place, so that a loop under way still visits  *)
(* as many slots as before and reads what they hold; push_back() into full *)
(* storage frees it, and what the loop reads then is undefined.            *)
(***************************************************************************)
EXTENDS Naturals, Sequences, SequencesExt, FiniteSetsExt

CONSTANTS
    Observer,
    MaxNesting      \* bound: emissions under way at the same time

VARIABLES
    slots,      \* the storage of m_observers, up to its capacity
    size,       \* m_observers.size(): the rest of the slots is left over
    emissions,  \* the calls of emitEvent() under way, the innermost last
    undefined   \* a loop has read freed storage

managerVars == <<slots, size, emissions, undefined>>

None == "none"  \* a slot that has never been written

m_observers == SubSeq(slots, 1, size)

ManagerInit == slots = <<>> /\ size = 0 /\ emissions = <<>> /\ undefined = FALSE

Current == Last(emissions)

\* Its observers have not all stayed where they were: the history ends.
Disturbed(e) == [e EXCEPT !.calm = FALSE, !.start = <<>>, !.told = <<>>]

\* The innermost emission calls onEvent() of o.
Told(o) ==
    [Current EXCEPT !.at = "onEvent", !.told = IF Current.calm THEN Append(@, o) ELSE @]

\* The innermost emission becomes e.
Continue(e) == emissions' = [emissions EXCEPT ![Len(emissions)] = e]

\* User code runs: outside of emissions, or in the onEvent() of the innermost.
UserRuns == ~ undefined /\ (emissions # <<>> => Current.at = "onEvent")

Looping == ~ undefined /\ emissions # <<>> /\ Current.at = "loop"

----------------------------------------------------------------------------
\* registerObserver(): the assertion throws if the observer is registered. The
\* storage has room for one more ...
Register(o) ==
    /\ UserRuns
    /\ ~ Contains(m_observers, o)
    /\ size < Len(slots)
    /\ slots' = [slots EXCEPT ![size + 1] = o] /\ size' = size + 1
    /\ UNCHANGED <<emissions, undefined>>

\* ... or it is replaced by one of twice the capacity.
RegisterGrowing(o) ==
    /\ UserRuns
    /\ ~ Contains(m_observers, o)
    /\ size = Len(slots)
    /\ slots' = Append(slots, o) \o [n \in 1 .. Max({1, 2 * size}) - size - 1 |-> None]
    /\ size' = size + 1
    /\ emissions' = [n \in DOMAIN emissions |->
                        [Disturbed(emissions[n]) EXCEPT !.stale = TRUE]]
    /\ UNCHANGED undefined

\* unregisterObserver(): an observer that is not registered is ignored, and one
\* that is, is so once.
Unregister(o) ==
    /\ UserRuns
    /\ Contains(m_observers, o)
    /\ \E n \in 1 .. size :
         slots[n] = o /\ slots' = RemoveAt(m_observers, n) \o SubSeq(slots, size, Len(slots))
    /\ size' = size - 1
    /\ emissions' = [n \in DOMAIN emissions |->
                        IF Contains(emissions[n].start, o) THEN Disturbed(emissions[n])
                        ELSE emissions[n]]
    /\ UNCHANGED undefined

----------------------------------------------------------------------------
\* emitEvent(): a new EventWrapper and the loop's iterators. stale: they
\* dangle. start, told and calm are history: the observers when it began and those
\* it has told, as long as nobody has unregistered one of them or outgrown the
\* storage.
EmitEvent ==
    /\ UserRuns
    /\ Len(emissions) < MaxNesting
    /\ emissions' = Append(emissions,
         [it |-> 1, last |-> size, at |-> "loop", isHandled |-> FALSE, stale |-> FALSE,
          start |-> m_observers, told |-> <<>>, calm |-> TRUE])
    /\ UNCHANGED <<slots, size, undefined>>

\* The loop calls onEvent() of the observer that the iterator points to ...
OnEvent ==
    /\ Looping
    /\ Current.it <= Current.last /\ ~ Current.stale
    /\ Continue(Told(slots[Current.it]))
    /\ UNCHANGED <<slots, size, undefined>>

\* ... unless the storage is gone.
OnEventStale ==
    /\ Looping
    /\ Current.it <= Current.last /\ Current.stale
    /\ undefined' = TRUE
    /\ UNCHANGED <<slots, size, emissions>>

\* EventWrapper::handled(), called by an observer.
Handled ==
    /\ UserRuns /\ emissions # <<>>
    /\ ~ Current.isHandled
    /\ Continue([Current EXCEPT !.isHandled = TRUE])
    /\ UNCHANGED <<slots, size, undefined>>

\* Mutant: the loop goes on although the event has been handled.
ObserverReturnHandledGoesOn ==
    /\ UserRuns /\ emissions # <<>>
    /\ Current.isHandled
    /\ Continue([Current EXCEPT !.at = "loop", !.it = @ + 1])
    /\ UNCHANGED <<slots, size, undefined>>

\* onEvent() returns and the event has been handled: emitEvent() returns ...
ObserverReturnHandled ==
    /\ UserRuns /\ emissions # <<>>
    /\ Current.isHandled
    /\ emissions' = Front(emissions)
    /\ UNCHANGED <<slots, size, undefined>>

\* Mutant: a nested emission moves the iterator of the one around it.
ObserverReturnTwice ==
    /\ UserRuns /\ emissions # <<>>
    /\ ~ Current.isHandled
    /\ emissions' = [n \in DOMAIN emissions |->
                        [emissions[n] EXCEPT !.at = IF n = Len(emissions) THEN "loop" ELSE @,
                                             !.it = @ + 1]]
    /\ UNCHANGED <<slots, size, undefined>>

\* ... or has not: the loop advances.
ObserverReturn ==
    /\ UserRuns /\ emissions # <<>>
    /\ ~ Current.isHandled
    /\ Continue([Current EXCEPT !.at = "loop", !.it = @ + 1])
    /\ UNCHANGED <<slots, size, undefined>>

\* onEvent() throws: emitEvent() is left by the exception, which may go on
\* through the observer that has called it.
ObserverThrow ==
    /\ UserRuns /\ emissions # <<>>
    /\ emissions' = Front(emissions)
    /\ UNCHANGED <<slots, size, undefined>>

\* All observers have been told.
EmitReturn ==
    /\ Looping
    /\ Current.it > Current.last
    /\ emissions' = Front(emissions)
    /\ UNCHANGED <<slots, size, undefined>>

ManagerNext ==
    \/ \E o \in Observer : Register(o) \/ RegisterGrowing(o) \/ Unregister(o)
    \/ EmitEvent \/ OnEvent \/ OnEventStale \/ Handled
    \/ ObserverReturnHandled \/ ObserverReturn \/ ObserverThrow \/ EmitReturn

ManagerSpec == ManagerInit /\ [][ManagerNext]_managerVars

----------------------------------------------------------------------------
\* emitEvent() tells the observers in the order of their registration, each
\* once, and nobody who registered after it began, whatever the observers emit
\* meanwhile, as long as nobody unregisters and the storage is not replaced.
ToldInOrder ==
    \A n \in DOMAIN emissions : emissions[n].calm => IsPrefix(emissions[n].told, emissions[n].start)

\* Under the same condition everybody has been told when the loop is over, and
\* in whatever state the list is, nobody is once one of them has handled the
\* event ("whenFirstHandleEvent_shouldNotCallOnEventForSecondObserver").
EveryoneTold ==
    \A n \in DOMAIN emissions :
        /\ emissions[n].at = "loop" /\ emissions[n].it > emissions[n].last /\ emissions[n].calm
              => emissions[n].told = emissions[n].start
        /\ emissions[n].at = "loop" => ~ emissions[n].isHandled
=============================================================================
