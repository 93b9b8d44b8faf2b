----------------------------- MODULE EventQueue -----------------------------
(***************************************************************************)
(* kc::event2::EventManager: emit() stores an event, dispatch() passes the *)
(* stored events to the handlers of their types and then destroys them.    *)
(* One thread; what makes it interesting is that a handler may call emit() *)
(* and on() while dispatch() iterates over the vector.                     *)
(*                                                                         *)
(* The range-based for loop of dispatch() takes begin() and end() once.    *)
(* When push_back() has to reallocate, the loop's iterators point to freed *)
(* memory: comparing them still ends the loop, dereferencing one is        *)
(* undefined behaviour, and nothing is said of what follows ("undefined"). *)
(* A handler does not call dispatch().                                     *)
(***************************************************************************)
EXTENDS Naturals, Sequences, SequencesExt, FiniteSetsExt

CONSTANTS
    Event,          \* the events, each emitted at most once
    Type,
    TypeOf,         \* TypeOf[e]: getTypeIndex()
    EventPoolSize   \* eventPoolSize: what the constructor reserves

ASSUME TypeOfAssumption == TypeOf \in [Event -> Type]
ASSUME EventPoolSizeAssumption == EventPoolSize \in Nat \ {0}

VARIABLES
    m_events,   \* the stored events
    capacity,   \* m_events.capacity()
    m_handlers, \* the types that have a handler
    pc,         \* "idle", "loop" in dispatch(), "handler" in a handler
    it, last,   \* the loop's iterator and its end, as positions
    stale,      \* the iterators belong to freed memory
    emitted,    \* all events emitted so far, in order
    handled,    \* all events passed to a handler since one has thrown, in order
    promised    \* the stored events that had a handler when dispatch() began

vars == <<m_events, capacity, m_handlers, pc, it, last, stale, emitted,
          handled, promised>>

TypeOK ==
    /\ m_events \in Seq(Event)
    /\ capacity \in Nat /\ Len(m_events) <= capacity
    /\ m_handlers \subseteq Type
    /\ pc \in {"idle", "loop", "handler", "undefined"}
    /\ it \in Nat /\ last \in Nat
    /\ stale \in BOOLEAN
    /\ emitted \in Seq(Event) /\ handled \in Seq(Event)
    /\ promised \subseteq Event

\* Mutant: the constructor reserves nothing.
InitUnreserved ==
    /\ m_events = <<>> /\ capacity = 0
    /\ m_handlers = {}
    /\ pc = "idle" /\ it = 1 /\ last = 0 /\ stale = FALSE
    /\ emitted = <<>> /\ handled = <<>> /\ promised = {}

Init ==
    /\ m_events = <<>> /\ capacity = EventPoolSize
    /\ m_handlers = {}
    /\ pc = "idle" /\ it = 1 /\ last = 0 /\ stale = FALSE
    /\ emitted = <<>> /\ handled = <<>> /\ promised = {}

\* User code runs: between the calls, or inside a handler.
User == pc \in {"idle", "handler"}

----------------------------------------------------------------------------
\* on(): the assertion throws if the type has a handler.
On(type) ==
    /\ User
    /\ type \notin m_handlers
    /\ m_handlers' = m_handlers \cup {type}
    /\ UNCHANGED <<m_events, capacity, pc, it, last, stale, emitted, handled, promised>>

\* emit(): push_back(), which doubles the capacity if it is used up.
Emit(e) ==
    /\ User
    /\ e \notin ToSet(emitted)
    /\ m_events' = Append(m_events, e)
    /\ emitted' = Append(emitted, e)
    /\ capacity' = IF Len(m_events) < capacity THEN capacity ELSE Max({1, 2 * capacity})
    /\ stale' = (stale \/ (pc = "handler" /\ Len(m_events) = capacity))
    /\ UNCHANGED <<m_handlers, pc, it, last, handled, promised>>

----------------------------------------------------------------------------
Dispatch ==
    /\ pc = "idle"
    /\ pc' = "loop" /\ it' = 1 /\ last' = Len(m_events) /\ stale' = FALSE
    /\ promised' = {e \in ToSet(m_events) : TypeOf[e] \in m_handlers}
    /\ UNCHANGED <<m_events, capacity, m_handlers, emitted, handled>>

\* Mutant: the loop ends at the first event without a handler.
SkipBreaks ==
    /\ pc = "loop" /\ it <= last /\ ~ stale
    /\ TypeOf[m_events[it]] \notin m_handlers
    /\ it' = last + 1
    /\ UNCHANGED <<m_events, capacity, m_handlers, pc, last, stale, emitted,
                   handled, promised>>

\* The next event has no handler ...
Skip ==
    /\ pc = "loop" /\ it <= last /\ ~ stale
    /\ TypeOf[m_events[it]] \notin m_handlers
    /\ it' = it + 1
    /\ UNCHANGED <<m_events, capacity, m_handlers, pc, last, stale, emitted,
                   handled, promised>>

\* ... or has one, which is invoked ...
Invoke ==
    /\ pc = "loop" /\ it <= last /\ ~ stale
    /\ TypeOf[m_events[it]] \in m_handlers
    /\ pc' = "handler"
    /\ handled' = Append(handled, m_events[it])
    /\ UNCHANGED <<m_events, capacity, m_handlers, it, last, stale, emitted, promised>>

\* ... and returns.
HandlerReturn ==
    /\ pc = "handler"
    /\ pc' = "loop" /\ it' = it + 1
    /\ UNCHANGED <<m_events, capacity, m_handlers, last, stale, emitted,
                   handled, promised>>

\* A handler throws, as on() does when it is called for a type that has one:
\* dispatch() is left by the exception and the events stay stored, so that the
\* next dispatch() passes on those that have been handled once more.
HandlerThrow ==
    /\ pc = "handler"
    /\ pc' = "idle" /\ it' = 1 /\ last' = 0 /\ stale' = FALSE
    /\ handled' = <<>> /\ promised' = {}
    /\ UNCHANGED <<m_events, capacity, m_handlers, emitted>>

\* The next event would be read from freed memory.
ReadStale ==
    /\ pc = "loop" /\ it <= last /\ stale
    /\ pc' = "undefined"
    /\ UNCHANGED <<m_events, capacity, m_handlers, it, last, stale, emitted,
                   handled, promised>>

\* Mutant: the events are not cleared.
DispatchReturnKeeps ==
    /\ pc = "loop" /\ it > last
    /\ pc' = "idle" /\ it' = 1 /\ last' = 0 /\ stale' = FALSE
    /\ UNCHANGED <<m_events, capacity, m_handlers, emitted, handled, promised>>

\* The loop is over: m_events.clear(), which keeps the capacity.
DispatchReturn ==
    /\ pc = "loop" /\ it > last
    /\ m_events' = <<>>
    /\ pc' = "idle" /\ it' = 1 /\ last' = 0 /\ stale' = FALSE
    /\ UNCHANGED <<capacity, m_handlers, emitted, handled, promised>>

Next ==
    \/ \E type \in Type : On(type)
    \/ \E e \in Event : Emit(e)
    \/ Dispatch \/ Skip \/ Invoke \/ HandlerReturn \/ HandlerThrow \/ ReadStale \/ DispatchReturn

Spec == Init /\ [][Next]_vars

----------------------------------------------------------------------------
Position(e, s) == CHOOSE n \in 1 .. Len(s) : s[n] = e

\* The handlers see the events in the order of their emission, each once until
\* a handler throws, whatever was emitted or registered by handlers in between.
HandledInOrder ==
    \A m, n \in 1 .. Len(handled) :
        m < n => Position(handled[m], emitted) < Position(handled[n], emitted)

\* When dispatch() returns it has passed on every event that was stored when it
\* began and had a handler by then, those left by one that threw included.
StoredAreHandled ==
    pc = "idle" => promised \subseteq ToSet(handled)

\* The loop reads freed memory only if more is stored than the constructor
\* reserved room for: below that limit handlers may emit as they like, however
\* often the vector has been filled and cleared.
StaleOnlyBeyondPool == pc = "undefined" => Len(m_events) > EventPoolSize
=============================================================================
