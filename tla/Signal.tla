------------------------------- MODULE Signal -------------------------------
(***************************************************************************)
(* kc::sig: setupSignalHandler() and resetSignalHandler(), called by one   *)
(* thread, and signals, which any thread may be handling meanwhile: the    *)
(* wrapper tests the pointer and uses it, in two steps. The system blocks  *)
(* a signal while it is handled and keeps the wrapper installed.           *)
(***************************************************************************)
CONSTANTS Handler, NoHandler

ASSUME NoHandlerAssumption == NoHandler \notin Handler

VARIABLES
    signalHandler,
    installed,  \* the signals whose handler is the wrapper
    setup,      \* setupSignalHandler(): "idle", "assigned", "half"
    isSetUp,    \* history: setupSignalHandler() has returned
    handling,   \* the signals that have passed the wrapper's assertion
    isReset,    \* history: resetSignalHandler() has been called
    process     \* "running", "killed" by a signal, "undefined": thrown out of
                \* the wrapper, or null used

signalVars == <<signalHandler, installed, setup, isSetUp, handling, isReset, process>>

Caught == {"SIGINT", "SIGTERM"}

SignalInit ==
    /\ signalHandler = NoHandler /\ installed = {} /\ setup = "idle" /\ isSetUp = FALSE
    /\ handling = {} /\ isReset = FALSE /\ process = "running"

Intact == process = "running"

----------------------------------------------------------------------------
\* Mutant: the pointer is not set before the wrapper is there.
SetupFirst(handler) ==
    /\ Intact /\ setup = "idle" /\ signalHandler = NoHandler
    /\ setup' = "assigned" /\ installed' = {"SIGINT"}
    /\ UNCHANGED <<signalHandler, isSetUp, handling, isReset, process>>

\* setupSignalHandler(): the assertion, the pointer ...
Setup(handler) ==
    /\ Intact /\ setup = "idle" /\ signalHandler = NoHandler
    /\ signalHandler' = handler /\ setup' = "assigned"
    /\ UNCHANGED <<installed, isSetUp, handling, isReset, process>>

\* ... and std::signal(), once for each.
InstallInt ==
    /\ Intact /\ setup = "assigned"
    /\ installed' = installed \cup {"SIGINT"} /\ setup' = "half"
    /\ UNCHANGED <<signalHandler, isSetUp, handling, isReset, process>>

InstallTerm ==
    /\ Intact /\ setup = "half"
    /\ installed' = installed \cup {"SIGTERM"} /\ setup' = "idle" /\ isSetUp' = TRUE
    /\ UNCHANGED <<signalHandler, handling, isReset, process>>

\* resetSignalHandler() leaves the wrapper where it is.
Reset ==
    /\ Intact /\ setup = "idle"
    /\ signalHandler' = NoHandler /\ isReset' = TRUE
    /\ UNCHANGED <<installed, setup, isSetUp, handling, process>>

----------------------------------------------------------------------------
\* A signal with the default action.
Kill(signal) ==
    /\ Intact /\ signal \notin installed
    /\ process' = "killed"
    /\ UNCHANGED <<signalHandler, installed, setup, isSetUp, handling, isReset>>

\* signalHandlerWrapper(): its assertion ...
Check(signal) ==
    /\ Intact /\ signal \in installed \ handling
    /\ IF signalHandler = NoHandler
       THEN process' = "undefined" /\ UNCHANGED handling
       ELSE handling' = handling \cup {signal} /\ UNCHANGED process
    /\ UNCHANGED <<signalHandler, installed, setup, isSetUp, isReset>>

\* ... and onSignal(), which returns.
OnSignal(signal) ==
    /\ Intact /\ signal \in handling
    /\ handling' = handling \ {signal}
    /\ process' = IF signalHandler = NoHandler THEN "undefined" ELSE process
    /\ UNCHANGED <<signalHandler, installed, setup, isSetUp, isReset>>

SignalNext ==
    \/ \E handler \in Handler : Setup(handler)
    \/ InstallInt \/ InstallTerm \/ Reset
    \/ \E signal \in Caught : Kill(signal) \/ Check(signal) \/ OnSignal(signal)

SignalSpec == SignalInit /\ [][SignalNext]_signalVars

----------------------------------------------------------------------------
\* A signal finds no handler only if the handler has been reset before, never
\* while it is being set up, and does not kill the process any more once
\* setupSignalHandler() has returned.
HandlerCalled ==
    /\ process = "undefined" => isReset
    /\ process = "killed" => ~ isSetUp
=============================================================================
