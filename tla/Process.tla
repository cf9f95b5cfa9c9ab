------------------------------ MODULE Process ------------------------------
(***************************************************************************)
(* cmd/server: the two goroutines of run, the channels between them, and   *)
(* the operator's signals.  What serving is, is the matter of Gateway:     *)
(* here a handler runs or has ended.                                       *)
(***************************************************************************)
EXTENDS Naturals, Sequences

CONSTANTS
    MaxActive,      \* the bound on handlers that run at once
    MaxSignals      \* the bound on signals sent

ASSUME ProcessAssumption == MaxActive \in Nat /\ MaxSignals \in Nat

VARIABLES
    main,           \* where run is: "load", "spawn", "notify", "select", "shutdown"
    server,         \* the other goroutine: "none", "new", "serving", "failed", "closed"
    errCh, stop,    \* the channels, each with room for one
    inShutdown,     \* the server's flag
    active,         \* the handlers running
    signals,        \* the signals sent so far
    exit            \* "none", or how the process ended

vars == <<main, server, errCh, stop, inShutdown, active, signals, exit>>

Init ==
    /\ main = "load" /\ server = "none"
    /\ errCh = << >> /\ stop = << >>
    /\ inShutdown = FALSE
    /\ active = 0 /\ signals = 0
    /\ exit = "none"

Alive == exit = "none"

Exit(how) ==
    /\ exit' = how
    /\ UNCHANGED <<main, server, errCh, stop, inShutdown, active, signals>>

-----------------------------------------------------------------------------
(* run *)

Load ==
    /\ Alive /\ main = "load"
    /\ \/ Exit("failed")
       \/ main' = "spawn" /\ UNCHANGED <<server, errCh, stop, inShutdown, active, signals, exit>>

Spawn ==
    /\ Alive /\ main = "spawn"
    /\ main' = "notify" /\ server' = "new"
    /\ UNCHANGED <<errCh, stop, inShutdown, active, signals, exit>>

Notify ==
    /\ Alive /\ main = "notify"
    /\ main' = "select"
    /\ UNCHANGED <<server, errCh, stop, inShutdown, active, signals, exit>>

SelectErr ==
    /\ Alive /\ main = "select" /\ errCh # << >>
    /\ Exit(IF errCh[1] = "nil" THEN "clean" ELSE "failed")

\* A variant for the properties to tell from the code: Shutdown is called beside
\* the select, which goes on waiting for the server to return.
SelectSignalBeside ==
    /\ Alive /\ main = "select" /\ stop # << >>
    /\ stop' = Tail(stop) /\ inShutdown' = TRUE
    /\ UNCHANGED <<main, server, errCh, active, signals, exit>>

SelectSignal ==
    /\ Alive /\ main = "select" /\ stop # << >>
    /\ stop' = Tail(stop) /\ main' = "shutdown" /\ inShutdown' = TRUE
    /\ UNCHANGED <<server, errCh, active, signals, exit>>

\* A variant for the properties to tell from the code: the listener's end is not
\* waited for.
SelectSignalOnly == SelectSignal

\* When both are ready, select takes either.
Select == SelectErr \/ SelectSignal

\* A variant for the properties to tell from the code: Shutdown has no deadline.
ShutdownUnbounded ==
    /\ Alive /\ main = "shutdown" /\ active = 0
    /\ Exit("clean")

\* Shutdown returns when no handler runs, or with an error at its deadline.
Shutdown ==
    /\ Alive /\ main = "shutdown"
    /\ Exit(IF active = 0 THEN "clean" ELSE "forced")

-----------------------------------------------------------------------------
(* The server's goroutine, its handlers, and the operator *)

\* ListenAndServe returns; there is room in errCh, so nobody need be reading it.
Return(err) ==
    /\ server' = IF err = "ErrServerClosed" THEN "closed" ELSE "failed"
    /\ errCh' = << IF err = "ErrServerClosed" THEN "nil" ELSE err >>
    /\ UNCHANGED <<main, stop, inShutdown, active, signals, exit>>

Listen ==
    /\ Alive /\ server = "new"
    /\ IF inShutdown THEN Return("ErrServerClosed")
       ELSE \/ Return("error")
            \/ server' = "serving" /\ UNCHANGED <<main, errCh, stop, inShutdown, active, signals, exit>>

AcceptFails ==
    /\ Alive /\ server = "serving"
    /\ Return(IF inShutdown THEN "ErrServerClosed" ELSE "error")

\* A connection that was accepted may bring a request after the listener has gone.
HandlerStarts ==
    /\ Alive /\ server \in {"serving", "failed", "closed"} /\ active < MaxActive
    /\ active' = active + 1
    /\ UNCHANGED <<main, server, errCh, stop, inShutdown, signals, exit>>

HandlerEnds ==
    /\ Alive /\ active > 0
    /\ active' = active - 1
    /\ UNCHANGED <<main, server, errCh, stop, inShutdown, signals, exit>>

\* A variant for the properties to tell from the code: a signal is caught until
\* the first has been received, and no longer.
SignalArrivesAgain ==
    /\ Alive /\ signals < MaxSignals
    /\ signals' = signals + 1
    /\ IF main \in {"load", "spawn", "notify", "shutdown"}
         THEN exit' = "killed" /\ UNCHANGED stop
         ELSE stop' = <<"signal">> /\ UNCHANGED exit
    /\ UNCHANGED <<main, server, errCh, inShutdown, active>>

\* Before signal.Notify a signal ends the process at once; after it, one waits
\* to be received and others are dropped.
SignalArrives ==
    /\ Alive /\ signals < MaxSignals
    /\ signals' = signals + 1
    /\ IF main \in {"load", "spawn", "notify"}
         THEN exit' = "killed" /\ UNCHANGED stop
         ELSE stop' = <<"signal">> /\ UNCHANGED exit
    /\ UNCHANGED <<main, server, errCh, inShutdown, active>>

Next ==
    \/ Load \/ Spawn \/ Notify \/ Select \/ Shutdown
    \/ Listen \/ AcceptFails \/ HandlerStarts \/ HandlerEnds \/ SignalArrives

\* The scheduler runs both goroutines; Shutdown's deadline comes.  Nothing is
\* assumed of handlers, of the network, or of the operator.
Spec == Init /\ [][Next]_vars /\ WF_vars(Notify) /\ WF_vars(Select) /\ WF_vars(Shutdown)

-----------------------------------------------------------------------------

\* A process that reports success was told to end, and no handler was left.
CleanMeansDrained == exit = "clean" => active = 0 /\ signals > 0

\* A handler is cut off by the end of the listener, by Shutdown's deadline, or by
\* a signal in the moment when the server serves and signals are not yet caught;
\* no number of signals after that hurries it.
HandlersKept ==
    [][(Alive /\ exit' # "none" /\ active > 0)
          => \/ server = "failed" /\ exit' = "failed"
             \/ main = "shutdown" /\ exit' = "forced"
             \/ main = "notify" /\ signals' > signals]_vars

\* A caught signal ends the process, whatever the handlers do and though the
\* listener may fail at the same time.
SignalHeard == (stop # << >>) ~> ~Alive

\* A process that does not listen does not live on, looking healthy.
ListenerFailureEnds == (server = "failed") ~> ~Alive
=============================================================================
