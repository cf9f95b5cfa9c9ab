---------------------------- MODULE ProcessProofs ----------------------------
(***************************************************************************)
(* The end of the process, for any number of handlers and signals.         *)
(***************************************************************************)
EXTENDS Process, TLAPS

\* How the process ends follows from what the two goroutines have told each other:
\* an error stands for a listener that failed and nil for one that Shutdown has
\* closed, which only a signal brings about, and only after run has left select.
PInv ==
    /\ signals \in Nat /\ active \in Nat /\ inShutdown \in BOOLEAN
    /\ main \in {"load", "spawn"} => server = "none"
    /\ server \in {"none", "new"} => active = 0
    /\ inShutdown <=> main = "shutdown"
    /\ inShutdown \/ stop # << >> => signals > 0
    /\ server = "closed" => inShutdown
    /\ errCh # << >> => \/ server = "closed" /\ errCh[1] = "nil"
                        \/ server = "failed" /\ errCh[1] = "error"
    /\ exit = "clean" => active = 0 /\ signals > 0

\* The process starts in the invariant.
LEMMA InitHasInvariant == Init => PInv
<1> SUFFICES ASSUME Init PROVE PInv
  OBVIOUS
<1>1. ~inShutdown /\ inShutdown \in BOOLEAN /\ main # "shutdown"
  BY DEF Init
<1>2. /\ signals \in Nat /\ active \in Nat
      /\ main \in {"load", "spawn"} => server = "none"
      /\ server \in {"none", "new"} => active = 0
      /\ stop = << >> /\ server # "closed" /\ errCh = << >> /\ exit # "clean"
  BY DEF Init
<1> QED
  BY <1>1, <1>2 DEF PInv

\* run takes an error from the other goroutine only if its listener failed.
LEMMA SelectErrFails ==
    ASSUME PInv, SelectErr
    PROVE  server = "failed" /\ exit' = "failed"
<1>1. ~inShutdown /\ errCh # << >>
  BY DEF PInv, SelectErr
<1>2. server = "failed" /\ errCh[1] = "error"
  BY <1>1 DEF PInv
<1> QED
  BY <1>2 DEF SelectErr, Exit

\* Every step of either goroutine, a client or the operator keeps the invariant.
LEMMA NextKeepsInvariant ==
    ASSUME PInv, [Next]_vars
    PROVE  PInv'
<1>1. CASE Load
  BY <1>1 DEF Load, Exit, PInv
<1>2. CASE Spawn
  BY <1>2 DEF Spawn, PInv
<1>3. CASE Notify
  BY <1>3 DEF Notify, PInv
<1>4. CASE SelectErr
  <2>1. exit' = "failed"
    BY <1>4, SelectErrFails
  <2> QED
    BY <1>4, <2>1 DEF SelectErr, Exit, PInv
<1>5. CASE SelectSignal
  BY <1>5 DEF SelectSignal, Alive, PInv
<1>6. CASE Shutdown
  BY <1>6 DEF Shutdown, Exit, PInv
<1>7. CASE Listen
  BY <1>7 DEF Listen, Return, Alive, PInv
<1>8. CASE AcceptFails
  BY <1>8 DEF AcceptFails, Return, Alive, PInv
<1>9. CASE HandlerStarts
  BY <1>9 DEF HandlerStarts, Alive, PInv
<1>10. CASE HandlerEnds
  BY <1>10 DEF HandlerEnds, Alive, PInv
<1>11. CASE SignalArrives
  BY <1>11 DEF SignalArrives, Alive, PInv
<1>12. CASE UNCHANGED vars
  BY <1>12 DEF vars, PInv
<1> QED
  BY <1>1, <1>2, <1>3, <1>4, <1>5, <1>6, <1>7, <1>8, <1>9, <1>10, <1>11, <1>12 DEF Next, Select

\* What may cut handlers off, step by step.
LEMMA StepKeepsHandlers ==
    ASSUME PInv, Next, Alive, exit' # "none", active > 0
    PROVE  \/ server = "failed" /\ exit' = "failed"
           \/ main = "shutdown" /\ exit' = "forced"
           \/ main = "notify" /\ signals' > signals
<1>1. server \notin {"none", "new"} /\ main \notin {"load", "spawn"}
  BY DEF PInv
<1>2. CASE SelectErr
  BY <1>2, SelectErrFails
<1>3. CASE Shutdown
  BY <1>3 DEF Shutdown, Exit, PInv
<1>4. CASE SignalArrives
  <2>1. main = "notify"
    BY <1>1, <1>4 DEF SignalArrives, Alive
  <2>2. signals' > signals
    BY <1>4 DEF SignalArrives, PInv
  <2> QED
    BY <2>1, <2>2
<1>5. CASE Load \/ Spawn \/ Notify \/ SelectSignal \/ Listen \/ AcceptFails \/ HandlerStarts \/ HandlerEnds
  BY <1>1, <1>5 DEF Load, Spawn, Notify, SelectSignal, Listen, AcceptFails, Return, HandlerStarts,
                    HandlerEnds, Alive
<1> QED
  BY <1>2, <1>3, <1>4, <1>5 DEF Next, Select

-----------------------------------------------------------------------------

\* A process that reports success was told to end and has let every handler finish.
THEOREM ProcessCleanMeansDrained == Spec => []CleanMeansDrained
<1>1. Init => PInv
  BY InitHasInvariant
<1>2. PInv /\ [Next]_vars => PInv'
  BY NextKeepsInvariant
<1>3. PInv => CleanMeansDrained
  BY DEF PInv, CleanMeansDrained
<1> QED
  BY <1>1, <1>2, <1>3, PTL DEF Spec

\* However many signals come, a handler is cut off by nothing but the end of the
\* listener, the deadline of Shutdown, or a signal that is not yet caught.
THEOREM ProcessHandlersKept == Spec => HandlersKept
<1> DEFINE Kept == (Alive /\ exit' # "none" /\ active > 0)
                      => \/ server = "failed" /\ exit' = "failed"
                         \/ main = "shutdown" /\ exit' = "forced"
                         \/ main = "notify" /\ signals' > signals
<1>1. Init => PInv
  BY InitHasInvariant
<1>2. PInv /\ [Next]_vars => PInv'
  BY NextKeepsInvariant
<1>3. PInv /\ [Next]_vars => [Kept]_vars
  <2> SUFFICES ASSUME PInv, Next, Alive, exit' # "none", active > 0
               PROVE  \/ server = "failed" /\ exit' = "failed"
                      \/ main = "shutdown" /\ exit' = "forced"
                      \/ main = "notify" /\ signals' > signals
    OBVIOUS
  <2> QED
    BY StepKeepsHandlers
<1> QED
  BY <1>1, <1>2, <1>3, PTL DEF Spec, HandlersKept
=============================================================================
