--------------------------- MODULE TimeRangeProofs ---------------------------
(***************************************************************************)
(* The window of a tool call, for any second, lookback and arguments and   *)
(* however long the call takes.                                            *)
(***************************************************************************)
EXTENDS TimeRange, TLAPS

\* A time is in the second it is cut to.
LEMMA UnixFloor ==
    ASSUME NEW t \in Int
    PROVE  /\ Unix(t) \in Int
           /\ Unix(t) * Second =< t /\ t < Unix(t) * Second + Second
  BY TimeAssumption DEF Unix

\* What cutting both ends does to the length between them.
LEMMA CutLength ==
    ASSUME NEW t \in Int, NEW d \in Nat
    PROVE  LET length == (Unix(t) - Unix(t - d)) * Second
           IN  length - d < Second /\ d - length < Second
<1> DEFINE u == Unix(t)
           v == Unix(t - d)
<1>1. /\ u \in Int /\ u * Second =< t /\ t < u * Second + Second
      /\ v \in Int /\ v * Second =< t - d /\ t - d < v * Second + Second
  BY UnixFloor
<1>2. (u - v) * Second = u * Second - v * Second /\ u * Second \in Int /\ v * Second \in Int
  BY <1>1, TimeAssumption
<1> HIDE DEF u, v
<1>3. (u - v) * Second - d < Second /\ d - (u - v) * Second < Second
  BY <1>1, <1>2, TimeAssumption
<1> QED
  BY <1>3 DEF u, v

-----------------------------------------------------------------------------
(***************************************************************************)
(* The inductive invariant: the moment the window is right for is the one  *)
(* at which the clock was read.                                            *)
(***************************************************************************)
Readable(e) == e.kind # "garbage"

IInv ==
    /\ since \in Nat \ {0} /\ args \in [start : Exprs, end : Exprs]
    /\ called \in Int /\ clock \in Int /\ called =< clock
    /\ pc \in {"clock", "end", "start", "cut", "done"}
    /\ pc # "clock" => now \in called..clock
    /\ pc \in {"start", "cut"} => Readable(args.end) /\ endT = EndAt(now)
    /\ pc = "cut" => Readable(args.start) /\ startT = StartAt(now)
    /\ pc = "done" =>
          \/ result.err # "none" /\ ~(Readable(args.start) /\ Readable(args.end))
          \/ /\ result.err = "none" /\ Readable(args.start) /\ Readable(args.end)
             /\ result.from = Unix(StartAt(now)) /\ result.to = Unix(EndAt(now))

\* What a call may give for an end of its range.
LEMMA ExprType ==
    ASSUME NEW e \in Exprs
    PROVE  e.kind \in {"omitted", "now", "offset", "instant", "garbage"} /\ e.at \in Int
  BY TimeAssumption

\* The moment of the window is the one at which the clock was read.
LEMMA ImpliesWindowAsAsked == IInv => WindowAsAsked
<1> SUFFICES ASSUME IInv, pc = "done"
             PROVE  IF "garbage" \in {args.start.kind, args.end.kind} THEN result.err # "none"
                    ELSE /\ result.err = "none"
                         /\ \E t \in called..clock :
                               result.from = Unix(StartAt(t)) /\ result.to = Unix(EndAt(t))
  BY DEF WindowAsAsked
<1> QED
  BY DEF IInv, Readable

\* Cutting both ends takes less than a second from the lookback.
LEMMA ImpliesLookbackKept == IInv => LookbackKept
<1> SUFFICES ASSUME IInv, pc = "done", result.err = "none", args.start.kind = "omitted"
             PROVE  LET length == (result.to - result.from) * Second
                    IN  length - since < Second /\ since - length < Second
  BY DEF LookbackKept
<1>1. /\ now \in Int /\ since \in Nat /\ args.end \in Exprs /\ Readable(args.end)
      /\ result.from = Unix(StartAt(now)) /\ result.to = Unix(EndAt(now))
  BY DEF IInv
<1>2. EndAt(now) \in Int
  BY <1>1, ExprType DEF EndAt, Resolve, ParseTime, Readable
<1>3. StartAt(now) = EndAt(now) - since
  BY DEF StartAt, Resolve
<1> QED
  BY <1>1, <1>2, <1>3, CutLength

\* A call starts in the invariant.
LEMMA InitHasInvariant == Init => IInv
  BY TimeAssumption DEF Init, IInv

\* Every step of the call, and of the clock, keeps the invariant.
LEMMA NextKeepsInvariant ==
    ASSUME IInv, [Next]_vars
    PROVE  IInv'
<1> USE DEF IInv, EndAt, StartAt, Readable
<1>1. CASE Tick
  BY <1>1, TimeAssumption DEF Tick
<1>2. CASE ReadClock
  BY <1>2 DEF ReadClock
<1>3. CASE ResolveEnd
  <2>1. CASE args.end.kind = "garbage"
    BY <1>3, <2>1 DEF ResolveEnd, Fail, Pending
  <2>2. CASE args.end.kind # "garbage"
    BY <1>3, <2>2 DEF ResolveEnd
  <2> QED
    BY <2>1, <2>2
<1>4. CASE ResolveStart
  <2>1. CASE args.start.kind = "garbage"
    BY <1>4, <2>1 DEF ResolveStart, Fail, Pending
  <2>2. CASE args.start.kind # "garbage"
    BY <1>4, <2>2 DEF ResolveStart
  <2> QED
    BY <2>1, <2>2
<1>5. CASE Cut
  BY <1>5 DEF Cut
<1>6. CASE UNCHANGED vars
  BY <1>6 DEF vars
<1> QED
  BY <1>1, <1>2, <1>3, <1>4, <1>5, <1>6 DEF Next

\* Whatever the clock does while the window is worked out, it is the one asked
\* for at a single moment of the call.
THEOREM TimeRangeWindowAsAsked == Spec => []WindowAsAsked
<1>1. Init => IInv
  BY InitHasInvariant
<1>2. IInv /\ [Next]_vars => IInv'
  BY NextKeepsInvariant
<1>3. IInv => WindowAsAsked
  BY ImpliesWindowAsAsked
<1> QED
  BY <1>1, <1>2, <1>3, PTL DEF Spec

\* Cutting both ends to seconds never costs or adds a second of the lookback.
THEOREM TimeRangeLookbackKept == Spec => []LookbackKept
<1>1. Init => IInv
  BY InitHasInvariant
<1>2. IInv /\ [Next]_vars => IInv'
  BY NextKeepsInvariant
<1>3. IInv => LookbackKept
  BY ImpliesLookbackKept
<1> QED
  BY <1>1, <1>2, <1>3, PTL DEF Spec
=============================================================================
