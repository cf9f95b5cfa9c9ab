----------------------------- MODULE TimeRange -----------------------------
(***************************************************************************)
(* internal/handlers: timeRange, step by step, while the clock runs.       *)
(* Times are counts of a unit smaller than a second.                       *)
(***************************************************************************)
EXTENDS Integers

CONSTANTS
    Second,         \* a second
    Lookbacks,      \* what defaults.since may be
    Exprs,          \* what the start and end arguments may be
    MaxClock        \* the bound on the clock

ASSUME TimeAssumption ==
    /\ Second \in Nat \ {0} /\ MaxClock \in Int
    /\ Lookbacks \subseteq Nat \ {0}
    /\ Exprs \subseteq [kind : {"omitted", "now", "offset", "instant", "garbage"}, at : Int]

VARIABLES
    since,      \* defaults.since of the instance
    args,       \* the call's start and end
    called,     \* when the call was made
    clock,
    pc,
    now,        \* the one reading of the clock
    endT, startT,
    result      \* what the call returned: the error, and the seconds from and to

vars == <<since, args, called, clock, pc, now, endT, startT, result>>

Pending == [err |-> "none", from |-> 0, to |-> 0]

Init ==
    /\ since \in Lookbacks
    /\ args \in [start : Exprs, end : Exprs]
    /\ called = 0 /\ clock = 0
    /\ pc = "clock"
    /\ now = 0 /\ endT = 0 /\ startT = 0
    /\ result = Pending

\* parseTime, for what it can read.
ParseTime(e, t) ==
    CASE e.kind = "now"     -> t
      [] e.kind = "offset"  -> t + e.at
      [] e.kind = "instant" -> e.at

\* What an argument comes to, with the default for one that is not given.
Resolve(e, t, default) == IF e.kind = "omitted" THEN default ELSE ParseTime(e, t)

Unix(t) == t \div Second

Fail(which) ==
    /\ pc' = "done" /\ result' = [Pending EXCEPT !.err = which]
    /\ UNCHANGED <<since, args, called, clock, now, endT, startT>>

Tick ==
    /\ clock < MaxClock /\ pc # "done"
    /\ clock' = clock + 1
    /\ UNCHANGED <<since, args, called, pc, now, endT, startT, result>>

ReadClock ==
    /\ pc = "clock"
    /\ pc' = "end" /\ now' = clock
    /\ UNCHANGED <<since, args, called, clock, endT, startT, result>>

ResolveEnd ==
    /\ pc = "end"
    /\ IF args.end.kind = "garbage" THEN Fail("end")
       ELSE /\ pc' = "start" /\ endT' = Resolve(args.end, now, now)
            /\ UNCHANGED <<since, args, called, clock, now, startT, result>>

\* Variants for the properties to tell from the code: the clock is read again,
\* or the lookback is counted from now.
ResolveStartAnew ==
    /\ pc = "start"
    /\ IF args.start.kind = "garbage" THEN Fail("start")
       ELSE /\ pc' = "cut" /\ startT' = Resolve(args.start, clock, endT - since)
            /\ UNCHANGED <<since, args, called, clock, now, endT, result>>
ResolveStartFromNow ==
    /\ pc = "start"
    /\ IF args.start.kind = "garbage" THEN Fail("start")
       ELSE /\ pc' = "cut" /\ startT' = Resolve(args.start, now, now - since)
            /\ UNCHANGED <<since, args, called, clock, now, endT, result>>

ResolveStart ==
    /\ pc = "start"
    /\ IF args.start.kind = "garbage" THEN Fail("start")
       ELSE /\ pc' = "cut" /\ startT' = Resolve(args.start, now, endT - since)
            /\ UNCHANGED <<since, args, called, clock, now, endT, result>>

\* Both ends are cut to seconds.
Cut ==
    /\ pc = "cut"
    /\ pc' = "done" /\ result' = [err |-> "none", from |-> Unix(startT), to |-> Unix(endT)]
    /\ UNCHANGED <<since, args, called, clock, now, endT, startT>>

Next == Tick \/ ReadClock \/ ResolveEnd \/ ResolveStart \/ Cut

Spec == Init /\ [][Next]_vars

-----------------------------------------------------------------------------

\* What the arguments ask for at time t.
EndAt(t) == Resolve(args.end, t, t)
StartAt(t) == Resolve(args.start, t, EndAt(t) - since)

\* The window is the one asked for at a single moment of the call, however long
\* its two ends took to work out; only arguments that cannot be read are refused.
WindowAsAsked ==
    pc = "done" =>
        IF "garbage" \in {args.start.kind, args.end.kind} THEN result.err # "none"
        ELSE /\ result.err = "none"
             /\ \E t \in called..clock : result.from = Unix(StartAt(t)) /\ result.to = Unix(EndAt(t))

\* Where only the end is given the window is as long as the operator's lookback,
\* to less than a second: the cut moves both ends, and a lookback of a second or
\* more never makes an empty window, wherever in its second the call falls.
LookbackKept ==
    (pc = "done" /\ result.err = "none" /\ args.start.kind = "omitted") =>
        LET length == (result.to - result.from) * Second
        IN  length - since < Second /\ since - length < Second
=============================================================================
