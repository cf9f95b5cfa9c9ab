------------------------------- MODULE LogQL -------------------------------
(***************************************************************************)
(* What the gateway takes from the Loki and Prometheus libraries: label    *)
(* matchers, stream selectors, streams, and the text of a query up to the  *)
(* selectors the parser finds in it.  The libraries are not in this        *)
(* repository; these definitions follow the way src/ uses them.            *)
(*                                                                         *)
(* A matcher carries the values it names: "=" and "!=" name one, a regular *)
(* expression names the set of values it accepts.  A selector is the SET   *)
(* of its matchers, because their order and repetition change how it is    *)
(* written and not what it selects.                                        *)
(***************************************************************************)

CONSTANTS
    Label,      \* label names
    Value,      \* non-empty label values
    Empty       \* the value of a label that a stream does not carry: ""

ASSUME EmptyAssumption == Empty \notin Value

LabelValue == Value \cup {Empty}

PositiveOp == {"=", "=~"}
NegativeOp == {"!=", "!~"}

Matcher ==
    { m \in [label : Label, op : PositiveOp \cup NegativeOp, vals : SUBSET LabelValue] :
        m.op \in {"=", "!="} => \E v \in LabelValue : m.vals = {v} }

\* labels.Matcher.Matches
Matches(m, v) == m.op \in PositiveOp <=> v \in m.vals

Stream == [Label -> LabelValue]

Selects(sel, s) == \A m \in sel : Matches(m, s[m.label])

\* syntax.ParseExpr refuses a selector whose every matcher accepts the empty value.
Parseable(sel) == \E m \in sel : ~Matches(m, Empty)

Selector == { sel \in SUBSET Matcher : Parseable(sel) }

(***************************************************************************)
(* A string where LogQL may stand: a parameter or a tool argument.  "log"  *)
(* and "metric" parse, and sels are the selectors of the parsed query; a   *)
(* metric query with none is a literal such as 1 + 1.  "opaque" is a value *)
(* that is not LogQL, such as a limit.                                     *)
(***************************************************************************)
ParsedKind == {"log", "metric"}
Text ==
    [kind : {"empty", "malformed", "opaque"}, sels : {{}}]
        \cup [kind : {"log"}, sels : (SUBSET Selector) \ {{}}]
        \cup [kind : {"metric"}, sels : SUBSET Selector]

EmptyText == [kind |-> "empty", sels |-> {}]
=============================================================================
