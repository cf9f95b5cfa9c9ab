------------------------------ MODULE Enforcer ------------------------------
(***************************************************************************)
(* internal/enforcer: the matchers an instance adds to every selector of a *)
(* query, and when it refuses one.  An enforcer is a record of its filters *)
(* (each a compiled matcher and the values it permits, one per label) and  *)
(* its collision mode.                                                     *)
(***************************************************************************)
EXTENDS LogQL

LabelFilter == [matcher : Matcher, allowed : (SUBSET Value) \ {{}}]

Mode == {"reject", "override"}

\* What New may be given: one filter per label, whose matcher accepts exactly
\* the allowed values (config.Matchers compiles it from them).
Enforcers ==
    { e \in [filters : SUBSET LabelFilter, mode : Mode] :
        /\ e.filters # {}
        /\ \A f \in e.filters : \A v \in LabelValue : Matches(f.matcher, v) <=> v \in f.allowed
        /\ \A f, g \in e.filters : f.matcher.label = g.matcher.label => f = g }

\* The enforced matchers as one selector, for the label APIs.
EnforcedSelector(e) == { f.matcher : f \in e.filters }
SelectorText(e) == [kind |-> "log", sels |-> {EnforcedSelector(e)}]

\* A variant for the properties to tell from the code: each matcher is met by
\* some allowed value, not necessarily the same.
EachSatisfied(allowed, callers) ==
    \A c \in callers : \E v \in allowed : Matches(c, v)

AnyAllowedSatisfies(allowed, callers) ==
    \E v \in allowed : \A c \in callers : Matches(c, v)

Callers(f, sel) == { m \in sel : m.label = f.matcher.label }

Conflicts(f, sel) ==
    /\ Callers(f, sel) # {}
    /\ ~AnyAllowedSatisfies(f.allowed, Callers(f, sel))

\* A variant for the properties to tell from the code: a regular expression
\* that accepts an allowed value taken for one that pins it.
PinsLoosely(f, m) == m.op \in PositiveOp /\ m.vals \cap f.allowed # {}

\* A caller's equality matcher on an allowed value makes the enforced one redundant.
Pins(f, m) == m.op = "=" /\ m.vals \subseteq f.allowed

\* A variant for the properties to tell from the code: the enforced matcher
\* replaces what the caller said.
ForFilterReplacing(f, sel) == {f.matcher}

\* A variant for the properties to tell from the code: on a conflict the
\* caller's matchers are dropped and nothing is put in their place.
ForFilterDropping(f, sel) ==
    IF Conflicts(f, sel) THEN {} ELSE Callers(f, sel) \cup {f.matcher}

\* What one filter leaves in a selector: the enforced matcher when the caller
\* said nothing or, in override mode, said something unsatisfiable; else what
\* the caller said, and the enforced matcher unless that pins the label.
ForFilter(f, sel) ==
    LET callers == Callers(f, sel)
        kept    == IF Conflicts(f, sel) THEN {} ELSE callers
    IN  IF \E m \in kept : Pins(f, m) THEN kept ELSE kept \cup {f.matcher}

Untouched(e, sel) == { m \in sel : \A f \in e.filters : m.label # f.matcher.label }

Rewritten(e, sel) == Untouched(e, sel) \cup UNION { ForFilter(f, sel) : f \in e.filters }

Refused(e, sel) == e.mode = "reject" /\ \E f \in e.filters : Conflicts(f, sel)

EnforceMatchers(e, sel) ==
    IF Refused(e, sel) THEN [err |-> "ErrConflict", sel |-> {}]
                       ELSE [err |-> "none", sel |-> Rewritten(e, sel)]

Failed(err) == [err |-> err, text |-> EmptyText]

\* Enforce as one step, on the set of the query's selectors.
Enforce(e, q) ==
    IF q.kind \notin ParsedKind THEN Failed("ErrParse")
    ELSE IF q.sels = {} THEN Failed("ErrNoSelector")
    ELSE IF \E sel \in q.sels : EnforceMatchers(e, sel).err # "none" THEN Failed("ErrConflict")
    ELSE [err  |-> "none",
          text |-> [kind |-> q.kind, sels |-> { EnforceMatchers(e, sel).sel : sel \in q.sels }]]

\* What the text of ErrConflict says: the label in conflict and every value it
\* may have.  Where several are in conflict it is the first that the code comes
\* to, by an order of filters and selectors that plays no other part.
ConflictTells(e, q) ==
    IF Enforce(e, q).err # "ErrConflict" THEN {}
    ELSE LET f == CHOOSE f \in e.filters : \E sel \in q.sels : Conflicts(f, sel)
         IN  {f.matcher.label} \X f.allowed

-----------------------------------------------------------------------------
(* What the rewrite is measured against, over streams and not over matchers. *)

\* The streams an instance may show: those with an allowed value on every enforced label.
InScope(e, s) == \A f \in e.filters : s[f.matcher.label] \in f.allowed

\* The caller's own wishes: its matchers, but for those on a label where no
\* allowed value can meet them (which only override mode lets through).
Wishes(e, sel) == { m \in sel : \A f \in e.filters : Conflicts(f, sel) => m.label # f.matcher.label }

\* Some stream in scope meets all that the caller says of the enforced labels.
Reachable(e, sel) ==
    \E s \in Stream : InScope(e, s) /\ Selects(sel \ Untouched(e, sel), s)
=============================================================================
