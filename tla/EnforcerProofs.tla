--------------------------- MODULE EnforcerProofs ---------------------------
(***************************************************************************)
(* What the rewriting of one selector, and of a whole query, does for any  *)
(* labels, values, filters and matchers.                                   *)
(***************************************************************************)
EXTENDS Enforcer, TLAPS

\* The facts about an enforcer that config.Matchers and validation provide.
LEMMA FilterFacts ==
    ASSUME NEW e \in Enforcers, NEW f \in e.filters
    PROVE  /\ f.matcher \in Matcher
           /\ f.matcher.label \in Label
           /\ f.allowed \subseteq Value /\ f.allowed # {}
           /\ \A v \in LabelValue : Matches(f.matcher, v) <=> v \in f.allowed
           /\ \A g \in e.filters : f.matcher.label = g.matcher.label => f = g
           /\ e.mode \in Mode
  BY DEF Enforcers, LabelFilter, Matcher

\* A pinning matcher accepts one value, and it is an allowed one.
LEMMA PinIsAllowed ==
    ASSUME NEW f, NEW m, Pins(f, m), NEW v, Matches(m, v)
    PROVE  v \in f.allowed
  BY DEF Pins, Matches, PositiveOp

\* What a filter leaves in a selector accepts only its allowed values, whether
\* it is the enforced matcher that bounds the label or the caller's pin.
LEMMA ForFilterBounds ==
    ASSUME NEW e \in Enforcers, NEW f \in e.filters, NEW sel,
           NEW v \in LabelValue, \A m \in ForFilter(f, sel) : Matches(m, v)
    PROVE  v \in f.allowed
<1>1. CASE \E m \in Callers(f, sel) : ~Conflicts(f, sel) /\ Pins(f, m)
  <2>1. PICK m \in Callers(f, sel) : ~Conflicts(f, sel) /\ Pins(f, m)
    BY <1>1
  <2>2. m \in ForFilter(f, sel)
    BY <2>1 DEF ForFilter
  <2> QED
    BY <2>1, <2>2, PinIsAllowed
<1>2. CASE ~ \E m \in Callers(f, sel) : ~Conflicts(f, sel) /\ Pins(f, m)
  <2>1. f.matcher \in ForFilter(f, sel)
    BY <1>2 DEF ForFilter
  <2> QED
    BY <2>1, FilterFacts
<1> QED
  BY <1>1, <1>2

\* No rewritten selector selects a stream outside the scope: the bound that
\* enforceMatchers promises for compatible, conflicting and absent matchers.
THEOREM RewrittenInScope ==
    ASSUME NEW e \in Enforcers, NEW sel, NEW s \in Stream,
           Selects(Rewritten(e, sel), s)
    PROVE  InScope(e, s)
<1> SUFFICES ASSUME NEW f \in e.filters PROVE s[f.matcher.label] \in f.allowed
  BY DEF InScope
<1>1. s[f.matcher.label] \in LabelValue
  BY FilterFacts DEF Stream
<1>2. ForFilter(f, sel) \subseteq Rewritten(e, sel)
  BY DEF Rewritten
<1>3. \A m \in ForFilter(f, sel) : m.label = f.matcher.label
  BY DEF ForFilter, Callers
<1>4. \A m \in ForFilter(f, sel) : Matches(m, s[f.matcher.label])
  BY <1>2, <1>3 DEF Selects
<1> QED
  BY <1>1, <1>4, ForFilterBounds

\* The same of a whole query: every selector that Enforce returns is in scope.
THEOREM EnforceInScope ==
    ASSUME NEW e \in Enforcers, NEW q, Enforce(e, q).err = "none"
    PROVE  \A sel \in Enforce(e, q).text.sels : \A s \in Stream :
               Selects(sel, s) => InScope(e, s)
<1>1. q.kind \in ParsedKind /\ \A sel \in q.sels : EnforceMatchers(e, sel).err = "none"
  BY DEF Enforce, Failed
<1>2. Enforce(e, q).text.sels = { EnforceMatchers(e, sel).sel : sel \in q.sels }
  BY <1>1 DEF Enforce, Failed, EnforceMatchers
<1> QED
  BY <1>1, <1>2, RewrittenInScope DEF EnforceMatchers

\* A rewritten selector selects exactly the in-scope streams that meet the
\* caller's wishes: leaving the enforced matcher out after a pin loses nothing.
THEOREM RewrittenExact ==
    ASSUME NEW e \in Enforcers, NEW sel, NEW s \in Stream
    PROVE  Selects(Rewritten(e, sel), s) <=> InScope(e, s) /\ Selects(Wishes(e, sel), s)
<1>1. ASSUME Selects(Rewritten(e, sel), s), NEW m \in Wishes(e, sel)
      PROVE  Matches(m, s[m.label])
  <2>1. CASE m \in Untouched(e, sel)
    BY <1>1, <2>1 DEF Rewritten, Selects
  <2>2. CASE m \notin Untouched(e, sel)
    <3>1. PICK f \in e.filters : m.label = f.matcher.label
      BY <2>2 DEF Untouched, Wishes
    <3>2. m \in Callers(f, sel) /\ ~Conflicts(f, sel)
      BY <3>1 DEF Callers, Wishes
    <3>3. m \in ForFilter(f, sel)
      BY <3>2 DEF ForFilter
    <3> QED
      BY <1>1, <3>3 DEF Rewritten, Selects
  <2> QED
    BY <2>1, <2>2
<1>2. ASSUME InScope(e, s), Selects(Wishes(e, sel), s), NEW m \in Rewritten(e, sel)
      PROVE  Matches(m, s[m.label])
  <2>1. CASE m \in Untouched(e, sel)
    <3>1. m \in Wishes(e, sel)
      BY <2>1 DEF Untouched, Wishes
    <3> QED
      BY <1>2, <3>1 DEF Selects
  <2>2. ASSUME NEW f \in e.filters, m \in ForFilter(f, sel)
        PROVE  Matches(m, s[m.label])
    <3>1. CASE m = f.matcher
      <4>1. s[f.matcher.label] \in LabelValue
        BY FilterFacts DEF Stream
      <4>2. s[f.matcher.label] \in f.allowed
        BY <1>2 DEF InScope
      <4> QED
        BY <3>1, <4>1, <4>2, FilterFacts
    <3>2. CASE m # f.matcher
      <4>1. m \in Callers(f, sel) /\ ~Conflicts(f, sel)
        BY <2>2, <3>2 DEF ForFilter
      <4>2. \A g \in e.filters : Conflicts(g, sel) => m.label # g.matcher.label
        BY <4>1, FilterFacts DEF Callers
      <4>3. m \in Wishes(e, sel)
        BY <4>1, <4>2 DEF Wishes, Callers
      <4> QED
        BY <1>2, <4>3 DEF Selects
    <3> QED
      BY <3>1, <3>2
  <2> QED
    BY <1>2, <2>1, <2>2 DEF Rewritten
<1> QED
  BY <1>1, <1>2, RewrittenInScope DEF Selects

\* The per-label test is as good as a test on streams: some filter conflicts
\* with a selector exactly when no stream in scope meets all that the caller
\* says of the enforced labels.
THEOREM ConflictIsUnreachable ==
    ASSUME NEW e \in Enforcers, NEW sel
    PROVE  (\E f \in e.filters : Conflicts(f, sel)) <=> ~Reachable(e, sel)
<1>1. ASSUME NEW f \in e.filters, Conflicts(f, sel), NEW s \in Stream,
             InScope(e, s), Selects(sel \ Untouched(e, sel), s)
      PROVE  FALSE
  <2>1. s[f.matcher.label] \in f.allowed
    BY <1>1 DEF InScope
  <2>2. \A c \in Callers(f, sel) : Matches(c, s[f.matcher.label])
    BY <1>1 DEF Callers, Untouched, Selects
  <2> QED
    BY <1>1, <2>1, <2>2 DEF Conflicts, AnyAllowedSatisfies
<1>2. ASSUME \A f \in e.filters : ~Conflicts(f, sel)
      PROVE  Reachable(e, sel)
  <2> DEFINE Meets(f, v) == v \in f.allowed /\ \A c \in Callers(f, sel) : Matches(c, v)
             OnLabel(l)  == CHOOSE f \in e.filters : f.matcher.label = l
             s == [l \in Label |-> IF \E f \in e.filters : f.matcher.label = l
                                     THEN CHOOSE v \in LabelValue : Meets(OnLabel(l), v)
                                     ELSE Empty]
  <2>1. ASSUME NEW f \in e.filters
        PROVE  \E v \in LabelValue : Meets(f, v)
    BY <1>2, <2>1, FilterFacts DEF Conflicts, AnyAllowedSatisfies, LabelValue
  <2>2. ASSUME NEW f \in e.filters
        PROVE  OnLabel(f.matcher.label) = f
    BY <2>2, FilterFacts
  <2> HIDE DEF Meets, OnLabel
  <2>3. ASSUME NEW f \in e.filters
        PROVE  s[f.matcher.label] \in LabelValue /\ Meets(f, s[f.matcher.label])
    BY <2>1, <2>2, <2>3, FilterFacts
  <2>4. s \in Stream
    <3> SUFFICES ASSUME NEW l \in Label PROVE s[l] \in LabelValue
      BY DEF Stream
    <3>1. CASE \E f \in e.filters : f.matcher.label = l
      BY <3>1, <2>3
    <3>2. CASE ~ \E f \in e.filters : f.matcher.label = l
      BY <3>2 DEF LabelValue
    <3> QED
      BY <3>1, <3>2
  <2>5. InScope(e, s)
    BY <2>3 DEF InScope, Meets
  <2>6. Selects(sel \ Untouched(e, sel), s)
    <3> SUFFICES ASSUME NEW m \in sel, m \notin Untouched(e, sel)
                 PROVE  Matches(m, s[m.label])
      BY DEF Selects
    <3>1. PICK f \in e.filters : m.label = f.matcher.label
      BY DEF Untouched
    <3> QED
      BY <2>3, <3>1 DEF Meets, Callers
  <2> QED
    BY <2>4, <2>5, <2>6 DEF Reachable
<1> QED
  BY <1>1, <1>2 DEF Reachable

-----------------------------------------------------------------------------
(* What is returned may be enforced again. *)

\* After the rewrite, what a selector says of an enforced label is what its
\* filter has left there.
LEMMA CallersOfRewritten ==
    ASSUME NEW e \in Enforcers, NEW sel, NEW f \in e.filters
    PROVE  Callers(f, Rewritten(e, sel)) = ForFilter(f, sel)
<1>1. \A g \in e.filters : \A m \in ForFilter(g, sel) : m.label = g.matcher.label
  BY DEF ForFilter, Callers
<1>2. \A m \in Untouched(e, sel) : m.label # f.matcher.label
  BY DEF Untouched
<1>3. \A g \in e.filters : g.matcher.label = f.matcher.label => g = f
  BY FilterFacts
<1>4. \A m : m \in Rewritten(e, sel)
               <=> m \in Untouched(e, sel) \/ \E g \in e.filters : m \in ForFilter(g, sel)
  BY DEF Rewritten
<1>5. \A m : m \in Callers(f, Rewritten(e, sel)) <=> m \in Rewritten(e, sel) /\ m.label = f.matcher.label
  BY DEF Callers
<1>6. ASSUME NEW m PROVE m \in Callers(f, Rewritten(e, sel)) <=> m \in ForFilter(f, sel)
  BY <1>1, <1>2, <1>3, <1>4, <1>5
<1> QED
  BY <1>6

\* It is in no conflict with its filter, the enforced matcher in it included.
LEMMA RewrittenNoConflict ==
    ASSUME NEW e \in Enforcers, NEW sel, NEW f \in e.filters
    PROVE  ~Conflicts(f, Rewritten(e, sel))
<1> DEFINE kept == IF Conflicts(f, sel) THEN {} ELSE Callers(f, sel)
<1>1. Callers(f, Rewritten(e, sel)) \subseteq kept \cup {f.matcher}
  BY CallersOfRewritten DEF ForFilter
<1>2. \E v \in f.allowed : \A m \in kept \cup {f.matcher} : Matches(m, v)
  <2>1. \A v \in f.allowed : Matches(f.matcher, v)
    BY FilterFacts DEF LabelValue
  <2>2. CASE kept = {}
    BY <2>1, <2>2, FilterFacts
  <2>3. CASE kept # {}
    BY <2>1, <2>3 DEF Conflicts, AnyAllowedSatisfies
  <2> QED
    BY <2>2, <2>3
<1> HIDE DEF kept
<1> QED
  BY <1>1, <1>2 DEF Conflicts, AnyAllowedSatisfies

\* A second rewrite selects what the first one left, neither more nor less,
\* although it may put the enforced matcher in once more.
LEMMA RewrittenTwice ==
    ASSUME NEW e \in Enforcers, NEW sel, NEW s \in Stream
    PROVE  Selects(Rewritten(e, Rewritten(e, sel)), s) <=> Selects(Rewritten(e, sel), s)
<1> DEFINE r == Rewritten(e, sel)
<1>1. Wishes(e, r) = r
  BY RewrittenNoConflict DEF Wishes
<1>2. Selects(r, s) => InScope(e, s)
  BY RewrittenInScope
<1>3. Selects(Rewritten(e, r), s) <=> InScope(e, s) /\ Selects(Wishes(e, r), s)
  BY RewrittenExact
<1> QED
  BY <1>1, <1>2, <1>3

\* The rewrite leaves a selector that Loki parses: some enforced label may not
\* be empty, and what is left there says so.
LEMMA RewrittenParseable ==
    ASSUME NEW e \in Enforcers, NEW sel
    PROVE  Parseable(Rewritten(e, sel))
<1>1. PICK f \in e.filters : TRUE
  BY DEF Enforcers
<1>2. Empty \notin f.allowed /\ Empty \in LabelValue
  BY FilterFacts, EmptyAssumption DEF LabelValue
<1>3. \E m \in ForFilter(f, sel) : ~Matches(m, Empty)
  BY <1>2, ForFilterBounds
<1>4. ForFilter(f, sel) \subseteq Rewritten(e, sel)
  BY DEF Rewritten
<1> QED
  BY <1>3, <1>4 DEF Parseable

\* A query that Enforce returns is LogQL and in no conflict with the filters that
\* wrote it, and what a second call makes of it selects the same streams.
THEOREM EnforceAcceptedAgain ==
    ASSUME NEW e \in Enforcers, NEW q, Enforce(e, q).err = "none",
           NEW sel \in Enforce(e, q).text.sels
    PROVE  /\ Parseable(sel)
           /\ EnforceMatchers(e, sel).err = "none"
           /\ \A s \in Stream : Selects(EnforceMatchers(e, sel).sel, s) <=> Selects(sel, s)
<1>1. PICK asked \in q.sels : sel = Rewritten(e, asked)
  BY DEF Enforce, Failed, EnforceMatchers
<1>2. ~Refused(e, sel)
  BY <1>1, RewrittenNoConflict DEF Refused
<1>3. EnforceMatchers(e, sel) = [err |-> "none", sel |-> Rewritten(e, sel)]
  BY <1>2 DEF EnforceMatchers
<1> QED
  BY <1>1, <1>3, RewrittenParseable, RewrittenTwice
=============================================================================
