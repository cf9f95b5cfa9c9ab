---------------------------- MODULE RoutingProofs ----------------------------
(***************************************************************************)
(* What the router decides on a request, by either surface, for any        *)
(* instances, tokens, digests, requests and streams.                       *)
(***************************************************************************)
EXTENDS Gateway, EnforcerProofs, WellFoundedInduction, SequenceTheorems, TLAPS

-----------------------------------------------------------------------------
(* From a configuration to an enforcer. *)

\* A compiled filter accepts exactly its configured values: neither another
\* value nor a missing label.
LEMMA CompiledExact ==
    ASSUME NEW f \in Filter
    PROVE  /\ CompiledMatcher(f) \in Matcher
           /\ Range(f.values) \in (SUBSET Value) \ {{}}
           /\ \A v \in LabelValue : Matches(CompiledMatcher(f), v) <=> v \in Range(f.values)
<1>1. f.values \in Seq(Value) /\ f.values # << >> /\ f.label \in Label
  BY DEF Filter
<1>2. Len(f.values) \in Nat \ {0} /\ DOMAIN f.values = 1 .. Len(f.values)
  BY <1>1
<1>3. Range(f.values) \in (SUBSET Value) \ {{}}
  <2>1. f.values[1] \in Range(f.values)
    BY <1>2 DEF Range
  <2>2. \A i \in DOMAIN f.values : f.values[i] \in Value
    BY <1>1, <1>2
  <2>3. Range(f.values) \subseteq Value
    BY <2>2 DEF Range
  <2> QED
    BY <2>1, <2>3
<1>4. Len(f.values) = 1 => Range(f.values) = {f.values[1]} /\ f.values[1] \in LabelValue
  BY <1>1, <1>2 DEF Range, LabelValue
<1>5. CompiledMatcher(f) \in Matcher
  <2>1. CompiledMatcher(f) \in [label : Label, op : PositiveOp \cup NegativeOp, vals : SUBSET LabelValue]
    BY <1>1, <1>3 DEF CompiledMatcher, PositiveOp, LabelValue
  <2>2. CompiledMatcher(f).op \in {"=", "!="} => \E v \in LabelValue : CompiledMatcher(f).vals = {v}
    BY <1>4 DEF CompiledMatcher
  <2> QED
    BY <2>1, <2>2 DEF Matcher
<1>6. \A v \in LabelValue : Matches(CompiledMatcher(f), v) <=> v \in Range(f.values)
  BY DEF Matches, CompiledMatcher, PositiveOp
<1> QED
  BY <1>3, <1>5, <1>6

\* Whatever validate accepts, Build makes a well-formed enforcer of.
THEOREM EnforcerOfType ==
    ASSUME NEW ri \in Instance
    PROVE  EnforcerOf(ri) \in Enforcers
<1>1. /\ ri.filters \subseteq Filter /\ ri.filters # {} /\ ri.enforcement.onConflict \in Mode
      /\ \A f, g \in ri.filters : f.label = g.label => f = g
  BY DEF Instance, Valid, ResolvedInstance, Enforcement
<1>2. \A x \in EnforcedFilters(ri) :
          \E f \in ri.filters : x = [matcher |-> CompiledMatcher(f), allowed |-> Range(f.values)]
  BY DEF EnforcedFilters
<1>3. EnforcedFilters(ri) \subseteq LabelFilter /\ EnforcedFilters(ri) # {}
  <2>1. \A f \in ri.filters :
            [matcher |-> CompiledMatcher(f), allowed |-> Range(f.values)] \in LabelFilter
    BY <1>1, CompiledExact DEF LabelFilter
  <2>2. EnforcedFilters(ri) \subseteq LabelFilter
    BY <1>1, <1>2, <2>1
  <2>3. PICK f \in ri.filters : TRUE
    BY <1>1
  <2>4. [matcher |-> CompiledMatcher(f), allowed |-> Range(f.values)] \in EnforcedFilters(ri)
    BY <2>3 DEF EnforcedFilters
  <2> QED
    BY <2>2, <2>4
<1>4. \A x \in EnforcedFilters(ri) : \A v \in LabelValue : Matches(x.matcher, v) <=> v \in x.allowed
  BY <1>1, <1>2, CompiledExact
<1>5. \A x, y \in EnforcedFilters(ri) : x.matcher.label = y.matcher.label => x = y
  BY <1>1, <1>2 DEF CompiledMatcher
<1> QED
  BY <1>1, <1>3, <1>4, <1>5 DEF Enforcers, EnforcerOf

-----------------------------------------------------------------------------
(* The parameters of a request. *)

\* A set with 0 and the successor of each number in it has all numbers.
LEMMA SetInduction ==
    ASSUME NEW S, 0 \in S, \A n \in Nat : n \in S => n + 1 \in S
    PROVE  Nat \subseteq S
<1> SUFFICES ASSUME Nat \ S # {} PROVE FALSE
  OBVIOUS
<1>1. PICK n \in Nat \ S : \A m \in Nat \ S : <<m, n>> \notin OpToRel(<, Nat)
  BY NatLessThanWellFounded, WFMin
<1>2. n - 1 \in Nat /\ n - 1 \in S
  <2>1. n - 1 \in Nat
    OBVIOUS
  <2>2. <<n - 1, n>> \in OpToRel(<, Nat)
    BY <2>1 DEF OpToRel
  <2> QED
    BY <1>1, <2>1, <2>2
<1> QED
  BY <1>2

\* What TextsOf computes has a value at every position.
LEMMA TextsOfSteps ==
    ASSUME NEW s, Len(s) \in Nat, NEW k
    PROVE  \E f : /\ f[0] = << >>
                  /\ \A n \in 1 .. Len(s) :
                        f[n] = IF s[n].key = k THEN Append(f[n - 1], s[n].text) ELSE f[n - 1]
                  /\ TextsOf(s, k) = f[Len(s)]
<1> DEFINE then(texts, n) == IF n = 0 THEN << >>
                             ELSE IF s[n].key = k THEN Append(texts, s[n].text)
                             ELSE texts
           S == { m \in Nat : \E f : f = [n \in 0 .. m |-> then(f[n - 1], n)] }
<1>0. \A texts, other : then(texts, 0) = then(other, 0)
  OBVIOUS
<1> HIDE DEF then
<1>1. 0 \in S
  <2> DEFINE f == [n \in 0 .. 0 |-> then(0, n)]
  <2>1. \A n \in 0 .. 0 : n = 0
    OBVIOUS
  <2>2. f = [n \in 0 .. 0 |-> then(f[n - 1], n)]
    BY <1>0, <2>1
  <2> QED
    BY <2>2
<1>2. ASSUME NEW m \in Nat, m \in S PROVE m + 1 \in S
  <2>1. PICK f : f = [n \in 0 .. m |-> then(f[n - 1], n)]
    BY <1>2
  <2> DEFINE g == [n \in 0 .. m + 1 |-> then(f[n - 1], n)]
  <2>2. ASSUME NEW n \in 0 .. m + 1 PROVE g[n] = then(g[n - 1], n)
    <3>1. CASE n = 0
      BY <1>0, <3>1
    <3>2. CASE n # 0
      <4>1. n - 1 \in 0 .. m /\ n - 1 \in 0 .. m + 1
        BY <3>2
      <4>2. g[n - 1] = then(f[(n - 1) - 1], n - 1)
        BY <4>1
      <4>3. f[n - 1] = then(f[(n - 1) - 1], n - 1)
        BY <2>1, <4>1
      <4> QED
        BY <4>2, <4>3
    <3> QED
      BY <3>1, <3>2
  <2> DEFINE h == [n \in 0 .. m + 1 |-> then(g[n - 1], n)]
  <2>3. g = h
    <3>1. \A n \in 0 .. m + 1 : then(f[n - 1], n) = then(g[n - 1], n)
      BY <2>2
    <3> QED
      BY <3>1
  <2>4. g = [n \in 0 .. m + 1 |-> then(g[n - 1], n)]
    BY <2>3
  <2> HIDE DEF g
  <2> QED
    BY <2>4
<1>3. PICK f : f = [n \in 0 .. Len(s) |-> then(f[n - 1], n)]
  <2>1. Nat \subseteq S
    BY <1>1, <1>2, SetInduction
  <2> QED
    BY <2>1
<1> DEFINE R(x) == x = [n \in 0 .. Len(s) |-> then(x[n - 1], n)]
           upTo == CHOOSE x : R(x)
<1>4. R(upTo)
  BY <1>3
<1>5. TextsOf(s, k) = upTo[Len(s)]
  BY DEF TextsOf, then
<1> HIDE DEF upTo
<1>6. \A n \in 0 .. Len(s) : upTo[n] = then(upTo[n - 1], n)
  BY <1>4
<1> QED
  BY <1>5, <1>6 DEF then

\* No pairs, no texts.
LEMMA TextsOfNone ==
    ASSUME NEW k
    PROVE  TextsOf(<< >>, k) = << >>
<1> DEFINE s == << >>
<1>1. Len(s) = 0
  OBVIOUS
<1> HIDE DEF s
<1>2. \E f : f[0] = << >> /\ TextsOf(s, k) = f[Len(s)]
  BY <1>1, TextsOfSteps
<1> QED
  BY <1>1, <1>2 DEF s

\* A pair more is a text more under its key.
LEMMA TextsOfAppend ==
    ASSUME NEW P, NEW s \in Seq(P), NEW p \in P, NEW k
    PROVE  TextsOf(Append(s, p), k) = IF p.key = k THEN Append(TextsOf(s, k), p.text) ELSE TextsOf(s, k)
<1> DEFINE t == Append(s, p)
<1>1. /\ Len(s) \in Nat /\ Len(t) = Len(s) + 1 /\ t[Len(t)] = p
      /\ \A n \in 1 .. Len(s) : t[n] = s[n]
  OBVIOUS
<1> HIDE DEF t
<1>2. PICK f : /\ f[0] = << >>
               /\ \A n \in 1 .. Len(s) :
                     f[n] = IF s[n].key = k THEN Append(f[n - 1], s[n].text) ELSE f[n - 1]
               /\ TextsOf(s, k) = f[Len(s)]
  BY <1>1, TextsOfSteps
<1>3. PICK g : /\ g[0] = << >>
               /\ \A n \in 1 .. Len(t) :
                     g[n] = IF t[n].key = k THEN Append(g[n - 1], t[n].text) ELSE g[n - 1]
               /\ TextsOf(t, k) = g[Len(t)]
  BY <1>1, TextsOfSteps
<1>4. f[Len(s)] = g[Len(s)]
  <2> DEFINE S == { n \in Nat : n =< Len(s) => f[n] = g[n] }
  <2>1. 0 \in S
    BY <1>2, <1>3
  <2>2. ASSUME NEW n \in Nat, n \in S PROVE n + 1 \in S
    <3> SUFFICES ASSUME n + 1 =< Len(s) PROVE f[n + 1] = g[n + 1]
      OBVIOUS
    <3>1. n =< Len(s) /\ (n + 1) - 1 = n /\ n + 1 \in 1 .. Len(s) /\ n + 1 \in 1 .. Len(t)
      BY <1>1
    <3>2. f[n] = g[n] /\ t[n + 1] = s[n + 1]
      BY <1>1, <2>2, <3>1
    <3> QED
      BY <1>2, <1>3, <3>1, <3>2
  <2>3. Nat \subseteq S
    BY <2>1, <2>2, SetInduction
  <2> QED
    BY <1>1, <2>3
<1>5. Len(t) \in 1 .. Len(t) /\ Len(t) - 1 = Len(s)
  BY <1>1
<1>6. TextsOf(t, k) = IF p.key = k THEN Append(f[Len(s)], p.text) ELSE f[Len(s)]
  BY <1>1, <1>3, <1>4, <1>5
<1> QED
  BY <1>2, <1>6 DEF t

\* A sequence that is not empty is one shorter with its last element added.
LEMMA LastPair ==
    ASSUME NEW P, NEW t \in Seq(P), NEW n \in Nat, Len(t) = n + 1
    PROVE  \E u \in Seq(P), p \in P : t = Append(u, p) /\ Len(u) = n
<1> DEFINE u == SubSeq(t, 1, n)
<1>1. u \in Seq(P) /\ Len(u) = n /\ t[n + 1] \in P
  OBVIOUS
<1>2. t = Append(u, t[n + 1])
  OBVIOUS
<1> QED
  BY <1>1, <1>2

\* The texts of pairs are texts.
LEMMA TextsOfType ==
    ASSUME NEW P, NEW T, \A p \in P : p.text \in T, NEW s \in Seq(P), NEW k
    PROVE  TextsOf(s, k) \in Seq(T)
<1> DEFINE S == { n \in Nat : \A t \in Seq(P) : Len(t) = n => TextsOf(t, k) \in Seq(T) }
<1>1. 0 \in S
  <2>1. \A t \in Seq(P) : Len(t) = 0 => t = << >>
    OBVIOUS
  <2> QED
    BY <2>1, TextsOfNone
<1>2. ASSUME NEW n \in Nat, n \in S PROVE n + 1 \in S
  <2> SUFFICES ASSUME NEW t \in Seq(P), Len(t) = n + 1 PROVE TextsOf(t, k) \in Seq(T)
    OBVIOUS
  <2>1. PICK u \in Seq(P) : \E p \in P : t = Append(u, p) /\ Len(u) = n
    BY LastPair
  <2>2. PICK p \in P : t = Append(u, p)
    BY <2>1
  <2>3. TextsOf(u, k) \in Seq(T) /\ p.text \in T
    BY <1>2, <2>1
  <2>4. TextsOf(t, k) = IF p.key = k THEN Append(TextsOf(u, k), p.text) ELSE TextsOf(u, k)
    BY <2>2, TextsOfAppend
  <2> HIDE DEF S
  <2>5. Append(TextsOf(u, k), p.text) \in Seq(T)
    BY <2>3, AppendProperties
  <2> QED
    BY <2>3, <2>4, <2>5
<1>3. Nat \subseteq S
  BY <1>1, <1>2, SetInduction
<1> QED
  BY <1>3

\* Sequence operators by names that hide their definitions from the provers.
Joined(a, b) == a \o b
Added(a, e) == Append(a, e)

\* What is added to the second of two sequences is added to both together.
LEMMA AddedToJoined ==
    ASSUME NEW T, NEW a \in Seq(T), NEW b \in Seq(T), NEW e \in T
    PROVE  Added(Joined(a, b), e) = Joined(a, Added(b, e))
  BY DEF Added, Joined

\* An empty sequence adds nothing.
LEMMA JoinedNone ==
    ASSUME NEW T, NEW a \in Seq(T)
    PROVE  Joined(a, << >>) = a
  BY DEF Joined

\* TextsOfAppend, in terms of Added.
LEMMA TextsOfAdded ==
    ASSUME NEW P, NEW s \in Seq(P), NEW p \in P, NEW k
    PROVE  TextsOf(Added(s, p), k) = IF p.key = k THEN Added(TextsOf(s, k), p.text) ELSE TextsOf(s, k)
  BY TextsOfAppend DEF Added

\* LastPair, in terms of Added.
LEMMA LastAdded ==
    ASSUME NEW P, NEW t \in Seq(P), NEW n \in Nat, Len(t) = n + 1
    PROVE  \E u \in Seq(P), p \in P : t = Added(u, p) /\ Len(u) = n
  BY LastPair DEF Added

\* Two sequences of a kind make one of that kind.
LEMMA JoinedType ==
    ASSUME NEW T, NEW a \in Seq(T), NEW b \in Seq(T)
    PROVE  Joined(a, b) \in Seq(T)
  BY DEF Joined

\* The texts of two lists of pairs put together are the texts of both.
LEMMA TextsOfConcat ==
    ASSUME NEW s \in Seq(Pair), NEW t \in Seq(Pair), NEW k
    PROVE  TextsOf(Joined(s, t), k) = Joined(TextsOf(s, k), TextsOf(t, k))
<1> DEFINE S == { n \in Nat : \A u \in Seq(Pair) :
                    Len(u) = n => TextsOf(Joined(s, u), k) = Joined(TextsOf(s, k), TextsOf(u, k)) }
<1>0. \A p \in Pair : p.text \in Text
  BY DEF Pair
<1>1. \A u \in Seq(Pair) : TextsOf(u, k) \in Seq(Text)
  BY <1>0, TextsOfType
<1>2. 0 \in S
  <2> SUFFICES ASSUME NEW u \in Seq(Pair), Len(u) = 0
               PROVE  TextsOf(Joined(s, u), k) = Joined(TextsOf(s, k), TextsOf(u, k))
    OBVIOUS
  <2>1. u = << >>
    OBVIOUS
  <2>2. Joined(s, << >>) = s /\ Joined(TextsOf(s, k), << >>) = TextsOf(s, k)
    BY <1>1, JoinedNone
  <2> QED
    BY <2>1, <2>2, TextsOfNone
<1>3. ASSUME NEW n \in Nat, n \in S PROVE n + 1 \in S
  <2> SUFFICES ASSUME NEW u \in Seq(Pair), Len(u) = n + 1
               PROVE  TextsOf(Joined(s, u), k) = Joined(TextsOf(s, k), TextsOf(u, k))
    OBVIOUS
  <2>1. PICK v \in Seq(Pair), p \in Pair : u = Added(v, p) /\ Len(v) = n
    BY LastAdded
  <2>2. TextsOf(Joined(s, v), k) = Joined(TextsOf(s, k), TextsOf(v, k))
    BY <1>3, <2>1
  <2>3. Joined(s, u) = Added(Joined(s, v), p) /\ Joined(s, v) \in Seq(Pair)
    BY <2>1, AddedToJoined, JoinedType
  <2>4. TextsOf(Joined(s, u), k)
          = IF p.key = k THEN Added(TextsOf(Joined(s, v), k), p.text) ELSE TextsOf(Joined(s, v), k)
    BY <2>3, TextsOfAdded
  <2>5. TextsOf(u, k) = IF p.key = k THEN Added(TextsOf(v, k), p.text) ELSE TextsOf(v, k)
    BY <2>1, TextsOfAdded
  <2>6. Added(Joined(TextsOf(s, k), TextsOf(v, k)), p.text) = Joined(TextsOf(s, k), Added(TextsOf(v, k), p.text))
    BY <1>0, <1>1, AddedToJoined
  <2> QED
    BY <2>2, <2>4, <2>5, <2>6
<1>4. Nat \subseteq S
  BY <1>2, <1>3, SetInduction
<1> QED
  BY <1>4

-----------------------------------------------------------------------------
(* What is sent upstream. *)

Safe(e, t) == \A sel \in t.sels : \A s \in Stream : Selects(sel, s) => InScope(e, s)

\* The selector injected where the caller gave none selects only streams in scope.
LEMMA SelectorTextSafe ==
    ASSUME NEW e \in Enforcers
    PROVE  Safe(e, SelectorText(e))
<1> SUFFICES ASSUME NEW s \in Stream, Selects(EnforcedSelector(e), s), NEW f \in e.filters
             PROVE  s[f.matcher.label] \in f.allowed
  BY DEF Safe, SelectorText, InScope
<1>1. s[f.matcher.label] \in LabelValue
  BY FilterFacts DEF Stream
<1>2. Matches(f.matcher, s[f.matcher.label])
  BY DEF Selects, EnforcedSelector
<1> QED
  BY <1>1, <1>2, FilterFacts

\* What an enforcer returns is a text it is safe to send.
LEMMA EnforceSafe ==
    ASSUME NEW e \in Enforcers, NEW q, Enforce(e, q).err = "none"
    PROVE  Safe(e, Enforce(e, q).text)
  BY EnforceInScope DEF Safe

\* Loki shows only streams in scope for texts that are all safe.
LEMMA SelectedInScope ==
    ASSUME NEW e, NEW up, NEW texts, \A t \in texts : Safe(e, t)
    PROVE  \A x \in Selected(up, texts) : x.orgID = up.orgID /\ InScope(e, x.labels)
<1>1. \A x \in Store : x.labels \in Stream
  BY StoreAssumption DEF StoredStream
<1> QED
  BY <1>1 DEF Selected, OfTenant, Safe

\* What enforceQuery lets through: one safe text, or, where the operator does
\* not scope the label APIs, no selector at all.
LEMMA EnforceQuerySafe ==
    ASSUME NEW ri \in Instance, NEW vals, NEW required \in BOOLEAN, DOMAIN vals = ParamKey,
           EnforceQuery(ri, vals, required).err = "none"
    PROVE  LET out == EnforceQuery(ri, vals, required)
           IN  \/ \E t : out.vals["query"] = <<t>> /\ t.kind # "empty" /\ Safe(EnforcerOf(ri), t)
               \/ /\ ~required /\ ~ri.enforcement.enforceLabelAPIs /\ out.vals = vals
                  /\ \A i \in DOMAIN vals["query"] : vals["query"][i].kind = "empty"
<1> DEFINE e == EnforcerOf(ri)
           r == Enforce(e, vals["query"][1])
           out == EnforceQuery(ri, vals, required)
<1>1. e \in Enforcers /\ "query" \in ParamKey
  BY EnforcerOfType, ParamAssumption
<1>2. ~GivenTwice(vals["query"])
  BY DEF EnforceQuery, Refusal
<1>3. CASE Absent(vals["query"])
  <2>1. ~required
    BY <1>2, <1>3 DEF EnforceQuery, Refusal
  <2>2. CASE ri.enforcement.enforceLabelAPIs
    <3>1. out.vals = [vals EXCEPT !["query"] = << SelectorText(e) >>]
      BY <1>2, <1>3, <2>1, <2>2 DEF EnforceQuery, Accept
    <3>2. SelectorText(e).kind # "empty" /\ Safe(e, SelectorText(e))
      BY <1>1, SelectorTextSafe DEF SelectorText
    <3> QED
      BY <1>1, <3>1, <3>2
  <2>3. CASE ~ri.enforcement.enforceLabelAPIs
    <3>1. out.vals = vals
      BY <1>2, <1>3, <2>1, <2>3 DEF EnforceQuery, Accept
    <3> QED
      BY <1>2, <1>3, <2>1, <2>3, <3>1 DEF Absent, GivenTwice
  <2> QED
    BY <2>2, <2>3
<1>4. CASE ~Absent(vals["query"])
  <2>1. r.err = "none"
    BY <1>2, <1>4 DEF EnforceQuery, Refusal
  <2>2. out.vals = [vals EXCEPT !["query"] = << r.text >>]
    BY <1>2, <1>4, <2>1 DEF EnforceQuery, Accept
  <2>3. Safe(e, r.text) /\ r.text.kind # "empty"
    BY <1>1, <2>1, EnforceSafe DEF Enforce, Failed, ParsedKind
  <2> QED
    BY <1>1, <2>2, <2>3
<1> QED
  BY <1>3, <1>4

\* A sequence of one has one element.
LEMMA RangeOfOne ==
    ASSUME NEW t
    PROVE  Range(<<t>>) = {t} /\ Range(<< >>) = {}
<1>1. DOMAIN <<t>> = {1} /\ <<t>>[1] = t /\ DOMAIN << >> = {}
  OBVIOUS
<1> QED
  BY <1>1 DEF Range

\* What enforceMatch lets through: at least one selector, and only safe ones.
LEMMA EnforceMatchSafe ==
    ASSUME NEW ri \in Instance, NEW vals, DOMAIN vals = ParamKey,
           EnforceMatch(ri, vals).err = "none"
    PROVE  LET out   == EnforceMatch(ri, vals).vals
               match == Range(out["match[]"]) \cup Range(out["match"])
           IN  match # {} /\ \A t \in match : Safe(EnforcerOf(ri), t)
<1> DEFINE e == EnforcerOf(ri)
           out == EnforceMatch(ri, vals).vals
           match == Range(out["match[]"]) \cup Range(out["match"])
<1>1. e \in Enforcers /\ "match[]" \in ParamKey /\ "match" \in ParamKey
  BY EnforcerOfType, ParamAssumption
<1>2. /\ { t \in UNION { Range(vals[k]) : k \in MatchKeys } : Enforce(e, t).err # "none" } = {}
      /\ \A k \in MatchKeys : \A i \in DOMAIN vals[k] : Enforce(e, vals[k][i]).err = "none"
  <2>1. { t \in UNION { Range(vals[k]) : k \in MatchKeys } : Enforce(e, t).err # "none" } = {}
    BY DEF EnforceMatch, Refusal
  <2>2. \A k \in MatchKeys : \A i \in DOMAIN vals[k] : vals[k][i] \in UNION { Range(vals[l]) : l \in MatchKeys }
    BY DEF Range
  <2> QED
    BY <2>1, <2>2
<1>3. CASE \A k \in MatchKeys : DOMAIN vals[k] = {}
  <2>1. out = [vals EXCEPT !["match[]"] = << SelectorText(e) >>]
    BY <1>2, <1>3 DEF EnforceMatch, Accept
  <2>2. out["match[]"] = << SelectorText(e) >> /\ DOMAIN out["match"] = {}
    BY <1>1, <1>3, <2>1 DEF MatchKeys
  <2>3. Range(out["match[]"]) = {SelectorText(e)} /\ Range(out["match"]) = {}
    BY <2>2, RangeOfOne DEF Range
  <2> QED
    BY <1>1, <2>3, SelectorTextSafe
<1>4. CASE ~ \A k \in MatchKeys : DOMAIN vals[k] = {}
  <2>1. out = [k \in ParamKey |-> IF k \in MatchKeys
                                    THEN [i \in DOMAIN vals[k] |-> Enforce(e, vals[k][i]).text]
                                    ELSE vals[k]]
    BY <1>2, <1>4 DEF EnforceMatch, Accept
  <2>2. \A k \in MatchKeys : \A t \in Range(out[k]) : Safe(e, t)
    <3> SUFFICES ASSUME NEW k \in MatchKeys, NEW i \in DOMAIN vals[k]
                 PROVE  Safe(e, Enforce(e, vals[k][i]).text)
      BY <1>1, <2>1 DEF MatchKeys, Range
    <3> QED
      BY <1>1, <1>2, EnforceSafe
  <2>3. PICK k \in MatchKeys : \E i \in DOMAIN vals[k] : TRUE
    BY <1>4
  <2>4. Range(out[k]) # {}
    <3>1. out[k] = [i \in DOMAIN vals[k] |-> Enforce(e, vals[k][i]).text]
      BY <1>1, <2>1, <2>3 DEF MatchKeys
    <3>2. DOMAIN out[k] # {}
      BY <2>3, <3>1
    <3> QED
      BY <3>2 DEF Range
  <2> QED
    BY <2>2, <2>4 DEF MatchKeys
<1> QED
  BY <1>3, <1>4

\* The parameters are on one side, so what Loki finds under a key is what the
\* enforced set holds under it.
LEMMA RewriteValues ==
    ASSUME NEW ri, NEW req, NEW suffix, NEW vals, NEW k \in ParamKey
    PROVE  Values(Rewrite(ri, req, suffix, vals), k) = Range(vals[k])
<1>1. NoParams[k] = << >>
  BY DEF NoParams
<1> QED
  BY <1>1, RangeOfOne DEF Values, Rewrite

\* The routes the proxy knows are enforced in the way Loki reads them.
LEMMA RoutesAsLokiReads ==
    ASSUME NEW suffix, RouteAction(suffix) # "none"
    PROVE  IF suffix \in QueryPaths THEN RouteAction(suffix) = "actQuery"
           ELSE IF IsLabelPath(suffix) THEN RouteAction(suffix) = "actQueryOptional"
           ELSE IF suffix = <<"series">> THEN RouteAction(suffix) = "actMatch"
           ELSE suffix \in {<<"status", "buildinfo">>, <<"format_query">>}
  BY DEF RouteAction, QueryPaths, QuerySuffixes, IsLabelPath, IsLabelValues

\* No refusal of the proxy can be taken for a decision to forward.
LEMMA ErrorsAreStatuses ==
    ASSUME NEW req, NEW ri, NEW vals, NEW act \in {"actQuery", "actQueryOptional", "actMatch", "actPassthrough"}
    PROVE  ParamsError(req) # "forward" /\ EnforceParams(ri, act, vals).err # "forward"
<1>1. ParamsError(req) # "forward"
  BY DEF ParamsError
<1>2. \A required : EnforceQuery(ri, vals, required).err \in {"none", "400"}
  BY DEF EnforceQuery, Refusal, Accept
<1>3. EnforceMatch(ri, vals).err \in {"none", "400"}
  BY DEF EnforceMatch, Refusal, Accept
<1>4. EnforceParams(ri, act, vals).err \in {"none", "400"}
  BY <1>2, <1>3 DEF EnforceParams, Accept
<1> QED
  BY <1>1, <1>4

\* Whatever the proxy forwards, Loki's answer holds only what the instance may
\* show for this request.
THEOREM ProxyForwardsInScope ==
    ASSUME NEW ri \in Instance, NEW req, ~IsMCP(req), ServeProxy(ri, req).status = "forward"
    PROVE  \E up : /\ ServeProxy(ri, req).up = <<up>>
                   /\ \A x \in Reads(up) : MayShow(ri, req, x)
<1> DEFINE suffix == ApiSuffix(req.path)
           vals == RequestParams(req)
           act == RouteAction(suffix)
           r == EnforceParams(ri, act, vals)
           up == Rewrite(ri, req, suffix, r.vals)
           e == EnforcerOf(ri)
<1>1. /\ Routed(ri, req).status = "continue"
      /\ act \in {"actQuery", "actQueryOptional", "actMatch", "actPassthrough"}
  BY DEF ServeProxy, Routed, Answer, RouteAction
<1>2. r.err = "none" /\ ServeProxy(ri, req) = Forward(up)
  <2>1. ParamsError(req) # "forward" /\ r.err # "forward"
    BY <1>1, ErrorsAreStatuses
  <2> QED
    BY <1>1, <2>1 DEF ServeProxy, Answer
<1>3. ServeProxy(ri, req).up = <<up>> /\ up.suffix = suffix /\ up.orgID = ri.loki.orgID
  BY <1>2 DEF Forward, Rewrite
<1>4. DOMAIN vals = ParamKey
  BY DEF RequestParams
<1>5. /\ Values(up, "query") = Range(r.vals["query"])
      /\ Values(up, "match[]") = Range(r.vals["match[]"])
      /\ Values(up, "match") = Range(r.vals["match"])
  BY RewriteValues, ParamAssumption
<1>6. \A x \in OfTenant(up) : x.orgID = ri.loki.orgID
  BY <1>3 DEF OfTenant
<1> HIDE DEF suffix, vals, act, r, up
<1>7. \A texts : (\A t \in texts : Safe(e, t)) =>
                    \A x \in Selected(up, texts) : MayShow(ri, req, x)
  <2> SUFFICES ASSUME NEW texts, \A t \in texts : Safe(e, t)
               PROVE  \A x \in Selected(up, texts) : MayShow(ri, req, x)
    OBVIOUS
  <2>1. \A x \in Selected(up, texts) : x.orgID = up.orgID /\ InScope(e, x.labels)
    BY SelectedInScope
  <2> QED
    BY <1>3, <2>1 DEF MayShow
<1>8. CASE suffix \in QueryPaths
  <2>1. r = EnforceQuery(ri, vals, TRUE)
    BY <1>1, <1>8, RoutesAsLokiReads DEF EnforceParams, r, act
  <2>2. PICK t : r.vals["query"] = <<t>> /\ t.kind # "empty" /\ Safe(e, t)
    BY <1>2, <1>4, <2>1, EnforceQuerySafe
  <2>3. Reads(up) = Selected(up, {t})
    <3>1. NonEmpty(Values(up, "query")) = {t}
      BY <1>5, <2>2, RangeOfOne DEF NonEmpty
    <3> QED
      BY <1>3, <1>8, <3>1 DEF Reads
  <2> QED
    BY <1>3, <1>7, <2>2, <2>3
<1>9. CASE suffix \notin QueryPaths /\ IsLabelPath(suffix)
  <2>1. r = EnforceQuery(ri, vals, FALSE)
    BY <1>1, <1>9, RoutesAsLokiReads DEF EnforceParams, r, act
  <2>2. CASE \E t : r.vals["query"] = <<t>> /\ t.kind # "empty" /\ Safe(e, t)
    <3>1. PICK t : r.vals["query"] = <<t>> /\ t.kind # "empty" /\ Safe(e, t)
      BY <2>2
    <3>2. NonEmpty(Values(up, "query")) = {t}
      BY <1>5, <3>1, RangeOfOne DEF NonEmpty
    <3>3. Reads(up) = Selected(up, {t})
      BY <1>3, <1>9, <3>2 DEF Reads
    <3> QED
      BY <1>3, <1>7, <3>1, <3>3
  <2>3. CASE ~ri.enforcement.enforceLabelAPIs /\ \A i \in DOMAIN vals["query"] : vals["query"][i].kind = "empty"
    <3>1. \A x \in Reads(up) : x \in OfTenant(up)
      BY <1>3, <1>9 DEF Reads, Selected
    <3> QED
      BY <1>3, <1>6, <1>9, <2>3, <3>1 DEF MayShow, UnscopedListing, suffix, vals
  <2> QED
    BY <1>2, <1>4, <2>1, <2>2, <2>3, EnforceQuerySafe
<1>10. CASE suffix = <<"series">> /\ suffix \notin QueryPaths /\ ~IsLabelPath(suffix)
  <2> DEFINE match == Range(r.vals["match[]"]) \cup Range(r.vals["match"])
  <2>1. r = EnforceMatch(ri, vals)
    BY <1>1, <1>10, RoutesAsLokiReads DEF EnforceParams, r, act
  <2>2. match # {} /\ \A t \in match : Safe(e, t)
    BY <1>2, <1>4, <2>1, EnforceMatchSafe
  <2>3. Reads(up) = Selected(up, match)
    BY <1>3, <1>5, <1>10, <2>2 DEF Reads
  <2> QED
    BY <1>3, <1>7, <2>2, <2>3
<1>11. CASE suffix \in {<<"status", "buildinfo">>, <<"format_query">>}
            /\ suffix # <<"series">> /\ suffix \notin QueryPaths /\ ~IsLabelPath(suffix)
  <2>1. Reads(up) = {}
    BY <1>3, <1>11 DEF Reads
  <2> QED
    BY <1>3, <2>1
<1>12. suffix \in QueryPaths \/ IsLabelPath(suffix) \/ suffix = <<"series">>
       \/ suffix \in {<<"status", "buildinfo">>, <<"format_query">>}
  BY <1>1, RoutesAsLokiReads DEF act
<1> QED
  BY <1>8, <1>9, <1>10, <1>11, <1>12

\* So it is for the tools.
THEOREM ToolForwardsInScope ==
    ASSUME NEW ri \in Instance, NEW req, IsMCP(req), ServeMCP(ri, req.call).status = "forward"
    PROVE  \E up : /\ ServeMCP(ri, req.call).up = <<up>>
                   /\ \A x \in Reads(up) : MayShow(ri, req, x)
<1> DEFINE e == EnforcerOf(ri)
           up(suffix, query) == ClientRequest(ri, suffix, query).up[1]
           q == Enforce(e, req.call.query)
<1>1. e \in Enforcers
  BY EnforcerOfType
<1>2. \A suffix, query :
          /\ ClientRequest(ri, suffix, query).up = << up(suffix, query) >>
          /\ up(suffix, query).suffix = suffix
          /\ up(suffix, query).orgID = ri.loki.orgID
          /\ query # << >> => Values(up(suffix, query), "query") = Range(query)
  <2> SUFFICES ASSUME NEW suffix, NEW query
               PROVE  /\ ClientRequest(ri, suffix, query).up = << up(suffix, query) >>
                      /\ up(suffix, query).suffix = suffix
                      /\ up(suffix, query).orgID = ri.loki.orgID
                      /\ query # << >> => Values(up(suffix, query), "query") = Range(query)
    OBVIOUS
  <2>1. /\ up(suffix, query).url = ClientParams(ri.loki, query)
        /\ up(suffix, query).body["query"] = << >>
    BY ParamAssumption DEF ClientRequest, Forward, NoParams
  <2>2. ASSUME query # << >>
        PROVE  Values(up(suffix, query), "query") = Range(query)
    <3>1. "query" \in DOMAIN UrlParams(ri.loki.url)
      BY UrlAssumption, ParamAssumption DEF Params, Instance, ResolvedInstance, LokiConfig
    <3>2. up(suffix, query).url["query"] = query
      BY <2>1, <2>2, <3>1 DEF ClientParams
    <3> QED
      BY <2>1, <3>2, RangeOfOne DEF Values
  <2>3. /\ ClientRequest(ri, suffix, query).up = << up(suffix, query) >>
        /\ up(suffix, query).suffix = suffix
        /\ up(suffix, query).orgID = ri.loki.orgID
    BY DEF ClientRequest, Forward
  <2> QED
    BY <2>2, <2>3
<1> HIDE DEF up
<1>3. ASSUME NEW suffix, NEW t, Safe(e, t), t.kind # "empty", suffix \in QueryPaths \/ IsLabelPath(suffix)
      PROVE  \A x \in Reads(up(suffix, <<t>>)) : MayShow(ri, req, x)
  <2>1. NonEmpty(Values(up(suffix, <<t>>), "query")) = {t}
    <3>1. <<t>> # << >>
      OBVIOUS
    <3>2. \A query : query # << >> => Values(up(suffix, query), "query") = Range(query)
      BY <1>2
    <3>3. Values(up(suffix, <<t>>), "query") = Range(<<t>>)
      BY <3>1, <3>2
    <3> QED
      BY <1>3, <3>3, RangeOfOne DEF NonEmpty
  <2>2. Reads(up(suffix, <<t>>)) = Selected(up(suffix, <<t>>), {t})
    <3>1. up(suffix, <<t>>).suffix = suffix
      BY <1>2
    <3> QED
      BY <1>3, <2>1, <3>1 DEF Reads
  <2>3. \A x \in Selected(up(suffix, <<t>>), {t}) : x.orgID = ri.loki.orgID /\ InScope(e, x.labels)
    <3>1. \A w \in {t} : Safe(e, w)
      BY <1>3
    <3>2. \A x \in Selected(up(suffix, <<t>>), {t}) :
              x.orgID = up(suffix, <<t>>).orgID /\ InScope(e, x.labels)
      BY <3>1, SelectedInScope
    <3> QED
      BY <1>2, <3>2
  <2> QED
    BY <2>2, <2>3 DEF MayShow
<1>4. CASE req.call.tool = "loki_query"
  <2>1. q.err = "none" /\ ServeMCP(ri, req.call) = ClientRequest(ri, <<"query_range">>, << q.text >>)
    BY <1>4 DEF ServeMCP, HandleQuery, ToolError, Answer, ConflictTells
  <2>2. Safe(e, q.text) /\ q.text.kind # "empty"
    BY <1>1, <2>1, EnforceSafe DEF Enforce, Failed, ParsedKind
  <2>3. <<"query_range">> \in QueryPaths
    BY DEF QueryPaths
  <2> QED
    BY <1>2, <1>3, <2>1, <2>2, <2>3
<1>5. CASE req.call.tool # "loki_query"
  <2>1. PICK suffix : /\ IsLabelPath(suffix) /\ suffix \notin QueryPaths
                      /\ ServeMCP(ri, req.call) = ClientRequest(ri, suffix, ScopeSelector(ri))
    <3>1. CASE req.call.tool = "loki_label_names"
      BY <1>5, <3>1 DEF ServeMCP, HandleLabelNames, ToolError, Answer, IsLabelPath, QueryPaths
    <3>2. CASE req.call.tool # "loki_label_names"
      <4>1. ServeMCP(ri, req.call) = ClientRequest(ri, LabelValuesPath(req.call.label), ScopeSelector(ri))
        BY <1>5, <3>2 DEF ServeMCP, HandleLabelValues, ToolError, Answer
      <4>2. /\ IsLabelPath(LabelValuesPath(req.call.label))
            /\ LabelValuesPath(req.call.label) \notin QueryPaths
        BY DEF IsLabelPath, QueryPaths, LabelValuesPath
      <4> QED
        BY <4>1, <4>2
    <3> QED
      BY <3>1, <3>2
  <2>2. CASE ri.enforcement.enforceLabelAPIs
    <3>1. Safe(e, SelectorText(e)) /\ SelectorText(e).kind # "empty" /\ ScopeSelector(ri) = << SelectorText(e) >>
      BY <1>1, <2>2, SelectorTextSafe DEF SelectorText, ScopeSelector
    <3> QED
      BY <1>2, <1>3, <2>1, <3>1
  <2>3. CASE ~ri.enforcement.enforceLabelAPIs
    <3> DEFINE u == up(suffix, ScopeSelector(ri))
    <3>1. u.suffix = suffix /\ u.orgID = ri.loki.orgID
      BY <1>2
    <3>2. Reads(u) \subseteq OfTenant(u)
      BY <2>1, <3>1 DEF Reads, Selected
    <3>3. \A x \in Reads(u) : MayShow(ri, req, x)
      BY <1>5, <2>3, <3>1, <3>2 DEF MayShow, UnscopedListing, OfTenant
    <3> QED
      BY <1>2, <2>1, <3>3
  <2> QED
    BY <2>2, <2>3
<1> QED
  BY <1>4, <1>5

-----------------------------------------------------------------------------
(* Who a request is let in as. *)

\* An index of distinct digests gives a token to the instance that lists it,
\* and to no token that shares a digest with it.
LEMMA LookupSound ==
    ASSUME NEW d, NEW token \in Token, None \notin DOMAIN d,
           Lookup(NewIndex(d), token) # None
    PROVE  /\ Lookup(NewIndex(d), token) \in DOMAIN d
           /\ token \in d[Lookup(NewIndex(d), token)].tokens
<1> DEFINE ix == NewIndex(d)
           h == Digest(token)
           claim(g) == CHOOSE c \in Claims(d) : Digest(c[2]) = g
<1>1. h \in DOMAIN ix /\ ix[h].token = token /\ Lookup(ix, token) = ix[h].value
  BY DEF Lookup
<1>2. PICK c \in Claims(d) : h = Digest(c[2])
  BY <1>1 DEF NewIndex
<1>3. claim(h) \in Claims(d)
  BY <1>2
<1>4. ix[h] = [token |-> claim(h)[2], value |-> claim(h)[1]]
  BY <1>1 DEF NewIndex
<1>5. claim(h)[1] \in DOMAIN d /\ claim(h)[2] \in d[claim(h)[1]].tokens
  <2>1. \A x \in Claims(d) : x[1] \in DOMAIN d /\ x[2] \in d[x[1]].tokens
    BY DEF Claims
  <2> QED
    BY <1>3, <2>1
<1> QED
  BY <1>1, <1>4, <1>5

\* Without two tokens of one digest the index finds every token that an instance lists.
LEMMA LookupComplete ==
    ASSUME NEW d, Indexable(d), NEW n \in DOMAIN d, NEW token \in Token, token \in d[n].tokens
    PROVE  Lookup(NewIndex(d), token) = n
<1> DEFINE ix == NewIndex(d)
           claim == CHOOSE c \in Claims(d) : Digest(c[2]) = Digest(token)
<1>1. <<n, token>> \in Claims(d)
  BY DEF Claims
<1>2. claim \in Claims(d) /\ Digest(claim[2]) = Digest(token)
  BY <1>1
<1>3. claim = <<n, token>>
  BY <1>1, <1>2 DEF Indexable
<1>4. Digest(token) \in DOMAIN ix /\ ix[Digest(token)] = [token |-> claim[2], value |-> claim[1]]
  BY <1>1 DEF NewIndex
<1>5. token # None
  BY NoneAssumption
<1> HIDE DEF ix, claim
<1>6. ix[Digest(token)].token = token /\ ix[Digest(token)].value = n
  BY <1>3, <1>4
<1> QED
  BY <1>4, <1>5, <1>6 DEF Lookup, ix

\* A request that is let in is let in as the one instance that lists its token.
LEMMA AuthenticatedIsGranted ==
    ASSUME NEW req \in Request, insts \in Deployments, index = NewIndex(insts),
           NEW n, n = Authenticated(req), n # None
    PROVE  n \in DOMAIN insts /\ insts[n] \in Instance /\ Granted(req) = {n}
<1>1. /\ req.auth.cred \in Token \cup {None} /\ BearerToken(req.auth) = req.auth.cred
      /\ req.auth.scheme = "bearer" /\ req.auth.cred # None
  BY DEF Request, Authenticated, Lookup, BearerToken
<1>2. n \in DOMAIN insts /\ req.auth.cred \in insts[n].tokens
  BY <1>1, LookupSound, GatewayAssumption DEF Authenticated, Deployable
<1>3. \A m \in DOMAIN insts : m # n => req.auth.cred \notin insts[m].tokens
  BY <1>2, GatewayAssumption DEF Deployable
<1> QED
  BY <1>1, <1>2, <1>3, GatewayAssumption DEF Granted, Deployable

\* What is more than a bare status is the work of one surface of that instance.
LEMMA ServedByInstance ==
    ASSUME NEW req \in Request, insts \in Deployments, index = NewIndex(insts),
           Route(req).status = "forward" \/ Route(req).told # {}
    PROVE  \E n \in DOMAIN insts :
              /\ insts[n] \in Instance /\ Granted(req) = {n}
              /\ \/ IsMCP(req) /\ Route(req) = ServeMCP(insts[n], req.call)
                 \/ ~IsMCP(req) /\ Route(req) = ServeProxy(insts[n], req)
<1> DEFINE n == Authenticated(req)
<1>1. n # None /\ Route(req) = Dispatch(insts[n], req)
  BY DEF Route, Answer
<1>2. n \in DOMAIN insts /\ insts[n] \in Instance /\ Granted(req) = {n}
  BY <1>1, AuthenticatedIsGranted
<1>3. IsProxy(req) => ~IsMCP(req)
  BY DEF IsMCP, IsProxy, Path
<1>4. \/ IsMCP(req) /\ Route(req) = ServeMCP(insts[n], req.call)
      \/ ~IsMCP(req) /\ Route(req) = ServeProxy(insts[n], req)
  BY <1>1, <1>3 DEF Dispatch, Answer
<1> QED
  BY <1>2, <1>4

\* Whatever route a request takes, what it is forwarded for is what an instance
\* its token belongs to may show.
LEMMA RouteForwardsInScope ==
    ASSUME NEW req \in Request, insts \in Deployments, index = NewIndex(insts),
           Route(req).status = "forward"
    PROVE  \E up : /\ Route(req).up = <<up>>
                   /\ \A x \in Reads(up) : \E n \in Granted(req) : MayShow(insts[n], req, x)
<1>1. PICK n \in DOMAIN insts :
              /\ insts[n] \in Instance /\ Granted(req) = {n}
              /\ \/ IsMCP(req) /\ Route(req) = ServeMCP(insts[n], req.call)
                 \/ ~IsMCP(req) /\ Route(req) = ServeProxy(insts[n], req)
  BY ServedByInstance
<1> QED
  BY <1>1, ToolForwardsInScope, ProxyForwardsInScope

-----------------------------------------------------------------------------
(* As whom, and for what, Loki is asked. *)

\* A tool's three requests to Loki.
LEMMA ToolForwards ==
    ASSUME NEW ri, NEW call, ServeMCP(ri, call).status = "forward"
    PROVE  \E suffix, query :
              /\ ServeMCP(ri, call) = ClientRequest(ri, suffix, query)
              /\ \/ suffix \in {<<"query_range">>, <<"labels">>}
                 \/ /\ suffix = LabelValuesPath(call.label)
                    /\ call.label # None /\ ~IsEnforced(ri, call.label)
<1>1. CASE call.tool = "loki_query"
  BY <1>1 DEF ServeMCP, HandleQuery, ToolError, Answer
<1>2. CASE call.tool = "loki_label_names"
  BY <1>2 DEF ServeMCP, HandleLabelNames, ToolError, Answer
<1>3. CASE call.tool \notin {"loki_query", "loki_label_names"}
  BY <1>3 DEF ServeMCP, HandleLabelValues, ToolError, Answer
<1> QED
  BY <1>1, <1>2, <1>3

\* The proxy's one.
LEMMA ProxyForwards ==
    ASSUME NEW ri, NEW req, ServeProxy(ri, req).status = "forward"
    PROVE  \E vals :
              /\ ServeProxy(ri, req) = Forward(Rewrite(ri, req, ApiSuffix(req.path), vals))
              /\ IsLabelValues(ApiSuffix(req.path)) => ~IsEnforced(ri, ApiSuffix(req.path)[2])
<1> DEFINE suffix == ApiSuffix(req.path)
           act == RouteAction(suffix)
           vals == RequestParams(req)
<1>1. Routed(ri, req).status = "continue"
  BY DEF ServeProxy, Routed, Answer
<1>2. act \in {"actQuery", "actQueryOptional", "actMatch", "actPassthrough"}
  BY <1>1 DEF Routed, Answer, RouteAction
<1>3. ParamsError(req) # "forward" /\ EnforceParams(ri, act, vals).err # "forward"
  BY <1>2, ErrorsAreStatuses
<1>4. ServeProxy(ri, req) = Forward(Rewrite(ri, req, suffix, EnforceParams(ri, act, vals).vals))
  BY <1>1, <1>3 DEF ServeProxy, Answer
<1>5. IsLabelValues(suffix) => ~IsEnforced(ri, suffix[2])
  BY <1>1 DEF Routed, Answer
<1> QED
  BY <1>4, <1>5

\* The request carries the instance's own endpoint, tenant and credential, and
\* never asks for the values of a label that the instance enforces.
LEMMA RouteIdentity ==
    ASSUME NEW req \in Request, insts \in Deployments, index = NewIndex(insts),
           Route(req).status = "forward"
    PROVE  \E n \in DOMAIN insts : \E up :
              /\ Granted(req) = {n} /\ Route(req).up = <<up>>
              /\ up.base = insts[n].loki.url /\ up.orgID = insts[n].loki.orgID
              /\ up.cred = IF up.via = "mcp" THEN ClientCredential(insts[n].loki)
                                             ELSE Credential(insts[n].loki)
              /\ IsLabelValues(up.suffix) => ~IsEnforced(insts[n], up.suffix[2])
<1>1. PICK n \in DOMAIN insts :
              /\ insts[n] \in Instance /\ Granted(req) = {n}
              /\ \/ IsMCP(req) /\ Route(req) = ServeMCP(insts[n], req.call)
                 \/ ~IsMCP(req) /\ Route(req) = ServeProxy(insts[n], req)
  BY ServedByInstance
<1> DEFINE ri == insts[n]
           For(up) == /\ Route(req).up = <<up>>
                      /\ up.base = ri.loki.url /\ up.orgID = ri.loki.orgID
                      /\ up.cred = IF up.via = "mcp" THEN ClientCredential(ri.loki)
                                                     ELSE Credential(ri.loki)
                      /\ IsLabelValues(up.suffix) => ~IsEnforced(ri, up.suffix[2])
<1>2. CASE Route(req) = ServeMCP(ri, req.call)
  <2>1. PICK suffix, query :
           /\ Route(req) = ClientRequest(ri, suffix, query)
           /\ \/ suffix \in {<<"query_range">>, <<"labels">>}
              \/ /\ suffix = LabelValuesPath(req.call.label)
                 /\ req.call.label # None /\ ~IsEnforced(ri, req.call.label)
    BY <1>2, ToolForwards
  <2> DEFINE up == [via |-> "mcp", base |-> ri.loki.url, orgID |-> ri.loki.orgID,
                    cred |-> ClientCredential(ri.loki), suffix |-> suffix,
                    url |-> ClientParams(ri.loki, query), body |-> NoParams]
  <2>2. Route(req).up = <<up>>
    BY <2>1 DEF ClientRequest, Forward
  <2>3. ASSUME IsLabelValues(suffix)
        PROVE  ~IsEnforced(ri, suffix[2])
    <3>1. /\ suffix = LabelValuesPath(req.call.label)
          /\ req.call.label # None /\ ~IsEnforced(ri, req.call.label)
      BY <2>1, <2>3 DEF IsLabelValues
    <3>2. suffix[2] = PathEscape(req.call.label) /\ req.call.label \in Label \cup OddLabel
      BY <3>1 DEF LabelValuesPath, Request, ToolCall
    <3>3. PathEscape(req.call.label) = req.call.label \/ PathEscape(req.call.label) \notin Label
      BY <3>2, PathAssumption
    <3>4. \A f \in ri.filters : f.label \in Label
      BY <1>1 DEF Instance, ResolvedInstance, Filter
    <3> QED
      BY <3>1, <3>2, <3>3, <3>4 DEF IsEnforced
  <2>4. For(up)
    BY <2>2, <2>3
  <2> QED
    BY <1>1, <2>4
<1>3. CASE Route(req) = ServeProxy(ri, req)
  <2>1. PICK vals :
           /\ Route(req) = Forward(Rewrite(ri, req, ApiSuffix(req.path), vals))
           /\ IsLabelValues(ApiSuffix(req.path)) => ~IsEnforced(ri, ApiSuffix(req.path)[2])
    BY <1>3, ProxyForwards
  <2>2. For(Rewrite(ri, req, ApiSuffix(req.path), vals))
    BY <2>1 DEF Forward, Rewrite
  <2> QED
    BY <1>1, <2>2
<1> QED
  BY <1>1, <1>2, <1>3

-----------------------------------------------------------------------------
(* What becomes of a request's parameters. *)

\* Parameters that can be used are all that the client sent: a form that was cut
\* off is never used, so the texts under a key are those of the URL and the form.
LEMMA ParamsAreSent ==
    ASSUME NEW req \in Request, ParamsError(req) = "none", NEW k \in ParamKey
    PROVE  RequestParams(req)[k] = SentTexts(req, k) /\ SentTexts(req, k) \in Seq(Text)
<1> DEFINE read == LimitedBody(req.body)
           form == IF HasForm(req) THEN req.body ELSE << >>
<1>1. req.url \in Seq(Pair) /\ req.body \in Seq(Pair) /\ MaxFormBody \in Nat
  BY ParamAssumption DEF Request
<1>2. \A p \in Pair : p.text \in Text
  BY DEF Pair
<1>3. HasForm(req) => read = req.body
  <2>1. HasForm(req) => ~(Len(read) > MaxFormBody)
    BY DEF ParamsError, HasForm
  <2>2. Len(req.body) > MaxFormBody + 1 => Len(read) = MaxFormBody + 1
    BY <1>1 DEF LimitedBody
  <2> QED
    BY <1>1, <2>1, <2>2 DEF LimitedBody
<1>4. form \in Seq(Pair)
  BY <1>1
<1>5. RequestParams(req)[k] = Joined(TextsOf(req.url, k), TextsOf(form, k))
  <2>1. CASE HasForm(req)
    BY <1>3, <2>1 DEF RequestParams, ParseQuery, Joined
  <2>2. CASE ~HasForm(req)
    BY <2>2, TextsOfNone DEF RequestParams, ParseQuery, NoParams, Joined
  <2> QED
    BY <2>1, <2>2
<1>6. SentTexts(req, k) = TextsOf(Joined(req.url, form), k)
  BY DEF SentTexts, SentPairs, Joined
<1> HIDE DEF form
<1>7. TextsOf(Joined(req.url, form), k) = Joined(TextsOf(req.url, k), TextsOf(form, k))
  BY <1>1, <1>4, TextsOfConcat
<1>8. TextsOf(req.url, k) \in Seq(Text) /\ TextsOf(form, k) \in Seq(Text)
  BY <1>1, <1>2, <1>4, TextsOfType
<1>9. Joined(TextsOf(req.url, k), TextsOf(form, k)) \in Seq(Text)
  BY <1>8, JoinedType
<1> QED
  BY <1>5, <1>6, <1>7, <1>9

MustQuery(ri, vals) == EnforceQuery(ri, vals, TRUE)
MayQuery(ri, vals) == EnforceQuery(ri, vals, FALSE)

\* A query that enforceQuery lets through is one that the enforcer accepts.
LEMMA MustQueryAccepts ==
    ASSUME NEW ri, NEW vals, DOMAIN vals = ParamKey, MustQuery(ri, vals).err = "none"
    PROVE  /\ \A i \in DOMAIN vals["query"] :
                 Enforce(EnforcerOf(ri), vals["query"][i]).err = "none"
           /\ \A k \in ParamKey \ {"query"} : MustQuery(ri, vals).vals[k] = vals[k]
<1>1. ~GivenTwice(vals["query"])
  BY DEF MustQuery, EnforceQuery, Refusal
<1>2. \A i \in DOMAIN vals["query"] : i = 1
  BY <1>1 DEF GivenTwice
<1>3. ~Absent(vals["query"])
  BY <1>1 DEF MustQuery, EnforceQuery, Refusal
<1>4. Enforce(EnforcerOf(ri), vals["query"][1]).err = "none"
  BY <1>1, <1>3 DEF MustQuery, EnforceQuery, Refusal
<1>5. \E texts : MustQuery(ri, vals).vals = vals \/ MustQuery(ri, vals).vals = [vals EXCEPT !["query"] = texts]
  BY <1>1, <1>3, <1>4 DEF MustQuery, EnforceQuery, Accept
<1> QED
  BY <1>2, <1>3, <1>4, <1>5

\* Where a query may be left out, it may be that instead.
LEMMA MayQueryAccepts ==
    ASSUME NEW ri, NEW vals, DOMAIN vals = ParamKey, MayQuery(ri, vals).err = "none"
    PROVE  /\ \A i \in DOMAIN vals["query"] :
                 \/ Enforce(EnforcerOf(ri), vals["query"][i]).err = "none"
                 \/ vals["query"][i].kind = "empty"
           /\ \A k \in ParamKey \ {"query"} : MayQuery(ri, vals).vals[k] = vals[k]
<1>1. ~GivenTwice(vals["query"])
  BY DEF MayQuery, EnforceQuery, Refusal
<1>2. \A i \in DOMAIN vals["query"] : i = 1
  BY <1>1 DEF GivenTwice
<1>3. Absent(vals["query"]) => \A i \in DOMAIN vals["query"] : vals["query"][i].kind = "empty"
  BY <1>2 DEF Absent
<1>4. ~Absent(vals["query"]) => Enforce(EnforcerOf(ri), vals["query"][1]).err = "none"
  BY <1>1 DEF MayQuery, EnforceQuery, Refusal
<1>5. \E texts : MayQuery(ri, vals).vals = vals \/ MayQuery(ri, vals).vals = [vals EXCEPT !["query"] = texts]
  BY <1>1, <1>3, <1>4 DEF MayQuery, EnforceQuery, Accept
<1> QED
  BY <1>2, <1>3, <1>4, <1>5

\* So it is for every selector that enforceMatch lets through.
LEMMA EnforceMatchAccepts ==
    ASSUME NEW ri, NEW vals, DOMAIN vals = ParamKey, EnforceMatch(ri, vals).err = "none"
    PROVE  /\ \A k \in MatchKeys : \A i \in DOMAIN vals[k] :
                 Enforce(EnforcerOf(ri), vals[k][i]).err = "none"
           /\ \A k \in ParamKey \ MatchKeys : EnforceMatch(ri, vals).vals[k] = vals[k]
<1> DEFINE e == EnforcerOf(ri)
<1>1. { t \in UNION { Range(vals[k]) : k \in MatchKeys } : Enforce(e, t).err # "none" } = {}
  BY DEF EnforceMatch, Refusal
<1>2. \A k \in MatchKeys : \A i \in DOMAIN vals[k] : vals[k][i] \in UNION { Range(vals[l]) : l \in MatchKeys }
  BY DEF Range
<1>3. \/ EnforceMatch(ri, vals).vals = [vals EXCEPT !["match[]"] = << SelectorText(e) >>]
      \/ EnforceMatch(ri, vals).vals
           = [k \in ParamKey |-> IF k \in MatchKeys
                                   THEN [i \in DOMAIN vals[k] |-> Enforce(e, vals[k][i]).text]
                                   ELSE vals[k]]
  BY <1>1 DEF EnforceMatch, Accept
<1>4. \A k \in ParamKey \ MatchKeys : EnforceMatch(ri, vals).vals[k] = vals[k]
  BY <1>3 DEF MatchKeys
<1> QED
  BY <1>1, <1>2, <1>4

\* Nothing that the enforcer refuses was in the request, and what is not LogQL goes
\* out as it came in, on one side.
Faithful(ri, req, up) ==
    /\ up.url = NoParams \/ up.body = NoParams
    /\ \A k \in LogQLKeys(up.suffix) : \A i \in DOMAIN SentTexts(req, k) :
          \/ Enforce(EnforcerOf(ri), SentTexts(req, k)[i]).err = "none"
          \/ SentTexts(req, k)[i].kind = "empty" /\ IsLabelPath(up.suffix)
    /\ \A k \in ParamKey \ LogQLKeys(up.suffix) : up.url[k] \o up.body[k] = SentTexts(req, k)

\* What the proxy forwards is faithful to what it was sent.
LEMMA ProxyForwardsSent ==
    ASSUME NEW ri, NEW req \in Request, ServeProxy(ri, req).status = "forward"
    PROVE  \E up : ServeProxy(ri, req).up = <<up>> /\ up.via = "proxy" /\ Faithful(ri, req, up)
<1> DEFINE suffix == ApiSuffix(req.path)
           act == RouteAction(suffix)
           vals == RequestParams(req)
           r == EnforceParams(ri, act, vals)
           up == Rewrite(ri, req, suffix, r.vals)
           accepted(t) == Enforce(EnforcerOf(ri), t).err = "none"
<1>1. /\ Routed(ri, req).status = "continue"
      /\ act \in {"actQuery", "actQueryOptional", "actMatch", "actPassthrough"}
  BY DEF ServeProxy, Routed, Answer, RouteAction
<1>2. ParamsError(req) = "none" /\ r.err = "none" /\ ServeProxy(ri, req) = Forward(up)
  <2>1. ParamsError(req) # "forward" /\ r.err # "forward"
    BY <1>1, ErrorsAreStatuses
  <2> QED
    BY <1>1, <2>1 DEF ServeProxy, Answer
<1>3. \A k \in ParamKey : vals[k] = SentTexts(req, k) /\ vals[k] \in Seq(Text)
  BY <1>2, ParamsAreSent
<1>4. DOMAIN vals = ParamKey
  BY DEF RequestParams
<1>5. /\ ServeProxy(ri, req).up = <<up>> /\ up.via = "proxy" /\ up.suffix = suffix
      /\ \/ up.url = NoParams /\ up.body = r.vals
         \/ up.url = r.vals /\ up.body = NoParams
  BY <1>2 DEF Forward, Rewrite
<1> HIDE DEF suffix, vals, act, r, up
<1>6. /\ LogQLKeys(suffix) \subseteq ParamKey
      /\ \A k \in LogQLKeys(suffix) : \A i \in DOMAIN vals[k] :
            accepted(vals[k][i]) \/ (vals[k][i].kind = "empty" /\ IsLabelPath(suffix))
      /\ \A k \in ParamKey \ LogQLKeys(suffix) : r.vals[k] = vals[k]
  <2> HIDE DEF accepted
  <2>0. {"query", "match[]", "match"} \subseteq ParamKey
    BY ParamAssumption
  <2>1. CASE suffix \in QueryPaths
    <3>1. LogQLKeys(suffix) = {"query"}
      BY <2>1 DEF LogQLKeys, QueryPaths
    <3>2. r = MustQuery(ri, vals)
      BY <1>1, <2>1, RoutesAsLokiReads DEF EnforceParams, MustQuery, r, act
    <3>3. /\ \A i \in DOMAIN vals["query"] : accepted(vals["query"][i])
          /\ \A k \in ParamKey \ {"query"} : r.vals[k] = vals[k]
      BY <1>2, <1>4, <3>2, MustQueryAccepts DEF accepted
    <3> QED
      BY <2>0, <3>1, <3>3
  <2>2. CASE suffix \notin QueryPaths /\ IsLabelPath(suffix)
    <3>1. LogQLKeys(suffix) = {"query"}
      BY <2>2 DEF LogQLKeys, IsLabelPath
    <3>2. r = MayQuery(ri, vals)
      BY <1>1, <2>2, RoutesAsLokiReads DEF EnforceParams, MayQuery, r, act
    <3>3. /\ \A i \in DOMAIN vals["query"] : accepted(vals["query"][i]) \/ vals["query"][i].kind = "empty"
          /\ \A k \in ParamKey \ {"query"} : r.vals[k] = vals[k]
      BY <1>2, <1>4, <3>2, MayQueryAccepts DEF accepted
    <3> QED
      BY <2>0, <2>2, <3>1, <3>3
  <2>3. CASE suffix = <<"series">> /\ suffix \notin QueryPaths /\ ~IsLabelPath(suffix)
    <3>1. LogQLKeys(suffix) = MatchKeys
      BY <2>3 DEF LogQLKeys, MatchKeys
    <3>2. r = EnforceMatch(ri, vals)
      BY <1>1, <2>3, RoutesAsLokiReads DEF EnforceParams, r, act
    <3>3. /\ \A k \in MatchKeys : \A i \in DOMAIN vals[k] : accepted(vals[k][i])
          /\ \A k \in ParamKey \ MatchKeys : r.vals[k] = vals[k]
      BY <1>2, <1>4, <3>2, EnforceMatchAccepts DEF accepted
    <3> QED
      BY <2>0, <3>1, <3>3 DEF MatchKeys
  <2>4. CASE suffix # <<"series">> /\ suffix \notin QueryPaths /\ ~IsLabelPath(suffix)
    <3>1. LogQLKeys(suffix) = {}
      BY <2>4 DEF LogQLKeys
    <3>2. act = "actPassthrough"
      <4>1. suffix \in {<<"status", "buildinfo">>, <<"format_query">>}
        BY <1>1, <2>4, RoutesAsLokiReads DEF act
      <4> QED
        BY <1>1, <2>4, <4>1 DEF act, RouteAction, QuerySuffixes, IsLabelValues
    <3>3. r.vals = vals
      BY <3>2 DEF EnforceParams, Accept, r
    <3> QED
      BY <3>1, <3>3
  <2> QED
    BY <2>1, <2>2, <2>3, <2>4
<1>7. ASSUME NEW k \in ParamKey \ LogQLKeys(suffix)
      PROVE  up.url[k] \o up.body[k] = SentTexts(req, k)
  <2>1. r.vals[k] = vals[k] /\ vals[k] \in Seq(Text)
    BY <1>3, <1>6
  <2>2. << >> \o vals[k] = vals[k] /\ vals[k] \o << >> = vals[k]
    BY <2>1
  <2>3. NoParams[k] = << >>
    BY DEF NoParams
  <2> QED
    BY <1>3, <1>5, <2>1, <2>2, <2>3
<1>8. ASSUME NEW k \in LogQLKeys(suffix), NEW i \in DOMAIN SentTexts(req, k)
      PROVE  accepted(SentTexts(req, k)[i]) \/ (SentTexts(req, k)[i].kind = "empty" /\ IsLabelPath(suffix))
  <2> HIDE DEF accepted
  <2>1. vals[k] = SentTexts(req, k)
    BY <1>3, <1>6
  <2> QED
    BY <1>6, <2>1
<1>9. Faithful(ri, req, up)
  BY <1>5, <1>7, <1>8 DEF Faithful
<1> QED
  BY <1>5, <1>9

\* A tool goes to Loki with a query only if the enforcer accepts it.
LEMMA ToolForwardsSent ==
    ASSUME NEW ri, NEW call, ServeMCP(ri, call).status = "forward"
    PROVE  \E up :
              /\ ServeMCP(ri, call).up = <<up>> /\ up.via = "mcp"
              /\ call.tool = "loki_query" => Enforce(EnforcerOf(ri), call.query).err = "none"
<1>1. PICK suffix, query : ServeMCP(ri, call) = ClientRequest(ri, suffix, query)
  BY ToolForwards
<1>2. \E up : ServeMCP(ri, call).up = <<up>> /\ up.via = "mcp"
  BY <1>1 DEF ClientRequest, Forward
<1>3. call.tool = "loki_query" => Enforce(EnforcerOf(ri), call.query).err = "none"
  BY DEF ServeMCP, HandleQuery, Answer
<1> QED
  BY <1>2, <1>3

-----------------------------------------------------------------------------
(* What a client that asks is not refused. *)

\* What a stream must meet to be asked for: one of the selectors, if there are any.
Meets(sels, s) == sels = {} \/ \E sel \in sels : Selects(sel, s)

\* Among the streams in scope a request reads all that are asked for and, in reject
\* mode, no others.
ReadsExactly(ri, up, sels) ==
    \A x \in OfTenant(up) : InScope(EnforcerOf(ri), x.labels) =>
        /\ Meets(sels, x.labels) => x \in Reads(up)
        /\ ri.enforcement.onConflict = "reject" /\ x \in Reads(up) => Meets(sels, x.labels)

SelectorsIn(texts) == UNION { t.sels : t \in texts }

\* The streams in scope are, before and after the rewrite of a query, the same.
LEMMA EnforceExact ==
    ASSUME NEW e \in Enforcers, NEW q, Enforce(e, q).err = "none", NEW s \in Stream, InScope(e, s)
    PROVE  /\ q.sels # {} /\ Enforce(e, q).text.sels # {}
           /\ Meets(q.sels, s) => Meets(Enforce(e, q).text.sels, s)
           /\ e.mode = "reject" /\ Meets(Enforce(e, q).text.sels, s) => Meets(q.sels, s)
<1> DEFINE out == { EnforceMatchers(e, sel).sel : sel \in q.sels }
<1>1. /\ q.sels # {} /\ \A sel \in q.sels : EnforceMatchers(e, sel).err = "none"
      /\ Enforce(e, q).text.sels = out
  BY DEF Enforce, Failed
<1>2. \A sel \in q.sels : ~Refused(e, sel) /\ EnforceMatchers(e, sel).sel = Rewritten(e, sel)
  BY <1>1 DEF EnforceMatchers
<1>3. \A sel : Selects(Rewritten(e, sel), s) <=> Selects(Wishes(e, sel), s)
  BY RewrittenExact
<1>4. \A sel : Selects(sel, s) => Selects(Wishes(e, sel), s)
  BY DEF Selects, Wishes
<1>5. ASSUME e.mode = "reject", NEW sel \in q.sels
      PROVE  Wishes(e, sel) = sel
  BY <1>2, <1>5 DEF Refused, Wishes
<1>6. \A w : w \in out <=> \E sel \in q.sels : w = Rewritten(e, sel)
  BY <1>2
<1> HIDE DEF out
<1>7. out # {}
  BY <1>1, <1>6
<1>8. Meets(q.sels, s) => Meets(out, s)
  BY <1>1, <1>3, <1>4, <1>6 DEF Meets
<1>9. e.mode = "reject" /\ Meets(out, s) => Meets(q.sels, s)
  <2> SUFFICES ASSUME e.mode = "reject", Meets(out, s) PROVE Meets(q.sels, s)
    OBVIOUS
  <2>1. PICK sel \in q.sels : Selects(Rewritten(e, sel), s)
    BY <1>6, <1>7 DEF Meets
  <2>2. Selects(sel, s)
    BY <1>3, <1>5, <2>1
  <2> QED
    BY <2>2 DEF Meets
<1> QED
  BY <1>1, <1>7, <1>8, <1>9

\* A selector of the instance's own reads all that is in scope.
LEMMA SelectorTextExact ==
    ASSUME NEW e \in Enforcers, NEW s \in Stream, InScope(e, s)
    PROVE  /\ SelectorText(e).sels # {} /\ Meets(SelectorText(e).sels, s)
           /\ SelectorText(e).kind # "empty"
<1>1. \A f \in e.filters : Matches(f.matcher, s[f.matcher.label])
  <2> SUFFICES ASSUME NEW f \in e.filters PROVE Matches(f.matcher, s[f.matcher.label])
    OBVIOUS
  <2>1. s[f.matcher.label] \in LabelValue /\ s[f.matcher.label] \in f.allowed
    BY FilterFacts DEF Stream, InScope
  <2> QED
    BY <2>1, FilterFacts
<1>2. Selects(EnforcedSelector(e), s)
  BY <1>1 DEF Selects, EnforcedSelector
<1> QED
  BY <1>2 DEF SelectorText, Meets

\* Loki selects by texts that have selectors what meets one of these.
LEMMA SelectedMeets ==
    ASSUME NEW up, NEW texts, SelectorsIn(texts) # {}, NEW x \in OfTenant(up)
    PROVE  x \in Selected(up, texts) <=> Meets(SelectorsIn(texts), x.labels)
  BY DEF Selected, SelectorsIn, Meets

\* An empty text has no selectors.
LEMMA EmptyTextHasNone ==
    ASSUME NEW t \in Text, t.kind = "empty"
    PROVE  t.sels = {}
  BY DEF Text

\* The streams of a tenant are streams.
LEMMA TenantStreams ==
    ASSUME NEW up
    PROVE  \A x \in OfTenant(up) : x.labels \in Stream
  BY StoreAssumption DEF OfTenant, StoredStream

\* The selectors of one text are all there are.
LEMMA OneText ==
    ASSUME NEW t
    PROVE  SelectorsIn({t}) = t.sels
  BY DEF SelectorsIn

\* A query that is rewritten reads what it asked for.
LEMMA RewrittenReadsExactly ==
    ASSUME NEW ri \in Instance, NEW up, NEW q, Enforce(EnforcerOf(ri), q).err = "none",
           Values(up, "query") = {Enforce(EnforcerOf(ri), q).text},
           up.suffix \in QueryPaths \/ IsLabelPath(up.suffix)
    PROVE  ReadsExactly(ri, up, q.sels)
<1> DEFINE e == EnforcerOf(ri)
           text == Enforce(e, q).text
<1>1. e \in Enforcers /\ e.mode = ri.enforcement.onConflict
  BY EnforcerOfType DEF EnforcerOf
<1>2. text.kind # "empty"
  BY DEF Enforce, Failed, ParsedKind
<1> HIDE DEF text
<1>3. Values(up, "query") = {text}
  BY DEF text
<1>4. NonEmpty(Values(up, "query")) = {text}
  BY <1>2, <1>3 DEF NonEmpty
<1>5. Reads(up) = Selected(up, {text})
  BY <1>4 DEF Reads
<1> SUFFICES ASSUME NEW x \in OfTenant(up), InScope(e, x.labels)
             PROVE  /\ Meets(q.sels, x.labels) => x \in Reads(up)
                    /\ ri.enforcement.onConflict = "reject" /\ x \in Reads(up) => Meets(q.sels, x.labels)
  BY DEF ReadsExactly
<1>6. x.labels \in Stream
  BY TenantStreams
<1> HIDE DEF e
<1>7. Enforce(e, q).err = "none"
  BY DEF e
<1>8. /\ text.sels # {}
      /\ Meets(q.sels, x.labels) => Meets(text.sels, x.labels)
      /\ e.mode = "reject" /\ Meets(text.sels, x.labels) => Meets(q.sels, x.labels)
  BY <1>1, <1>6, <1>7, EnforceExact DEF text
<1>9. x \in Selected(up, {text}) <=> Meets(text.sels, x.labels)
  BY <1>8, OneText, SelectedMeets
<1> QED
  BY <1>1, <1>5, <1>8, <1>9

\* A question that names no selector reads all there is in scope.
LEMMA UnaskedReadsExactly ==
    ASSUME NEW ri \in Instance, NEW up, IsLabelPath(up.suffix),
           \/ Values(up, "query") = {SelectorText(EnforcerOf(ri))}
           \/ \A t \in Values(up, "query") : t.kind = "empty"
    PROVE  ReadsExactly(ri, up, {})
<1> DEFINE e == EnforcerOf(ri)
<1>1. e \in Enforcers
  BY EnforcerOfType
<1>2. up.suffix \notin QueryPaths
  BY DEF QueryPaths, IsLabelPath
<1> SUFFICES ASSUME NEW x \in OfTenant(up), InScope(e, x.labels)
             PROVE  x \in Reads(up)
  BY DEF ReadsExactly, Meets
<1>3. x.labels \in Stream
  BY TenantStreams
<1>4. CASE Values(up, "query") = {SelectorText(e)}
  <2>1. SelectorText(e).sels # {} /\ Meets(SelectorText(e).sels, x.labels) /\ SelectorText(e).kind # "empty"
    BY <1>1, <1>3, SelectorTextExact
  <2>2. NonEmpty(Values(up, "query")) = {SelectorText(e)}
    BY <1>4, <2>1 DEF NonEmpty
  <2>3. Reads(up) = Selected(up, {SelectorText(e)})
    BY <1>2, <2>2 DEF Reads
  <2>4. x \in Selected(up, {SelectorText(e)})
    BY <2>1, OneText, SelectedMeets
  <2> QED
    BY <2>3, <2>4
<1>5. CASE \A t \in Values(up, "query") : t.kind = "empty"
  <2>1. NonEmpty(Values(up, "query")) = {}
    BY <1>5 DEF NonEmpty
  <2> QED
    BY <1>2, <2>1 DEF Reads
<1> QED
  BY <1>4, <1>5

\* What enforceQuery makes of a query: its rewrite.
LEMMA QueryRewritten ==
    ASSUME NEW ri \in Instance, NEW vals, DOMAIN vals = ParamKey,
           MustQuery(ri, vals).err = "none" \/ MayQuery(ri, vals).err = "none",
           ~Absent(vals["query"])
    PROVE  /\ Enforce(EnforcerOf(ri), vals["query"][1]).err = "none"
           /\ Range(vals["query"]) = {vals["query"][1]}
           /\ MustQuery(ri, vals).vals["query"] = << Enforce(EnforcerOf(ri), vals["query"][1]).text >>
           /\ MayQuery(ri, vals).vals["query"] = << Enforce(EnforcerOf(ri), vals["query"][1]).text >>
<1> DEFINE r == Enforce(EnforcerOf(ri), vals["query"][1])
<1>1. ~GivenTwice(vals["query"]) /\ r.err = "none" /\ "query" \in ParamKey
  BY ParamAssumption DEF MustQuery, MayQuery, EnforceQuery, Refusal
<1>2. DOMAIN vals["query"] = {1}
  BY <1>1 DEF GivenTwice, Absent
<1>3. Range(vals["query"]) = {vals["query"][1]}
  BY <1>2 DEF Range
<1>4. /\ MustQuery(ri, vals).vals = [vals EXCEPT !["query"] = << r.text >>]
      /\ MayQuery(ri, vals).vals = [vals EXCEPT !["query"] = << r.text >>]
  BY <1>1 DEF MustQuery, MayQuery, EnforceQuery, Accept
<1> QED
  BY <1>1, <1>3, <1>4

\* Where there is none to rewrite, it is the instance's own selector or nothing.
LEMMA QueryInjected ==
    ASSUME NEW ri, NEW vals, DOMAIN vals = ParamKey, MayQuery(ri, vals).err = "none",
           Absent(vals["query"])
    PROVE  /\ \A t \in Range(vals["query"]) : t.kind = "empty"
           /\ \/ MayQuery(ri, vals).vals["query"] = << SelectorText(EnforcerOf(ri)) >>
              \/ MayQuery(ri, vals).vals["query"] = vals["query"]
<1>1. ~GivenTwice(vals["query"]) /\ "query" \in ParamKey
  BY ParamAssumption DEF MayQuery, EnforceQuery, Refusal
<1>2. \A i \in DOMAIN vals["query"] : vals["query"][i].kind = "empty"
  BY <1>1 DEF GivenTwice, Absent
<1>3. \/ MayQuery(ri, vals).vals = [vals EXCEPT !["query"] = << SelectorText(EnforcerOf(ri)) >>]
      \/ MayQuery(ri, vals).vals = vals
  BY <1>1 DEF MayQuery, EnforceQuery, Accept
<1> QED
  BY <1>1, <1>2, <1>3 DEF Range

\* The selectors sent under the parameters that hold LogQL.
SentSelectors(req, suffix) == UNION { SelectorsIn(Range(SentTexts(req, k))) : k \in LogQLKeys(suffix) }

\* A query that may be left out.
LEMMA MayQueryReadsExactly ==
    ASSUME NEW ri \in Instance, NEW up, IsLabelPath(up.suffix),
           NEW vals, DOMAIN vals = ParamKey, vals["query"] \in Seq(Text),
           MayQuery(ri, vals).err = "none",
           Values(up, "query") = Range(MayQuery(ri, vals).vals["query"])
    PROVE  ReadsExactly(ri, up, SelectorsIn(Range(vals["query"])))
<1> DEFINE e == EnforcerOf(ri)
           q == vals["query"][1]
<1>1. CASE ~Absent(vals["query"])
  <2>1. /\ Enforce(e, q).err = "none" /\ Range(vals["query"]) = {q}
        /\ MayQuery(ri, vals).vals["query"] = << Enforce(e, q).text >>
    BY <1>1, QueryRewritten
  <2>2. Values(up, "query") = {Enforce(e, q).text}
    BY <2>1, RangeOfOne
  <2>3. ReadsExactly(ri, up, q.sels)
    BY <2>1, <2>2, RewrittenReadsExactly
  <2>4. SelectorsIn(Range(vals["query"])) = q.sels
    BY <2>1, OneText
  <2> QED
    BY <2>3, <2>4
<1>2. CASE Absent(vals["query"])
  <2> DEFINE texts == Range(vals["query"])
  <2>1. /\ \A t \in texts : t.kind = "empty"
        /\ \/ MayQuery(ri, vals).vals["query"] = << SelectorText(e) >>
           \/ MayQuery(ri, vals).vals["query"] = vals["query"]
    BY <1>2, QueryInjected
  <2>2. \A t \in texts : t \in Text
    BY DEF Range
  <2>3. SelectorsIn(texts) = {}
    BY <2>1, <2>2, EmptyTextHasNone DEF SelectorsIn
  <2>4. \/ Values(up, "query") = {SelectorText(e)}
        \/ \A t \in Values(up, "query") : t.kind = "empty"
    BY <2>1, RangeOfOne
  <2>5. ReadsExactly(ri, up, {})
    BY <2>4, UnaskedReadsExactly
  <2> QED
    BY <2>3, <2>5
<1> QED
  BY <1>1, <1>2

\* What enforceMatch makes of its selectors: their rewrites, or the instance's own
\* where there are none.
LEMMA MatchRewritten ==
    ASSUME NEW ri, NEW vals, DOMAIN vals = ParamKey, EnforceMatch(ri, vals).err = "none"
    PROVE  LET e    == EnforcerOf(ri)
               sent == Range(vals["match[]"]) \cup Range(vals["match"])
               out  == Range(EnforceMatch(ri, vals).vals["match[]"])
                         \cup Range(EnforceMatch(ri, vals).vals["match"])
           IN  /\ \A t \in sent : Enforce(e, t).err = "none"
               /\ IF sent = {} THEN out = {SelectorText(e)} ELSE out = { Enforce(e, t).text : t \in sent }
<1> DEFINE e    == EnforcerOf(ri)
           sent == Range(vals["match[]"]) \cup Range(vals["match"])
           r    == EnforceMatch(ri, vals)
           out  == Range(r.vals["match[]"]) \cup Range(r.vals["match"])
<1>1. "match[]" \in ParamKey /\ "match" \in ParamKey /\ MatchKeys = {"match[]", "match"}
  BY ParamAssumption DEF MatchKeys
<1>2. \A t \in sent : Enforce(e, t).err = "none"
  <2>1. \A k \in MatchKeys : \A i \in DOMAIN vals[k] : Enforce(e, vals[k][i]).err = "none"
    BY EnforceMatchAccepts
  <2> QED
    BY <1>1, <2>1 DEF Range
<1>3. sent = {} <=> \A k \in MatchKeys : DOMAIN vals[k] = {}
  BY <1>1 DEF Range
<1>4. { t \in UNION { Range(vals[k]) : k \in MatchKeys } : Enforce(e, t).err # "none" } = {}
  BY DEF EnforceMatch, Refusal
<1>5. CASE sent = {}
  <2>1. r.vals = [vals EXCEPT !["match[]"] = << SelectorText(e) >>]
    BY <1>3, <1>4, <1>5 DEF EnforceMatch, Accept
  <2>2. r.vals["match[]"] = << SelectorText(e) >> /\ r.vals["match"] = vals["match"]
    BY <1>1, <2>1
  <2>3. Range(r.vals["match[]"]) = {SelectorText(e)} /\ Range(r.vals["match"]) = {}
    BY <1>5, <2>2, RangeOfOne
  <2> QED
    BY <1>2, <1>5, <2>3
<1>6. CASE sent # {}
  <2>1. r.vals = [k \in ParamKey |-> IF k \in MatchKeys
                                       THEN [i \in DOMAIN vals[k] |-> Enforce(e, vals[k][i]).text]
                                       ELSE vals[k]]
    BY <1>3, <1>4, <1>6 DEF EnforceMatch, Accept
  <2>2. \A k \in MatchKeys : Range(r.vals[k]) = { Enforce(e, t).text : t \in Range(vals[k]) }
    <3> SUFFICES ASSUME NEW k \in MatchKeys
                 PROVE  Range(r.vals[k]) = { Enforce(e, t).text : t \in Range(vals[k]) }
      OBVIOUS
    <3>1. r.vals[k] = [i \in DOMAIN vals[k] |-> Enforce(e, vals[k][i]).text]
      BY <1>1, <2>1
    <3> QED
      BY <3>1 DEF Range
  <2> HIDE DEF r
  <2>3. /\ Range(r.vals["match[]"]) = { Enforce(e, t).text : t \in Range(vals["match[]"]) }
        /\ Range(r.vals["match"]) = { Enforce(e, t).text : t \in Range(vals["match"]) }
    BY <1>1, <2>2
  <2>4. out = { Enforce(e, t).text : t \in sent }
    BY <2>3
  <2> USE DEF r
  <2> QED
    BY <1>2, <1>6, <2>4
<1> QED
  BY <1>5, <1>6

\* So the selectors of a series request read what they ask for, or all in scope.
LEMMA MatchReadsExactly ==
    ASSUME NEW ri \in Instance, NEW up, up.suffix = <<"series">>, NEW sent, NEW out,
           Values(up, "match[]") \cup Values(up, "match") = out,
           \A t \in sent : Enforce(EnforcerOf(ri), t).err = "none",
           IF sent = {} THEN out = {SelectorText(EnforcerOf(ri))}
                        ELSE out = { Enforce(EnforcerOf(ri), t).text : t \in sent }
    PROVE  ReadsExactly(ri, up, SelectorsIn(sent))
<1> DEFINE e == EnforcerOf(ri)
<1>1. e \in Enforcers /\ e.mode = ri.enforcement.onConflict
  BY EnforcerOfType DEF EnforcerOf
<1>2. out # {}
  BY DEF SelectorText
<1>3. Reads(up) = Selected(up, out)
  <2>1. up.suffix \notin QueryPaths /\ ~IsLabelPath(up.suffix)
    BY DEF QueryPaths, IsLabelPath
  <2> QED
    BY <1>2, <2>1 DEF Reads
<1> HIDE DEF e
<1> SUFFICES ASSUME NEW x \in OfTenant(up), InScope(e, x.labels)
             PROVE  /\ Meets(SelectorsIn(sent), x.labels) => x \in Reads(up)
                    /\ ri.enforcement.onConflict = "reject" /\ x \in Reads(up) =>
                          Meets(SelectorsIn(sent), x.labels)
  BY DEF ReadsExactly, e
<1>4. x.labels \in Stream
  BY TenantStreams
<1>5. CASE sent = {}
  <2>1. SelectorText(e).sels # {} /\ Meets(SelectorText(e).sels, x.labels)
    BY <1>1, <1>4, SelectorTextExact
  <2>2. out = {SelectorText(e)}
    BY <1>5 DEF e
  <2>3. x \in Selected(up, out)
    BY <2>1, <2>2, OneText, SelectedMeets
  <2>4. SelectorsIn(sent) = {}
    BY <1>5 DEF SelectorsIn
  <2> QED
    BY <1>3, <2>3, <2>4 DEF Meets
<1>6. CASE sent # {}
  <2>1. out = { Enforce(e, t).text : t \in sent } /\ \A t \in sent : Enforce(e, t).err = "none"
    BY <1>6 DEF e
  <2>2. \A t \in sent :
           /\ t.sels # {} /\ Enforce(e, t).text.sels # {}
           /\ Meets(t.sels, x.labels) => Meets(Enforce(e, t).text.sels, x.labels)
           /\ e.mode = "reject" /\ Meets(Enforce(e, t).text.sels, x.labels) => Meets(t.sels, x.labels)
    BY <1>1, <1>4, <2>1, EnforceExact
  <2>3. Meets(SelectorsIn(sent), x.labels) <=> \E t \in sent : Meets(t.sels, x.labels)
    BY <1>6, <2>2 DEF SelectorsIn, Meets
  <2>4. SelectorsIn(out) # {}
    BY <1>6, <2>1, <2>2 DEF SelectorsIn
  <2>5. Meets(SelectorsIn(out), x.labels) <=> \E t \in sent : Meets(Enforce(e, t).text.sels, x.labels)
    <3>1. \A t \in out : t.sels # {}
      BY <2>1, <2>2
    <3>2. Meets(SelectorsIn(out), x.labels) <=> \E t \in out : Meets(t.sels, x.labels)
      BY <1>2, <3>1 DEF SelectorsIn, Meets
    <3> QED
      BY <2>1, <3>2
  <2>6. x \in Reads(up) <=> Meets(SelectorsIn(out), x.labels)
    BY <1>3, <2>4, SelectedMeets
  <2> QED
    BY <1>1, <2>2, <2>3, <2>5, <2>6
<1> QED
  BY <1>5, <1>6

\* A request that the proxy forwards to an endpoint of LogQL reads what the client
\* asked for, however it spread its selectors.
THEOREM ProxyReadsExactly ==
    ASSUME NEW ri \in Instance, NEW req \in Request, ServeProxy(ri, req).status = "forward"
    PROVE  \E up : /\ ServeProxy(ri, req).up = <<up>> /\ up.via = "proxy"
                   /\ LogQLKeys(up.suffix) # {} => ReadsExactly(ri, up, SentSelectors(req, up.suffix))
<1> DEFINE suffix == ApiSuffix(req.path)
           act == RouteAction(suffix)
           vals == RequestParams(req)
           r == EnforceParams(ri, act, vals)
           up == Rewrite(ri, req, suffix, r.vals)
<1>1. /\ Routed(ri, req).status = "continue"
      /\ act \in {"actQuery", "actQueryOptional", "actMatch", "actPassthrough"}
  BY DEF ServeProxy, Routed, Answer, RouteAction
<1>2. ParamsError(req) = "none" /\ r.err = "none" /\ ServeProxy(ri, req) = Forward(up)
  <2>1. ParamsError(req) # "forward" /\ r.err # "forward"
    BY <1>1, ErrorsAreStatuses
  <2> QED
    BY <1>1, <2>1 DEF ServeProxy, Answer
<1>3. \A k \in ParamKey : vals[k] = SentTexts(req, k) /\ vals[k] \in Seq(Text)
  BY <1>2, ParamsAreSent
<1>4. DOMAIN vals = ParamKey /\ {"query", "match[]", "match"} \subseteq ParamKey
  BY ParamAssumption DEF RequestParams
<1>5. ServeProxy(ri, req).up = <<up>> /\ up.via = "proxy" /\ up.suffix = suffix
  BY <1>2 DEF Forward, Rewrite
<1>6. \A k \in ParamKey : Values(up, k) = Range(r.vals[k])
  BY RewriteValues
<1> HIDE DEF suffix, vals, act, r, up
<1>7. CASE suffix \in QueryPaths
  <2>1. LogQLKeys(suffix) = {"query"}
    BY <1>7 DEF LogQLKeys, QueryPaths
  <2>2. r = MustQuery(ri, vals)
    BY <1>1, <1>7, RoutesAsLokiReads DEF EnforceParams, MustQuery, r, act
  <2> DEFINE q == vals["query"][1]
  <2>3. ~Absent(vals["query"])
    BY <1>2, <2>2 DEF MustQuery, EnforceQuery, Refusal
  <2>4. /\ Enforce(EnforcerOf(ri), q).err = "none" /\ Range(vals["query"]) = {q}
        /\ r.vals["query"] = << Enforce(EnforcerOf(ri), q).text >>
    BY <1>2, <1>4, <2>2, <2>3, QueryRewritten
  <2> HIDE DEF q
  <2>5. Values(up, "query") = {Enforce(EnforcerOf(ri), q).text}
    BY <1>4, <1>6, <2>4, RangeOfOne
  <2>6. ReadsExactly(ri, up, q.sels)
    BY <1>5, <1>7, <2>4, <2>5, RewrittenReadsExactly
  <2>7. SentSelectors(req, suffix) = q.sels
    BY <1>3, <1>4, <2>1, <2>4, OneText DEF SentSelectors
  <2> QED
    BY <1>5, <2>6, <2>7
<1>8. CASE suffix \notin QueryPaths /\ IsLabelPath(suffix)
  <2>1. LogQLKeys(suffix) = {"query"}
    BY <1>8 DEF LogQLKeys, IsLabelPath
  <2>2. r = MayQuery(ri, vals)
    BY <1>1, <1>8, RoutesAsLokiReads DEF EnforceParams, MayQuery, r, act
  <2>3. ReadsExactly(ri, up, SelectorsIn(Range(vals["query"])))
    <3>1. Values(up, "query") = Range(MayQuery(ri, vals).vals["query"])
      BY <1>4, <1>6, <2>2
    <3>2. MayQuery(ri, vals).err = "none" /\ vals["query"] \in Seq(Text)
      BY <1>2, <1>3, <1>4, <2>2
    <3> QED
      BY <1>4, <1>5, <1>8, <3>1, <3>2, MayQueryReadsExactly
  <2>4. SentSelectors(req, suffix) = SelectorsIn(Range(vals["query"]))
    BY <1>3, <1>4, <2>1 DEF SentSelectors
  <2> QED
    BY <1>5, <2>3, <2>4
<1>9. CASE suffix = <<"series">> /\ suffix \notin QueryPaths /\ ~IsLabelPath(suffix)
  <2> DEFINE sent == Range(vals["match[]"]) \cup Range(vals["match"])
             out == Range(r.vals["match[]"]) \cup Range(r.vals["match"])
  <2>1. LogQLKeys(suffix) = {"match[]", "match"}
    BY <1>9 DEF LogQLKeys
  <2>2. r = EnforceMatch(ri, vals)
    BY <1>1, <1>9, RoutesAsLokiReads DEF EnforceParams, r, act
  <2>3. /\ \A t \in sent : Enforce(EnforcerOf(ri), t).err = "none"
        /\ IF sent = {} THEN out = {SelectorText(EnforcerOf(ri))}
           ELSE out = { Enforce(EnforcerOf(ri), t).text : t \in sent }
    BY <1>2, <1>4, <2>2, MatchRewritten
  <2>4. Values(up, "match[]") \cup Values(up, "match") = out
    BY <1>4, <1>6
  <2>5. SentSelectors(req, suffix) = SelectorsIn(sent)
    BY <1>3, <1>4, <2>1 DEF SentSelectors, SelectorsIn
  <2> HIDE DEF sent, out
  <2>6. ReadsExactly(ri, up, SelectorsIn(sent))
    BY <1>5, <1>9, <2>3, <2>4, MatchReadsExactly
  <2> QED
    BY <1>5, <2>5, <2>6
<1>10. CASE suffix # <<"series">> /\ suffix \notin QueryPaths /\ ~IsLabelPath(suffix)
  BY <1>5, <1>10 DEF LogQLKeys
<1> QED
  BY <1>7, <1>8, <1>9, <1>10

\* A base URL that brings a query of its own would narrow what the label tools list.
PlainUrls == \A u \in Url : UrlParams(u)["query"] = << >>

\* So it is for the tools, whose base URL holds no query.
THEOREM ToolReadsExactly ==
    ASSUME PlainUrls, NEW ri \in Instance, NEW call, ServeMCP(ri, call).status = "forward"
    PROVE  \E up : /\ ServeMCP(ri, call).up = <<up>> /\ up.via = "mcp"
                   /\ ReadsExactly(ri, up, IF call.tool = "loki_query" THEN call.query.sels ELSE {})
<1> DEFINE e == EnforcerOf(ri)
           up(suffix, query) == ClientRequest(ri, suffix, query).up[1]
           q == call.query
<1>1. \A suffix, query :
          /\ ClientRequest(ri, suffix, query).up = << up(suffix, query) >>
          /\ up(suffix, query).suffix = suffix /\ up(suffix, query).via = "mcp"
          /\ up(suffix, query).url = ClientParams(ri.loki, query)
          /\ up(suffix, query).body = NoParams
  BY DEF ClientRequest, Forward
<1>2. /\ "query" \in ParamKey /\ DOMAIN UrlParams(ri.loki.url) = ParamKey
      /\ UrlParams(ri.loki.url)["query"] = << >>
  BY UrlAssumption, ParamAssumption DEF PlainUrls, Params, Instance, ResolvedInstance, LokiConfig
<1>3. \A query : ClientParams(ri.loki, query)["query"] = query
  BY <1>2 DEF ClientParams
<1>4. NoParams["query"] = << >>
  BY <1>2 DEF NoParams
<1> HIDE DEF up
<1>5. \A suffix, query : Values(up(suffix, query), "query") = Range(query)
  <2> SUFFICES ASSUME NEW suffix, NEW query
               PROVE  Values(up(suffix, query), "query") = Range(query)
    OBVIOUS
  <2>1. up(suffix, query).url["query"] = query /\ up(suffix, query).body["query"] = << >>
    BY <1>1, <1>3, <1>4
  <2> QED
    BY <2>1, RangeOfOne DEF Values
<1>6. CASE call.tool = "loki_query"
  <2>1. Enforce(e, q).err = "none" /\ ServeMCP(ri, call) = ClientRequest(ri, <<"query_range">>, << Enforce(e, q).text >>)
    BY <1>6 DEF ServeMCP, HandleQuery, ToolError, Answer
  <2> DEFINE u == up(<<"query_range">>, << Enforce(e, q).text >>)
  <2>2. u.suffix = <<"query_range">> /\ u.via = "mcp" /\ ServeMCP(ri, call).up = <<u>>
    BY <1>1, <2>1
  <2>3. Values(u, "query") = {Enforce(e, q).text}
    BY <1>5, RangeOfOne
  <2> HIDE DEF u, e, q
  <2>4. u.suffix \in QueryPaths
    BY <2>2 DEF QueryPaths
  <2>5. ReadsExactly(ri, u, q.sels)
    BY <2>1, <2>3, <2>4, RewrittenReadsExactly DEF e
  <2> QED
    BY <1>6, <2>2, <2>5 DEF q
<1>7. CASE call.tool # "loki_query"
  <2>1. PICK suffix : IsLabelPath(suffix) /\ ServeMCP(ri, call) = ClientRequest(ri, suffix, ScopeSelector(ri))
    <3>1. CASE call.tool = "loki_label_names"
      BY <1>7, <3>1 DEF ServeMCP, HandleLabelNames, ToolError, Answer, IsLabelPath
    <3>2. CASE call.tool # "loki_label_names"
      <4>1. ServeMCP(ri, call) = ClientRequest(ri, LabelValuesPath(call.label), ScopeSelector(ri))
        BY <1>7, <3>2 DEF ServeMCP, HandleLabelValues, ToolError, Answer
      <4>2. IsLabelPath(LabelValuesPath(call.label))
        BY DEF IsLabelPath, LabelValuesPath
      <4> QED
        BY <4>1, <4>2
    <3> QED
      BY <3>1, <3>2
  <2> DEFINE u == up(suffix, ScopeSelector(ri))
  <2>2. u.suffix = suffix /\ u.via = "mcp" /\ ServeMCP(ri, call).up = <<u>>
    BY <1>1, <2>1
  <2>3. Values(u, "query") = Range(ScopeSelector(ri))
    BY <1>5
  <2>4. Values(u, "query") = {SelectorText(e)} \/ Values(u, "query") = {}
    BY <2>3, RangeOfOne DEF ScopeSelector
  <2> HIDE DEF u
  <2>5. ReadsExactly(ri, u, {})
    BY <2>1, <2>2, <2>4, UnaskedReadsExactly
  <2> QED
    BY <1>7, <2>2, <2>5
<1> QED
  BY <1>6, <1>7

-----------------------------------------------------------------------------
(* What a client is told. *)

\* The values of one label are the scope of the filter on it.
LEMMA ScopeOfLabel ==
    ASSUME NEW ri \in Instance, NEW label, IsEnforced(ri, label)
    PROVE  \E f \in ri.filters : {label} \X FilterValues(ri, label) = Scope({f})
<1>1. PICK f \in ri.filters : f.label = label
  BY DEF IsEnforced
<1>2. { g \in ri.filters : g.label = label } = {f}
  BY <1>1 DEF Instance, Valid
<1>3. FilterValues(ri, label) = Range(f.values)
  BY <1>2 DEF FilterValues
<1>4. Scope({f}) = {label} \X Range(f.values)
  BY <1>1 DEF Scope
<1> QED
  BY <1>3, <1>4

\* So is what a refusal tells.
LEMMA ScopeOfConflict ==
    ASSUME NEW ri, NEW q, ConflictTells(EnforcerOf(ri), q) # {}
    PROVE  \E f \in ri.filters : ConflictTells(EnforcerOf(ri), q) = Scope({f})
<1> DEFINE e == EnforcerOf(ri)
           g == CHOOSE h \in e.filters : \E sel \in q.sels : Conflicts(h, sel)
<1>1. Enforce(e, q).err = "ErrConflict" /\ ConflictTells(e, q) = {g.matcher.label} \X g.allowed
  BY DEF ConflictTells
<1>2. PICK sel \in q.sels : EnforceMatchers(e, sel).err # "none"
  BY <1>1 DEF Enforce, Failed
<1>3. \E h \in e.filters : Conflicts(h, sel)
  BY <1>2 DEF EnforceMatchers, Refused
<1>4. g \in e.filters
  BY <1>2, <1>3
<1>5. \A h \in e.filters : \E f \in ri.filters : h.matcher.label = f.label /\ h.allowed = Range(f.values)
  <2>1. \A f : CompiledMatcher(f).label = f.label
    BY DEF CompiledMatcher
  <2> QED
    BY <2>1 DEF EnforcerOf, EnforcedFilters
<1>6. PICK f \in ri.filters : g.matcher.label = f.label /\ g.allowed = Range(f.values)
  BY <1>4, <1>5
<1>7. Scope({f}) = {f.label} \X Range(f.values)
  BY DEF Scope
<1> QED
  BY <1>1, <1>6, <1>7

\* Whatever a client is told is the scope of filters of its own instance: of all
\* of them by way of a description, else of one.
LEMMA RouteTellsScope ==
    ASSUME NEW req \in Request, insts \in Deployments, index = NewIndex(insts),
           Route(req).told # {}
    PROVE  \E n \in DOMAIN insts :
              /\ insts[n] \in Instance /\ Granted(req) = {n}
              /\ IF Describes(req) THEN Route(req).told = Scope(insts[n].filters)
                 ELSE \E f \in insts[n].filters : Route(req).told = Scope({f})
<1>1. PICK n \in DOMAIN insts :
              /\ insts[n] \in Instance /\ Granted(req) = {n}
              /\ \/ IsMCP(req) /\ Route(req) = ServeMCP(insts[n], req.call)
                 \/ ~IsMCP(req) /\ Route(req) = ServeProxy(insts[n], req)
  BY ServedByInstance
<1> DEFINE ri == insts[n]
           told == Route(req).told
<1>2. CASE Describes(req)
  <2>1. Route(req) = Answer("200", Disclosed(ri))
    BY <1>1, <1>2 DEF Describes, ServeMCP
  <2> QED
    BY <1>1, <1>2, <2>1 DEF Answer, Disclosed
<1>3. CASE ~Describes(req) /\ IsMCP(req)
  <2>0. req.call.tool \in {"loki_query", "loki_label_names", "loki_label_values"}
    BY <1>3 DEF Describes, Request, ToolCall
  <2>1. CASE req.call.tool = "loki_query"
    <3>1. told = ConflictTells(EnforcerOf(ri), req.call.query)
      BY <1>1, <1>3, <2>1 DEF ServeMCP, HandleQuery, ToolError, Answer, ClientRequest, Forward
    <3>2. \E f \in ri.filters : told = Scope({f})
      BY <3>1, ScopeOfConflict
    <3> QED
      BY <1>1, <1>3, <3>2
  <2>2. CASE req.call.tool = "loki_label_values"
    <3>1. IsEnforced(ri, req.call.label) /\ told = {req.call.label} \X FilterValues(ri, req.call.label)
      BY <1>1, <1>3, <2>2 DEF ServeMCP, HandleLabelValues, ToolError, Answer, ClientRequest, Forward
    <3>2. \E f \in ri.filters : told = Scope({f})
      BY <1>1, <3>1, ScopeOfLabel
    <3> QED
      BY <1>1, <1>3, <3>2
  <2>3. CASE req.call.tool = "loki_label_names"
    BY <1>1, <1>3, <2>3 DEF ServeMCP, HandleLabelNames, ToolError, Answer, ClientRequest, Forward
  <2> QED
    BY <2>0, <2>1, <2>2, <2>3
<1>4. CASE ~IsMCP(req)
  <2> DEFINE suffix == ApiSuffix(req.path)
             vals == RequestParams(req)
             r == EnforceParams(ri, RouteAction(suffix), vals)
  <2>1. CASE Routed(ri, req).status # "continue"
    <3>1. told = Routed(ri, req).told
      BY <1>1, <1>4, <2>1 DEF ServeProxy
    <3>2. IsEnforced(ri, suffix[2]) /\ told = {suffix[2]} \X FilterValues(ri, suffix[2])
      BY <2>1, <3>1 DEF Routed, Answer
    <3> QED
      BY <1>1, <1>4, <3>2, ScopeOfLabel DEF Describes
  <2>2. CASE Routed(ri, req).status = "continue"
    <3>1. told = r.told
      BY <1>1, <1>4, <2>2 DEF ServeProxy, Answer, Forward
    <3>2. \E q : told = ConflictTells(EnforcerOf(ri), q)
      <4>1. RouteAction(suffix) \in {"actQuery", "actQueryOptional", "actMatch", "actPassthrough"}
        BY <2>2 DEF Routed, Answer, RouteAction
      <4>2. \A required : EnforceQuery(ri, vals, required).told # {} =>
               \E q : EnforceQuery(ri, vals, required).told = ConflictTells(EnforcerOf(ri), q)
        BY DEF EnforceQuery, Refusal, Accept
      <4>3. EnforceMatch(ri, vals).told # {} =>
               \E q : EnforceMatch(ri, vals).told = ConflictTells(EnforcerOf(ri), q)
        BY DEF EnforceMatch, Refusal, Accept
      <4> QED
        BY <3>1, <4>1, <4>2, <4>3 DEF EnforceParams, Accept
    <3> QED
      BY <1>1, <1>4, <3>2, ScopeOfConflict DEF Describes
  <2> QED
    BY <2>1, <2>2
<1> QED
  BY <1>2, <1>3, <1>4

\* A request for the values of an enforced label is answered with them.
LEMMA EnforcedListingTold ==
    ASSUME NEW req \in Request, insts \in Deployments, index = NewIndex(insts), Indexable(insts),
           NEW n \in Granted(req), NEW f \in insts[n].filters,
           AsksValues(insts[n], req, f.label)
    PROVE  Route(req) = Answer("200", Scope({f}))
<1> DEFINE ri == insts[n]
<1>1. n \in DOMAIN insts /\ req.auth.scheme = "bearer" /\ req.auth.cred \in ri.tokens
  BY DEF Granted
<1>2. /\ ri \in Instance /\ n # None
      /\ ri.tokens \subseteq Token /\ ri.filters \subseteq Filter
      /\ \A g \in ri.filters : g.label = f.label => g = f
  <2>1. ri \in Instance /\ n \in Name
    BY <1>1, GatewayAssumption DEF Deployable
  <2> HIDE DEF ri
  <2>2. /\ ri.tokens \subseteq Token /\ ri.filters \subseteq Filter
        /\ \A g, h \in ri.filters : g.label = h.label => g = h
    BY <2>1 DEF Instance, Valid, ResolvedInstance
  <2> USE DEF ri
  <2>3. f \in ri.filters
    OBVIOUS
  <2> HIDE DEF ri
  <2> QED
    BY <2>1, <2>2, <2>3, GatewayAssumption
<1>3. Authenticated(req) = n
  BY <1>1, <1>2, LookupComplete DEF Authenticated, BearerToken
<1>4. IsEnforced(ri, f.label) /\ {f.label} \X FilterValues(ri, f.label) = Scope({f})
  <2>1. IsEnforced(ri, f.label)
    BY DEF IsEnforced
  <2>2. { g \in ri.filters : g.label = f.label } = {f}
    BY <1>2
  <2>3. FilterValues(ri, f.label) = Range(f.values)
    BY <2>2 DEF FilterValues
  <2> QED
    BY <2>1, <2>3 DEF Scope
<1>5. f.label # None
  BY <1>2, PathAssumption DEF Filter
<1>6. Path(req) # <<"healthz">>
  BY DEF AsksValues, IsMCP, IsProxy
<1>7. Route(req) = Dispatch(ri, req)
  BY <1>2, <1>3, <1>6 DEF Route
<1> HIDE DEF ri
<1>8. CASE IsMCP(req) /\ ri.mcp /\ req.call.tool = "loki_label_values" /\ req.call.label = f.label
  BY <1>4, <1>5, <1>7, <1>8 DEF Dispatch, ServeMCP, HandleLabelValues
<1>9. CASE /\ IsProxy(req) /\ ri.proxy /\ req.method \in {"GET", "POST"}
           /\ IsLabelValues(ApiSuffix(req.path)) /\ ApiSuffix(req.path)[2] = f.label
  <2>1. ~IsMCP(req) /\ ApiSuffix(req.path) # << >>
    BY <1>9 DEF IsMCP, IsProxy, IsLabelValues
  <2>2. Routed(ri, req) = Answer("200", Scope({f}))
    BY <1>4, <1>9, <2>1 DEF Routed
  <2>3. ServeProxy(ri, req) = Routed(ri, req)
    BY <2>2 DEF ServeProxy, Answer
  <2> QED
    BY <1>7, <1>9, <2>1, <2>2, <2>3 DEF Dispatch
<1> QED
  BY <1>8, <1>9 DEF AsksValues, ri

\* A caller's equality matcher survives the rewrite exactly where its value is
\* one that the filters on its label allow.
LEMMA KeptExact ==
    ASSUME NEW ri \in Instance, NEW l \in Label, NEW v \in Value
    PROVE  Kept(ri, l, v) <=> \A f \in ri.filters : f.label = l => v \in Range(f.values)
<1> DEFINE e == EnforcerOf(ri)
           m == [label |-> l, op |-> "=", vals |-> {v}]
           q == [kind |-> "log", sels |-> { {m} }]
<1>1. e \in Enforcers /\ v \in LabelValue
  BY EnforcerOfType DEF LabelValue
<1>2. ASSUME NEW g \in e.filters
      PROVE  /\ Callers(g, {m}) = IF g.matcher.label = l THEN {m} ELSE {}
             /\ Conflicts(g, {m}) <=> g.matcher.label = l /\ v \notin g.allowed
  <2>1. Callers(g, {m}) = IF g.matcher.label = l THEN {m} ELSE {}
    BY DEF Callers
  <2>2. \A w : Matches(m, w) <=> w = v
    BY DEF Matches, PositiveOp
  <2> QED
    BY <2>1, <2>2 DEF Conflicts, AnyAllowedSatisfies
<1>3. ASSUME NEW g \in e.filters, g.matcher.label = l
      PROVE  m \in Rewritten(e, {m}) <=> v \in g.allowed
  <2>1. \A h \in e.filters : h.matcher.label = l => h = g
    BY <1>1, <1>3, FilterFacts
  <2>2. m \notin Untouched(e, {m})
    BY <1>3 DEF Untouched
  <2>3. ASSUME NEW h \in e.filters, h # g
        PROVE  m \notin ForFilter(h, {m})
    <3>1. h.matcher.label # l
      BY <2>1, <2>3
    <3>2. ForFilter(h, {m}) = {h.matcher}
      BY <1>2, <3>1 DEF ForFilter
    <3> QED
      BY <3>1, <3>2
  <2>4. CASE v \in g.allowed
    <3>1. m \in ForFilter(g, {m})
      BY <1>2, <1>3, <2>4 DEF ForFilter
    <3> QED
      BY <2>4, <3>1 DEF Rewritten
  <2>5. CASE v \notin g.allowed
    <3>1. ForFilter(g, {m}) = {g.matcher}
      BY <1>2, <1>3, <2>5 DEF ForFilter
    <3>2. ~Matches(g.matcher, v) /\ Matches(m, v)
      BY <1>1, <2>5, FilterFacts DEF Matches, PositiveOp
    <3>3. m \notin ForFilter(g, {m})
      BY <3>1, <3>2
    <3> QED
      BY <2>2, <2>3, <2>5, <3>3 DEF Rewritten
  <2> QED
    BY <2>4, <2>5
<1>4. (\A g \in e.filters : g.matcher.label # l) => m \in Rewritten(e, {m})
  BY DEF Rewritten, Untouched
<1>5. m \in Rewritten(e, {m}) <=> \A g \in e.filters : g.matcher.label = l => v \in g.allowed
  BY <1>3, <1>4
<1>6. Refused(e, {m}) => \E g \in e.filters : g.matcher.label = l /\ v \notin g.allowed
  BY <1>2 DEF Refused
<1>7. Kept(ri, l, v) <=> ~Refused(e, {m}) /\ m \in Rewritten(e, {m})
  <2>1. CASE Refused(e, {m})
    <3>1. Enforce(e, q).err # "none"
      BY <2>1 DEF Enforce, EnforceMatchers, Failed, ParsedKind
    <3> QED
      BY <2>1, <3>1 DEF Kept
  <2>2. CASE ~Refused(e, {m})
    <3>1. EnforceMatchers(e, {m}) = [err |-> "none", sel |-> Rewritten(e, {m})]
      BY <2>2 DEF EnforceMatchers
    <3>2. q.kind \in ParsedKind /\ q.sels = { {m} } /\ q.sels # {}
      BY DEF ParsedKind
    <3> HIDE DEF q, m, e
    <3>3. { EnforceMatchers(e, sel).sel : sel \in q.sels } = {Rewritten(e, {m})}
      <4>1. EnforceMatchers(e, {m}).sel = Rewritten(e, {m}) /\ EnforceMatchers(e, {m}).err = "none"
        BY <3>1
      <4> QED
        BY <3>2, <4>1
    <3>4. Enforce(e, q) = [err |-> "none", text |-> [kind |-> q.kind, sels |-> {Rewritten(e, {m})}]]
      <4>1. EnforceMatchers(e, {m}).err = "none"
        BY <3>1
      <4>2. ~ \E sel \in q.sels : EnforceMatchers(e, sel).err # "none"
        BY <3>2, <4>1
      <4> QED
        BY <3>2, <3>3, <4>2 DEF Enforce
    <3>5. Enforce(e, q).err = "none" /\ Enforce(e, q).text.sels = {Rewritten(e, {m})}
      BY <3>4
    <3> USE DEF q, m, e
    <3> QED
      BY <2>2, <3>5 DEF Kept
  <2> QED
    BY <2>1, <2>2
<1>8. (\A g \in e.filters : g.matcher.label = l => v \in g.allowed)
        <=> \A f \in ri.filters : f.label = l => v \in Range(f.values)
  <2>1. e.filters = { [matcher |-> CompiledMatcher(f), allowed |-> Range(f.values)] : f \in ri.filters }
    BY DEF EnforcerOf, EnforcedFilters
  <2>2. \A f : CompiledMatcher(f).label = f.label
    BY DEF CompiledMatcher
  <2> DEFINE h(f) == [matcher |-> CompiledMatcher(f), allowed |-> Range(f.values)]
  <2>3. \A f : h(f).matcher.label = f.label /\ h(f).allowed = Range(f.values)
    BY <2>2
  <2>4. \A g : g \in e.filters <=> \E f \in ri.filters : g = h(f)
    BY <2>1
  <2> HIDE DEF h, e
  <2> QED
    BY <2>3, <2>4
<1> QED
  BY <1>5, <1>6, <1>7, <1>8
=============================================================================
