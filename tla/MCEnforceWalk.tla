---------------------------- MODULE MCEnforceWalk ----------------------------
(* Instances of EnforceWalk for TLC: two labels, three values, and queries of *)
(* up to three selectors.                                                     *)
EXTENDS EnforceWalk

CONSTANTS ns, app, a, b, z

MCLabel == {ns, app}
MCValue == {a, b, z}

\* A filter as config.Matchers compiles it: "=" for one value, a regexp for more.
MCFilter(l, vs) ==
    [matcher |-> [label |-> l, op |-> IF \E v \in vs : vs = {v} THEN "=" ELSE "=~", vals |-> vs],
     allowed |-> vs]

MCFilters == { {MCFilter(ns, {a})},
               {MCFilter(ns, {a, b})},
               {MCFilter(ns, {a, b}), MCFilter(app, {b})} }

MCDeployed == [filters : MCFilters, mode : Mode]

Sel(sel) == [isSel |-> TRUE, sel |-> sel, last |-> 0]
Inner(last) == [isSel |-> FALSE, sel |-> {}, last |-> last]

\* A preorder tree: a leaf's subtree ends with itself.
Tree(nodes) == [i \in DOMAIN nodes |-> IF nodes[i].last = 0 THEN [nodes[i] EXCEPT !.last = i]
                                                           ELSE nodes[i]]
Literal == Inner(0)

M(l, op, vals) == [label |-> l, op |-> op, vals |-> vals]

\* Selectors for the queries of several sites: pinning, narrowing, widening,
\* negation, conflict, and a label the instance says nothing about.
FewSelectors ==
    { {M(ns, "=", {a})}, {M(ns, "=", {z})}, {M(ns, "=~", {b, z})}, {M(ns, "!=", {a}), M(app, "=", {b})},
      {M(app, "=", {b})}, {M(app, "!=", {Empty})}, {M(ns, "=", {b}), M(ns, "!~", {b})} }

\* Every selector of one matcher, and of two matchers on one label or across labels.
OneMatcher == { m \in Matcher : m.label = ns \/ m.vals \in {{a}, {b}, {z}, {Empty}, {a, b}} }
SmallMatchers == { m \in Matcher : \/ m.label = ns  /\ m.vals \in {{a}, {z}, {b, z}, {a, b}, {Empty}}
                                   \/ m.label = app /\ m.vals \in {{b}, {z}} /\ m.op \in {"=", "!="} }
ManySelectors == { sel \in { {m} : m \in OneMatcher } \cup { {m, n} : m, n \in SmallMatchers } : Parseable(sel) }

Shapes ==
    { <<Inner(3), Sel(s), Sel(t)>> : s, t \in FewSelectors }
      \cup { <<Inner(5), Inner(4), Sel(s), Literal, Sel(t)>> : s, t \in FewSelectors }
      \cup { <<Inner(4), Sel(s), Sel(t), Sel(u)>> : s, t, u \in FewSelectors }
      \cup { <<Inner(3), Literal, Literal>> }

MCQueries ==
    { [kind |-> "log", nodes |-> Tree(<<Sel(s)>>)] : s \in ManySelectors }
      \cup { [kind |-> "metric", nodes |-> Tree(x)] : x \in Shapes }
      \cup { [kind |-> k, nodes |-> << >>] : k \in {"empty", "malformed", "opaque"} }
=============================================================================
