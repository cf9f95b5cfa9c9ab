---------------------------- MODULE MCTimeRange ----------------------------
(* Instances of TimeRange for TLC: a second of three units, lookbacks below, *)
(* at and above it, and times on both sides of zero and of a second's edge.  *)
EXTENDS TimeRange

Expr(kind, at) == [kind |-> kind, at |-> at]

MCExprs ==
    { Expr(k, 0) : k \in {"omitted", "now", "garbage"} }
      \cup { Expr("offset", d) : d \in {-7, -4, -3, 2} } \cup { Expr("instant", t) : t \in {-2, 0, 4, 5} }

MCLookbacks == {1, 2, 3, 4, 8}
=============================================================================
