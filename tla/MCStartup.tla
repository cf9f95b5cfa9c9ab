----------------------------- MODULE MCStartup -----------------------------
(* Configuration files for TLC. *)
EXTENDS Startup

CONSTANTS a, b, t1, t2, t3, padded1, spaced, o1, k1, k2, u1, u2, relative, n1, n2, n3, paddedName

\* strings.TrimSpace; spaced has its space inside.
MCTrim(x) ==
    CASE x = padded1 -> t1
      [] x = paddedName -> n1
      [] x = "reject " -> "reject"
      [] OTHER -> x

\* t3 has the digest of t1.
MCDigest(t) == IF t = t3 THEN t1 ELSE t

MCWrittenName == {n1, n2, n3, paddedName, None}
MCWritten ==
    {None, u1, u2, relative, "reject", "reject ", "override", "drop", "ns", "app", "no-label", "bearer",
     "none", t1, t2, t3, padded1, spaced}

MCBuiltinLoki ==
    [url |-> None, orgID |-> None, username |-> None, password |-> None, token |-> None, timeout |-> 30]
MCBuiltinEnforcement == [onConflict |-> "reject", enforceLabelAPIs |-> TRUE, discloseFilters |-> TRUE]
MCBuiltinDefaults == [limit |-> 100, since |-> 60]

Unset(leaves) == [leaf \in leaves |-> << >>]
NoLoki == Unset(DOMAIN MCBuiltinLoki)
NoEnforcement == Unset(DOMAIN MCBuiltinEnforcement)
NoDefaults == Unset(DOMAIN MCBuiltinDefaults)

F(l, values) == [label |-> l, values |-> values]

Plain(name, tokens) ==
    [name |-> name, authType |-> "bearer", tokens |-> tokens, mcp |-> << >>, proxy |-> << >>,
     filters |-> <<F("ns", <<a, b>>)>>, loki |-> NoLoki, enforcement |-> NoEnforcement, defaults |-> NoDefaults]

Second == Plain(n2, <<t2>>)

\* An instance for every way in which one may be wrong, alone or beside another.
Odd ==
    { Plain(n1, <<t1>>), Second, Plain(paddedName, <<t2>>), Plain(None, <<t2>>), Plain(n2, << >>),
      Plain(n2, <<t2, t1>>), Plain(n2, <<t2, t2>>), Plain(n2, <<t3>>), Plain(n2, <<t2, None>>),
      Plain(n2, <<padded1>>), Plain(n2, <<spaced>>) }
    \cup { [Second EXCEPT !.authType = x] : x \in {"none", None} }
    \cup { [Second EXCEPT !.mcp = m, !.proxy = p] :
             m, p \in { << >>, <<TRUE>>, <<FALSE>> } }
    \cup { [Second EXCEPT !.loki.url = <<u>>] : u \in {None, u2, relative} }
    \cup { [Second EXCEPT !.loki.timeout = <<n>>] : n \in {-1, 0, 1} }
    \cup { [Second EXCEPT !.enforcement.onConflict = <<m>>] : m \in {"reject ", "override", "drop", None} }
    \cup { [Second EXCEPT !.defaults.limit = <<n>>] : n \in {0, 1} }
    \cup { [Second EXCEPT !.defaults.since = <<n>>] : n \in {0, 1} }
    \cup { [Second EXCEPT !.filters = fs] :
             fs \in { << >>, <<F("no-label", <<a>>)>>, <<F(None, <<a>>)>>, <<F("ns", << >>)>>,
                      <<F("ns", <<a, Empty>>)>>, <<F("ns", <<a, a>>)>>, <<F("ns", <<a>>), F("app", <<b>>)>>,
                      <<F("ns", <<a>>), F("ns", <<a>>)>>, <<F("ns", <<a>>), F("app", <<b>>), F("ns", <<b>>)>> } }

Some == { Plain(n1, <<t1>>), Second, Plain(paddedName, <<t2>>), Plain(n3, <<t2, t1>>), Plain(n3, <<t3>>) }

Config(loki, enforcement, defaults, instances) ==
    [kind |-> "config",
     cfg  |-> [loki |-> loki, enforcement |-> enforcement, defaults |-> defaults, instances |-> instances]]

Top == [NoLoki EXCEPT !.url = <<u1>>]

Lists ==
    { << >> } \cup { <<x>> : x \in Odd } \cup { <<x, y>> : x, y \in Odd }
      \cup { <<x, y, z>> : x, y, z \in Some }

\* Every combination of the leaves of a credential, of the other leaves of loki, and
\* of the two other blocks, on two levels.
Leaf(x) == { << >>, <<None>>, <<x>> }

Credentials(k) ==
    { [Top EXCEPT !.username = u, !.password = p, !.token = t] : u, p, t \in Leaf(k) }
Upstreams(u, n) ==
    { [NoLoki EXCEPT !.url = x, !.orgID = o, !.timeout = t] :
        x \in Leaf(u), o \in Leaf(o1), t \in { << >>, <<0>>, <<n>> } }
Policies(m) ==
    { [onConflict |-> x, enforceLabelAPIs |-> e, discloseFilters |-> d] :
        x \in Leaf(m), e, d \in { << >>, <<TRUE>>, <<FALSE>> } }
Fallbacks(n) ==
    { [limit |-> l, since |-> s] : l, s \in { << >>, <<0>>, <<n>> } }

Only == Plain(n1, <<t1>>)

MCFiles == UNION {
    { [kind |-> k, cfg |-> Config(NoLoki, NoEnforcement, NoDefaults, << >>).cfg] : k \in {"missing", "malformed"} },
    { Config(Top, NoEnforcement, NoDefaults, l) : l \in Lists },
    { Config(x, NoEnforcement, NoDefaults, <<[Only EXCEPT !.loki = y]>>) :
        x \in Credentials(k1), y \in Credentials(k2) },
    { Config(x, NoEnforcement, NoDefaults, <<[Only EXCEPT !.loki = y]>>) :
        x \in Upstreams(u1, 1), y \in Upstreams(u2, 2) },
    { Config(Top, x, NoDefaults, <<[Only EXCEPT !.enforcement = y]>>) :
        x \in Policies("override"), y \in Policies("reject ") },
    { Config(Top, NoEnforcement, x, <<[Only EXCEPT !.defaults = y]>>) :
        x \in Fallbacks(1), y \in Fallbacks(2) } }
=============================================================================
