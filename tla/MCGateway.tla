----------------------------- MODULE MCGateway -----------------------------
(* Deployments, a store and requests of the gateway for TLC. *)
EXTENDS Gateway

CONSTANTS a, b, z, t1, t2, t3, o1, o2, k1, k2, u1, u2, alpha, beta, c1, c2

MCLabel == {"ns", "app"}
MCOddLabel == {"my label"}
MCPathEscape(l) == IF l \in MCOddLabel THEN "my%20label" ELSE l
MCValue == {a, b, z}
MCToken == {t1, t2, t3}
MCParamKey == {"query", "match[]", "match", "limit", "via"}

\* t3 has the digest of t1.  In two deployments it belongs to no instance; in
\* the third the index refuses it.
MCDigest(t) == IF t = t3 THEN t1 ELSE t

MCFilter(l, values) == [label |-> l, values |-> values]

Inst(tokens, filters, mode, scoped, mcp, proxy, url, org, token, username, password) ==
    [tokens |-> tokens, mcp |-> mcp, proxy |-> proxy, filters |-> filters,
     enforcement |-> [onConflict |-> mode, enforceLabelAPIs |-> scoped, discloseFilters |-> scoped],
     loki |-> [url |-> url, orgID |-> org, token |-> token, username |-> username, password |-> password]]

TeamAB == { MCFilter("ns", <<a, b>>) }
TeamB  == { MCFilter("ns", <<b>>), MCFilter("app", <<a, z>>) }

Deployment(ia, ib) == [n \in {alpha, beta} |-> IF n = alpha THEN ia ELSE ib]

MCDeployments ==
    { Deployment(Inst({t1}, TeamAB, "reject", TRUE, TRUE, TRUE, u1, o1, k1, k2, k2),
                 Inst({t2}, TeamB, "override", FALSE, TRUE, TRUE, u2, None, None, k2, None)),
      Deployment(Inst({t1}, TeamAB, "override", FALSE, FALSE, TRUE, u1, o1, k1, None, None),
                 Inst({t2}, TeamB, "reject", TRUE, TRUE, FALSE, u1, o2, None, None, None)),
      Deployment(Inst({t1}, TeamAB, "reject", TRUE, TRUE, TRUE, u1, o1, k1, None, None),
                 Inst({t2, t3}, TeamB, "reject", TRUE, TRUE, TRUE, u2, o2, k2, None, None)) }

InStore(org, n, p) == [orgID |-> org, labels |-> [l \in MCLabel |-> IF l = "ns" THEN n ELSE p]]

MCStore ==
    { InStore(o1, a, a), InStore(o1, b, z), InStore(o1, z, a), InStore(o1, Empty, a),
      InStore(None, b, a), InStore(None, z, z), InStore(o2, b, z), InStore(o2, a, a) }

\* One base URL has a query string, and a user with a password.
MCUrlParams(u) ==
    [k \in MCParamKey |-> IF u = u1 /\ k = "via" THEN <<[kind |-> "opaque", sels |-> {}]>> ELSE << >>]
MCUrlUser(u) == IF u = u1 THEN <<k2, k1>> ELSE << >>

-----------------------------------------------------------------------------
M(l, op, vals) == [label |-> l, op |-> op, vals |-> vals]
Log(sel) == [kind |-> "log", sels |-> {sel}]
Metric(sels) == [kind |-> "metric", sels |-> sels]
Other(kind) == [kind |-> kind, sels |-> {}]

Within  == Log({M("ns", "=", {a})})
Without == Log({M("ns", "=", {z})})
Wide    == Log({M("ns", "=~", {a, b, z})})
Beside  == Log({M("app", "=", {a})})
Both    == Metric({ {M("ns", "=", {b})}, {M("ns", "=", {z}), M("app", "!=", {a})} })
Literal == Metric({})

Texts == {Within, Without, Wide, Beside, Both, Literal, EmptyText, Other("malformed")}

Seg(n) == [name |-> n, escaped |-> FALSE]
Esc(n) == [name |-> n, escaped |-> TRUE]
API(rest) == << Seg("loki"), Seg("api"), Seg("v1") >> \o rest

P(k, t) == [key |-> k, text |-> t]
Limit == P("limit", Other("opaque"))
Bad == P("%", EmptyText)

NoCall == [tool |-> "loki_query", query |-> EmptyText, label |-> "ns", timeOK |-> TRUE, format |-> "raw"]

Bearer(t) == [scheme |-> "bearer", cred |-> t]

\* Every client request sends a tenant of its own choice.
Http(method, path, auth, url, ctype, body) ==
    [method |-> method, path |-> path, auth |-> auth, orgID |-> o2, url |-> url, ctype |-> ctype,
     body |-> body, call |-> NoCall]

Get(path, t, url) == Http("GET", path, Bearer(t), url, "none", << >>)
Post(path, t, url, body) == Http("POST", path, Bearer(t), url, "form", body)

Tool(t, call) == [Http("POST", <<Seg("mcp")>>, Bearer(t), << >>, "other", << >>) EXCEPT !.call = call]

QueryLists(key) ==
    { << >>, <<Limit>>, <<Bad>>, <<P(key, Within), P(key, Without)>> }
      \cup { <<P(key, t)>> : t \in Texts } \cup { <<Limit, P(key, t)>> : t \in {Within, Without, Both} }

\* Bodies up to one pair more than MaxFormBody = 2, and beyond.
LongBodies(key) ==
    { <<Limit, Limit, P(key, Without)>>, <<P(key, Within), Limit, Limit>>,
      <<P(key, Within), Limit, Limit, Limit>> }

Endpoints == { API(<<Seg("query")>>), API(<<Seg("labels")>>), API(<<Seg("label"), Seg("app"), Seg("values")>>),
               API(<<Seg("index"), Seg("stats")>>), API(<<Seg("format_query")>>) }

OddPaths ==
    { API(<<Seg("label"), Seg("ns"), Seg("values")>>), API(<<Seg("label"), Esc("ns"), Seg("values")>>),
      API(<<Seg("labels"), Seg("..")  , Seg("label"), Seg("."), Seg("ns"), Seg("values"), Seg("")>>),
      API(<<Seg("label"), Seg("values")>>), API(<<Seg("push")>>), API(<<Seg("tail")>>), API(<< >>),
      API(<<Seg(".."), Seg(".."), Seg("push")>>), API(<<Esc(".."), Seg("labels")>>),
      API(<<Esc("x"), Seg(".."), Seg("labels")>>),
      <<Seg("loki"), Seg("api"), Seg("prom"), Seg("query")>>, <<Esc("loki"), Seg("api"), Seg("v1"), Seg("labels")>>,
      <<Seg("metrics")>>, <<Seg("healthz")>>, <<Seg("mcp")>> }

Auths == { Bearer(t) : t \in MCToken \cup {None} }
           \cup { [scheme |-> "basic", cred |-> t1], [scheme |-> "none", cred |-> None] }

QueryRange == API(<<Seg("query_range")>>)
Series == API(<<Seg("series")>>)

QueryRequests ==
    { Get(QueryRange, t, u) : t \in {t1, t2}, u \in QueryLists("query") }
      \cup { Post(QueryRange, t, u, body) :
                t \in {t1, t2}, u \in { << >>, <<Limit>>, <<Bad>>, <<P("query", Within)>> },
                body \in QueryLists("query") \cup LongBodies("query") }
      \cup { Http("POST", QueryRange, Bearer(t1), <<P("query", t)>>, ct, <<P("query", Without)>>) :
                t \in {Within, Without}, ct \in {"none", "other", "malformed"} }

LabelRequests ==
    { Get(p, t, u) : p \in Endpoints, t \in {t1, t2}, u \in QueryLists("query") }
      \cup { Post(p, t1, << >>, u) : p \in Endpoints, u \in QueryLists("query") }

SeriesRequests ==
    { Get(Series, t, u) : t \in {t1, t2}, u \in QueryLists("match[]") \cup QueryLists("match") }
      \cup { Get(Series, t, <<P(k, x), P(l, y)>>) :
                t \in {t1, t2}, k, l \in MatchKeys, x, y \in {Within, Without, Beside, EmptyText} }
      \cup { Post(Series, t1, <<P("match[]", x)>>, <<P(k, y)>>) : k \in MatchKeys, x, y \in {Within, Without} }

PathRequests ==
    { Http(m, p, au, << >>, "none", << >>) : m \in {"GET", "HEAD"}, p \in OddPaths \ {<<Seg("mcp")>>}, au \in Auths }
      \cup { Http("POST", <<Seg("mcp")>>, au, << >>, "other", << >>) : au \in Auths }

ToolRequests ==
    { Tool(t, [NoCall EXCEPT !.query = q, !.timeOK = ok, !.format = f]) :
        t \in {t1, t2}, q \in Texts, ok \in BOOLEAN, f \in {"raw", "other"} }
      \cup { Tool(t, [NoCall EXCEPT !.tool = tool, !.label = l, !.timeOK = ok]) :
               t \in {t1, t2}, tool \in {"loki_label_names", "loki_label_values"}, l \in MCLabel \cup MCOddLabel \cup {None}, ok \in BOOLEAN }
      \cup { Tool(t, [NoCall EXCEPT !.tool = tool]) : t \in MCToken, tool \in {"initialize", "tools/list"} }

MCRequests == QueryRequests \cup LabelRequests \cup SeriesRequests \cup PathRequests \cup ToolRequests

\* A handful for the runs of several connections: a tool call, a query in the
\* URL, a form, a label listing, a path without token.
FewRequests ==
    { Tool(t1, [NoCall EXCEPT !.query = Within]), Get(QueryRange, t1, <<P("query", Wide)>>),
      Post(QueryRange, t2, << >>, <<P("query", Both)>>), Get(API(<<Seg("labels")>>), t2, << >>),
      Get(QueryRange, t3, << >>) }

FirstDeployment == { CHOOSE d \in MCDeployments : d[alpha].loki.username = k2 }
=============================================================================
