------------------------------ MODULE Handlers ------------------------------
(***************************************************************************)
(* internal/handlers and internal/lokiclient: what a client is told of its *)
(* scope, and the three MCP tools, each a check of its arguments, at most  *)
(* one request to Loki, and a rendering of what came back.  A tool that    *)
(* fails answers with a tool error, never an RPC error.                    *)
(***************************************************************************)
EXTENDS Http

ToolError == Answer("toolError", {})

\* Instructions and scopeSuffix: every enforced label and its values, or nothing.
Disclosed(ri) == IF ri.enforcement.discloseFilters THEN Scope(ri.filters) ELSE {}

\* The selector for the label APIs, computed once in New.
ScopeSelector(ri) ==
    IF ri.enforcement.enforceLabelAPIs THEN << SelectorText(EnforcerOf(ri)) >> ELSE << >>

\* http.Client.Do falls back on the user and password of the URL.  The proxy sends
\* its requests by a transport, which does not.
ClientCredential(loki) == IF Credential(loki) # << >> THEN Credential(loki) ELSE UrlUser(loki.url)

\* What labelRequest and QueryRange set, added to what the base URL has: the times
\* and the limit are left out.
ClientParams(loki, query) ==
    IF query = << >> THEN UrlParams(loki.url) ELSE [UrlParams(loki.url) EXCEPT !["query"] = query]

\* lokiclient.do: a fresh request, so nothing of the client's is on it.
ClientRequest(ri, suffix, query) ==
    Forward([via    |-> "mcp",
             base   |-> ri.loki.url,
             orgID  |-> ri.loki.orgID,
             cred   |-> ClientCredential(ri.loki),
             suffix |-> suffix,
             url    |-> ClientParams(ri.loki, query),
             body   |-> NoParams])

HandleQuery(ri, call) ==
    LET r == Enforce(EnforcerOf(ri), call.query)
    IN  IF r.err # "none" THEN Answer("toolError", ConflictTells(EnforcerOf(ri), call.query))
        ELSE IF ~call.timeOK THEN ToolError
        ELSE ClientRequest(ri, <<"query_range">>, << r.text >>)

HandleLabelNames(ri, call) ==
    IF ~call.timeOK THEN ToolError
    ELSE ClientRequest(ri, <<"labels">>, ScopeSelector(ri))

\* The path as Loki reads it.  The label is escaped, and the path it is put in is
\* taken for one that is not and escaped as a whole when the URL is written: Loki
\* undoes that, and is left with the escaped label.
LabelValuesPath(label) == <<"label", PathEscape(label), "values">>

\* A variant for the properties to tell from the code: the values of an enforced
\* label are asked of Loki like any other.
HandleLabelValuesAsking(ri, call) ==
    IF call.label = None \/ ~call.timeOK THEN ToolError
    ELSE ClientRequest(ri, LabelValuesPath(call.label), ScopeSelector(ri))

HandleLabelValues(ri, call) ==
    IF call.label = None THEN ToolError
    ELSE IF IsEnforced(ri, call.label)
      THEN Answer("200", {call.label} \X FilterValues(ri, call.label))
    ELSE IF ~call.timeOK THEN ToolError
    ELSE ClientRequest(ri, LabelValuesPath(call.label), ScopeSelector(ri))

ServeMCP(ri, call) ==
    IF call.tool = "loki_query" THEN HandleQuery(ri, call)
    ELSE IF call.tool = "loki_label_names" THEN HandleLabelNames(ri, call)
    ELSE IF call.tool = "loki_label_values" THEN HandleLabelValues(ri, call)
    ELSE Answer("200", Disclosed(ri))

(***************************************************************************)
(* Whether a 200 answer of Loki with these streams is rendered.  The       *)
(* client decodes log streams only, so the numbers of a non-empty metric   *)
(* result fail to decode; an unknown format is noticed only once there is  *)
(* something to format, and by loki_query alone.                           *)
(***************************************************************************)
Renders(call, streams) ==
    \/ streams = {}
    \/ call.tool # "loki_query"
    \/ call.query.kind = "log" /\ call.format # "other"
=============================================================================
