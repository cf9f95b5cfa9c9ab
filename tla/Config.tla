------------------------------- MODULE Config -------------------------------
(***************************************************************************)
(* internal/config and internal/instance: what a resolved instance is once *)
(* validate has accepted it, and the enforcer that Build makes of it.      *)
(***************************************************************************)
EXTENDS Enforcer, Sequences, Functions

CONSTANTS
    Token,      \* the bearer tokens clients hold
    Org,        \* tenant ids
    Cred,       \* user names, passwords and tokens for the upstream
    Url,        \* base URLs that are absolute and http or https
    None        \* an absent token, tenant, credential, URL or label: ""

ASSUME NoneAssumption == None \notin Token \cup Org \cup Cred \cup Url

\* The values as configured: a list, which may repeat one.
Filter == [label : Label, values : Seq(Value) \ {<< >>}]

LokiConfig ==
    [url : Url, orgID : Org \cup {None}, username : Cred \cup {None},
     password : Cred \cup {None}, token : Cred \cup {None}]

Enforcement == [onConflict : Mode, enforceLabelAPIs : BOOLEAN, discloseFilters : BOOLEAN]

ResolvedInstance ==
    [tokens : SUBSET Token, mcp : BOOLEAN, proxy : BOOLEAN,
     filters : SUBSET Filter, enforcement : Enforcement, loki : LokiConfig]

\* What validate accepts of one instance.
Valid(ri) ==
    /\ ri.tokens # {}
    /\ ri.mcp \/ ri.proxy
    /\ ri.filters # {}
    /\ \A f, g \in ri.filters : f.label = g.label => f = g

Instance == { ri \in ResolvedInstance : Valid(ri) }

\* A variant for the properties to tell from the code: only the first value is
\* compiled.
CompiledFirst(f) == [label |-> f.label, op |-> "=", vals |-> {f.values[1]}]

\* One value compiles to an equality, several to an alternation of their quotes.
CompiledMatcher(f) ==
    [label |-> f.label, op |-> IF Len(f.values) = 1 THEN "=" ELSE "=~", vals |-> Range(f.values)]

EnforcedFilters(ri) ==
    { [matcher |-> CompiledMatcher(f), allowed |-> Range(f.values)] : f \in ri.filters }

EnforcerOf(ri) == [filters |-> EnforcedFilters(ri), mode |-> ri.enforcement.onConflict]

IsEnforced(ri, label) == \E f \in ri.filters : f.label = label

\* What there is to tell of some filters: each label with the values it may have.
Scope(filters) == UNION { {f.label} \X Range(f.values) : f \in filters }

FilterValues(ri, label) == UNION { Range(f.values) : f \in { g \in ri.filters : g.label = label } }

\* The Authorization header sent upstream, by the client and by the proxy: a
\* bearer token, else a user name and password of which one may be empty, else none.
Credential(loki) ==
    IF loki.token # None THEN << loki.token >>
    ELSE IF loki.username # None \/ loki.password # None THEN << loki.username, loki.password >>
    ELSE << >>
=============================================================================
