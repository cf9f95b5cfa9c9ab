------------------------------ MODULE Resolve ------------------------------
(***************************************************************************)
(* internal/config before it is resolved: what an operator declares, how   *)
(* the built-in defaults, the top level and an instance are folded into    *)
(* one, and what validate asks of the result.  A leaf that a level leaves  *)
(* out (a nil pointer) is << >>, one that it sets is a sequence of one,    *)
(* also when it sets it to the zero value.                                 *)
(***************************************************************************)
EXTENDS Auth, Integers

CONSTANTS
    Trim(_),        \* strings.TrimSpace
    Written,        \* what an operator may write for a URL, a mode, a label, a token
    WrittenName,    \* and for a name, with the space around it
    BuiltinLoki, BuiltinEnforcement, BuiltinDefaults

\* Tokens are what isHeaderSafe accepts, so that no space is in them.
ASSUME TrimAssumption ==
    /\ None \notin Name
    /\ \A n \in WrittenName : Trim(n) \in Name \cup {None}
    /\ \A t \in Token : Trim(t) = t

Opt(S) == { opt \in Seq(S) : Len(opt) <= 1 }

LokiOverride ==
    [url : Opt(Written), orgID : Opt(Org \cup {None}), username : Opt(Cred \cup {None}),
     password : Opt(Cred \cup {None}), token : Opt(Cred \cup {None}), timeout : Opt(Int)]

EnforcementOverride ==
    [onConflict : Opt(Written), enforceLabelAPIs : Opt(BOOLEAN), discloseFilters : Opt(BOOLEAN)]

DefaultsOverride == [limit : Opt(Int), since : Opt(Int)]

DeclaredFilter == [label : Written, values : Seq(LabelValue)]

DeclaredInstance ==
    [name : WrittenName, authType : Written, tokens : Seq(Written), mcp : Opt(BOOLEAN), proxy : Opt(BOOLEAN),
     filters : Seq(DeclaredFilter), loki : LokiOverride, enforcement : EnforcementOverride,
     defaults : DefaultsOverride]

Declaration ==
    [loki : LokiOverride, enforcement : EnforcementOverride, defaults : DefaultsOverride,
     instances : Seq(DeclaredInstance)]

ASSUME BuiltinAssumption ==
    /\ BuiltinLoki \in [url : {None}, orgID : {None}, username : {None}, password : {None},
                        token : {None}, timeout : Int]
    /\ BuiltinEnforcement \in [onConflict : Mode, enforceLabelAPIs : {TRUE}, discloseFilters : {TRUE}]
    /\ BuiltinDefaults \in [limit : Int, since : Int]
    /\ \A m \in Mode : Trim(m) = m

-----------------------------------------------------------------------------
(* Resolve *)

\* A variant for the properties to tell from the code: a leaf that is set to "" is
\* taken for one that is not set.
OrUnlessBlank(opt, fallback) == IF opt \in {<< >>, <<None>>} THEN fallback ELSE opt[1]

Or(opt, fallback) == IF opt = << >> THEN fallback ELSE opt[1]

ApplyLoki(base, o) ==
    [url |-> Or(o.url, base.url), orgID |-> Or(o.orgID, base.orgID),
     username |-> Or(o.username, base.username), password |-> Or(o.password, base.password),
     token |-> Or(o.token, base.token), timeout |-> Or(o.timeout, base.timeout)]

ApplyEnforcement(base, o) ==
    [onConflict       |-> IF o.onConflict = << >> THEN base.onConflict ELSE Trim(o.onConflict[1]),
     enforceLabelAPIs |-> Or(o.enforceLabelAPIs, base.enforceLabelAPIs),
     discloseFilters  |-> Or(o.discloseFilters, base.discloseFilters)]

ApplyDefaults(base, o) == [limit |-> Or(o.limit, base.limit), since |-> Or(o.since, base.since)]

\* Filters and tokens are the instance's own; everything else may come from above.
ResolveInstance(cfg, in) ==
    [name        |-> Trim(in.name),
     tokens      |-> in.tokens,
     mcp         |-> Or(in.mcp, TRUE),
     proxy       |-> Or(in.proxy, FALSE),
     filters     |-> in.filters,
     enforcement |-> ApplyEnforcement(ApplyEnforcement(BuiltinEnforcement, cfg.enforcement), in.enforcement),
     loki        |-> ApplyLoki(ApplyLoki(BuiltinLoki, cfg.loki), in.loki),
     defaults    |-> ApplyDefaults(ApplyDefaults(BuiltinDefaults, cfg.defaults), in.defaults)]

ResolveAll(cfg) == [i \in DOMAIN cfg.instances |-> ResolveInstance(cfg, cfg.instances[i])]

-----------------------------------------------------------------------------
(* validate, of one instance, given the names and tokens of those before it *)

NameOK(ri, seenName) == ri.name # None /\ ri.name \notin seenName

\* A variant for the properties to tell from the code: any token that is not empty
\* will do.
AnyTokenOK(raw, ri, seenToken) ==
    /\ raw.authType = "bearer"
    /\ ri.tokens # << >>
    /\ \A j \in DOMAIN ri.tokens : ri.tokens[j] # None /\ ri.tokens[j] \notin seenToken

\* The tokens are taken one by one, each seen by those after it.
AuthOK(raw, ri, seenToken) ==
    /\ raw.authType = "bearer"
    /\ ri.tokens # << >>
    /\ \A j \in DOMAIN ri.tokens :
          /\ ri.tokens[j] # None /\ ri.tokens[j] \in Token
          /\ ri.tokens[j] \notin seenToken
          /\ \A k \in 1 .. j - 1 : ri.tokens[k] # ri.tokens[j]

\* A variant for the properties to tell from the code: the proxy alone will not do.
MCPOK(ri) == ri.mcp

SurfaceOK(ri) == ri.mcp \/ ri.proxy

UpstreamOK(loki) == loki.url # None /\ loki.url \in Url /\ loki.timeout > 0

\* A variant for the properties to tell from the code: the labels' own checks, without
\* the one for a label that is given twice.
FiltersApartUnchecked(filters) ==
    /\ filters # << >>
    /\ \A i \in DOMAIN filters :
          /\ filters[i].label \in Label
          /\ filters[i].values # << >>
          /\ \A j \in DOMAIN filters[i].values : filters[i].values[j] # Empty

\* A label that is empty or blank is no label name either.
FiltersOK(filters) ==
    /\ filters # << >>
    /\ \A i \in DOMAIN filters :
          /\ filters[i].label \in Label
          /\ \A k \in 1 .. i - 1 : filters[k].label # filters[i].label
          /\ filters[i].values # << >>
          /\ \A j \in DOMAIN filters[i].values : filters[i].values[j] # Empty
          /\ ~Matches(CompiledMatcher(filters[i]), Empty)

ValidateResolved(ri) ==
    /\ UpstreamOK(ri.loki)
    /\ ri.enforcement.onConflict \in Mode
    /\ ri.defaults.limit > 0 /\ ri.defaults.since > 0
    /\ FiltersOK(ri.filters)

ValidateInstance(raw, ri, seenName, seenToken) ==
    /\ NameOK(ri, seenName)
    /\ AuthOK(raw, ri, seenToken)
    /\ SurfaceOK(ri)
    /\ ValidateResolved(ri)

-----------------------------------------------------------------------------

\* Build: the instance as the rest of the program uses it, in which the order of
\* tokens and of filters plays no part.
Build(ri) ==
    [tokens      |-> Range(ri.tokens),
     mcp         |-> ri.mcp,
     proxy       |-> ri.proxy,
     filters     |-> Range(ri.filters),
     enforcement |-> ri.enforcement,
     loki        |-> [url |-> ri.loki.url, orgID |-> ri.loki.orgID, username |-> ri.loki.username,
                      password |-> ri.loki.password, token |-> ri.loki.token]]
=============================================================================
