------------------------------ MODULE Startup ------------------------------
(***************************************************************************)
(* cmd/server's run until it listens: config.Load with the loop of         *)
(* validate, instance.BuildAll, and the index of router.New, one instance  *)
(* at a time.  The first error ends it.                                    *)
(***************************************************************************)
EXTENDS Resolve, FiniteSetsExt

CONSTANT Files      \* the files that may be found: [kind, cfg]

File == [kind : {"missing", "malformed", "config"}, cfg : Declaration]

ASSUME FilesAssumption == Files \subseteq File

VARIABLES
    file,       \* what is at the path of -config
    at,         \* the stage of run
    resolved,   \* cfg.resolved
    next,       \* the loop's instance
    seenName, seenToken,    \* validate's
    built,      \* the instances BuildAll has made
    index,      \* the index New has made
    fault       \* the instance the error is about, 0 for the file as a whole

vars == <<file, at, resolved, next, seenName, seenToken, built, index, fault>>

Init ==
    /\ file \in Files
    /\ at = "loading"
    /\ resolved = << >> /\ next = 1
    /\ seenName = {} /\ seenToken = {}
    /\ built = << >> /\ index = << >> /\ fault = 0

Fail(where) ==
    /\ at' = "failed" /\ fault' = where
    /\ UNCHANGED <<file, resolved, next, seenName, seenToken, built, index>>

\* The next instance of the loop, or the first of the next stage's.
Advance(stage) ==
    /\ IF next < Len(resolved) THEN next' = next + 1 /\ at' = at
                               ELSE next' = 1 /\ at' = stage
    /\ UNCHANGED <<file, resolved, fault>>

\* An unreadable file, YAML or a key that does not decode, or no instance at all.
LoadFails ==
    /\ at = "loading"
    /\ file.kind # "config" \/ file.cfg.instances = << >>
    /\ Fail(0)

Load ==
    /\ at = "loading"
    /\ file.kind = "config" /\ file.cfg.instances # << >>
    /\ at' = "validating" /\ resolved' = ResolveAll(file.cfg)
    /\ UNCHANGED <<file, next, seenName, seenToken, built, index, fault>>

Raw == file.cfg.instances[next]
Cur == resolved[next]

Refuse ==
    /\ at = "validating"
    /\ ~ValidateInstance(Raw, Cur, seenName, seenToken)
    /\ Fail(next)

Validate ==
    /\ at = "validating"
    /\ ValidateInstance(Raw, Cur, seenName, seenToken)
    /\ seenName' = seenName \cup {Cur.name}
    /\ seenToken' = seenToken \cup Range(Cur.tokens)
    /\ Advance("building")
    /\ UNCHANGED <<built, index>>

\* What could fail here, a matcher or a URL, validate has tried already.
BuildOne ==
    /\ at = "building"
    /\ built' = Append(built, Build(Cur))
    /\ Advance("indexing")
    /\ UNCHANGED <<seenName, seenToken, index>>

Digests == { Digest(t) : t \in Range(Cur.tokens) }

Clashes ==
    \/ Digests \cap DOMAIN index # {}
    \/ \E j, k \in DOMAIN Cur.tokens : j # k /\ Digest(Cur.tokens[j]) = Digest(Cur.tokens[k])

IndexFails ==
    /\ at = "indexing"
    /\ Clashes
    /\ Fail(next)

IndexOne ==
    /\ at = "indexing"
    /\ ~Clashes
    /\ index' = [h \in DOMAIN index \cup Digests |->
                    IF h \in Digests
                      THEN [token |-> CHOOSE t \in Range(Cur.tokens) : Digest(t) = h, value |-> Cur.name]
                      ELSE index[h]]
    /\ Advance("serving")
    /\ UNCHANGED <<seenName, seenToken, built>>

Next == LoadFails \/ Load \/ Refuse \/ Validate \/ BuildOne \/ IndexFails \/ IndexOne

Spec == Init /\ [][Next]_vars

-----------------------------------------------------------------------------
(* What an operator may rely on, in terms of the file and of what is served. *)

TypeOK ==
    /\ file \in File
    /\ at \in {"loading", "validating", "building", "indexing", "serving", "failed"}
    /\ resolved = << >> \/ resolved = ResolveAll(file.cfg)
    /\ next \in 1 .. Len(file.cfg.instances) + 1
    /\ seenName \subseteq Name /\ seenToken \subseteq Token
    /\ Len(built) <= Len(resolved)
    /\ fault \in 0 .. Len(file.cfg.instances)

\* The instances as Gateway has them.
Deployed ==
    [n \in { resolved[i].name : i \in DOMAIN built } |->
        built[CHOOSE i \in DOMAIN built : resolved[i].name = n]]

Declared == file.cfg.instances

\* The places of the tokens of the first n instances, and what is written there.
Places(n) == UNION { {i} \X DOMAIN Declared[i].tokens : i \in 1 .. n }
TokenAt(p) == Declared[p[1]].tokens[p[2]]

\* An instance the gateway can serve, whatever stands beside it.
Fit(raw) ==
    LET ri == ResolveInstance(file.cfg, raw)
    IN  /\ raw.authType = "bearer" /\ ri.name \in Name
        /\ Build(ri) \in Instance
        /\ IsInjective([k \in DOMAIN ri.filters |-> ri.filters[k].label])
        /\ ri.loki.timeout > 0 /\ ri.defaults.limit > 0 /\ ri.defaults.since > 0

\* The first n instances make a deployment: each is fit, no two share a name as it
\* will be used, and no token stands in two places.
Acceptable(n) ==
    /\ \A i \in 1 .. n : Fit(Declared[i])
    /\ \A i, j \in 1 .. n : Trim(Declared[i].name) = Trim(Declared[j].name) => i = j
    /\ \A p, q \in Places(n) : TokenAt(p) = TokenAt(q) => p = q

DigestsApart(n) == \A p, q \in Places(n) : Digest(TokenAt(p)) = Digest(TokenAt(q)) => p = q

\* Only a deployment is ever served, and all that the file declares is in it: what
\* Gateway assumes of its instances, with the index it makes of them.
StartsOnlySound ==
    at = "serving" =>
        /\ Acceptable(Len(Declared))
        /\ \A i \in DOMAIN Declared :
              LET ri == ResolveInstance(file.cfg, Declared[i])
              IN  ri.name \in DOMAIN Deployed /\ Deployed[ri.name] = Build(ri)
        /\ Deployable(Deployed) /\ Indexable(Deployed) /\ index = NewIndex(Deployed)

\* A file is refused only for a reason, and the instance that the error names is
\* the first at which there is one: without it and those after it the file would do.
FirstFaultNamed ==
    at = "failed" =>
        IF fault = 0 THEN file.kind # "config" \/ Declared = << >>
        ELSE IF Acceptable(Len(Declared)) THEN DigestsApart(fault - 1) /\ ~DigestsApart(fault)
        ELSE Acceptable(fault - 1) /\ ~Acceptable(fault)

\* The value of the innermost level that says anything, also where it says "" or 0.
Innermost(levels) ==
    levels[Min({ k \in DOMAIN levels : levels[k] # << >> })][1]

\* Each setting of an instance is its own, else the top level's, else the built-in
\* one, setting by setting: an instance that gives a user name inherits a token,
\* which then wins, unless it sets the token to nothing.
InnermostWins ==
    \A i \in DOMAIN resolved :
        LET cfg == file.cfg
            raw == Declared[i]
        IN  /\ \A leaf \in DOMAIN resolved[i].loki :
                  resolved[i].loki[leaf] = Innermost(<<raw.loki[leaf], cfg.loki[leaf], <<BuiltinLoki[leaf]>> >>)
            /\ \A leaf \in {"enforceLabelAPIs", "discloseFilters"} :
                  resolved[i].enforcement[leaf] =
                      Innermost(<<raw.enforcement[leaf], cfg.enforcement[leaf], <<BuiltinEnforcement[leaf]>> >>)
            /\ resolved[i].enforcement.onConflict =
                  Trim(Innermost(<<raw.enforcement.onConflict, cfg.enforcement.onConflict,
                                   <<BuiltinEnforcement.onConflict>> >>))
            /\ \A leaf \in {"limit", "since"} :
                  resolved[i].defaults[leaf] =
                      Innermost(<<raw.defaults[leaf], cfg.defaults[leaf], <<BuiltinDefaults[leaf]>> >>)

\* Every token a served file lists works: sent in a header, which loses the space
\* around it, it reaches the instance that lists it.
TokensReach ==
    at = "serving" =>
        \A p \in Places(Len(Declared)) :
            Lookup(index, Trim(TokenAt(p))) = Trim(Declared[p[1]].name)
=============================================================================
