--------------------------- MODULE StartupProofs ---------------------------
(***************************************************************************)
(* Startup, for any file: what validate lets through is an instance the    *)
(* gateway can serve, and only a deployment of such is ever served.        *)
(***************************************************************************)
EXTENDS Startup, TLAPS

\* A leaf has the type of what was said or of what it falls back to.
LEMMA OrType ==
    ASSUME NEW S, NEW T, NEW opt \in Opt(S), NEW fallback \in T
    PROVE  Or(opt, fallback) \in S \cup T
  BY DEF Or, Opt

\* The lines of resolution: every leaf has the type of the level it comes from.
LEMMA ResolvedTypes ==
    ASSUME NEW cfg \in Declaration, NEW raw \in DeclaredInstance
    PROVE  LET ri == ResolveInstance(cfg, raw)
           IN  /\ ri.name \in Name \cup {None}
               /\ ri.tokens \in Seq(Written)
               /\ ri.filters \in Seq(DeclaredFilter)
               /\ ri.mcp \in BOOLEAN /\ ri.proxy \in BOOLEAN
               /\ ri.enforcement.enforceLabelAPIs \in BOOLEAN
               /\ ri.enforcement.discloseFilters \in BOOLEAN
               /\ ri.enforcement = [onConflict       |-> ri.enforcement.onConflict,
                                    enforceLabelAPIs |-> ri.enforcement.enforceLabelAPIs,
                                    discloseFilters  |-> ri.enforcement.discloseFilters]
               /\ ri.loki.orgID \in Org \cup {None}
               /\ ri.loki.username \in Cred \cup {None}
               /\ ri.loki.password \in Cred \cup {None}
               /\ ri.loki.token \in Cred \cup {None}
<1> DEFINE ri == ResolveInstance(cfg, raw)
           topL == ApplyLoki(BuiltinLoki, cfg.loki)
           topE == ApplyEnforcement(BuiltinEnforcement, cfg.enforcement)
<1>1. /\ raw.name \in WrittenName /\ raw.tokens \in Seq(Written) /\ raw.filters \in Seq(DeclaredFilter)
      /\ raw.mcp \in Opt(BOOLEAN) /\ raw.proxy \in Opt(BOOLEAN)
      /\ raw.loki \in LokiOverride /\ cfg.loki \in LokiOverride
      /\ raw.enforcement \in EnforcementOverride /\ cfg.enforcement \in EnforcementOverride
  BY DEF Declaration, DeclaredInstance
<1>2. /\ BuiltinLoki.orgID = None /\ BuiltinLoki.username = None
      /\ BuiltinLoki.password = None /\ BuiltinLoki.token = None
      /\ BuiltinEnforcement.enforceLabelAPIs \in BOOLEAN /\ BuiltinEnforcement.discloseFilters \in BOOLEAN
  BY BuiltinAssumption
<1>3. ri.name \in Name \cup {None}
  BY <1>1, TrimAssumption DEF ResolveInstance
<1>4. ri.tokens \in Seq(Written) /\ ri.filters \in Seq(DeclaredFilter)
  BY <1>1 DEF ResolveInstance
<1>5. ri.mcp \in BOOLEAN /\ ri.proxy \in BOOLEAN
  <2>1. Or(raw.mcp, TRUE) \in BOOLEAN \cup BOOLEAN /\ Or(raw.proxy, FALSE) \in BOOLEAN \cup BOOLEAN
    BY <1>1, OrType
  <2> QED
    BY <2>1 DEF ResolveInstance
<1>6. ri.enforcement.enforceLabelAPIs \in BOOLEAN /\ ri.enforcement.discloseFilters \in BOOLEAN
  <2>1. topE.enforceLabelAPIs \in BOOLEAN /\ topE.discloseFilters \in BOOLEAN
    <3>1. /\ cfg.enforcement.enforceLabelAPIs \in Opt(BOOLEAN)
          /\ cfg.enforcement.discloseFilters \in Opt(BOOLEAN)
      BY <1>1 DEF EnforcementOverride
    <3>2. /\ Or(cfg.enforcement.enforceLabelAPIs, BuiltinEnforcement.enforceLabelAPIs) \in BOOLEAN \cup BOOLEAN
          /\ Or(cfg.enforcement.discloseFilters, BuiltinEnforcement.discloseFilters) \in BOOLEAN \cup BOOLEAN
      BY <1>2, <3>1, OrType
    <3> QED
      BY <3>2 DEF ApplyEnforcement
  <2>2. /\ raw.enforcement.enforceLabelAPIs \in Opt(BOOLEAN)
        /\ raw.enforcement.discloseFilters \in Opt(BOOLEAN)
    BY <1>1 DEF EnforcementOverride
  <2>3. /\ Or(raw.enforcement.enforceLabelAPIs, topE.enforceLabelAPIs) \in BOOLEAN \cup BOOLEAN
        /\ Or(raw.enforcement.discloseFilters, topE.discloseFilters) \in BOOLEAN \cup BOOLEAN
    BY <2>1, <2>2, OrType
  <2>4. ri.enforcement = ApplyEnforcement(topE, raw.enforcement)
    BY DEF ResolveInstance
  <2> HIDE DEF topE
  <2> QED
    BY <2>3, <2>4 DEF ApplyEnforcement
<1>7. ri.enforcement = [onConflict       |-> ri.enforcement.onConflict,
                        enforceLabelAPIs |-> ri.enforcement.enforceLabelAPIs,
                        discloseFilters  |-> ri.enforcement.discloseFilters]
  BY DEF ResolveInstance, ApplyEnforcement
<1>8. /\ ri.loki.orgID \in Org \cup {None} /\ ri.loki.username \in Cred \cup {None}
      /\ ri.loki.password \in Cred \cup {None} /\ ri.loki.token \in Cred \cup {None}
  <2>1. \A o \in LokiOverride :
           /\ o.orgID \in Opt(Org \cup {None}) /\ o.username \in Opt(Cred \cup {None})
           /\ o.password \in Opt(Cred \cup {None}) /\ o.token \in Opt(Cred \cup {None})
    BY DEF LokiOverride
  <2>2. \A S : \A opt \in Opt(S), fallback \in S : Or(opt, fallback) \in S
    BY OrType
  <2>3. /\ topL.orgID \in Org \cup {None} /\ topL.username \in Cred \cup {None}
        /\ topL.password \in Cred \cup {None} /\ topL.token \in Cred \cup {None}
    BY <1>1, <1>2, <2>1, <2>2 DEF ApplyLoki
  <2>4. ri.loki = ApplyLoki(topL, raw.loki)
    BY DEF ResolveInstance
  <2> HIDE DEF topL
  <2> QED
    BY <1>1, <2>1, <2>2, <2>3, <2>4 DEF ApplyLoki
<1> QED
  BY <1>3, <1>4, <1>5, <1>6, <1>7, <1>8

\* What the filters' checks let through is a set of well-formed filters, one to a label.
LEMMA FiltersFit ==
    ASSUME NEW filters \in Seq(DeclaredFilter), FiltersOK(filters)
    PROVE  /\ Range(filters) \subseteq Filter /\ Range(filters) # {}
           /\ \A f, g \in Range(filters) : f.label = g.label => f = g
           /\ IsInjective([k \in DOMAIN filters |-> filters[k].label])
<1>1. /\ filters # << >>
      /\ \A i \in DOMAIN filters :
            /\ filters[i].label \in Label
            /\ \A k \in 1 .. i - 1 : filters[k].label # filters[i].label
            /\ filters[i].values # << >>
            /\ \A j \in DOMAIN filters[i].values : filters[i].values[j] # Empty
  BY DEF FiltersOK
<1>2. Len(filters) \in Nat /\ DOMAIN filters = 1 .. Len(filters) /\ Len(filters) # 0
  BY <1>1
<1>3. \A i \in DOMAIN filters : filters[i] \in Filter
  <2> SUFFICES ASSUME NEW i \in DOMAIN filters
               PROVE  filters[i] \in Filter
    OBVIOUS
  <2>1. filters[i] \in DeclaredFilter
    BY <1>2
  <2>2. filters[i].values \in Seq(LabelValue)
    BY <2>1 DEF DeclaredFilter
  <2>3. \A j \in DOMAIN filters[i].values : filters[i].values[j] \in Value
    BY <1>1, <2>2 DEF LabelValue
  <2>4. filters[i].values \in Seq(Value)
    BY <2>2, <2>3
  <2> QED
    BY <1>1, <2>1, <2>4 DEF Filter, DeclaredFilter
<1>4. \A i, k \in DOMAIN filters : filters[i].label = filters[k].label => i = k
  <2> SUFFICES ASSUME NEW i \in DOMAIN filters, NEW k \in DOMAIN filters, i < k
               PROVE  filters[i].label # filters[k].label
    BY <1>2
  <2>1. i \in 1 .. k - 1
    BY <1>2
  <2> QED
    BY <1>1, <2>1
<1>5. \A f \in Range(filters) : \E i \in DOMAIN filters : f = filters[i]
  BY DEF Range
<1>6. filters[1] \in Range(filters)
  BY <1>2 DEF Range
<1> QED
  BY <1>3, <1>4, <1>5, <1>6 DEF IsInjective

\* An instance that validate accepts is one the gateway can serve, whatever the names
\* and tokens that were seen before it.
LEMMA AcceptedIsFit ==
    ASSUME NEW raw \in DeclaredInstance, file \in File, NEW names, NEW tokens,
           ValidateInstance(raw, ResolveInstance(file.cfg, raw), names, tokens)
    PROVE  Fit(raw)
<1> DEFINE ri == ResolveInstance(file.cfg, raw)
           in == Build(ri)
<1>1. file.cfg \in Declaration
  BY DEF File
<1>2. /\ ri.name \in Name \cup {None} /\ ri.tokens \in Seq(Written) /\ ri.filters \in Seq(DeclaredFilter)
      /\ ri.mcp \in BOOLEAN /\ ri.proxy \in BOOLEAN
      /\ ri.enforcement.enforceLabelAPIs \in BOOLEAN /\ ri.enforcement.discloseFilters \in BOOLEAN
      /\ ri.enforcement = [onConflict       |-> ri.enforcement.onConflict,
                           enforceLabelAPIs |-> ri.enforcement.enforceLabelAPIs,
                           discloseFilters  |-> ri.enforcement.discloseFilters]
      /\ ri.loki.orgID \in Org \cup {None} /\ ri.loki.username \in Cred \cup {None}
      /\ ri.loki.password \in Cred \cup {None} /\ ri.loki.token \in Cred \cup {None}
  BY <1>1, ResolvedTypes
<1>3. ri.name # None /\ raw.authType = "bearer" /\ ri.tokens # << >> /\ (ri.mcp \/ ri.proxy)
  BY DEF ValidateInstance, NameOK, AuthOK, SurfaceOK
<1>4. \A j \in DOMAIN ri.tokens : ri.tokens[j] \in Token
  BY DEF ValidateInstance, AuthOK
<1>5. /\ ri.loki.url \in Url /\ ri.loki.timeout > 0 /\ ri.enforcement.onConflict \in Mode
      /\ ri.defaults.limit > 0 /\ ri.defaults.since > 0 /\ FiltersOK(ri.filters)
  BY DEF ValidateInstance, ValidateResolved, UpstreamOK
<1> HIDE DEF ri
<1>6. Range(ri.tokens) \subseteq Token /\ Range(ri.tokens) # {}
  <2>1. \A t \in Range(ri.tokens) : \E j \in DOMAIN ri.tokens : t = ri.tokens[j]
    BY DEF Range
  <2>2. 1 \in DOMAIN ri.tokens
    BY <1>2, <1>3
  <2> QED
    BY <1>4, <2>1, <2>2 DEF Range
<1>7. /\ Range(ri.filters) \subseteq Filter /\ Range(ri.filters) # {}
      /\ \A f, g \in Range(ri.filters) : f.label = g.label => f = g
      /\ IsInjective([k \in DOMAIN ri.filters |-> ri.filters[k].label])
  BY <1>2, <1>5, FiltersFit
<1>8. ri.enforcement \in Enforcement
  <2> DEFINE m == ri.enforcement.onConflict
             e == ri.enforcement.enforceLabelAPIs
             d == ri.enforcement.discloseFilters
  <2>1. m \in Mode /\ e \in BOOLEAN /\ d \in BOOLEAN
    BY <1>2, <1>5
  <2>2. ri.enforcement = [onConflict |-> m, enforceLabelAPIs |-> e, discloseFilters |-> d]
    BY <1>2
  <2> HIDE DEF m, e, d
  <2>3. [onConflict |-> m, enforceLabelAPIs |-> e, discloseFilters |-> d] \in Enforcement
    BY <2>1 DEF Enforcement
  <2> QED
    BY <2>2, <2>3
<1>9. in.loki \in LokiConfig
  BY <1>2, <1>5 DEF Build, LokiConfig
<1>10. in \in ResolvedInstance
  <2>1. in = [tokens |-> in.tokens, mcp |-> in.mcp, proxy |-> in.proxy, filters |-> in.filters,
              enforcement |-> in.enforcement, loki |-> in.loki]
    BY DEF Build
  <2>2. /\ in.tokens \in SUBSET Token /\ in.filters \in SUBSET Filter /\ in.enforcement \in Enforcement
        /\ in.mcp \in BOOLEAN /\ in.proxy \in BOOLEAN
    BY <1>2, <1>6, <1>7, <1>8 DEF Build
  <2> HIDE DEF in
  <2> QED
    BY <1>9, <2>1, <2>2 DEF ResolvedInstance
<1>11. Valid(in)
  BY <1>3, <1>6, <1>7 DEF Valid, Build
<1>12. in \in Instance
  BY <1>10, <1>11 DEF Instance
<1> QED
  BY <1>2, <1>3, <1>5, <1>7, <1>12 DEF Fit, ri

-----------------------------------------------------------------------------
(* The invariant. *)

Stages == {"validating", "building", "indexing"}
Loaded == at \in Stages \cup {"serving"}

\* How many instances have been checked, and how many indexed.
Checked == IF at = "validating" THEN next - 1 ELSE Len(Declared)
Indexed == IF at = "indexing" THEN next - 1 ELSE IF at = "serving" THEN Len(Declared) ELSE 0

LoadInv ==
    /\ file \in File
    /\ at \in Stages \cup {"loading", "serving", "failed"}
    /\ at = "loading" => resolved = << >> /\ next = 1 /\ built = << >> /\ index = << >>
    /\ Loaded => Declared # << >> /\ resolved = ResolveAll(file.cfg)
    /\ at \in Stages => next \in DOMAIN Declared

\* validate's sets hold all that was seen, so that what it lets through is acceptable.
CheckedInv ==
    Loaded =>
        /\ Acceptable(Checked)
        /\ \A i \in 1 .. Checked : Trim(Declared[i].name) \in seenName
        /\ \A p \in Places(Checked) : TokenAt(p) \in seenToken

BuiltInv ==
    /\ at = "validating" => built = << >>
    /\ at = "building" => DOMAIN built = 1 .. next - 1
    /\ at \in {"indexing", "serving"} => DOMAIN built = DOMAIN Declared
    /\ Loaded => \A i \in DOMAIN built : built[i] = Build(resolved[i])

\* The index holds the tokens of the instances indexed so far, and nothing else.
IndexInv ==
    Loaded =>
        /\ DigestsApart(Indexed)
        /\ index = [h \in DOMAIN index |-> index[h]]
        /\ DOMAIN index = { Digest(TokenAt(p)) : p \in Places(Indexed) }
        /\ \A p \in Places(Indexed) :
              index[Digest(TokenAt(p))] = [token |-> TokenAt(p), value |-> Trim(Declared[p[1]].name)]

IInv == LoadInv /\ CheckedInv /\ BuiltInv /\ IndexInv

\* The instances of a file, and what each is resolved to.
LEMMA DeclaredTypes ==
    ASSUME file \in File
    PROVE  /\ Declared \in Seq(DeclaredInstance)
           /\ DOMAIN Declared = 1 .. Len(Declared) /\ Len(Declared) \in Nat
           /\ \A i \in DOMAIN Declared :
                 /\ Declared[i] \in DeclaredInstance
                 /\ Declared[i].tokens \in Seq(Written)
                 /\ DOMAIN Declared[i].tokens = 1 .. Len(Declared[i].tokens)
           /\ DOMAIN ResolveAll(file.cfg) = DOMAIN Declared
           /\ Len(ResolveAll(file.cfg)) = Len(Declared)
           /\ \A i \in DOMAIN Declared :
                 LET ri == ResolveAll(file.cfg)[i]
                 IN  /\ ri = ResolveInstance(file.cfg, Declared[i])
                     /\ ri.name = Trim(Declared[i].name) /\ ri.tokens = Declared[i].tokens
<1>1. Declared \in Seq(DeclaredInstance)
  BY DEF File, Declaration, Declared
<1>2. DOMAIN Declared = 1 .. Len(Declared) /\ Len(Declared) \in Nat
  BY <1>1
<1>3. \A i \in DOMAIN Declared : Declared[i] \in DeclaredInstance
  BY <1>1
<1>4. \A i \in DOMAIN Declared : Declared[i].tokens \in Seq(Written)
  BY <1>3 DEF DeclaredInstance
<1>5. \A i \in DOMAIN Declared : DOMAIN Declared[i].tokens = 1 .. Len(Declared[i].tokens)
  BY <1>4
<1>6. ResolveAll(file.cfg) = [i \in 1 .. Len(Declared) |-> ResolveInstance(file.cfg, Declared[i])]
  BY <1>2 DEF ResolveAll, Declared
<1>7. Len(ResolveAll(file.cfg)) = Len(Declared)
  BY <1>2, <1>6
<1>8. \A i \in DOMAIN Declared :
         LET ri == ResolveAll(file.cfg)[i]
         IN  /\ ri = ResolveInstance(file.cfg, Declared[i])
             /\ ri.name = Trim(Declared[i].name) /\ ri.tokens = Declared[i].tokens
  BY <1>2, <1>6 DEF ResolveInstance
<1> QED
  BY <1>1, <1>2, <1>3, <1>4, <1>5, <1>6, <1>7, <1>8

\* A place is an instance and a position in its list of tokens.
LEMMA PlacesOf ==
    ASSUME NEW n
    PROVE  \A p : p \in Places(n) <=>
                     \E i \in 1 .. n : \E j \in DOMAIN Declared[i].tokens : p = <<i, j>>
  BY DEF Places

\* One more instance adds the places of its own tokens.
LEMMA PlacesGrow ==
    ASSUME NEW n \in Nat
    PROVE  /\ Places(0) = {}
           /\ Places(n + 1) = Places(n) \cup ({n + 1} \X DOMAIN Declared[n + 1].tokens)
<1>1. 1 .. n + 1 = (1 .. n) \cup {n + 1} /\ 1 .. 0 = {}
  OBVIOUS
<1> QED
  BY <1>1 DEF Places

\* One more instance that validate accepts makes one more that is acceptable.
LEMMA AcceptNext ==
    ASSUME file \in File, NEW n \in Nat, n + 1 \in DOMAIN Declared, Acceptable(n),
           \A i \in 1 .. n : Trim(Declared[i].name) \in seenName,
           \A p \in Places(n) : TokenAt(p) \in seenToken,
           ValidateInstance(Declared[n + 1], ResolveInstance(file.cfg, Declared[n + 1]), seenName, seenToken)
    PROVE  Acceptable(n + 1)
<1> DEFINE raw == Declared[n + 1]
           ri == ResolveInstance(file.cfg, raw)
<1>1. raw \in DeclaredInstance /\ ri.name = Trim(raw.name) /\ ri.tokens = raw.tokens
      /\ DOMAIN raw.tokens = 1 .. Len(raw.tokens) /\ Len(raw.tokens) \in Nat
  BY DeclaredTypes
<1>2. Fit(raw)
  BY <1>1, AcceptedIsFit
<1>3. \A i \in 1 .. n : Trim(Declared[i].name) # Trim(raw.name)
  BY <1>1 DEF ValidateInstance, NameOK
<1>4. \A j \in DOMAIN raw.tokens :
         /\ raw.tokens[j] \notin seenToken
         /\ \A k \in 1 .. j - 1 : raw.tokens[k] # raw.tokens[j]
  BY <1>1 DEF ValidateInstance, AuthOK
<1>5. \A j, k \in DOMAIN raw.tokens : raw.tokens[j] = raw.tokens[k] => j = k
  <2> SUFFICES ASSUME NEW j \in DOMAIN raw.tokens, NEW k \in DOMAIN raw.tokens, k < j
               PROVE  raw.tokens[j] # raw.tokens[k]
    BY <1>1
  <2> QED
    BY <1>1, <1>4
<1>6. \A p \in {n + 1} \X DOMAIN raw.tokens :
         p[1] = n + 1 /\ p[2] \in DOMAIN raw.tokens /\ p = <<n + 1, p[2]>> /\ TokenAt(p) = raw.tokens[p[2]]
  BY DEF TokenAt
<1>7. \A p, q \in Places(n + 1) : TokenAt(p) = TokenAt(q) => p = q
  <2> SUFFICES ASSUME NEW p \in Places(n + 1), NEW q \in Places(n + 1), TokenAt(p) = TokenAt(q)
               PROVE  p = q
    OBVIOUS
  <2> DEFINE own == {n + 1} \X DOMAIN raw.tokens
  <2>1. /\ p \in Places(n) \/ p \in own
        /\ q \in Places(n) \/ q \in own
    BY PlacesGrow
  <2>2. CASE p \in Places(n) /\ q \in Places(n)
    BY <2>2 DEF Acceptable
  <2>3. \A x \in Places(n), y \in own : TokenAt(x) # TokenAt(y)
    BY <1>4, <1>6
  <2>4. CASE p \in own /\ q \in own
    BY <1>5, <1>6, <2>4
  <2> QED
    BY <2>1, <2>2, <2>3, <2>4
<1>8. 1 .. n + 1 = (1 .. n) \cup {n + 1}
  OBVIOUS
<1> QED
  BY <1>2, <1>3, <1>7, <1>8 DEF Acceptable

\* A start begins in the invariant.
LEMMA InitIInv == Init => IInv
<1> SUFFICES ASSUME Init
             PROVE  IInv
  OBVIOUS
<1>1. file \in File /\ at = "loading"
  BY FilesAssumption DEF Init
<1> QED
  BY <1>1 DEF Init, IInv, LoadInv, CheckedInv, BuiltInv, IndexInv, Loaded, Stages

\* Failing leaves nothing to be said of what was loaded.
LEMMA FailKeeps ==
    ASSUME IInv, NEW where, Fail(where)
    PROVE  IInv'
  BY DEF Fail, IInv, LoadInv, CheckedInv, BuiltInv, IndexInv, Loaded, Stages

\* A file just loaded has nothing checked yet.
LEMMA LoadKeeps ==
    ASSUME IInv, Load
    PROVE  IInv'
<1>1. /\ file' = file /\ file \in File /\ at = "loading" /\ at' = "validating" /\ Declared # << >>
      /\ resolved' = ResolveAll(file.cfg) /\ next = 1 /\ next' = 1 /\ built' = << >> /\ index' = << >>
  BY DEF Load, IInv, LoadInv, Declared
<1>2. Declared' = Declared /\ 1 \in DOMAIN Declared
  BY <1>1, DeclaredTypes DEF Declared
<1>3. LoadInv'
  BY <1>1, <1>2 DEF LoadInv, Loaded, Stages
<1>4. Checked' = 0 /\ Indexed' = 0
  BY <1>1 DEF Checked, Indexed
<1>5. \A p : p \notin Places(0)'
  BY PlacesGrow, <1>1 DEF Places, Declared
<1>6. Acceptable(0)' /\ DigestsApart(0)'
  BY <1>5 DEF Acceptable, DigestsApart
<1>7. CheckedInv'
  BY <1>4, <1>5, <1>6 DEF CheckedInv
<1>8. IndexInv'
  BY <1>1, <1>4, <1>5, <1>6 DEF IndexInv
<1>9. BuiltInv'
  BY <1>1 DEF BuiltInv
<1> QED
  BY <1>3, <1>7, <1>8, <1>9 DEF IInv

\* What depends on the file alone does not change when the file does not.
LEMMA FileKept ==
    ASSUME file' = file
    PROVE  /\ Declared' = Declared
           /\ \A n : Places(n)' = Places(n) /\ Acceptable(n)' = Acceptable(n) /\ DigestsApart(n)' = DigestsApart(n)
           /\ \A p : TokenAt(p)' = TokenAt(p)
<1>1. Declared' = Declared
  BY DEF Declared
<1>2. \A n : Places(n)' = Places(n)
  BY <1>1 DEF Places
<1>3. \A p : TokenAt(p)' = TokenAt(p)
  BY <1>1 DEF TokenAt
<1>4. \A raw : Fit(raw)' = Fit(raw)
  BY DEF Fit
<1> QED
  BY <1>1, <1>2, <1>3, <1>4 DEF Acceptable, DigestsApart

\* The loop's step: the next instance, or the first of the next stage.
LEMMA AdvanceSteps ==
    ASSUME IInv, at \in Stages, NEW stage, Advance(stage)
    PROVE  /\ file' = file /\ resolved' = resolved /\ file \in File
           /\ resolved = ResolveAll(file.cfg) /\ Declared # << >>
           /\ next \in DOMAIN Declared /\ next \in Nat \ {0} /\ Len(Declared) \in Nat \ {0}
           /\ DOMAIN Declared = 1 .. Len(Declared)
           /\ \/ next' = next + 1 /\ at' = at /\ next < Len(Declared)
              \/ next' = 1 /\ at' = stage /\ next = Len(Declared)
           /\ next' \in DOMAIN Declared
<1>1. /\ file \in File /\ resolved = ResolveAll(file.cfg) /\ Declared # << >> /\ next \in DOMAIN Declared
  BY DEF IInv, LoadInv, Loaded
<1>2. /\ DOMAIN Declared = 1 .. Len(Declared) /\ Len(Declared) \in Nat /\ Len(resolved) = Len(Declared)
  BY <1>1, DeclaredTypes
<1> QED
  BY <1>1, <1>2 DEF Advance

\* An instance that validate accepts joins those that are acceptable together.
LEMMA ValidateKeeps ==
    ASSUME IInv, Validate
    PROVE  IInv'
<1>1. at = "validating" /\ Advance("building") /\ at \in Stages
  BY DEF Validate, Stages
<1>2. /\ file' = file /\ resolved' = resolved /\ file \in File
      /\ resolved = ResolveAll(file.cfg) /\ Declared # << >>
      /\ next \in DOMAIN Declared /\ next \in Nat \ {0} /\ Len(Declared) \in Nat \ {0}
      /\ DOMAIN Declared = 1 .. Len(Declared)
      /\ \/ next' = next + 1 /\ at' = at /\ next < Len(Declared)
         \/ next' = 1 /\ at' = "building" /\ next = Len(Declared)
      /\ next' \in DOMAIN Declared
  BY <1>1, AdvanceSteps
<1>3. Checked = next - 1 /\ Checked' = next
  BY <1>1, <1>2, FileKept DEF Checked
<1>4. Indexed = 0 /\ Indexed' = 0
  BY <1>1, <1>2 DEF Indexed
<1>5. LoadInv'
  BY <1>1, <1>2, FileKept DEF LoadInv, Loaded, Stages
<1>6. Cur = ResolveInstance(file.cfg, Declared[next]) /\ Raw = Declared[next]
      /\ Cur.name = Trim(Declared[next].name) /\ Cur.tokens = Declared[next].tokens
  BY <1>2, DeclaredTypes DEF Cur, Raw, Declared
<1>7. /\ Acceptable(next - 1)
      /\ \A i \in 1 .. next - 1 : Trim(Declared[i].name) \in seenName
      /\ \A p \in Places(next - 1) : TokenAt(p) \in seenToken
  BY <1>1, <1>3 DEF IInv, CheckedInv, Loaded
<1>8. Acceptable(next)
  <2>1. ValidateInstance(Declared[next], ResolveInstance(file.cfg, Declared[next]), seenName, seenToken)
    BY <1>6 DEF Validate
  <2>2. next - 1 \in Nat /\ (next - 1) + 1 = next
    BY <1>2
  <2> QED
    BY <1>2, <1>7, <2>1, <2>2, AcceptNext
<1>9. \A i \in 1 .. next : Trim(Declared[i].name) \in seenName'
  <2>1. seenName' = seenName \cup {Trim(Declared[next].name)}
    BY <1>6 DEF Validate
  <2> QED
    BY <1>2, <1>7, <2>1
<1>10. \A p \in Places(next) : TokenAt(p) \in seenToken'
  <2>1. seenToken' = seenToken \cup Range(Declared[next].tokens)
    BY <1>6 DEF Validate
  <2>2. Places(next) = Places(next - 1) \cup ({next} \X DOMAIN Declared[next].tokens)
    <3>1. next - 1 \in Nat /\ (next - 1) + 1 = next
      BY <1>2
    <3> QED
      BY <3>1, PlacesGrow
  <2>3. \A p \in {next} \X DOMAIN Declared[next].tokens : TokenAt(p) \in Range(Declared[next].tokens)
    BY DEF TokenAt, Range
  <2> QED
    BY <1>7, <2>1, <2>2, <2>3
<1>11. CheckedInv'
  BY <1>2, <1>3, <1>8, <1>9, <1>10, FileKept DEF CheckedInv
<1>12. BuiltInv' /\ IndexInv'
  <2>1. built' = built /\ index' = index /\ built = << >>
    BY <1>1 DEF Validate, IInv, BuiltInv
  <2>2. BuiltInv'
    BY <1>1, <1>2, <2>1 DEF BuiltInv
  <2> QED
    BY <1>1, <1>2, <1>4, <2>1, <2>2, FileKept DEF IInv, IndexInv, Loaded, Stages
<1> QED
  BY <1>5, <1>11, <1>12 DEF IInv

\* BuildAll adds the instance the loop has come to.
LEMMA BuildKeeps ==
    ASSUME IInv, BuildOne
    PROVE  IInv'
<1>1. at = "building" /\ Advance("indexing") /\ at \in Stages
  BY DEF BuildOne, Stages
<1>2. /\ file' = file /\ resolved' = resolved /\ file \in File
      /\ resolved = ResolveAll(file.cfg) /\ Declared # << >>
      /\ next \in DOMAIN Declared /\ next \in Nat \ {0} /\ Len(Declared) \in Nat \ {0}
      /\ DOMAIN Declared = 1 .. Len(Declared)
      /\ \/ next' = next + 1 /\ at' = at /\ next < Len(Declared)
         \/ next' = 1 /\ at' = "indexing" /\ next = Len(Declared)
      /\ next' \in DOMAIN Declared
  BY <1>1, AdvanceSteps
<1>3. Checked = Len(Declared) /\ Checked' = Len(Declared) /\ Indexed = 0 /\ Indexed' = 0
  BY <1>1, <1>2, FileKept DEF Checked, Indexed
<1>4. seenName' = seenName /\ seenToken' = seenToken /\ index' = index
  BY DEF BuildOne
<1>5. LoadInv' /\ CheckedInv' /\ IndexInv'
  <2>1. LoadInv'
    BY <1>1, <1>2, FileKept DEF LoadInv, Loaded, Stages
  <2>2. CheckedInv'
    BY <1>1, <1>2, <1>3, <1>4, FileKept DEF IInv, CheckedInv, Loaded, Stages
  <2> QED
    BY <1>1, <1>2, <1>3, <1>4, <2>1, <2>2, FileKept DEF IInv, IndexInv, Loaded, Stages
<1>6. BuiltInv'
  <2>1. DOMAIN built = 1 .. next - 1 /\ \A i \in DOMAIN built : built[i] = Build(resolved[i])
    BY <1>1 DEF IInv, BuiltInv, Loaded, Stages
  <2>2. built' = Append(built, Build(resolved[next]))
    BY DEF BuildOne, Cur
  <2>3. Len(built) = next - 1
    BY <2>1, <1>2
  <2>4. /\ DOMAIN built' = 1 .. next
        /\ \A i \in DOMAIN built' : built'[i] = Build(resolved[i])
    BY <1>2, <2>1, <2>2, <2>3
  <2> QED
    BY <1>1, <1>2, <2>4, FileKept DEF BuiltInv
<1> QED
  BY <1>5, <1>6 DEF IInv

\* The index takes in the tokens of one more instance, all of which are new to it.
LEMMA IndexKeeps ==
    ASSUME IInv, IndexOne
    PROVE  IInv'
<1>1. at = "indexing" /\ Advance("serving") /\ at \in Stages
  BY DEF IndexOne, Stages
<1>2. /\ file' = file /\ resolved' = resolved /\ file \in File
      /\ resolved = ResolveAll(file.cfg) /\ Declared # << >>
      /\ next \in DOMAIN Declared /\ next \in Nat \ {0} /\ Len(Declared) \in Nat \ {0}
      /\ DOMAIN Declared = 1 .. Len(Declared)
      /\ \/ next' = next + 1 /\ at' = at /\ next < Len(Declared)
         \/ next' = 1 /\ at' = "serving" /\ next = Len(Declared)
      /\ next' \in DOMAIN Declared
  BY <1>1, AdvanceSteps
<1>3. Checked = Len(Declared) /\ Checked' = Len(Declared) /\ Indexed = next - 1 /\ Indexed' = next
  BY <1>1, <1>2, FileKept DEF Checked, Indexed
<1>4. seenName' = seenName /\ seenToken' = seenToken /\ built' = built
  BY DEF IndexOne
<1>5. LoadInv' /\ CheckedInv' /\ BuiltInv'
  <2>1. LoadInv'
    BY <1>1, <1>2, FileKept DEF LoadInv, Loaded, Stages
  <2>2. CheckedInv'
    BY <1>1, <1>2, <1>3, <1>4, FileKept DEF IInv, CheckedInv, Loaded, Stages
  <2>3. BuiltInv'
    BY <1>1, <1>2, <1>4, FileKept DEF IInv, BuiltInv, Loaded, Stages
  <2> QED
    BY <2>1, <2>2, <2>3
<1> DEFINE own == {next} \X DOMAIN Declared[next].tokens
           toks == Declared[next].tokens
<1>6. Cur.name = Trim(Declared[next].name) /\ Cur.tokens = toks
  BY <1>2, DeclaredTypes DEF Cur
<1>7. Places(next) = Places(next - 1) \cup own
  <2>1. next - 1 \in Nat /\ (next - 1) + 1 = next
    BY <1>2
  <2> QED
    BY <2>1, PlacesGrow
<1>8. /\ DigestsApart(next - 1)
      /\ DOMAIN index = { Digest(TokenAt(p)) : p \in Places(next - 1) }
      /\ \A p \in Places(next - 1) :
            index[Digest(TokenAt(p))] = [token |-> TokenAt(p), value |-> Trim(Declared[p[1]].name)]
  BY <1>1, <1>3 DEF IInv, IndexInv, Loaded
<1>9. /\ Digests \cap DOMAIN index = {}
      /\ \A j, k \in DOMAIN toks : Digest(toks[j]) = Digest(toks[k]) => j = k
  BY <1>6 DEF IndexOne, Clashes
<1>10. /\ \A p \in own : p[1] = next /\ p[2] \in DOMAIN toks /\ p = <<next, p[2]>> /\ TokenAt(p) = toks[p[2]]
       /\ \A j \in DOMAIN toks : <<next, j>> \in own /\ TokenAt(<<next, j>>) = toks[j]
  BY DEF TokenAt
<1>11. Digests = { Digest(TokenAt(p)) : p \in own }
  <2>1. Digests = { Digest(t) : t \in Range(toks) }
    BY <1>6 DEF Digests
  <2>2. \A t : t \in Range(toks) <=> \E j \in DOMAIN toks : t = toks[j]
    BY DEF Range
  <2>3. \A h \in Digests : \E p \in own : h = Digest(TokenAt(p))
    <3> SUFFICES ASSUME NEW h \in Digests
                 PROVE  \E p \in own : h = Digest(TokenAt(p))
      OBVIOUS
    <3>1. PICK t \in Range(toks) : h = Digest(t)
      BY <2>1
    <3>2. PICK j \in DOMAIN toks : t = toks[j]
      BY <2>2, <3>1
    <3> HIDE DEF own, toks
    <3> QED
      BY <1>10, <3>1, <3>2
  <2>4. \A p \in own : TokenAt(p) \in Range(toks)
    BY <1>10, <2>2
  <2>5. \A p \in own : Digest(TokenAt(p)) \in Digests
    BY <2>1, <2>4
  <2> HIDE DEF own
  <2> QED
    BY <2>3, <2>5
<1>12. DOMAIN index' = { Digest(TokenAt(p)) : p \in Places(next) }
  <2>1. DOMAIN index' = DOMAIN index \cup Digests
    BY DEF IndexOne
  <2> HIDE DEF own
  <2> QED
    BY <1>7, <1>8, <1>11, <2>1
<1>13. DigestsApart(next)
  <2> SUFFICES ASSUME NEW p \in Places(next), NEW q \in Places(next), Digest(TokenAt(p)) = Digest(TokenAt(q))
               PROVE  p = q
    BY DEF DigestsApart
  <2>1. CASE p \in Places(next - 1) /\ q \in Places(next - 1)
    BY <1>8, <2>1 DEF DigestsApart
  <2>2. \A x \in Places(next - 1), y \in own : Digest(TokenAt(x)) # Digest(TokenAt(y))
    BY <1>8, <1>9, <1>11
  <2>3. CASE p \in own /\ q \in own
    BY <1>9, <1>10, <2>3
  <2> QED
    BY <1>7, <2>1, <2>2, <2>3
<1>14. \A p \in Places(next) :
          index'[Digest(TokenAt(p))] = [token |-> TokenAt(p), value |-> Trim(Declared[p[1]].name)]
  <2> SUFFICES ASSUME NEW p \in Places(next)
               PROVE  index'[Digest(TokenAt(p))] = [token |-> TokenAt(p), value |-> Trim(Declared[p[1]].name)]
    OBVIOUS
  <2>1. index' = [h \in DOMAIN index \cup Digests |->
                     IF h \in Digests
                       THEN [token |-> CHOOSE t \in Range(toks) : Digest(t) = h, value |-> Cur.name]
                       ELSE index[h]]
    BY <1>6 DEF IndexOne
  <2>2. CASE p \in Places(next - 1)
    <3>1. Digest(TokenAt(p)) \in DOMAIN index /\ Digest(TokenAt(p)) \notin Digests
      BY <1>8, <1>9, <2>2
    <3> QED
      BY <1>8, <2>1, <2>2, <3>1
  <2>3. CASE p \in own
    <3>1. TokenAt(p) \in Range(toks) /\ Digest(TokenAt(p)) \in Digests
      BY <1>10, <1>11, <2>3 DEF Range
    <3>2. \A t \in Range(toks) : Digest(t) = Digest(TokenAt(p)) => t = TokenAt(p)
      BY <1>9, <1>10, <2>3 DEF Range
    <3>3. (CHOOSE t \in Range(toks) : Digest(t) = Digest(TokenAt(p))) = TokenAt(p)
      BY <3>1, <3>2
    <3>4. Cur.name = Trim(Declared[p[1]].name)
      BY <1>6, <1>10, <2>3
    <3> QED
      BY <2>1, <3>1, <3>3, <3>4
  <2> QED
    BY <1>7, <2>2, <2>3
<1>15. index' = [h \in DOMAIN index' |-> index'[h]]
  BY DEF IndexOne
<1>16. IndexInv'
  BY <1>2, <1>3, <1>12, <1>13, <1>14, <1>15, FileKept DEF IndexInv
<1> QED
  BY <1>5, <1>16 DEF IInv

\* A step that changes nothing keeps the invariant.
LEMMA StutterKeeps ==
    ASSUME IInv, UNCHANGED vars
    PROVE  IInv'
<1>1. file' = file /\ at' = at /\ resolved' = resolved /\ next' = next /\ seenName' = seenName
      /\ seenToken' = seenToken /\ built' = built /\ index' = index
  BY DEF vars
<1>2. Loaded' = Loaded /\ Checked' = Checked /\ Indexed' = Indexed
  BY <1>1, FileKept DEF Loaded, Checked, Indexed
<1>3. LoadInv' /\ BuiltInv'
  BY <1>1, <1>2, FileKept DEF IInv, LoadInv, BuiltInv
<1>4. CheckedInv'
  BY <1>1, <1>2, FileKept DEF IInv, CheckedInv
<1>5. IndexInv'
  BY <1>1, <1>2, FileKept DEF IInv, IndexInv
<1> QED
  BY <1>3, <1>4, <1>5 DEF IInv

\* Every step keeps the invariant.
LEMMA StepKeeps == IInv /\ [Next]_vars => IInv'
<1> SUFFICES ASSUME IInv, [Next]_vars
             PROVE  IInv'
  OBVIOUS
<1>1. CASE LoadFails
  BY <1>1, FailKeeps DEF LoadFails
<1>2. CASE Load
  BY <1>2, LoadKeeps
<1>3. CASE Refuse
  BY <1>3, FailKeeps DEF Refuse
<1>4. CASE Validate
  BY <1>4, ValidateKeeps
<1>5. CASE BuildOne
  BY <1>5, BuildKeeps
<1>6. CASE IndexFails
  BY <1>6, FailKeeps DEF IndexFails
<1>7. CASE IndexOne
  BY <1>7, IndexKeeps
<1>8. CASE UNCHANGED vars
  BY <1>8, StutterKeeps
<1> QED
  BY <1>1, <1>2, <1>3, <1>4, <1>5, <1>6, <1>7, <1>8 DEF Next

\* What the invariant says of a file that is served.
LEMMA ServedSound ==
    ASSUME IInv
    PROVE  StartsOnlySound
<1> SUFFICES ASSUME at = "serving"
             PROVE  /\ Acceptable(Len(Declared))
                    /\ \A i \in DOMAIN Declared :
                          LET ri == ResolveInstance(file.cfg, Declared[i])
                          IN  ri.name \in DOMAIN Deployed /\ Deployed[ri.name] = Build(ri)
                    /\ Deployable(Deployed) /\ Indexable(Deployed) /\ index = NewIndex(Deployed)
  BY DEF StartsOnlySound
<1> DEFINE N == Len(Declared)
           nm(i) == Trim(Declared[i].name)
           res(i) == ResolveInstance(file.cfg, Declared[i])
<1>1. /\ file \in File /\ Declared # << >> /\ resolved = ResolveAll(file.cfg)
      /\ Acceptable(N) /\ DOMAIN built = DOMAIN Declared
      /\ \A i \in DOMAIN built : built[i] = Build(resolved[i])
      /\ DigestsApart(N)
      /\ index = [h \in DOMAIN index |-> index[h]]
      /\ DOMAIN index = { Digest(TokenAt(p)) : p \in Places(N) }
      /\ \A p \in Places(N) : index[Digest(TokenAt(p))] = [token |-> TokenAt(p), value |-> nm(p[1])]
  BY DEF IInv, LoadInv, CheckedInv, BuiltInv, IndexInv, Loaded, Stages, Checked, Indexed
<1>2. /\ DOMAIN Declared = 1 .. N /\ N \in Nat \ {0}
      /\ \A i \in 1 .. N : /\ resolved[i] = res(i) /\ resolved[i].name = nm(i)
                           /\ res(i).tokens = Declared[i].tokens
                           /\ built[i] = Build(res(i))
  BY <1>1, DeclaredTypes
<1>3. /\ \A i \in 1 .. N : Fit(Declared[i])
      /\ \A i, j \in 1 .. N : nm(i) = nm(j) => i = j
      /\ \A p, q \in Places(N) : TokenAt(p) = TokenAt(q) => p = q
  BY <1>1 DEF Acceptable
<1>4. \A i \in 1 .. N : nm(i) \in Name /\ Build(res(i)) \in Instance
  <2> SUFFICES ASSUME NEW i \in 1 .. N
               PROVE  nm(i) \in Name /\ Build(res(i)) \in Instance
    OBVIOUS
  <2>1. Fit(Declared[i])
    BY <1>3
  <2>2. res(i).name \in Name /\ Build(res(i)) \in Instance
    BY <2>1 DEF Fit
  <2>3. res(i).name = nm(i)
    BY DEF ResolveInstance
  <2> QED
    BY <2>2, <2>3
<1>5. /\ DOMAIN Deployed = { nm(i) : i \in 1 .. N }
      /\ \A i \in 1 .. N : Deployed[nm(i)] = Build(res(i))
  <2>1. DOMAIN Deployed = { resolved[i].name : i \in 1 .. N }
    BY <1>1, <1>2 DEF Deployed
  <2>2. DOMAIN Deployed = { nm(i) : i \in 1 .. N }
    BY <1>2, <2>1
  <2>3. ASSUME NEW i \in 1 .. N
        PROVE  Deployed[nm(i)] = Build(res(i))
    <3> DEFINE k == CHOOSE k \in DOMAIN built : resolved[k].name = nm(i)
    <3>1. k \in DOMAIN built /\ resolved[k].name = nm(i)
      BY <1>1, <1>2
    <3>2. k = i
      BY <1>1, <1>2, <1>3, <3>1
    <3>3. Deployed[nm(i)] = built[k]
      BY <2>2 DEF Deployed
    <3> QED
      BY <1>2, <3>2, <3>3
  <2> QED
    BY <2>2, <2>3
<1> HIDE DEF nm, res
<1>6. \A i \in 1 .. N : Deployed[nm(i)].tokens = Range(Declared[i].tokens)
  <2> SUFFICES ASSUME NEW i \in 1 .. N
               PROVE  Build(res(i)).tokens = Range(Declared[i].tokens)
    BY <1>5
  <2>1. Build(res(i)).tokens = Range(res(i).tokens)
    BY DEF Build
  <2> QED
    BY <1>2, <2>1
\* A token of an instance is at some place of it.
<1>7. \A i \in 1 .. N : \A t :
         t \in Deployed[nm(i)].tokens <=> \E p \in Places(N) : p[1] = i /\ TokenAt(p) = t
  <2> SUFFICES ASSUME NEW i \in 1 .. N, NEW t
               PROVE  t \in Range(Declared[i].tokens) <=> \E p \in Places(N) : p[1] = i /\ TokenAt(p) = t
    BY <1>6
  <2>1. ASSUME t \in Range(Declared[i].tokens)
        PROVE  \E p \in Places(N) : p[1] = i /\ TokenAt(p) = t
    <3>1. PICK j \in DOMAIN Declared[i].tokens : t = Declared[i].tokens[j]
      BY <2>1 DEF Range
    <3>2. <<i, j>> \in Places(N) /\ TokenAt(<<i, j>>) = t
      BY <3>1, PlacesOf DEF TokenAt
    <3> QED
      BY <3>2
  <2>2. ASSUME NEW p \in Places(N), p[1] = i, TokenAt(p) = t
        PROVE  t \in Range(Declared[i].tokens)
    BY <2>2, PlacesOf DEF TokenAt, Range
  <2> QED
    BY <2>1, <2>2
<1>8. Deployable(Deployed)
  <2>1. DOMAIN Deployed # {} /\ DOMAIN Deployed \subseteq Name
    <3>1. nm(1) \in DOMAIN Deployed
      BY <1>2, <1>5
    <3> QED
      BY <1>4, <1>5, <3>1
  <2>2. \A n \in DOMAIN Deployed : Deployed[n] \in Instance
    BY <1>4, <1>5
  <2>3. \A m, n \in DOMAIN Deployed : m # n => Deployed[m].tokens \cap Deployed[n].tokens = {}
    <3> SUFFICES ASSUME NEW i \in 1 .. N, NEW j \in 1 .. N, nm(i) # nm(j), NEW t,
                        t \in Deployed[nm(i)].tokens, t \in Deployed[nm(j)].tokens
                 PROVE  FALSE
      BY <1>5
    <3>1. PICK p \in Places(N) : p[1] = i /\ TokenAt(p) = t
      BY <1>7
    <3>2. PICK q \in Places(N) : q[1] = j /\ TokenAt(q) = t
      BY <1>7
    <3> QED
      BY <1>3, <3>1, <3>2
  <2> QED
    BY <2>1, <2>2, <2>3 DEF Deployable
\* A claim is a token at a place.
<1>9. \A c : c \in Claims(Deployed) <=> \E p \in Places(N) : c = <<nm(p[1]), TokenAt(p)>>
  <2>1. \A p \in Places(N) : p[1] \in 1 .. N
    BY PlacesOf
  <2>2. ASSUME NEW p \in Places(N)
        PROVE  <<nm(p[1]), TokenAt(p)>> \in Claims(Deployed)
    <3>1. TokenAt(p) \in Deployed[nm(p[1])].tokens
      BY <1>7, <2>1
    <3>2. nm(p[1]) \in DOMAIN Deployed /\ Deployed[nm(p[1])].tokens \subseteq Token
      BY <1>5, <1>8, <2>1 DEF Deployable, Instance, ResolvedInstance
    <3> QED
      BY <3>1, <3>2 DEF Claims
  <2>3. ASSUME NEW c \in Claims(Deployed)
        PROVE  \E p \in Places(N) : c = <<nm(p[1]), TokenAt(p)>>
    <3>1. c = <<c[1], c[2]>> /\ c[1] \in DOMAIN Deployed /\ c[2] \in Deployed[c[1]].tokens
      BY DEF Claims
    <3>2. PICK i \in 1 .. N : c[1] = nm(i)
      BY <1>5, <3>1
    <3>3. PICK p \in Places(N) : p[1] = i /\ TokenAt(p) = c[2]
      BY <1>7, <3>1, <3>2
    <3> QED
      BY <3>1, <3>2, <3>3
  <2> QED
    BY <2>2, <2>3
<1>10. Indexable(Deployed)
  <2> SUFFICES ASSUME NEW c \in Claims(Deployed), NEW d \in Claims(Deployed), Digest(c[2]) = Digest(d[2])
               PROVE  c = d
    BY DEF Indexable
  <2>1. PICK p \in Places(N) : c = <<nm(p[1]), TokenAt(p)>>
    BY <1>9
  <2>2. PICK q \in Places(N) : d = <<nm(q[1]), TokenAt(q)>>
    BY <1>9
  <2>3. Digest(TokenAt(p)) = Digest(TokenAt(q))
    BY <2>1, <2>2
  <2>4. p = q
    BY <1>1, <2>3 DEF DigestsApart
  <2> QED
    BY <2>1, <2>2, <2>4
<1>11. index = NewIndex(Deployed)
  <2> DEFINE D == { Digest(c[2]) : c \in Claims(Deployed) }
             of(h) == CHOOSE c \in Claims(Deployed) : Digest(c[2]) = h
  <2>1. \A h : h \in D <=> \E p \in Places(N) : h = Digest(TokenAt(p))
    <3>1. \A p \in Places(N) : Digest(TokenAt(p)) \in D
      <4> SUFFICES ASSUME NEW p \in Places(N)
                   PROVE  Digest(TokenAt(p)) \in D
        OBVIOUS
      <4>1. PICK c \in Claims(Deployed) : c = <<nm(p[1]), TokenAt(p)>>
        BY <1>9
      <4>2. Digest(c[2]) = Digest(TokenAt(p))
        BY <4>1
      <4> QED
        BY <4>2
    <3>2. ASSUME NEW c \in Claims(Deployed)
          PROVE  \E p \in Places(N) : Digest(c[2]) = Digest(TokenAt(p))
      <4>1. PICK p \in Places(N) : c = <<nm(p[1]), TokenAt(p)>>
        BY <1>9
      <4>2. c[2] = TokenAt(p)
        BY <4>1
      <4> QED
        BY <4>2
    <3> QED
      BY <3>1, <3>2
  <2>2. DOMAIN index = D
    BY <1>1, <2>1
  <2>3. ASSUME NEW p \in Places(N)
        PROVE  of(Digest(TokenAt(p))) = <<nm(p[1]), TokenAt(p)>>
    <3>1. PICK c \in Claims(Deployed) : c = <<nm(p[1]), TokenAt(p)>>
      BY <1>9
    <3>2. Digest(c[2]) = Digest(TokenAt(p))
      BY <3>1
    <3>3. of(Digest(TokenAt(p))) \in Claims(Deployed) /\ Digest(of(Digest(TokenAt(p)))[2]) = Digest(TokenAt(p))
      BY <3>2
    <3>4. of(Digest(TokenAt(p))) = c
      BY <1>10, <3>2, <3>3 DEF Indexable
    <3> QED
      BY <3>1, <3>4
  <2>4. NewIndex(Deployed) = [h \in D |-> [token |-> of(h)[2], value |-> of(h)[1]]]
    BY DEF NewIndex
  <2> HIDE DEF D, of
  <2>5. \A h \in D : index[h] = NewIndex(Deployed)[h]
    <3> SUFFICES ASSUME NEW h \in D
                 PROVE  index[h] = [token |-> of(h)[2], value |-> of(h)[1]]
      BY <2>4
    <3>1. PICK p \in Places(N) : h = Digest(TokenAt(p))
      BY <2>1
    <3>2. of(h) = <<nm(p[1]), TokenAt(p)>> /\ index[h] = [token |-> TokenAt(p), value |-> nm(p[1])]
      BY <1>1, <2>3, <3>1 DEF nm
    <3> QED
      BY <3>2
  <2>6. index = [h \in D |-> index[h]]
    BY <1>1, <2>2
  <2> QED
    BY <2>2, <2>4, <2>5, <2>6
<1> QED
  BY <1>1, <1>2, <1>4, <1>5, <1>8, <1>10, <1>11 DEF nm, res

\* Whatever the file says, what is served is a deployment with the index the gateway
\* starts from, and every instance in it is as the file declares it.
THEOREM ServesOnlySound == Spec => []StartsOnlySound
<1>1. IInv => StartsOnlySound
  BY ServedSound
<1> QED
  BY <1>1, InitIInv, StepKeeps, PTL DEF Spec

\* What the invariant says of the tokens of a file that is served.
LEMMA ServedReach ==
    ASSUME IInv
    PROVE  TokensReach
<1> SUFFICES ASSUME at = "serving", NEW p \in Places(Len(Declared))
             PROVE  Lookup(index, Trim(TokenAt(p))) = Trim(Declared[p[1]].name)
  BY DEF TokensReach
<1> DEFINE i == p[1]
           t == TokenAt(p)
<1>1. /\ file \in File /\ Acceptable(Len(Declared))
      /\ DOMAIN index = { Digest(TokenAt(q)) : q \in Places(Len(Declared)) }
      /\ index[Digest(t)] = [token |-> t, value |-> Trim(Declared[i].name)]
  BY DEF IInv, LoadInv, CheckedInv, IndexInv, Loaded, Stages, Checked, Indexed
<1>2. i \in 1 .. Len(Declared) /\ p[2] \in DOMAIN Declared[i].tokens /\ t = Declared[i].tokens[p[2]]
  BY PlacesOf DEF TokenAt
<1>3. t \in Token
  <2>1. Build(ResolveInstance(file.cfg, Declared[i])) \in Instance
    BY <1>1, <1>2 DEF Acceptable, Fit
  <2>2. Build(ResolveInstance(file.cfg, Declared[i])).tokens = Range(Declared[i].tokens)
    BY DEF Build, ResolveInstance
  <2>3. Range(Declared[i].tokens) \subseteq Token
    BY <2>1, <2>2 DEF Instance, ResolvedInstance
  <2> QED
    BY <1>2, <2>3 DEF Range
<1>4. Trim(t) = t /\ t # None
  BY <1>3, TrimAssumption, NoneAssumption
<1>5. Digest(t) \in DOMAIN index
  BY <1>1
<1> HIDE DEF i, t
<1>6. Lookup(index, t) = Trim(Declared[i].name)
  BY <1>1, <1>4, <1>5 DEF Lookup
<1> QED
  BY <1>4, <1>6 DEF i, t

\* No token of a served file is lost, to another instance or to the space around it.
THEOREM EveryTokenReaches == Spec => []TokensReach
<1>1. IInv => TokensReach
  BY ServedReach
<1> QED
  BY <1>1, InitIInv, StepKeeps, PTL DEF Spec
-----------------------------------------------------------------------------
(* Which instance a failed start blames. *)

\* The other half of CheckedInv: validate's sets hold nothing but what was seen, so
\* that what it refuses could not have been accepted.
SeenInv ==
    at \in {"loading", "validating"} =>
        /\ seenName \subseteq { Trim(Declared[i].name) : i \in 1 .. next - 1 }
        /\ seenToken \subseteq { TokenAt(p) : p \in Places(next - 1) }

FaultInv == TypeOK /\ built \in Seq(Instance) /\ SeenInv /\ FirstFaultNamed

\* The checks of the filters ask for nothing more than well-formed filters, one to a
\* label: a matcher compiled of values that are not empty never accepts the empty one.
LEMMA FitFilters ==
    ASSUME NEW filters \in Seq(DeclaredFilter),
           Range(filters) \subseteq Filter, Range(filters) # {},
           IsInjective([k \in DOMAIN filters |-> filters[k].label])
    PROVE  FiltersOK(filters)
<1>1. DOMAIN filters = 1 .. Len(filters) /\ Len(filters) \in Nat
  OBVIOUS
<1>2. filters # << >>
  BY DEF Range
<1>3. \A i, k \in DOMAIN filters : filters[i].label = filters[k].label => i = k
  BY DEF IsInjective
<1>4. ASSUME NEW i \in DOMAIN filters
      PROVE  /\ filters[i].label \in Label
             /\ filters[i].values # << >>
             /\ \A j \in DOMAIN filters[i].values : filters[i].values[j] # Empty
             /\ ~Matches(CompiledMatcher(filters[i]), Empty)
  <2> DEFINE f == filters[i]
  <2>1. f \in Filter
    BY DEF Range
  <2>2. f.label \in Label /\ f.values \in Seq(Value) /\ f.values # << >>
    BY <2>1 DEF Filter
  <2> HIDE DEF f
  <2>3. \A j \in DOMAIN f.values : f.values[j] \in Value
    BY <2>2
  <2>4. \A j \in DOMAIN f.values : f.values[j] # Empty
    BY <2>3, EmptyAssumption
  <2>5. Empty \notin Range(f.values)
    BY <2>4 DEF Range
  <2>6. CompiledMatcher(f).op \in PositiveOp /\ CompiledMatcher(f).vals = Range(f.values)
    BY DEF CompiledMatcher, PositiveOp
  <2>7. ~Matches(CompiledMatcher(f), Empty)
    BY <2>5, <2>6 DEF Matches
  <2> QED
    BY <2>2, <2>4, <2>7 DEF f
<1>5. ASSUME NEW i \in DOMAIN filters, NEW k \in 1 .. i - 1
      PROVE  filters[k].label # filters[i].label
  <2>1. k \in DOMAIN filters /\ k # i
    BY <1>1
  <2> QED
    BY <1>3, <2>1
<1> QED
  BY <1>2, <1>4, <1>5 DEF FiltersOK

\* The converse of AcceptedIsFit: an instance that is fit, with a name and tokens that
\* were not seen, none of them twice, is one that validate accepts.
LEMMA FitIsAccepted ==
    ASSUME NEW raw \in DeclaredInstance, file \in File, NEW names, NEW tokens, Fit(raw),
           ResolveInstance(file.cfg, raw).name \notin names,
           \A j \in DOMAIN raw.tokens : raw.tokens[j] \notin tokens,
           \A j, k \in DOMAIN raw.tokens : raw.tokens[j] = raw.tokens[k] => j = k
    PROVE  ValidateInstance(raw, ResolveInstance(file.cfg, raw), names, tokens)
<1> DEFINE ri == ResolveInstance(file.cfg, raw)
           in == Build(ri)
<1>1. /\ ri.tokens \in Seq(Written) /\ ri.filters \in Seq(DeclaredFilter) /\ ri.tokens = raw.tokens
  <2>1. file.cfg \in Declaration
    BY DEF File
  <2>2. ri.tokens \in Seq(Written) /\ ri.filters \in Seq(DeclaredFilter)
    BY <2>1, ResolvedTypes
  <2> QED
    BY <2>2 DEF ResolveInstance
<1>2. /\ raw.authType = "bearer" /\ ri.name \in Name /\ in \in Instance
      /\ IsInjective([k \in DOMAIN ri.filters |-> ri.filters[k].label])
      /\ ri.loki.timeout > 0 /\ ri.defaults.limit > 0 /\ ri.defaults.since > 0
  BY DEF Fit
<1>3. ri.name \notin names
  OBVIOUS
<1> HIDE DEF ri
<1>4. in \in ResolvedInstance /\ Valid(in)
  BY <1>2 DEF Instance
<1>5. /\ in.tokens = Range(ri.tokens) /\ in.mcp = ri.mcp /\ in.proxy = ri.proxy
      /\ in.filters = Range(ri.filters) /\ in.enforcement = ri.enforcement /\ in.loki.url = ri.loki.url
  BY DEF Build
<1> HIDE DEF in
<1>6. /\ Range(ri.tokens) \subseteq Token /\ Range(ri.tokens) # {} /\ (ri.mcp \/ ri.proxy)
      /\ Range(ri.filters) \subseteq Filter /\ Range(ri.filters) # {}
      /\ ri.enforcement \in Enforcement /\ in.loki \in LokiConfig
  BY <1>4, <1>5 DEF Valid, ResolvedInstance
<1>7. NameOK(ri, names)
  BY <1>2, <1>3, TrimAssumption DEF NameOK
<1>8. AuthOK(raw, ri, tokens)
  <2>1. DOMAIN ri.tokens = 1 .. Len(ri.tokens) /\ Len(ri.tokens) \in Nat
    BY <1>1
  <2>2. ri.tokens # << >>
    BY <1>6 DEF Range
  <2>3. \A j \in DOMAIN ri.tokens : ri.tokens[j] \in Token /\ ri.tokens[j] # None
    BY <1>6, NoneAssumption DEF Range
  <2>4. ASSUME NEW j \in DOMAIN ri.tokens, NEW k \in 1 .. j - 1
        PROVE  ri.tokens[k] # ri.tokens[j]
    <3>1. k \in DOMAIN ri.tokens /\ k # j
      BY <2>1
    <3> QED
      BY <1>1, <3>1
  <2> QED
    BY <1>1, <1>2, <2>2, <2>3, <2>4 DEF AuthOK
<1>9. SurfaceOK(ri)
  BY <1>6 DEF SurfaceOK
<1>10. UpstreamOK(ri.loki)
  BY <1>2, <1>5, <1>6, NoneAssumption DEF LokiConfig, UpstreamOK
<1>11. ri.enforcement.onConflict \in Mode
  BY <1>6 DEF Enforcement
<1>12. FiltersOK(ri.filters)
  BY <1>1, <1>2, <1>6, FitFilters
<1>13. ValidateResolved(ri)
  BY <1>2, <1>10, <1>11, <1>12 DEF ValidateResolved
<1> QED
  BY <1>7, <1>8, <1>9, <1>13 DEF ValidateInstance, ri

\* validate's checks of one instance, spread over five functions, come to this: it
\* is fit, and nothing that must be its own stands elsewhere in the file.
THEOREM ValidateExact ==
    ASSUME NEW raw \in DeclaredInstance, file \in File, NEW names, NEW tokens
    PROVE  ValidateInstance(raw, ResolveInstance(file.cfg, raw), names, tokens) <=>
              /\ Fit(raw)
              /\ Trim(raw.name) \notin names
              /\ \A j \in DOMAIN raw.tokens : raw.tokens[j] \notin tokens
              /\ \A j, k \in DOMAIN raw.tokens : raw.tokens[j] = raw.tokens[k] => j = k
<1> DEFINE ri == ResolveInstance(file.cfg, raw)
<1>1. ri.name = Trim(raw.name) /\ ri.tokens = raw.tokens
  BY DEF ResolveInstance
<1>2. DOMAIN raw.tokens = 1 .. Len(raw.tokens) /\ Len(raw.tokens) \in Nat
  BY DEF DeclaredInstance
<1> HIDE DEF ri
<1>3. ASSUME ValidateInstance(raw, ri, names, tokens)
      PROVE  /\ Fit(raw)
             /\ Trim(raw.name) \notin names
             /\ \A j \in DOMAIN raw.tokens : raw.tokens[j] \notin tokens
             /\ \A j, k \in DOMAIN raw.tokens : raw.tokens[j] = raw.tokens[k] => j = k
  <2>1. Fit(raw)
    BY <1>3, AcceptedIsFit DEF ri
  <2>2. Trim(raw.name) \notin names
    BY <1>1, <1>3 DEF ValidateInstance, NameOK
  <2>3. \A j \in DOMAIN raw.tokens :
           raw.tokens[j] \notin tokens /\ \A k \in 1 .. j - 1 : raw.tokens[k] # raw.tokens[j]
    BY <1>1, <1>3 DEF ValidateInstance, AuthOK
  <2>4. \A j, k \in DOMAIN raw.tokens : k < j => raw.tokens[k] # raw.tokens[j]
    BY <1>2, <2>3
  <2>5. \A j, k \in DOMAIN raw.tokens : raw.tokens[j] = raw.tokens[k] => j = k
    BY <1>2, <2>4
  <2> QED
    BY <2>1, <2>2, <2>3, <2>5
<1>4. ASSUME Fit(raw), Trim(raw.name) \notin names,
             \A j \in DOMAIN raw.tokens : raw.tokens[j] \notin tokens,
             \A j, k \in DOMAIN raw.tokens : raw.tokens[j] = raw.tokens[k] => j = k
      PROVE  ValidateInstance(raw, ri, names, tokens)
  <2>1. ResolveInstance(file.cfg, raw).name \notin names
    BY <1>1, <1>4 DEF ri
  <2> QED
    BY <1>4, <2>1, FitIsAccepted DEF ri
<1> QED
  BY <1>3, <1>4 DEF ri

\* The converse of AcceptNext.
LEMMA AcceptableIsValidated ==
    ASSUME file \in File, NEW n \in Nat, n + 1 \in DOMAIN Declared, Acceptable(n + 1),
           seenName \subseteq { Trim(Declared[i].name) : i \in 1 .. n },
           seenToken \subseteq { TokenAt(p) : p \in Places(n) }
    PROVE  ValidateInstance(Declared[n + 1], ResolveInstance(file.cfg, Declared[n + 1]), seenName, seenToken)
<1> DEFINE raw == Declared[n + 1]
<1>1. /\ raw \in DeclaredInstance /\ ResolveInstance(file.cfg, raw).name = Trim(raw.name)
  BY DeclaredTypes
<1>2. /\ Fit(raw)
      /\ \A i \in 1 .. n : Trim(Declared[i].name) # Trim(raw.name)
  BY DEF Acceptable
<1>3. \A p, q \in Places(n + 1) : TokenAt(p) = TokenAt(q) => p = q
  BY DEF Acceptable
<1>4. /\ \A j \in DOMAIN raw.tokens : <<n + 1, j>> \in Places(n + 1) /\ TokenAt(<<n + 1, j>>) = raw.tokens[j]
      /\ Places(n) \subseteq Places(n + 1)
  BY PlacesGrow DEF TokenAt
<1>5. \A p \in Places(n) : p[1] # n + 1
  BY PlacesOf
<1>6. Trim(raw.name) \notin seenName
  BY <1>2
<1>7. \A j \in DOMAIN raw.tokens : raw.tokens[j] \notin seenToken
  <2> SUFFICES ASSUME NEW j \in DOMAIN raw.tokens, raw.tokens[j] \in seenToken
               PROVE  FALSE
    OBVIOUS
  <2>1. PICK p \in Places(n) : raw.tokens[j] = TokenAt(p)
    OBVIOUS
  <2>2. p = <<n + 1, j>>
    BY <1>3, <1>4, <2>1
  <2> QED
    BY <1>5, <2>2
<1>8. ASSUME NEW j \in DOMAIN raw.tokens, NEW k \in DOMAIN raw.tokens, raw.tokens[j] = raw.tokens[k]
      PROVE  j = k
  <2>1. <<n + 1, j>> = <<n + 1, k>>
    BY <1>3, <1>4, <1>8
  <2> QED
    BY <2>1
<1> HIDE DEF raw
<1>9. ValidateInstance(raw, ResolveInstance(file.cfg, raw), seenName, seenToken)
  BY <1>1, <1>2, <1>6, <1>7, <1>8, FitIsAccepted
<1> QED
  BY <1>9 DEF raw

\* An instance that makes the file unacceptable does so whatever comes after it.
LEMMA AcceptableShrinks ==
    ASSUME NEW n \in Nat, NEW m \in 0 .. n, Acceptable(n)
    PROVE  Acceptable(m)
<1>1. 1 .. m \subseteq 1 .. n
  OBVIOUS
<1>2. Places(m) \subseteq Places(n)
  BY <1>1, PlacesOf
<1> QED
  BY <1>1, <1>2 DEF Acceptable

\* A start begins with no fault and nothing seen.
LEMMA InitFaultInv == Init => FaultInv
<1> SUFFICES ASSUME Init
             PROVE  FaultInv
  OBVIOUS
<1>1. file \in File /\ at = "loading"
  BY FilesAssumption DEF Init
<1>2. /\ resolved = << >> /\ next = 1 /\ seenName = {} /\ seenToken = {} /\ built = << >> /\ fault = 0
  BY DEF Init
<1>3. Len(Declared) \in Nat /\ Declared = file.cfg.instances
  BY <1>1, DeclaredTypes DEF Declared
<1>4. TypeOK
  BY <1>1, <1>2, <1>3 DEF TypeOK
<1> QED
  BY <1>1, <1>2, <1>4 DEF FaultInv, SeenInv, FirstFaultNamed

\* Failing says which instance it is about and changes nothing else.
LEMMA FailTypes ==
    ASSUME FaultInv, NEW where \in 0 .. Len(Declared), Fail(where)
    PROVE  TypeOK' /\ (built \in Seq(Instance))' /\ SeenInv'
<1>1. /\ at' = "failed" /\ fault' = where /\ file' = file /\ resolved' = resolved /\ next' = next
      /\ seenName' = seenName /\ seenToken' = seenToken /\ built' = built
  BY DEF Fail
<1>2. where \in 0 .. Len(file.cfg.instances)
  BY DEF Declared
<1> QED
  BY <1>1, <1>2 DEF FaultInv, TypeOK, SeenInv

\* A file that is not loaded fails as a whole.
LEMMA LoadFailsNames ==
    ASSUME IInv, FaultInv, LoadFails
    PROVE  FaultInv'
<1>1. Fail(0) /\ (file.kind # "config" \/ Declared = << >>) /\ file \in File
  BY DEF LoadFails, Declared, IInv, LoadInv
<1>2. Len(Declared) \in Nat
  BY <1>1, DeclaredTypes
<1>3. TypeOK' /\ (built \in Seq(Instance))' /\ SeenInv'
  BY <1>1, <1>2, FailTypes
<1>4. fault' = 0 /\ file' = file /\ Declared' = Declared
  BY <1>1 DEF Fail, Declared
<1>5. FirstFaultNamed'
  BY <1>1, <1>4 DEF FirstFaultNamed
<1> QED
  BY <1>3, <1>5 DEF FaultInv

\* Loading resolves the file and finds no fault.
LEMMA LoadNames ==
    ASSUME IInv, FaultInv, Load
    PROVE  FaultInv'
<1>1. /\ file' = file /\ at = "loading" /\ at' = "validating" /\ resolved' = ResolveAll(file.cfg)
      /\ next' = next /\ seenName' = seenName /\ seenToken' = seenToken /\ built' = built /\ fault' = fault
      /\ built = << >>
  BY DEF Load, IInv, LoadInv
<1>2. TypeOK'
  <2>1. file \in File
    BY DEF IInv, LoadInv
  <2>2. Len(ResolveAll(file.cfg)) \in Nat
    BY <2>1, DeclaredTypes
  <2>3. Len(built') <= Len(resolved')
    BY <1>1, <2>2
  <2> QED
    BY <1>1, <2>3 DEF FaultInv, TypeOK
<1>3. SeenInv'
  BY <1>1, FileKept DEF FaultInv, SeenInv
<1> QED
  BY <1>1, <1>2, <1>3 DEF FaultInv, FirstFaultNamed

\* The instance that is refused is the first that stands in the way.
LEMMA RefuseNames ==
    ASSUME IInv, FaultInv, Refuse
    PROVE  FaultInv'
<1>1. /\ at = "validating" /\ Fail(next) /\ at \in Stages
      /\ ~ValidateInstance(Raw, Cur, seenName, seenToken)
  BY DEF Refuse, Stages
<1>2. /\ file \in File /\ resolved = ResolveAll(file.cfg) /\ next \in DOMAIN Declared
  BY <1>1 DEF IInv, LoadInv, Loaded
<1>3. /\ next \in Nat \ {0} /\ Len(Declared) \in Nat /\ next \in 1 .. Len(Declared)
      /\ next - 1 \in Nat /\ (next - 1) + 1 = next
  BY <1>2, DeclaredTypes
<1>4. Raw = Declared[next] /\ Cur = ResolveInstance(file.cfg, Declared[next])
  BY <1>2, DeclaredTypes DEF Raw, Cur, Declared
<1>5. Acceptable(next - 1)
  BY <1>1 DEF IInv, CheckedInv, Loaded, Checked
<1>6. /\ seenName \subseteq { Trim(Declared[i].name) : i \in 1 .. next - 1 }
      /\ seenToken \subseteq { TokenAt(p) : p \in Places(next - 1) }
  BY <1>1 DEF FaultInv, SeenInv
<1>7. ~Acceptable(next)
  <2> DEFINE n == next - 1
  <2>1. n \in Nat /\ n + 1 = next /\ n + 1 \in DOMAIN Declared
    BY <1>2, <1>3
  <2>2. /\ seenName \subseteq { Trim(Declared[i].name) : i \in 1 .. n }
        /\ seenToken \subseteq { TokenAt(p) : p \in Places(n) }
    BY <1>6
  <2> HIDE DEF n
  <2>3. Acceptable(n + 1) => ValidateInstance(Declared[n + 1], ResolveInstance(file.cfg, Declared[n + 1]),
                                              seenName, seenToken)
    BY <1>2, <2>1, <2>2, AcceptableIsValidated
  <2> QED
    BY <1>1, <1>4, <2>1, <2>3
<1>8. ~Acceptable(Len(Declared))
  <2>1. next \in 0 .. Len(Declared)
    BY <1>3
  <2> QED
    BY <1>3, <1>7, <2>1, AcceptableShrinks
<1>9. fault' = next /\ file' = file /\ next # 0
  BY <1>1, <1>3 DEF Fail
<1>10. FirstFaultNamed'
  BY <1>5, <1>7, <1>8, <1>9, FileKept DEF FirstFaultNamed
<1>11. TypeOK' /\ (built \in Seq(Instance))' /\ SeenInv'
  <2>1. next \in 0 .. Len(Declared)
    BY <1>3
  <2> QED
    BY <1>1, <2>1, FailTypes
<1> QED
  BY <1>10, <1>11 DEF FaultInv

\* An instance that is accepted adds its own name and tokens to what was seen, and nothing else.
LEMMA ValidateNames ==
    ASSUME IInv, FaultInv, Validate
    PROVE  FaultInv'
<1>1. at = "validating" /\ Advance("building") /\ at \in Stages
  BY DEF Validate, Stages
<1>2. /\ file' = file /\ resolved' = resolved /\ file \in File /\ resolved = ResolveAll(file.cfg)
      /\ next \in DOMAIN Declared /\ next \in Nat \ {0} /\ Len(Declared) \in Nat \ {0}
      /\ \/ next' = next + 1 /\ at' = at /\ next < Len(Declared)
         \/ next' = 1 /\ at' = "building" /\ next = Len(Declared)
      /\ next - 1 \in Nat /\ (next - 1) + 1 = next
  BY <1>1, AdvanceSteps
<1>3. /\ Cur = ResolveInstance(file.cfg, Declared[next]) /\ Declared[next] \in DeclaredInstance
      /\ Cur.name = Trim(Declared[next].name) /\ Cur.tokens = Declared[next].tokens
  BY <1>2, DeclaredTypes DEF Cur
<1>4. /\ seenName' = seenName \cup {Trim(Declared[next].name)}
      /\ seenToken' = seenToken \cup Range(Declared[next].tokens)
      /\ built' = built /\ fault' = fault
  BY <1>1, <1>3 DEF Validate, Advance
<1>5. NameOK(Cur, seenName) /\ AuthOK(Raw, Cur, seenToken)
  BY DEF Validate, ValidateInstance
<1>6. TypeOK'
  <2>1. Trim(Declared[next].name) \in Name
    <3>1. Declared[next].name \in WrittenName
      BY <1>3 DEF DeclaredInstance
    <3> QED
      BY <1>3, <1>5, <3>1, TrimAssumption DEF NameOK
  <2>2. Range(Declared[next].tokens) \subseteq Token
    BY <1>3, <1>5 DEF AuthOK, Range
  <2>3. next' \in 1 .. Len(file.cfg.instances) + 1
    BY <1>2 DEF Declared
  <2>4. at' \in {"validating", "building"}
    BY <1>1, <1>2
  <2> QED
    BY <1>2, <1>4, <2>1, <2>2, <2>3, <2>4 DEF FaultInv, TypeOK
<1>7. SeenInv'
  <2> SUFFICES ASSUME at' \in {"loading", "validating"}
               PROVE  /\ seenName' \subseteq { Trim(Declared[i].name) : i \in 1 .. next }
                      /\ seenToken' \subseteq { TokenAt(p) : p \in Places(next) }
    <3>1. at' \in {"loading", "validating"} => next' - 1 = next
      BY <1>1, <1>2
    <3> QED
      BY <1>2, <3>1, FileKept DEF SeenInv
  <2>1. /\ seenName \subseteq { Trim(Declared[i].name) : i \in 1 .. next - 1 }
        /\ seenToken \subseteq { TokenAt(p) : p \in Places(next - 1) }
    BY <1>1 DEF FaultInv, SeenInv
  <2>2. 1 .. next - 1 \subseteq 1 .. next /\ next \in 1 .. next
    BY <1>2
  <2>3. seenName' \subseteq { Trim(Declared[i].name) : i \in 1 .. next }
    BY <1>4, <2>1, <2>2
  <2>4. Places(next - 1) \subseteq Places(next)
    BY <2>2, PlacesOf
  <2>5. ASSUME NEW t \in Range(Declared[next].tokens)
        PROVE  \E p \in Places(next) : t = TokenAt(p)
    <3>1. PICK j \in DOMAIN Declared[next].tokens : t = Declared[next].tokens[j]
      BY <2>5 DEF Range
    <3>2. <<next, j>> \in Places(next) /\ TokenAt(<<next, j>>) = t
      BY <2>2, <3>1, PlacesOf DEF TokenAt
    <3> QED
      BY <3>2
  <2>6. seenToken' \subseteq { TokenAt(p) : p \in Places(next) }
    BY <1>4, <2>1, <2>4, <2>5
  <2> QED
    BY <2>3, <2>6
<1>8. at' # "failed"
  BY <1>1, <1>2
<1> QED
  BY <1>4, <1>6, <1>7, <1>8 DEF FaultInv, FirstFaultNamed

\* What is built of an accepted instance is an instance the gateway can serve.
LEMMA BuildNames ==
    ASSUME IInv, FaultInv, BuildOne
    PROVE  FaultInv'
<1>1. at = "building" /\ Advance("indexing") /\ at \in Stages
  BY DEF BuildOne, Stages
<1>2. /\ file' = file /\ resolved' = resolved /\ file \in File /\ resolved = ResolveAll(file.cfg)
      /\ next \in DOMAIN Declared /\ next \in Nat \ {0} /\ Len(Declared) \in Nat \ {0}
      /\ DOMAIN Declared = 1 .. Len(Declared)
      /\ \/ next' = next + 1 /\ at' = at /\ next < Len(Declared)
         \/ next' = 1 /\ at' = "indexing" /\ next = Len(Declared)
      /\ Len(resolved) = Len(Declared)
  BY <1>1, AdvanceSteps, DeclaredTypes
<1>3. /\ seenName' = seenName /\ seenToken' = seenToken /\ fault' = fault
      /\ built' = Append(built, Build(Cur))
  BY <1>1 DEF BuildOne, Advance
<1>4. Build(Cur) \in Instance
  <2>1. Cur = ResolveInstance(file.cfg, Declared[next])
    BY <1>2, DeclaredTypes DEF Cur
  <2>2. Acceptable(Len(Declared))
    BY <1>1 DEF IInv, CheckedInv, Loaded, Checked
  <2> QED
    BY <1>2, <2>1, <2>2 DEF Acceptable, Fit
<1>5. built \in Seq(Instance) /\ DOMAIN built = 1 .. next - 1
  BY <1>1 DEF FaultInv, IInv, BuiltInv
<1>6. built' \in Seq(Instance) /\ Len(built') <= Len(resolved)
  <2>1. Len(built) = next - 1
    BY <1>2, <1>5
  <2>2. built' \in Seq(Instance) /\ Len(built') = Len(built) + 1
    BY <1>3, <1>4, <1>5
  <2> QED
    BY <1>2, <2>1, <2>2
<1>7. TypeOK'
  <2>1. next' \in 1 .. Len(file.cfg.instances) + 1
    BY <1>2 DEF Declared
  <2>2. at' \in {"building", "indexing"}
    BY <1>1, <1>2
  <2> QED
    BY <1>2, <1>3, <1>6, <2>1, <2>2 DEF FaultInv, TypeOK
<1>8. at' \notin {"failed", "loading", "validating"}
  BY <1>1, <1>2
<1> QED
  BY <1>6, <1>7, <1>8 DEF FaultInv, FirstFaultNamed, SeenInv

\* Two tokens clash no earlier than at the instance that New names.
LEMMA IndexFailsNames ==
    ASSUME IInv, FaultInv, IndexFails
    PROVE  FaultInv'
<1>1. at = "indexing" /\ Fail(next) /\ at \in Stages /\ Clashes
  BY DEF IndexFails, Stages
<1>2. /\ file \in File /\ resolved = ResolveAll(file.cfg) /\ next \in DOMAIN Declared
  BY <1>1 DEF IInv, LoadInv, Loaded
<1>3. /\ next \in Nat \ {0} /\ Len(Declared) \in Nat /\ next \in 0 .. Len(Declared) /\ next \in 1 .. next
      /\ 1 .. next - 1 \subseteq 1 .. next /\ next \notin 1 .. next - 1
  BY <1>2, DeclaredTypes
<1>4. Cur.tokens = Declared[next].tokens
  BY <1>2, DeclaredTypes DEF Cur
<1>5. /\ Acceptable(Len(Declared)) /\ DigestsApart(next - 1)
      /\ DOMAIN index = { Digest(TokenAt(p)) : p \in Places(next - 1) }
  BY <1>1 DEF IInv, CheckedInv, IndexInv, Loaded, Checked, Indexed
<1> DEFINE toks == Declared[next].tokens
<1>6. /\ \A j \in DOMAIN toks : <<next, j>> \in Places(next) /\ TokenAt(<<next, j>>) = toks[j]
      /\ Places(next - 1) \subseteq Places(next)
      /\ \A p \in Places(next - 1) : p[1] # next
  BY <1>3, PlacesOf DEF TokenAt
<1>7. ~DigestsApart(next)
  <2>1. CASE Digests \cap DOMAIN index # {}
    <3>1. PICK h \in Digests : h \in DOMAIN index
      BY <2>1
    <3>2. PICK j \in DOMAIN toks : h = Digest(toks[j])
      BY <1>4 DEF Digests, Range
    <3>3. PICK p \in Places(next - 1) : h = Digest(TokenAt(p))
      BY <1>5, <3>1
    <3> HIDE DEF toks
    <3> QED
      BY <1>6, <3>2, <3>3 DEF DigestsApart
  <2>2. CASE \E j, k \in DOMAIN toks : j # k /\ Digest(toks[j]) = Digest(toks[k])
    <3>1. PICK j \in DOMAIN toks, k \in DOMAIN toks : j # k /\ Digest(toks[j]) = Digest(toks[k])
      BY <2>2
    <3>2. <<next, j>> # <<next, k>>
      BY <3>1
    <3> HIDE DEF toks
    <3> QED
      BY <1>6, <3>1, <3>2 DEF DigestsApart
  <2> QED
    BY <1>1, <1>4, <2>1, <2>2 DEF Clashes
<1>8. fault' = next /\ file' = file /\ next # 0
  BY <1>1, <1>3 DEF Fail
<1>9. FirstFaultNamed'
  BY <1>5, <1>7, <1>8, FileKept DEF FirstFaultNamed
<1>10. TypeOK' /\ (built \in Seq(Instance))' /\ SeenInv'
  BY <1>1, <1>3, FailTypes
<1> QED
  BY <1>9, <1>10 DEF FaultInv

\* Indexing an instance finds no fault.
LEMMA IndexNames ==
    ASSUME IInv, FaultInv, IndexOne
    PROVE  FaultInv'
<1>1. at = "indexing" /\ Advance("serving") /\ at \in Stages
  BY DEF IndexOne, Stages
<1>2. /\ file' = file /\ resolved' = resolved
      /\ next \in Nat \ {0} /\ Len(Declared) \in Nat \ {0}
      /\ \/ next' = next + 1 /\ at' = at /\ next < Len(Declared)
         \/ next' = 1 /\ at' = "serving" /\ next = Len(Declared)
  BY <1>1, AdvanceSteps
<1>3. /\ seenName' = seenName /\ seenToken' = seenToken /\ fault' = fault /\ built' = built
  BY <1>1 DEF IndexOne, Advance
<1>4. TypeOK'
  <2>1. next' \in 1 .. Len(file.cfg.instances) + 1
    BY <1>2 DEF Declared
  <2>2. at' \in {"indexing", "serving"}
    BY <1>1, <1>2
  <2> QED
    BY <1>2, <1>3, <2>1, <2>2 DEF FaultInv, TypeOK
<1>5. at' \notin {"failed", "loading", "validating"}
  BY <1>1, <1>2
<1> QED
  BY <1>3, <1>4, <1>5 DEF FaultInv, FirstFaultNamed, SeenInv

\* A step that changes nothing names nobody.
LEMMA StutterNames ==
    ASSUME FaultInv, UNCHANGED vars
    PROVE  FaultInv'
<1>1. file' = file /\ at' = at /\ resolved' = resolved /\ next' = next /\ seenName' = seenName
      /\ seenToken' = seenToken /\ built' = built /\ fault' = fault
  BY DEF vars
<1>2. TypeOK' /\ built' \in Seq(Instance)
  BY <1>1 DEF FaultInv, TypeOK
<1>3. SeenInv' /\ FirstFaultNamed'
  BY <1>1, FileKept DEF FaultInv, SeenInv, FirstFaultNamed
<1> QED
  BY <1>2, <1>3 DEF FaultInv

\* Every step keeps the second invariant, given the first.
LEMMA StepNames == IInv /\ FaultInv /\ [Next]_vars => FaultInv'
<1> SUFFICES ASSUME IInv, FaultInv, [Next]_vars
             PROVE  FaultInv'
  OBVIOUS
<1>1. CASE LoadFails
  BY <1>1, LoadFailsNames
<1>2. CASE Load
  BY <1>2, LoadNames
<1>3. CASE Refuse
  BY <1>3, RefuseNames
<1>4. CASE Validate
  BY <1>4, ValidateNames
<1>5. CASE BuildOne
  BY <1>5, BuildNames
<1>6. CASE IndexFails
  BY <1>6, IndexFailsNames
<1>7. CASE IndexOne
  BY <1>7, IndexNames
<1>8. CASE UNCHANGED vars
  BY <1>8, StutterNames
<1> QED
  BY <1>1, <1>2, <1>3, <1>4, <1>5, <1>6, <1>7, <1>8 DEF Next

\* Whatever the file, the variables of a start keep their types.
THEOREM StartupTypes == Spec => []TypeOK
<1>1. FaultInv => TypeOK
  BY DEF FaultInv
<1>2. IInv /\ FaultInv /\ [Next]_vars => (IInv /\ FaultInv)'
  BY StepKeeps, StepNames
<1> QED
  BY <1>1, <1>2, InitIInv, InitFaultInv, PTL DEF Spec

\* Whatever the file, the error a start ends with names the first instance at which
\* there is a reason for it, and without a reason there is none.
THEOREM StartupNamesFirstFault == Spec => []FirstFaultNamed
<1>1. FaultInv => FirstFaultNamed
  BY DEF FaultInv
<1>2. IInv /\ FaultInv /\ [Next]_vars => (IInv /\ FaultInv)'
  BY StepKeeps, StepNames
<1> QED
  BY <1>1, <1>2, InitIInv, InitFaultInv, PTL DEF Spec

-----------------------------------------------------------------------------
(* Where a setting comes from. *)

\* Folding the levels from the outermost in takes the innermost that says anything.
LEMMA InnermostIsFold ==
    ASSUME NEW inner, NEW outer, NEW builtin
    PROVE  Innermost(<<inner, outer, <<builtin>> >>) = Or(inner, Or(outer, builtin))
<1> DEFINE levels == <<inner, outer, <<builtin>> >>
           said == { k \in DOMAIN levels : levels[k] # << >> }
<1>1. DOMAIN levels = {1, 2, 3} /\ levels[1] = inner /\ levels[2] = outer /\ levels[3] = <<builtin>>
  OBVIOUS
<1>2. <<builtin>> # << >> /\ <<builtin>>[1] = builtin
  OBVIOUS
<1> HIDE DEF levels
<1>3. \A k : k \in said <=> (k \in {1, 2, 3} /\ levels[k] # << >>)
  BY <1>1
<1>4. said \subseteq {1, 2, 3} /\ 3 \in said
  BY <1>1, <1>2, <1>3
<1>5. ASSUME NEW k \in said, \A y \in said : k =< y
      PROVE  Min(said) = k
  <2>1. \A x, y \in said : x =< y /\ y =< x => x = y
    BY <1>4
  <2>2. \A y \in said : Min(said) =< y
    BY <1>5 DEF Min
  <2>3. Min(said) \in said
    BY <1>5 DEF Min
  <2> QED
    BY <1>5, <2>1, <2>2, <2>3
<1> HIDE DEF said
<1>6. Innermost(levels) = levels[Min(said)][1]
  BY DEF Innermost, said
<1>7. CASE inner # << >>
  <2>1. 1 \in said /\ \A y \in said : 1 =< y
    BY <1>1, <1>3, <1>4, <1>7
  <2> QED
    BY <1>1, <1>5, <1>6, <1>7, <2>1 DEF Or, levels
<1>8. CASE inner = << >> /\ outer # << >>
  <2>1. 2 \in said /\ \A y \in said : 2 =< y
    BY <1>1, <1>3, <1>4, <1>8
  <2> QED
    BY <1>1, <1>5, <1>6, <1>8, <2>1 DEF Or, levels
<1>9. CASE inner = << >> /\ outer = << >>
  <2>1. 3 \in said /\ \A y \in said : 3 =< y
    BY <1>1, <1>3, <1>4, <1>9
  <2> QED
    BY <1>1, <1>2, <1>5, <1>6, <1>9, <2>1 DEF Or, levels
<1> QED
  BY <1>7, <1>8, <1>9

\* What a file is resolved to takes every setting from the innermost level that says it.
LEMMA ResolvedInnermost ==
    ASSUME TypeOK
    PROVE  InnermostWins
<1> SUFFICES ASSUME NEW i \in DOMAIN resolved
             PROVE  LET cfg == file.cfg
                        raw == Declared[i]
                    IN  /\ \A leaf \in DOMAIN resolved[i].loki :
                              resolved[i].loki[leaf] =
                                  Innermost(<<raw.loki[leaf], cfg.loki[leaf], <<BuiltinLoki[leaf]>> >>)
                        /\ \A leaf \in {"enforceLabelAPIs", "discloseFilters"} :
                              resolved[i].enforcement[leaf] =
                                  Innermost(<<raw.enforcement[leaf], cfg.enforcement[leaf],
                                              <<BuiltinEnforcement[leaf]>> >>)
                        /\ resolved[i].enforcement.onConflict =
                              Trim(Innermost(<<raw.enforcement.onConflict, cfg.enforcement.onConflict,
                                               <<BuiltinEnforcement.onConflict>> >>))
                        /\ \A leaf \in {"limit", "since"} :
                              resolved[i].defaults[leaf] =
                                  Innermost(<<raw.defaults[leaf], cfg.defaults[leaf],
                                              <<BuiltinDefaults[leaf]>> >>)
  BY DEF InnermostWins
<1> DEFINE cfg == file.cfg
           raw == Declared[i]
<1>1. resolved[i] = ResolveInstance(cfg, raw)
  <2>1. resolved = ResolveAll(file.cfg)
    BY DEF TypeOK
  <2> QED
    BY <2>1, DeclaredTypes DEF TypeOK
<1>2. /\ resolved[i].loki = ApplyLoki(ApplyLoki(BuiltinLoki, cfg.loki), raw.loki)
      /\ resolved[i].enforcement =
            ApplyEnforcement(ApplyEnforcement(BuiltinEnforcement, cfg.enforcement), raw.enforcement)
      /\ resolved[i].defaults = ApplyDefaults(ApplyDefaults(BuiltinDefaults, cfg.defaults), raw.defaults)
  BY <1>1 DEF ResolveInstance
<1> HIDE DEF cfg, raw
<1>3. ASSUME NEW leaf \in DOMAIN resolved[i].loki
      PROVE  resolved[i].loki[leaf] = Or(raw.loki[leaf], Or(cfg.loki[leaf], BuiltinLoki[leaf]))
  <2>1. leaf \in {"url", "orgID", "username", "password", "token", "timeout"}
    BY <1>2, <1>3 DEF ApplyLoki
  <2> QED
    BY <1>2, <2>1 DEF ApplyLoki
<1>4. ASSUME NEW leaf \in {"enforceLabelAPIs", "discloseFilters"}
      PROVE  resolved[i].enforcement[leaf] =
                 Or(raw.enforcement[leaf], Or(cfg.enforcement[leaf], BuiltinEnforcement[leaf]))
  BY <1>2 DEF ApplyEnforcement
<1>5. ASSUME NEW leaf \in {"limit", "since"}
      PROVE  resolved[i].defaults[leaf] =
                 Or(raw.defaults[leaf], Or(cfg.defaults[leaf], BuiltinDefaults[leaf]))
  BY <1>2 DEF ApplyDefaults
<1>6. resolved[i].enforcement.onConflict =
          Trim(Or(raw.enforcement.onConflict,
                  Or(cfg.enforcement.onConflict, BuiltinEnforcement.onConflict)))
  <2>1. Trim(BuiltinEnforcement.onConflict) = BuiltinEnforcement.onConflict
    BY BuiltinAssumption
  <2> QED
    BY <1>2, <2>1 DEF ApplyEnforcement, Or
<1> QED
  BY <1>3, <1>4, <1>5, <1>6, InnermostIsFold DEF cfg, raw

\* Whatever is declared, every setting of an instance is the innermost that is said.
THEOREM StartupInnermostWins == Spec => []InnermostWins
<1>1. TypeOK => InnermostWins
  BY ResolvedInnermost
<1> QED
  BY <1>1, StartupTypes, PTL

=============================================================================
