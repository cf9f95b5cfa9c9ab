# A verification of loki-filtered-mcp

loki-filtered-mcp stands between clients and a Loki server. A client's bearer token
selects one *instance* of its configuration; the instance names a few labels and the
values they may have, and every LogQL query of the client is parsed and rewritten so
that it selects only streams within them. Clients come in by two surfaces, an MCP
endpoint with three tools and a Loki-compatible read API.

The modules here state what that promises, check it with TLC on small instances, and
prove the central part with TLAPS for any size.

## 1. The system

| Component | Source | State it keeps | Operations |
|---|---|---|---|
| enforcer | `internal/enforcer` | filters and mode, fixed by `New`; the syntax tree of one call | `Enforce`, `Selector` |
| config | `internal/config` | the resolved instances, fixed by `Load`; in `validate` the names and tokens seen | `Load`, `Resolve`, `validate`, `Matchers`, `FilterValues` |
| auth | `internal/auth` | the token index, fixed by `NewIndex` | `Lookup`, `BearerToken` |
| instance | `internal/instance` | one object graph per instance | `Build` |
| router | `internal/router` | the index | `ServeHTTP` |
| proxy | `internal/proxy` | the instance; the parameters of one request | `ServeHTTP`, `rewrite` |
| handlers | `internal/handlers` | the instance, the scope selector, the instructions; the clock reading of one call | the three tools, `timeRange` |
| lokiclient | `internal/lokiclient` | endpoint, credentials, timeout | `QueryRange`, `LabelNames`, `LabelValues` |
| process | `cmd/server` | listener, signal channel, error channel | `run` |

**How they interact.** `run` loads the configuration, builds every instance and the
index, and starts one listener. `net/http` runs a handler per request, all
concurrently. The router answers `/healthz`, else looks the token up, and passes the
request to the instance's MCP handler or its proxy. Both call the same enforcer
before anything is sent to Loki. All that concurrent handlers share (instances,
enforcers, index) is immutable after startup, so connections interact only through
Loki, through the process's end, and not at all through the program's own data.

**What is hard.**
- The rewrite: several filters, several matchers of the caller on one label, two
  modes, and an optimisation that leaves the enforced matcher out.
- The walk rewrites the tree in place and does not stop at an error.
- The proxy has to read a request the way Loki will: two places for parameters,
  repeated parameters, an alias, path cleaning and escapes, a size limit.
- The order of checks: token, path, short-circuit, route, body, enforcement.
- Startup: three levels of settings, checks that look at one instance and checks that
  look at all before it, and two notions of the same token.
- Two goroutines, a listener that may fail and signals, in any order.
- Upstream failures and timeouts at each point of an exchange, on two surfaces that
  treat them differently; clients that go away; shutdown with handlers still running.

**What makes each component correct.**
- *enforcer*: a returned query selects exactly the in-scope part of what was asked,
  and a query is refused only when nothing of it is in scope.
- *config*: a compiled filter accepts exactly its values, and not the missing label;
  what is served is what was declared, setting by setting, and an error names the first
  instance at fault.
- *auth, router*: a request acts for the instance that lists its whole token, or gets
  one uniform answer.
- *proxy, handlers*: nothing is sent that the enforcer did not return; the tenant and
  credential are the instance's; the rest of the request is as the client sent it; what
  a client is told of its scope is what is enforced; a window of time is the one asked for.
- *lokiclient, process*: a tool call and a shutdown end, whatever Loki does; an exit means
  what it says.
- *the whole*: to its clients it is a Loki that holds only what they may see.

## 2. The modules

| Module | Models | Kind |
|---|---|---|
| `LogQL` | matchers, selectors, streams, parsed queries | the Loki and Prometheus libraries, external |
| `Enforcer` | `enforceMatchers`, `Enforce` as one step | operators |
| `EnforceWalk` | `Enforce`, one action per node visited | state machine |
| `AtomicCall` | a call that returns its result once, in one step | abstract specification |
| `Config` | resolved instances, `validate`, `Matchers`, `FilterValues` | operators |
| `Auth` | `NewIndex`, `Lookup`, `BearerToken` | operators |
| `Http` | requests, upstream requests, decisions | data |
| `Proxy` | `proxy.ServeHTTP` and all it calls | operators |
| `Handlers` | what clients are told, the tools and the client's requests | operators |
| `Loki` | what Loki may show in answer to a request | external |
| `Gateway` | router, connections, exchange with Loki, the end of the process | state machine |
| `FilteredLoki` | a store that shows each client its part | abstract specification |
| `Resolve` | the declaration, inheritance, `validate` of one instance, `Build` | operators |
| `Startup` | `run` until it listens: `Load`, the loop of `validate`, `BuildAll`, the index | state machine |
| `TimeRange` | `timeRange` and `parseTime`, while the clock runs | state machine |
| `Process` | `run`'s two goroutines, its channels, signals and exits | state machine |
| `EnforcerProofs`, `EnforceWalkProofs`, `RoutingProofs`, `GatewayProofs`, `FilteredLokiProofs`, `StartupProofs`, `TimeRangeProofs`, `ProcessProofs` | theorems | |
| `MCEnforceWalk`, `MCGateway`, `MCStartup`, `MCTimeRange`, `MCProcess` | instances for TLC | |

`Enforcer` rests on `LogQL`; `Config` compiles instances to enforcers; `Auth` is the index
over them. From there one branch, `Resolve` and `Startup`, ends with a deployment and its
index, and the other, `Http`, `Proxy`, `Handlers`, `Loki` and `Gateway`, begins with them:
`StartsOnlySound` is what `Gateway` assumes. The `Start` of `Gateway` is the index of
`Startup` made in one step; the other ways to fail come before it. `Process` is `Gateway`'s process
seen from the other side: there a handler only runs or has ended, here a signal only comes.

**Data.** A matcher holds the *set* of values it names: one for `=` and `!=`, the
accepted ones for a regular expression. A selector is a set of matchers: their order and
repetition change its text and not what it selects, and no property is about the text. A path is a
sequence of segments marked as written with an escape or not; a query string or body
is a sequence of key-value pairs, and its length in pairs stands for its length in
bytes; the key `%` is a pair that does not decode. A text is `empty`, `malformed`,
`opaque`, or parsed with its set of selectors. Instances, labels, values, tokens and
tenants are constants. A label that a URL path cannot hold as it is is an `OddLabel`, and
`PathEscape` is what `url.PathEscape` makes of it. What a base URL has beside its address,
a query string and a user, is `UrlParams` and `UrlUser`. `Digest` is an operator so that two tokens may share a digest.

**EnforceWalk.** The parsed tree is its nodes in preorder, each with the index where
its subtree ends. `Parse`, `SkipNode`, `InnerNode`, `SelectorNode` and `Finish` are the
parts of `Enforce`: the parse, the four ways through the callback, and what follows the
walk. The tree is one variable, rewritten in place, so a half rewritten one is a state.

**Gateway.** `conn[c]` is one connection with one request; since no handler keeps
anything for the next request, a connection that is used again is another one here.

| Phase | In the code |
|---|---|
| `idle` → `arrived` | `net/http` hands the request to the router |
| `arrived` → `body` | the handler waits for the client's body |
| → `replied` | an answer without Loki: 401, 404, 400, a short-circuit |
| → `sending` | the request is being written to Loki |
| `sending` → `sent` | it is written, and the transport begins to wait for headers |
| `sending`, `sent` → `streaming` | Loki's headers have come, perhaps before it has read the whole request |
| `streaming` → `replied` | the body is over: relayed as it came, or decoded and rendered |
| → `gone`, `killed` | the client has left or was cut off; the process has ended |

`Serve` and `BodyRead` are whole handlers: authentication, routing, enforcement and the
rewriting of the request happen in one action, since nothing else can interfere before
the handler waits for the network. `Start`, `ListenFails`, `Signal`, `Drained` and
`GraceExpires` are `run`. A request may arrive while the server drains, on a connection
accepted before, and `Shutdown` may give up at the moment in which the last handler ends.
Loki's own actions are free: it may refuse, break off at any
point, send any part of what it may show, or do nothing for ever, not even read what it
is sent. Where it has a choice
(which copy of a parameter counts) the model lets it show the most.

**Startup.** One action per instance and stage, and one for each way to fail. A setting that
a level leaves out (a nil pointer) is the empty sequence, so that "set to nothing" is another
value. The order of `validate`'s checks within an instance is not kept, since they differ only
in the wording of the error; the order of instances is, since each sees the ones before it.

**TimeRange.** The clock may tick between any two steps of the call. Times are counts of a
unit of which a second has `Second`; `Unix` rounds down, on both sides of zero.

**Process.** `errCh` and `stop` are sequences of at most one. A signal before `Notify` ends
the process at once, although the other goroutine may already serve; later ones wait in
`stop` or are dropped. `HandlerStarts` is allowed after the listener has gone, for connections
that were accepted before.

Definitions introduced as "a variant" are used by no specification. Each is a plausible
mistake in the definition that follows it; putting it in that definition's place makes
the property it is listed with in `PROJECT.json` fail.

## 3. What is checked

| Run (cfg) | Properties | Shows |
|---|---|---|
| `MCEnforceWalk` | `TypeOK`, `OutputInScope`, `NarrowingExact`, `RefusalExact`, `OutputAcceptedAgain`, `ImplementsAtomic` | the enforcer, over what selectors select |
| `MCGateway` | `TypeOK`, `RepliesInScope`, `UpstreamIdentity`, `RefusedNeverSent`, `ParamsPreserved`, `NothingLost`, `EnforcedLabelNeverAsked`, `ToldTrue`, `UnauthUniform` | every request, on one connection |
| `MCGatewayPair` | `ImplementsFilteredLoki`, `ToolCallsEnd`, `HeadersBounded`, `SignalEnds` | timeouts, shutdown and the refinement, with two connections |
| `MCStartup` | `TypeOK`, `StartsOnlySound`, `FirstFaultNamed`, `InnermostWins`, `TokensReach` | configuration files, sound and faulty |
| `MCTimeRange` | `WindowAsAsked`, `LookbackKept` | the window of a tool call |
| `MCProcess` | `CleanMeansDrained`, `HandlersKept`, `SignalHeard`, `ListenerFailureEnds` | the process, its listener and its operator |
| `MCEnforceDocs` | `EnforcedMatcherAlwaysAdded`, violated | a comment and the README against the code |
| `MCGatewayTimeout` | `TimeoutPerRequest`, violated | the README against the code |
| `MCGatewayMetric` | `AnsweredQueriesShown`, violated | a defect |
| `MCGatewayLabel` | `LabelAskedAsNamed`, violated | a defect |
| `MCGatewayDisclose` | `ToldOnlyIfDisclosed`, violated | a comment against the code |
| `MCGatewayBaseUrl` | `BaseUrlKept`, violated | a comment against the code |

The properties are stated over streams and over requests as the client sent them,
and not over the steps of the code. `RepliesInScope`, for instance, says of every
stream a client receives that an instance listing its token may show it, and mentions
neither matchers nor parameters.

**Bounds.**
- `MCEnforceWalk`: two labels and three values are the least that has, for one label,
  two allowed values and one that is not, and a second label to be enforced or free.
  Enforcers have one value, two values, or two filters, in both modes. Single
  selectors range over all of one matcher on an enforced label and over the pairs of a
  family that has every operator; trees have up to three selectors, so that an error
  comes first, in the middle and last, with inner nodes and literals around them.
- `MCGateway`: parameter lists have up to two pairs and bodies up to four against a
  limit of two (`MaxFormBody`), so that the limit, one more, and two more occur.
  Paths include dot segments, escapes, unknown endpoints and every class of route.
  The three deployments differ in mode, label scoping, surfaces, tenant and
  credentials, each present or absent; in the third the digests of two tokens
  collide and the server must not start. One base URL has a query string and a user, for
  an instance with credentials of its own and for one without. One connection is enough here, because
  connections share nothing that changes.
- `MCGatewayPair`: two connections, one deployment, five requests: a tool call, a query
  in the URL, one in a form, a label listing, one without a known token. Two are the
  least at which one handler is done and another is not when the process ends, and
  `FilteredLoki` is checked here because the end of a whole process with any number of
  answers half given is the step that a single connection would not show.
- `MCStartup`: each way in which an instance may be wrong, alone and beside each other one
  (so that a fault comes first and second, and names and tokens clash over instances), lists
  of three, and all combinations of a setting left out, set to nothing and set, on both
  levels, for the parts of a credential, the rest of `loki`, the policy and the defaults. One
  token shares a digest with another.
- `MCTimeRange`: a second of three units is the least in which a moment can be neither of its
  edges; lookbacks below, at and above it, instants and offsets on and off an edge and on
  both sides of zero, and a clock that runs past a second during the call (`MaxClock = 4`).
- `MCProcess`: two handlers, so that one may end and one not (`MaxActive`), and three signals,
  one more than are received and wait (`MaxSignals`).

Deadlock is not checked: an enforcer call and a tool call return and a process exits.

**Fairness.** `FairSpec` of the gateway assumes of the code's own timers what Go's runtime
provides: `loki.timeout` fires (`TimeoutFires`), for a tool from the first byte of its
request to the last of the answer (`http.Client.Timeout`), for the proxy only from the
moment the request is written until the headers come (`ResponseHeaderTimeout`); and
`Shutdown` gives up when its context expires (`GraceExpires`). Nothing is assumed of a
client, of Loki or of the operator: no request need be served, no body need arrive or be
read, no signal need come. So `HeadersBounded` speaks of `sent` and not of `sending`: while
the proxy writes a form that Loki does not read, no timer runs. `Process` assumes that `run` goes on where it can:
`Notify`, `Select` when a channel is ready, and `Shutdown`, which has its deadline. Its
other goroutine may stay in `ListenAndServe` for ever.

**Findings.**
1. `loki_query` accepts metric queries and then fails on every non-empty result:
   `StreamEntry` decodes `values` as strings and Loki's samples have numbers
   (`lokiclient.go:61`). The proxy, which relays the answer as it is, serves them.
2. `loki.timeout` is documented as a per-request timeout; in the proxy it bounds the
   wait for headers alone (`proxy.go:61-66`), so a stalled body is never cut off, nor is a
   request that Loki does not finish reading.
3. The enforced matcher is not "always AND-ed" (`enforcer.go:170`, `README.md:163`):
   it is left out when the caller pins the label. `OutputInScope` and
   `NarrowingExact` show that nothing is lost or gained by that.
4. `loki_label_values` escapes its label twice (`lokiclient.go:107`, `:149`), so that Loki is
   asked for the values of another label whenever the name needs escaping.
5. With `disclose_filters` off a client is still told the labels and values in force, by a
   refusal (`enforcer.go:196`) and by the listing of an enforced label, which `handlers.go:5-7`
   says happens only with the setting on.
6. The tools and the proxy do not derive their URLs identically (`lokiclient.go:138`): what
   `loki.url` has in its query string stays in the requests of the tools and is dropped from
   those of the proxy (`proxy.go:184`). The model has the like of a user in `loki.url`:
   `http.Client` sends it where `loki.auth` is empty, the proxy's transport does not
   (`ClientCredential`).

## 4. What is proved

For every value of the constants: any labels and values, finite or not, any filters,
trees, requests, deployments, stores and number of connections.

- `EnforcerProofs`. `RewrittenInScope` is the heart: a selector that the rewrite
  returns selects only streams in scope. Where the enforced matcher is in it, because
  it accepts only allowed values (`FilterFacts`); where it is left out, because some
  equality matcher of the caller names an allowed value (`PinIsAllowed`).
  `RewrittenExact` adds the other direction. `ConflictIsUnreachable` shows that looking
  at one label at a time is enough: if every label has a value that meets the caller's
  matchers on it, one stream has all of them. `EnforceAcceptedAgain` is about a second
  pass: what the rewrite leaves is in scope, so no filter conflicts with it
  (`RewrittenNoConflict`), and narrowing it again takes nothing away (`RewrittenTwice`). The
  text may grow, since a filter of several values appends its matcher again where a caller's
  single value does not stand.
- `EnforceWalkProofs`. The invariant relates the tree to the input: nodes already
  passed are rewritten, later ones are as they were, unless an error has happened, in
  which case some node of the input is to blame for it. The properties follow
  (`OutputAcceptedAgain` by `EnforceAcceptedAgain`), and so does the refinement of `AtomicCall` (each
  step is the return or a stutter).
- `RoutingProofs` is about one request, and about the instance it is for: what `validate`
  accepts compiles to a well-formed enforcer (`EnforcerOfType`), which is what all of the
  above assumes. `ProxyForwardsInScope` and `ToolForwardsInScope` take
  it to the one that is sent: by `EnforceQuerySafe` and `EnforceMatchSafe` the LogQL in it is
  the enforcer's, and by `RoutesAsLokiReads` it is under the keys Loki will read for that
  endpoint. `LookupSound` says for whom, `RouteIdentity` as whom, `RouteTellsScope` what may be
  told. `LookupComplete` is the converse of `LookupSound`, from which `EnforcedListingTold`
  has it that a client asking for the values of an enforced label is answered with them. The other direction, that the gateway takes away no more than it must, is about what
  the client sent, spread over a URL and a body. The texts under a key of two lists of pairs
  put together are the texts of both (`TextsOfConcat`, by induction on the length of the
  second); so what is parsed, enforced and encoded again is, key by key, what was sent
  (`ParamsAreSent`, `ProxyForwardsSent`), and what is asked for with it is, within scope,
  what was asked for before (`EnforceExact`, `ProxyReadsExactly`, `ToolReadsExactly`).
- `GatewayProofs` carries that over all runs. None of the properties is inductive: they speak
  of what has been sent, received or told and not of why it can only be that. `IInv` says that
  all a connection holds (its upstream request, its answer, what it was told) is what the
  router decides on the request it serves, with the index made at the start, and that its
  data is part of what Loki may show for it. Each property then follows from the invariant and
  the facts about one request. All nine safety properties of the gateway's runs are proved this
  way, with no further hypothesis but for `GatewayNothingLost`, which assumes `PlainUrls`: no
  base URL has a parameter named `query` of its own. With one, the label tools would ask for
  less than the client did (finding 6), so the hypothesis is needed, and every ordinary
  `loki.url` meets it.
- `FilteredLokiProofs`. Under the same invariant each step maps to one of `FilteredLoki` or to
  a stutter: `StepMaps` for a handler's steps, `KilledMaps` for the end of the process.
- `StartupProofs`. The invariant says that the instances before the loop's are acceptable
  together, and that what is remembered, built and indexed is exactly theirs. With
  `AcceptedIsFit` (what passes `validate` is an `Instance`) this gives `ServesOnlySound`,
  the assumption that `Gateway` starts from, and `EveryTokenReaches`. `FaultInv` is the other
  half: what is remembered is no more than what was seen, so that, with the converse
  `FitIsAccepted`, a refusal means that the file could not do (`RefuseNames`) and a clash that
  two digests are equal (`IndexFailsNames`). `ValidateExact` puts the two directions of one
  instance's checks together. `StartupNamesFirstFault` follows, and
  `StartupInnermostWins` from what folding three levels comes to (`InnermostIsFold`).
- `ProcessProofs`. The invariant ties what a goroutine knows to what the other has done: a nil
  in `errCh` means that `Shutdown` has closed the listener, which only a received signal
  brings about, and by then `run` no longer selects. So a clean exit has a reason, and a
  handler can be cut off in three ways only.
- `TimeRangeProofs`. The moment the window is right for is the one at which the clock was
  read; `CutLength` bounds what cutting both ends can do to its length.

The assumptions are those the modules name: `Empty` is not a value, `None` is not a
token, tenant, credential, URL, name or label, a token belongs to one instance (what
`ServesOnlySound` proves), a label needs no escape in a path, a second is positive, the
parameter keys include those the proxy knows, stores hold streams, and enforcers are
well-formed (in `EnforceWalk`; in `Gateway` this is proved). What Loki may show is
`Loki!Reads`.

**Only model-checked.** Every invariant that a passing run checks is proved, and so are the
refinements and the one action property. Liveness is not (`ToolCallsEnd`,
`HeadersBounded`, `SignalEnds`, `SignalHeard`, `ListenerFailureEnds`): it needs `ENABLED` and
fairness, which the prover does not handle. Of what a fold over a path computes (`Clean`)
the proofs use no more than that it has a result.

## 5. What is not modelled

- The MCP library: sessions, its streams, its decoding of a call. Of the handshake and of
  `tools/list` there is only what they tell of the scope. A request to the MCP path is a POST.
- TLS, HTTP framing, headers other than the credential and the tenant, log lines, the
  wording of errors, the layout of results, redaction of secrets.
- The regular-expression engine: that quoting makes an alternation accept exactly the
  listed values is in `CompiledMatcher`, as the code's own use of it.
- The path of the base URL and where the API prefix is put (`APIURL`): string surgery with
  no state.
- The `limit` of a tool call, which is passed on as it is.
- An error status in the body of a 200 (`lokiclient.go:88`) or a body that is no JSON: the
  step is the one of `UpstreamBreaks`.
- YAML: a file decodes to a declaration or does not. The listen address.
- Flags, version, `Endpoints`, and the redaction of secrets when they are logged.

## 6. How it grew, and what could come next

Enforcer, configuration and gateway came first, then startup, time ranges, the process, the
abstract gateway and the theorems of section 4. What is left would need other means or new
code:

- A model of `APIURL`'s paths, should `loki.url` ever be more than an address and a prefix.
- Two gateways in a row, for which `OutputAcceptedAgain` and `ImplementsFilteredLoki` are the lemmas.
