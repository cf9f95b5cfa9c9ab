------------------------------ MODULE Gateway ------------------------------
(***************************************************************************)
(* The running server: net/http connections, the router, the two surfaces  *)
(* of every instance, the upstream Loki, and the process around them.      *)
(* Every connection runs its own handler; all they share is the index and  *)
(* the instances, which nothing writes once the server has started.  No    *)
(* handler keeps anything for the next request of its connection, so a     *)
(* connection that is used again is modelled as another one.               *)
(***************************************************************************)
EXTENDS Proxy, Handlers, Loki

CONSTANTS
    Conn,           \* connections, each good for one request
    Deployments,    \* the instances a config may declare: [Name -> Instance]
    Requests        \* the requests clients may send

ASSUME GatewayAssumption ==
    /\ Requests \subseteq Request
    /\ None \notin Name
    /\ \A d \in Deployments : Deployable(d)

VARIABLES
    insts,      \* the instances, by name
    index,      \* the router's token index
    conn,       \* what each connection is at
    proc,       \* the process: "starting", "serving", "draining", "exited"
    exit        \* how it exited

vars == <<insts, index, conn, proc, exit>>

Fresh(phase, reqs) ==
    [phase |-> phase, req |-> reqs, up |-> << >>, status |-> "none", told |-> {}, data |-> {}]

Active(c) == conn[c].phase \in {"arrived", "body", "sending", "sent", "streaming"}

Req(c) == conn[c].req[1]
Up(c)  == conn[c].up[1]

-----------------------------------------------------------------------------
(* internal/router *)

Path(req) == Plain(req.path)

IsMCP(req)   == Path(req) = <<"mcp">>
IsProxy(req) == Len(req.path) > 1 /\ Path(req)[1] = "loki"

Authenticated(req) == Lookup(index, BearerToken(req.auth))

Dispatch(ri, req) ==
    IF IsMCP(req) /\ ri.mcp THEN ServeMCP(ri, req.call)
    ELSE IF IsProxy(req) /\ ri.proxy THEN ServeProxy(ri, req)
    ELSE Answer("404", {})

\* A variant for the properties to tell from the code: a path that does not exist
\* is refused before the token is looked at.
RoutePathFirst(req) ==
    IF Path(req) = <<"healthz">> THEN Answer(IF req.method \in {"GET", "HEAD"} THEN "200" ELSE "405", {})
    ELSE IF ~IsMCP(req) /\ ~IsProxy(req) THEN Answer("404", {})
    ELSE IF Authenticated(req) = None THEN Answer("401", {})
    ELSE Dispatch(insts[Authenticated(req)], req)

Route(req) ==
    IF Path(req) = <<"healthz">>
      THEN Answer(IF req.method \in {"GET", "HEAD"} THEN "200" ELSE "405", {})
    ELSE IF Authenticated(req) = None THEN Answer("401", {})
    ELSE Dispatch(insts[Authenticated(req)], req)

\* The handlers that wait for the client's body: every MCP call, and a form
\* that the proxy has found a route for.
WaitsForBody(req) ==
    /\ Path(req) # <<"healthz">>
    /\ Authenticated(req) # None
    /\ LET ri == insts[Authenticated(req)]
       IN  \/ IsMCP(req) /\ ri.mcp
           \/ IsProxy(req) /\ ri.proxy /\ ReadsBody(ri, req)

-----------------------------------------------------------------------------
(* cmd/server: startup and shutdown *)

Init ==
    /\ insts \in Deployments
    /\ index = << >>
    /\ conn = [c \in Conn |-> Fresh("idle", << >>)]
    /\ proc = "starting"
    /\ exit = "none"

\* A variant for the properties to tell from the code: a digest two instances
\* share is not noticed.
StartAnyway ==
    /\ proc = "starting"
    /\ index' = NewIndex(insts) /\ proc' = "serving"
    /\ UNCHANGED <<insts, conn, exit>>

\* run fails before it listens when the index cannot be built.
Start ==
    /\ proc = "starting"
    /\ IF Indexable(insts)
         THEN index' = NewIndex(insts) /\ proc' = "serving" /\ UNCHANGED exit
         ELSE proc' = "exited" /\ exit' = "failed" /\ UNCHANGED index
    /\ UNCHANGED <<insts, conn>>

\* The handlers still running when the process ends take their clients with them.
Killed == [c \in Conn |-> IF Active(c) THEN [conn[c] EXCEPT !.phase = "killed"] ELSE conn[c]]

ListenFails ==
    /\ proc = "serving"
    /\ proc' = "exited" /\ exit' = "failed" /\ conn' = Killed
    /\ UNCHANGED <<insts, index>>

Signal ==
    /\ proc = "serving"
    /\ proc' = "draining"
    /\ UNCHANGED <<insts, index, conn, exit>>

\* Shutdown returns once every connection is idle ...
Drained ==
    /\ proc = "draining"
    /\ \A c \in Conn : ~Active(c)
    /\ proc' = "exited" /\ exit' = "clean"
    /\ UNCHANGED <<insts, index, conn>>

\* A variant for the properties to tell from the code: Shutdown with a context that
\* has no deadline returns only when it is done.
ShutdownUnbounded == Drained

\* ... or when its ten seconds are over, which it may notice first even though the
\* last connection has become idle since it last looked.
GraceExpires ==
    /\ proc = "draining"
    /\ proc' = "exited" /\ exit' = "forced" /\ conn' = Killed
    /\ UNCHANGED <<insts, index>>

-----------------------------------------------------------------------------
(* One connection *)

Running == proc \in {"serving", "draining"}

\* A step of connection c from one of the phases to the record new.
Step(c, phases, new) ==
    /\ Running
    /\ conn[c].phase \in phases
    /\ conn' = [conn EXCEPT ![c] = new]
    /\ UNCHANGED <<insts, index, proc, exit>>

Reply(c, status, told, data) ==
    [conn[c] EXCEPT !.phase = "replied", !.status = status, !.told = told, !.data = data]

\* A request may come while the server drains, on a connection that was accepted before.
Arrive(c, req) == Step(c, {"idle"}, Fresh("arrived", <<req>>))

\* The handler's decision: an answer, or a request to Loki.
Decision(c) ==
    LET o == Route(Req(c))
    IN  IF o.status = "forward" THEN [conn[c] EXCEPT !.phase = "sending", !.up = o.up]
                                ELSE Reply(c, o.status, o.told, {})

Serve(c) ==
    Step(c, {"arrived"},
         IF WaitsForBody(Req(c)) THEN [conn[c] EXCEPT !.phase = "body"] ELSE Decision(c))

BodyRead(c) == Step(c, {"body"}, Decision(c))

\* The client goes away; its context ends whatever its handler waits for.
Disconnect(c) ==
    Step(c, {"arrived", "body", "sending", "sent", "streaming"}, [conn[c] EXCEPT !.phase = "gone"])

ViaMCP(c) == Up(c).via = "mcp"

\* An upstream failure: a tool error, or upstreamError's 502.
Failure(c) == Reply(c, IF ViaMCP(c) THEN "toolError" ELSE "502", {}, {})

\* The last of the request is written, which takes as long as Loki takes to read it.
Written(c) == Step(c, {"sending"}, [conn[c] EXCEPT !.phase = "sent"])

\* Loki's 200 and its headers, perhaps before it has read the whole request; its
\* body follows.
LokiHeaders(c) == Step(c, {"sending", "sent"}, [conn[c] EXCEPT !.phase = "streaming"])

\* The proxy relays a piece of the body as it comes.
LokiChunk(c) ==
    \E x \in Reads(Up(c)) \ conn[c].data :
        /\ ~ViaMCP(c)
        /\ Step(c, {"streaming"}, [conn[c] EXCEPT !.data = @ \cup {x}])

\* The end of the body: a tool has read all of it and renders it.
LokiEnd(c) ==
    IF ViaMCP(c)
      THEN \E streams \in SUBSET Reads(Up(c)) :
             Step(c, {"streaming"},
                  IF Renders(Req(c).call, streams) THEN Reply(c, "200", {}, streams)
                                                   ELSE Failure(c))
      ELSE Step(c, {"streaming"}, Reply(c, "200", {}, conn[c].data))

\* A status other than 200: relayed by the proxy, an error for a tool.
LokiRefuses(c) ==
    Step(c, {"sending", "sent"}, Reply(c, IF ViaMCP(c) THEN "toolError" ELSE "500", {}, {}))

\* A variant for the properties to tell from the code: a failure is reported even
\* when part of the answer is out.
UpstreamBreaksLate(c) == Step(c, {"sending", "sent", "streaming"}, Failure(c))

\* The upstream connection breaks.  Once the proxy has relayed the headers all
\* it can do is to cut the client's connection too.
UpstreamBreaks(c) ==
    \/ Step(c, {"sending", "sent"}, Failure(c))
    \/ ViaMCP(c) /\ Step(c, {"streaming"}, Failure(c))
    \/ ~ViaMCP(c) /\ Step(c, {"streaming"}, [conn[c] EXCEPT !.phase = "gone"])

\* A variant for the properties to tell from the code: only the wait for headers
\* is bounded, or only the tools' exchange is.
TimeoutHeaders(c) == Step(c, {"sent"}, Failure(c))
TimeoutTools(c) == ViaMCP(c) /\ Step(c, {"sending", "sent", "streaming"}, Failure(c))

\* loki.timeout: the whole exchange for a tool; for the proxy the wait for headers,
\* which the transport begins to count once the request is written.
Timeout(c) ==
    IF ViaMCP(c) THEN Step(c, {"sending", "sent", "streaming"}, Failure(c))
                 ELSE Step(c, {"sent"}, Failure(c))

Exchange(c) ==
    /\ conn[c].up # << >>
    /\ \/ Written(c) \/ LokiHeaders(c) \/ LokiChunk(c) \/ LokiEnd(c) \/ LokiRefuses(c)
       \/ UpstreamBreaks(c) \/ Timeout(c)

Next ==
    \/ Start \/ ListenFails \/ Signal \/ Drained \/ GraceExpires
    \/ \E c \in Conn :
          \/ \E req \in Requests : Arrive(c, req)
          \/ Serve(c) \/ BodyRead(c) \/ Disconnect(c) \/ Exchange(c)

Spec == Init /\ [][Next]_vars

\* What the code itself guarantees to happen: its timers fire, loki.timeout's from
\* where each surface starts it, and Shutdown's deadline.  Nothing is assumed of
\* clients, of the operator, or of Loki, which need not even read what it is sent.
TimeoutFires(c) == conn[c].up # << >> /\ Timeout(c)

Fairness ==
    /\ WF_vars(GraceExpires)
    /\ \A c \in Conn : WF_vars(TimeoutFires(c))

FairSpec == Spec /\ Fairness

-----------------------------------------------------------------------------
(* What the server owes its operator, in terms of the request as the client *)
(* sent it and the instances as configured, and not of the code's own steps. *)

Phase == {"idle", "arrived", "body", "sending", "sent", "streaming", "replied", "gone", "killed"}

\* Connections, the process and the index have their types, and only an index
\* that gives every token one instance is ever served from.
TypeOK ==
    /\ insts \in Deployments
    /\ proc \in {"starting", "serving", "draining", "exited"}
    /\ exit \in {"none", "clean", "forced", "failed"}
    /\ proc \in {"serving", "draining"} => index = NewIndex(insts) /\ Indexable(insts)
    /\ DOMAIN conn = Conn
    /\ \A c \in Conn :
          /\ conn[c].phase \in Phase
          /\ conn[c].phase = "idle" \/ (conn[c].req # << >> /\ Req(c) \in Request)
          /\ conn[c].phase \in {"sending", "sent", "streaming"} => conn[c].up # << >>
          /\ conn[c].told \subseteq Label \X Value
          /\ conn[c].data \subseteq Store

\* The instances whose token the request presents, whatever the index says.
Granted(req) ==
    { n \in DOMAIN insts : req.auth.scheme = "bearer" /\ req.auth.cred \in insts[n].tokens }

\* A label listing that names no selector, where the operator chose not to scope them.
UnscopedListing(ri, req) ==
    /\ ~ri.enforcement.enforceLabelAPIs
    /\ IF IsMCP(req) THEN req.call.tool # "loki_query"
       ELSE /\ IsLabelPath(ApiSuffix(req.path))
            /\ \A i \in DOMAIN RequestParams(req)["query"] :
                  RequestParams(req)["query"][i].kind = "empty"

MayShow(ri, req, x) ==
    /\ x.orgID = ri.loki.orgID
    /\ InScope(EnforcerOf(ri), x.labels) \/ UnscopedListing(ri, req)

\* Whatever is sent by whatever route, spread over the URL and the body in
\* whatever way, a client is shown only streams that the instance its token
\* belongs to may show.
RepliesInScope ==
    \A c \in Conn : \A x \in conn[c].data :
        \E n \in Granted(Req(c)) : MayShow(insts[n], Req(c), x)

\* The credentials an operator gave for a surface: in loki.auth, or in loki.url
\* as far as the surface looks there.
OwnCredential(c, loki) == IF ViaMCP(c) THEN ClientCredential(loki) ELSE Credential(loki)

\* Every request goes to the Loki of the one instance the token belongs to and
\* carries that instance's tenant and credential, not those the client sent along.
UpstreamIdentity ==
    \A c \in Conn : conn[c].up # << >> =>
        \E n \in DOMAIN insts :
            /\ Granted(Req(c)) = {n}
            /\ Up(c).base = insts[n].loki.url
            /\ Up(c).orgID = insts[n].loki.orgID
            /\ Up(c).cred = OwnCredential(c, insts[n].loki)

\* The pairs a client has sent, of the URL and of a form.
SentPairs(req) == req.url \o (IF HasForm(req) THEN req.body ELSE << >>)

SentTexts(req, key) == TextsOf(SentPairs(req), key)

\* The parameters that hold LogQL on the way to an endpoint.
LogQLKeys(suffix) ==
    IF suffix = <<"series">> THEN {"match[]", "match"}
    ELSE IF suffix \in QueryPaths \/ IsLabelPath(suffix) THEN {"query"}
    ELSE {}

\* Nothing is sent to Loki for a request any part of which the enforcer
\* refuses: not for one bad selector among several, nor for one in a body.
RefusedNeverSent ==
    \A c \in Conn : conn[c].up # << >> =>
        LET req == Req(c)
            ok(t) == \E n \in Granted(req) : Enforce(EnforcerOf(insts[n]), t).err = "none"
        IN  IF ViaMCP(c) THEN req.call.tool = "loki_query" => ok(req.call.query)
            ELSE \A k \in LogQLKeys(Up(c).suffix) : \A i \in DOMAIN SentTexts(req, k) :
                    \/ ok(SentTexts(req, k)[i])
                    \/ SentTexts(req, k)[i].kind = "empty" /\ IsLabelPath(Up(c).suffix)

\* A proxied request keeps every parameter that is not LogQL as the client
\* sent it, in number and in order, and has all its parameters on one side.
ParamsPreserved ==
    \A c \in Conn : (conn[c].up # << >> /\ ~ViaMCP(c)) =>
        /\ Up(c).url = NoParams \/ Up(c).body = NoParams
        /\ \A k \in ParamKey \ LogQLKeys(Up(c).suffix) :
              Up(c).url[k] \o Up(c).body[k] = SentTexts(Req(c), k)

\* The selectors of the LogQL a client sent, wherever it put them.
AskedSelectors(c) ==
    IF ViaMCP(c) THEN IF Req(c).call.tool = "loki_query" THEN Req(c).call.query.sels ELSE {}
    ELSE UNION { UNION { t.sels : t \in Range(SentTexts(Req(c), k)) } : k \in LogQLKeys(Up(c).suffix) }

Asked(c, x) ==
    AskedSelectors(c) = {} \/ \E sel \in AskedSelectors(c) : Selects(sel, x.labels)

\* Enforcement takes away what is out of scope and nothing else: a stream in
\* scope that was asked for is among those Loki is asked for, and in reject
\* mode no other stream in scope is.
NothingLost ==
    \A c \in Conn : (conn[c].up # << >> /\ LogQLKeys(Up(c).suffix) # {}) =>
        \A n \in Granted(Req(c)) : \A x \in OfTenant(Up(c)) :
            InScope(EnforcerOf(insts[n]), x.labels) =>
                /\ Asked(c, x) => x \in Reads(Up(c))
                /\ insts[n].enforcement.onConflict = "reject" /\ x \in Reads(Up(c)) => Asked(c, x)

\* The client asks for the instructions or for the tools.
Describes(req) == IsMCP(req) /\ req.call.tool \in {"initialize", "tools/list"}

\* A request for the values of a label, by the tool or by the read API.
AsksValues(ri, req, label) ==
    \/ IsMCP(req) /\ ri.mcp /\ req.call.tool = "loki_label_values" /\ req.call.label = label
    \/ /\ IsProxy(req) /\ ri.proxy /\ req.method \in {"GET", "POST"}
       /\ IsLabelValues(ApiSuffix(req.path)) /\ ApiSuffix(req.path)[2] = label

\* The values of an enforced label are never asked of Loki.  A client is told no
\* labels and values but those of one filter, and one that asks for the values of
\* an enforced label, in a way that its surface has a route for, is told all of them.
EnforcedLabelNeverAsked ==
    \A c \in Conn :
        /\ conn[c].up # << >> /\ IsLabelValues(Up(c).suffix) =>
              \A n \in Granted(Req(c)) : ~IsEnforced(insts[n], Up(c).suffix[2])
        /\ conn[c].told # {} /\ ~Describes(Req(c)) =>
              \E n \in Granted(Req(c)) : \E f \in insts[n].filters : conn[c].told = Scope({f})
        /\ conn[c].phase = "replied" =>
              \A n \in Granted(Req(c)) : \A f \in insts[n].filters :
                  AsksValues(insts[n], Req(c), f.label) =>
                      conn[c].status = "200" /\ conn[c].told = Scope({f})

\* What becomes of a matcher that stands alone in a query: is it kept as written?
Kept(ri, l, v) ==
    LET m == [label |-> l, op |-> "=", vals |-> {v}]
        r == Enforce(EnforcerOf(ri), [kind |-> "log", sels |-> { {m} }])
    IN  r.err = "none" /\ \A sel \in r.text.sels : m \in sel

\* What a client is told, in the instructions, by a listing or with a refusal, is
\* true of the queries it sends afterwards: a matcher for a value that it is told
\* of is kept as it was written, one for any other value of that label is refused
\* or replaced, and the instructions leave out no label of which that is so.
ToldTrue ==
    \A c \in Conn : conn[c].told # {} =>
        \E n \in Granted(Req(c)) :
            LET labels == { p[1] : p \in conn[c].told }
            IN  /\ \A l \in labels, v \in Value : Kept(insts[n], l, v) <=> <<l, v>> \in conn[c].told
                /\ Describes(Req(c)) => \A l \in Label \ labels, v \in Value : Kept(insts[n], l, v)

\* What the store holds for a request in a deployment.
ViewOf(d, req) ==
    { x \in Store : \E n \in DOMAIN d :
        req.auth.scheme = "bearer" /\ req.auth.cred \in d[n].tokens /\ MayShow(d[n], req, x) }

Filtered == INSTANCE FilteredLoki
              WITH Questions <- Requests, View <- ViewOf, deployed <- insts,
                   asked <- [c \in Conn |-> conn[c].req],
                   shown <- [c \in Conn |-> conn[c].data],
                   ended <- [c \in Conn |-> conn[c].phase \in {"replied", "gone", "killed"}]

\* To its clients the whole gateway, with its two surfaces, its breaking upstream
\* and its end at any moment, is a Loki that holds only what their instance shows.
ImplementsFilteredLoki == Filtered!Spec

\* A request without a configured token costs the server nothing and tells the
\* client nothing: whatever its path and method, one answer, without its body
\* being read or Loki being asked.
UnauthUniform ==
    \A c \in Conn :
        conn[c].req # << >> /\ Granted(Req(c)) = {} /\ Path(Req(c)) # <<"healthz">> =>
            /\ conn[c].phase \in {"arrived", "replied", "gone", "killed"}
            /\ conn[c].phase = "replied" => conn[c] = [Fresh("replied", conn[c].req) EXCEPT !.status = "401"]

\* With Loki: from the first byte of the request to the last of the answer.
Exchanging(c) == conn[c].phase \in {"sending", "sent", "streaming"}

\* A tool call that turns to Loki ends, whether Loki reads, answers or stalls.
ToolCallsEnd ==
    \A c \in Conn : (Exchanging(c) /\ ViaMCP(c)) ~> conn[c].phase \in {"replied", "gone", "killed"}

\* Once a proxied request is written it does not wait for Loki's headers for ever.
\* While it is being written nothing bounds the wait.
HeadersBounded ==
    \A c \in Conn : (conn[c].phase = "sent" /\ ~ViaMCP(c)) ~> conn[c].phase # "sent"

\* A signal ends the process, whatever clients and Loki do.
SignalEnds == (proc = "draining") ~> (proc = "exited")

-----------------------------------------------------------------------------
(* What the documentation says and the code does not do. *)

\* README.md:311 calls loki.timeout the per-request HTTP timeout: every request
\* sent to Loki would end, on either surface.
TimeoutPerRequest ==
    \A c \in Conn : Exchanging(c) ~> conn[c].phase \in {"replied", "gone", "killed"}

\* handlers.go:5-7: what is enforced reaches a client only where disclose_filters is on.
ToldOnlyIfDisclosed ==
    \A c \in Conn : conn[c].told # {} =>
        \E n \in Granted(Req(c)) : insts[n].enforcement.discloseFilters

\* lokiclient.go:138-139: the tools and the proxy derive upstream URLs identically,
\* so that what the operator wrote into loki.url is in the requests of both.
BaseUrlKept ==
    \A c \in Conn : conn[c].up # << >> =>
        \A k \in ParamKey \ LogQLKeys(Up(c).suffix) :
            Range(UrlParams(Up(c).base)[k]) \subseteq Range(Up(c).url[k])

\* loki_label_values lists the values of the label it is asked for (README.md:225).
LabelAskedAsNamed ==
    \A c \in Conn : conn[c].up # << >> /\ ViaMCP(c) /\ Req(c).call.tool = "loki_label_values" =>
        Up(c).suffix[2] = Req(c).call.label

\* loki_query runs a LogQL query (README.md:221): when Loki has answered one in
\* full, in a format the tool knows, the tool answers too.
AnsweredQueriesShown ==
    [][\A c \in Conn :
          conn[c].phase = "streaming" /\ LokiEnd(c) /\ ViaMCP(c) /\ Req(c).call.format # "other"
              => conn'[c].status = "200"]_vars
=============================================================================
