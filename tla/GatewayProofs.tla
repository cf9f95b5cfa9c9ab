---------------------------- MODULE GatewayProofs ----------------------------
(***************************************************************************)
(* Every run of the gateway, for any number of connections and any         *)
(* deployments, requests and stores.                                       *)
(***************************************************************************)
EXTENDS RoutingProofs

\* Loki shows streams of its store and no others.
LEMMA ReadsFromStore ==
    ASSUME NEW up
    PROVE  Reads(up) \subseteq Store
  BY DEF Reads, Selected, OfTenant

-----------------------------------------------------------------------------
(***************************************************************************)
(* The inductive invariant.  What the properties say of the data, the      *)
(* upstream request or the answer of a connection is not inductive, since  *)
(* it speaks of what has happened and not of why it can only happen so.    *)
(* The invariant says that all of it is what the router decides on the     *)
(* request that is being served, with the index that was made at the       *)
(* start; what the router decides is the matter of RoutingProofs.          *)
(***************************************************************************)
Indexed == insts \in Deployments /\ index = NewIndex(insts) /\ Indexable(insts)

GoodConn(k) ==
    /\ DOMAIN k = {"phase", "req", "up", "status", "told", "data"}
    /\ k = [f \in DOMAIN k |-> k[f]]
    /\ k.phase \in Phase
    /\ IF k.phase = "idle" THEN k.req = << >>
                           ELSE k.req # << >> /\ k.req[1] \in Request /\ Indexed
    /\ k.phase \in {"idle", "arrived", "body"} => k.up = << >> /\ k.told = {} /\ k.status = "none"
    /\ k.phase = "body" => WaitsForBody(k.req[1])
    /\ k.phase \in {"sending", "sent", "streaming"} => k.up # << >>
    /\ k.phase = "replied" /\ k.up = << >> =>
          k.status = Route(k.req[1]).status /\ k.told = Route(k.req[1]).told
    /\ k.told # {} => k.told = Route(k.req[1]).told
    /\ IF k.up = << >> THEN k.data = {}
       ELSE /\ Route(k.req[1]).status = "forward" /\ Route(k.req[1]).up = k.up
            /\ k.data \subseteq Reads(k.up[1])
    /\ k.data # {} => k.phase \notin {"sending", "sent"} /\ ~(k.phase = "streaming" /\ k.up[1].via = "mcp")

IInv ==
    /\ insts \in Deployments
    /\ proc \in {"starting", "serving", "draining", "exited"}
    /\ exit \in {"none", "clean", "forced", "failed"}
    /\ proc = "starting" => exit = "none" /\ \A c \in Conn : conn[c].phase = "idle"
    /\ proc \in {"serving", "draining"} => Indexed /\ exit = "none"
    /\ DOMAIN conn = Conn
    /\ \A c \in Conn : GoodConn(conn[c])

-----------------------------------------------------------------------------
(* What the invariant implies. *)

\* The types are part of the invariant.
LEMMA ImpliesTypeOK == IInv => TypeOK
<1> SUFFICES ASSUME IInv PROVE TypeOK
  OBVIOUS
<1>1. ASSUME NEW c \in Conn
      PROVE  conn[c].told \subseteq Label \X Value /\ conn[c].data \subseteq Store
  <2>1. GoodConn(conn[c])
    BY DEF IInv
  <2>2. CASE conn[c].told # {}
    <3>1. Req(c) \in Request /\ Indexed /\ conn[c].told = Route(Req(c)).told
      BY <2>1, <2>2 DEF GoodConn, Req
    <3>2. PICK n \in DOMAIN insts :
              /\ insts[n] \in Instance
              /\ \/ conn[c].told = Scope(insts[n].filters)
                 \/ \E f \in insts[n].filters : conn[c].told = Scope({f})
      BY <2>2, <3>1, RouteTellsScope DEF Indexed
    <3>3. \A f \in insts[n].filters : f.label \in Label /\ Range(f.values) \subseteq Value
      BY <3>2, CompiledExact DEF Instance, ResolvedInstance, Filter
    <3> QED
      BY <2>1, <3>2, <3>3, ReadsFromStore DEF Scope, GoodConn
  <2> QED
    BY <2>1, <2>2, ReadsFromStore DEF GoodConn
<1> QED
  BY <1>1 DEF IInv, GoodConn, TypeOK, Req, Indexed

\* What is shown is part of what Loki may show for a request in scope.
LEMMA ImpliesRepliesInScope == IInv => RepliesInScope
<1> SUFFICES ASSUME IInv, NEW c \in Conn, NEW x \in conn[c].data
             PROVE  \E n \in Granted(Req(c)) : MayShow(insts[n], Req(c), x)
  BY DEF RepliesInScope
<1>1. /\ GoodConn(conn[c]) /\ Req(c) \in Request /\ Indexed
      /\ Route(Req(c)).status = "forward" /\ Route(Req(c)).up = conn[c].up /\ x \in Reads(Up(c))
  BY DEF IInv, GoodConn, Req, Up
<1>2. PICK up : /\ Route(Req(c)).up = <<up>>
                /\ \A y \in Reads(up) : \E n \in Granted(Req(c)) : MayShow(insts[n], Req(c), y)
  BY <1>1, RouteForwardsInScope DEF Indexed
<1> QED
  BY <1>1, <1>2 DEF Up

\* A request to Loki is the one routed for the instance that lists the token.
LEMMA ImpliesUpstreamIdentity == IInv => UpstreamIdentity
<1> SUFFICES ASSUME IInv, NEW c \in Conn, conn[c].up # << >>
             PROVE  \E n \in DOMAIN insts :
                       /\ Granted(Req(c)) = {n}
                       /\ Up(c).base = insts[n].loki.url
                       /\ Up(c).orgID = insts[n].loki.orgID
                       /\ Up(c).cred = OwnCredential(c, insts[n].loki)
  BY DEF UpstreamIdentity
<1>1. /\ Req(c) \in Request /\ Indexed
      /\ Route(Req(c)).status = "forward" /\ Route(Req(c)).up = conn[c].up
  BY DEF IInv, GoodConn, Req
<1> QED
  BY <1>1, RouteIdentity DEF Indexed, Up, ViaMCP, OwnCredential

\* What went to Loki, and what of the request it holds.
LEMMA SentByInstance ==
    ASSUME IInv, NEW c \in Conn, conn[c].up # << >>
    PROVE  /\ Req(c) \in Request
           /\ \E n \in DOMAIN insts :
                 /\ insts[n] \in Instance /\ Granted(Req(c)) = {n}
                 /\ \/ /\ ViaMCP(c)
                       /\ Req(c).call.tool = "loki_query" =>
                             Enforce(EnforcerOf(insts[n]), Req(c).call.query).err = "none"
                    \/ /\ ~ViaMCP(c)
                       /\ Faithful(insts[n], Req(c), Up(c))
<1> DEFINE req == Req(c)
<1>1. /\ req \in Request /\ Indexed
      /\ Route(req).status = "forward" /\ Route(req).up = conn[c].up
  BY DEF IInv, GoodConn, Req
<1> HIDE DEF req
<1>2. PICK n \in DOMAIN insts :
              /\ insts[n] \in Instance /\ Granted(req) = {n}
              /\ \/ IsMCP(req) /\ Route(req) = ServeMCP(insts[n], req.call)
                 \/ ~IsMCP(req) /\ Route(req) = ServeProxy(insts[n], req)
  BY <1>1, ServedByInstance DEF Indexed
<1>3. CASE Route(req) = ServeMCP(insts[n], req.call)
  <2>1. PICK up :
           /\ ServeMCP(insts[n], req.call).up = <<up>> /\ up.via = "mcp"
           /\ req.call.tool = "loki_query" => Enforce(EnforcerOf(insts[n]), req.call.query).err = "none"
    BY <1>1, <1>3, ToolForwardsSent
  <2>2. ViaMCP(c)
    BY <1>1, <1>3, <2>1 DEF ViaMCP, Up
  <2> QED
    BY <1>1, <1>2, <2>1, <2>2 DEF req
<1>4. CASE Route(req) = ServeProxy(insts[n], req)
  <2>1. PICK up : /\ ServeProxy(insts[n], req).up = <<up>> /\ up.via = "proxy"
                  /\ Faithful(insts[n], req, up)
    BY <1>1, <1>4, ProxyForwardsSent
  <2>2. Up(c) = up /\ ~ViaMCP(c)
    BY <1>1, <1>4, <2>1 DEF Up, ViaMCP
  <2> QED
    BY <1>1, <1>2, <2>1, <2>2 DEF req
<1> QED
  BY <1>2, <1>3, <1>4

\* What is with Loki was made of a request no part of which is refused.
LEMMA ImpliesRefusedNeverSent == IInv => RefusedNeverSent
<1> SUFFICES ASSUME IInv, NEW c \in Conn, conn[c].up # << >>
             PROVE  LET req == Req(c)
                        ok(t) == \E n \in Granted(req) : Enforce(EnforcerOf(insts[n]), t).err = "none"
                    IN  IF ViaMCP(c) THEN req.call.tool = "loki_query" => ok(req.call.query)
                        ELSE \A k \in LogQLKeys(Up(c).suffix) : \A i \in DOMAIN SentTexts(req, k) :
                                \/ ok(SentTexts(req, k)[i])
                                \/ SentTexts(req, k)[i].kind = "empty" /\ IsLabelPath(Up(c).suffix)
  BY DEF RefusedNeverSent
<1> QED
  BY SentByInstance DEF Faithful

\* What is with Loki has the parameters of the request it was made of.
LEMMA ImpliesParamsPreserved == IInv => ParamsPreserved
  BY SentByInstance DEF ParamsPreserved, Faithful

\* Where no base URL brings a query of its own.
LEMMA ImpliesNothingLost ==
    ASSUME PlainUrls
    PROVE  IInv => NothingLost
<1> SUFFICES ASSUME IInv, NEW c \in Conn, conn[c].up # << >>, LogQLKeys(Up(c).suffix) # {},
                    NEW n \in Granted(Req(c)), NEW x \in OfTenant(Up(c)),
                    InScope(EnforcerOf(insts[n]), x.labels)
             PROVE  /\ Asked(c, x) => x \in Reads(Up(c))
                    /\ insts[n].enforcement.onConflict = "reject" /\ x \in Reads(Up(c)) => Asked(c, x)
  BY DEF NothingLost
<1> DEFINE req == Req(c)
<1>1. /\ req \in Request /\ Indexed
      /\ Route(req).status = "forward" /\ Route(req).up = conn[c].up
  BY DEF IInv, GoodConn, Req
<1>2. Asked(c, x) <=> Meets(AskedSelectors(c), x.labels)
  BY DEF Asked, Meets
<1> HIDE DEF req
<1>3. /\ insts[n] \in Instance
      /\ \/ IsMCP(req) /\ Route(req) = ServeMCP(insts[n], req.call)
         \/ ~IsMCP(req) /\ Route(req) = ServeProxy(insts[n], req)
  <2>1. PICK m \in DOMAIN insts :
              /\ insts[m] \in Instance /\ Granted(req) = {m}
              /\ \/ IsMCP(req) /\ Route(req) = ServeMCP(insts[m], req.call)
                 \/ ~IsMCP(req) /\ Route(req) = ServeProxy(insts[m], req)
    BY <1>1, ServedByInstance DEF Indexed
  <2>2. n = m
    BY <2>1 DEF req
  <2> QED
    BY <2>1, <2>2
<1>4. ReadsExactly(insts[n], Up(c), AskedSelectors(c))
  <2>1. CASE Route(req) = ServeMCP(insts[n], req.call)
    <3>1. PICK up :
             /\ ServeMCP(insts[n], req.call).up = <<up>> /\ up.via = "mcp"
             /\ ReadsExactly(insts[n], up, IF req.call.tool = "loki_query" THEN req.call.query.sels ELSE {})
      BY <1>1, <1>3, <2>1, ToolReadsExactly
    <3>2. Up(c) = up /\ ViaMCP(c)
      BY <1>1, <2>1, <3>1 DEF Up, ViaMCP
    <3> QED
      BY <3>1, <3>2 DEF AskedSelectors, req
  <2>2. CASE Route(req) = ServeProxy(insts[n], req)
    <3>1. PICK up :
             /\ ServeProxy(insts[n], req).up = <<up>> /\ up.via = "proxy"
             /\ LogQLKeys(up.suffix) # {} => ReadsExactly(insts[n], up, SentSelectors(req, up.suffix))
      BY <1>1, <1>3, <2>2, ProxyReadsExactly
    <3>2. Up(c) = up /\ ~ViaMCP(c)
      BY <1>1, <2>2, <3>1 DEF Up, ViaMCP
    <3>3. AskedSelectors(c) = SentSelectors(req, Up(c).suffix)
      BY <3>2 DEF AskedSelectors, SentSelectors, SelectorsIn, req
    <3> QED
      BY <3>1, <3>2, <3>3
  <2> QED
    BY <1>3, <2>1, <2>2
<1> QED
  BY <1>2, <1>4 DEF ReadsExactly

\* A listing of an enforced label is answered by the router.
LEMMA ImpliesEnforcedLabelNeverAsked == IInv => EnforcedLabelNeverAsked
<1> SUFFICES ASSUME IInv, NEW c \in Conn
             PROVE  /\ conn[c].up # << >> /\ IsLabelValues(Up(c).suffix) =>
                          \A n \in Granted(Req(c)) : ~IsEnforced(insts[n], Up(c).suffix[2])
                    /\ conn[c].told # {} /\ ~Describes(Req(c)) =>
                          \E n \in Granted(Req(c)) : \E f \in insts[n].filters : conn[c].told = Scope({f})
                    /\ conn[c].phase = "replied" =>
                          \A n \in Granted(Req(c)) : \A f \in insts[n].filters :
                              AsksValues(insts[n], Req(c), f.label) =>
                                  conn[c].status = "200" /\ conn[c].told = Scope({f})
  BY DEF EnforcedLabelNeverAsked
<1>1. GoodConn(conn[c])
  BY DEF IInv
<1>2. ASSUME conn[c].up # << >>, IsLabelValues(Up(c).suffix)
      PROVE  \A n \in Granted(Req(c)) : ~IsEnforced(insts[n], Up(c).suffix[2])
  <2>1. /\ Req(c) \in Request /\ Indexed
        /\ Route(Req(c)).status = "forward" /\ Route(Req(c)).up = conn[c].up
    BY <1>1, <1>2 DEF GoodConn, Req
  <2>2. PICK n, up :
           /\ n \in DOMAIN insts /\ Granted(Req(c)) = {n} /\ Route(Req(c)).up = <<up>>
           /\ IsLabelValues(up.suffix) => ~IsEnforced(insts[n], up.suffix[2])
    BY <2>1, RouteIdentity DEF Indexed
  <2> QED
    BY <1>2, <2>1, <2>2 DEF Up
<1>3. ASSUME conn[c].told # {}, ~Describes(Req(c))
      PROVE  \E n \in Granted(Req(c)) : \E f \in insts[n].filters : conn[c].told = Scope({f})
  <2>1. Req(c) \in Request /\ Indexed /\ conn[c].told = Route(Req(c)).told
    BY <1>1, <1>3 DEF GoodConn, Req
  <2> QED
    BY <1>3, <2>1, RouteTellsScope DEF Indexed
<1>4. ASSUME conn[c].phase = "replied",
             NEW n \in Granted(Req(c)), NEW f \in insts[n].filters, AsksValues(insts[n], Req(c), f.label)
      PROVE  conn[c].status = "200" /\ conn[c].told = Scope({f})
  <2>1. Req(c) \in Request /\ Indexed
    BY <1>1, <1>4 DEF GoodConn, Req
  <2>2. Route(Req(c)) = Answer("200", Scope({f}))
    BY <1>4, <2>1, EnforcedListingTold DEF Indexed
  <2>3. Route(Req(c)).status = "200" /\ Route(Req(c)).told = Scope({f})
    BY <2>2 DEF Answer
  <2> QED
    BY <1>1, <1>4, <2>3 DEF GoodConn, Req
<1> QED
  BY <1>2, <1>3, <1>4

\* What a client is told is what the router tells of its instance.
LEMMA ImpliesToldTrue == IInv => ToldTrue
<1> SUFFICES ASSUME IInv, NEW c \in Conn, conn[c].told # {}
             PROVE  \E n \in Granted(Req(c)) :
                LET labels == { p[1] : p \in conn[c].told }
                IN  /\ \A l \in labels, v \in Value : Kept(insts[n], l, v) <=> <<l, v>> \in conn[c].told
                    /\ Describes(Req(c)) => \A l \in Label \ labels, v \in Value : Kept(insts[n], l, v)
  BY DEF ToldTrue
<1> DEFINE told == conn[c].told
           labels == { p[1] : p \in told }
<1>1. Req(c) \in Request /\ Indexed /\ told = Route(Req(c)).told
  BY DEF IInv, GoodConn, Req
<1>2. PICK n \in DOMAIN insts :
          /\ insts[n] \in Instance /\ Granted(Req(c)) = {n}
          /\ IF Describes(Req(c)) THEN told = Scope(insts[n].filters)
             ELSE \E f \in insts[n].filters : told = Scope({f})
  BY <1>1, RouteTellsScope DEF Indexed
<1> DEFINE ri == insts[n]
<1>3. PICK fs \in SUBSET ri.filters : told = Scope(fs) /\ (Describes(Req(c)) => fs = ri.filters)
  BY <1>2
<1>4. /\ \A f, g \in ri.filters : f.label = g.label => f = g
      /\ \A f \in ri.filters : f.label \in Label /\ f.values # << >> /\ f.values \in Seq(Value)
  BY <1>2 DEF Instance, ResolvedInstance, Valid, Filter
<1>5. \A f \in ri.filters : Range(f.values) # {}
  <2> SUFFICES ASSUME NEW f \in ri.filters PROVE Range(f.values) # {}
    OBVIOUS
  <2>1. 1 \in DOMAIN f.values
    BY <1>4
  <2> QED
    BY <2>1 DEF Range
<1> HIDE DEF told
<1>6. \A l, v : <<l, v>> \in told <=> \E f \in fs : f.label = l /\ v \in Range(f.values)
  BY <1>3 DEF Scope
<1>7. \A p \in told : p = <<p[1], p[2]>>
  BY <1>3 DEF Scope
<1>8. \A l : l \in labels <=> \E f \in fs : f.label = l
  <2>1. \A l : l \in labels <=> \E v : <<l, v>> \in told
    BY <1>7
  <2> HIDE DEF labels, ri
  <2>2. \A f \in fs : \E v : v \in Range(f.values)
    BY <1>3, <1>5
  <2> QED
    BY <1>6, <2>1, <2>2
<1> HIDE DEF labels, ri
<1>9. ASSUME NEW l \in labels, NEW v \in Value
      PROVE  Kept(ri, l, v) <=> <<l, v>> \in told
  <2>1. PICK f \in fs : f.label = l
    BY <1>8
  <2>2. l \in Label /\ f \in ri.filters /\ \A g \in ri.filters : g.label = l => g = f
    BY <1>3, <1>4, <2>1
  <2>3. Kept(ri, l, v) <=> v \in Range(f.values)
    BY <1>2, <2>1, <2>2, KeptExact DEF ri
  <2>4. <<l, v>> \in told <=> v \in Range(f.values)
    BY <1>3, <1>6, <2>1, <2>2
  <2> QED
    BY <2>3, <2>4
<1>10. ASSUME Describes(Req(c)), NEW l \in Label \ labels, NEW v \in Value
       PROVE  Kept(ri, l, v)
  BY <1>2, <1>3, <1>8, <1>10, KeptExact DEF ri
<1> QED
  BY <1>2, <1>9, <1>10 DEF labels, told, ri

\* Without an instance for its token a request is answered before anything of it is read.
LEMMA ImpliesUnauthUniform == IInv => UnauthUniform
<1> SUFFICES ASSUME IInv, NEW c \in Conn,
                    conn[c].req # << >>, Granted(Req(c)) = {}, Path(Req(c)) # <<"healthz">>
             PROVE  /\ conn[c].phase \in {"arrived", "replied", "gone", "killed"}
                    /\ conn[c].phase = "replied" =>
                          conn[c] = [Fresh("replied", conn[c].req) EXCEPT !.status = "401"]
  BY DEF UnauthUniform
<1>1. GoodConn(conn[c]) /\ conn[c].phase \in Phase \ {"idle"} /\ Req(c) \in Request /\ Indexed
  BY DEF IInv, GoodConn, Req
<1>2. Authenticated(Req(c)) = None
  BY <1>1, AuthenticatedIsGranted DEF Indexed
<1>3. Route(Req(c)) = Answer("401", {}) /\ ~WaitsForBody(Req(c))
  BY <1>2 DEF Route, WaitsForBody
<1>4. conn[c].up = << >> /\ conn[c].phase # "body"
  BY <1>1, <1>3 DEF GoodConn, Req, Answer
<1>5. ASSUME conn[c].phase = "replied"
      PROVE  conn[c] = [Fresh("replied", conn[c].req) EXCEPT !.status = "401"]
  <2>1. /\ conn[c].status = "401" /\ conn[c].told = {} /\ conn[c].data = {}
    BY <1>1, <1>3, <1>4, <1>5 DEF GoodConn, Req, Answer
  <2> DEFINE k == conn[c]
             g == [Fresh("replied", conn[c].req) EXCEPT !.status = "401"]
  <2>2. /\ g.phase = "replied" /\ g.req = k.req /\ g.up = << >> /\ g.status = "401"
        /\ g.told = {} /\ g.data = {}
        /\ DOMAIN g = {"phase", "req", "up", "status", "told", "data"}
    BY DEF Fresh
  <2>3. g = [f \in DOMAIN g |-> g[f]]
    BY DEF Fresh
  <2>4. k = [f \in DOMAIN k |-> k[f]] /\ DOMAIN k = {"phase", "req", "up", "status", "told", "data"}
    BY <1>1 DEF GoodConn
  <2>5. \A f \in DOMAIN k : g[f] = k[f]
    BY <1>4, <1>5, <2>1, <2>2, <2>4
  <2> HIDE DEF g, k
  <2>6. k = g
    BY <2>2, <2>3, <2>4, <2>5
  <2> QED
    BY <2>6 DEF g, k
<1> QED
  BY <1>1, <1>4, <1>5 DEF GoodConn, Phase

-----------------------------------------------------------------------------
(* That it is an invariant. *)

\* The gateway starts in the invariant.
LEMMA InitHasInvariant == Init => IInv
  BY DEF Init, IInv, GoodConn, Fresh, Phase

\* What a connection holds stays good while the index does.
LEMMA GoodStays ==
    ASSUME insts' = insts, index' = index
    PROVE  \A k : GoodConn(k) => GoodConn(k)'
<1>1. \A req : Authenticated(req)' = Authenticated(req)
  BY DEF Authenticated
<1>2. \A req : Route(req)' = Route(req)
  BY <1>1 DEF Route, Dispatch
<1>3. \A req : WaitsForBody(req)' = WaitsForBody(req)
  BY <1>1 DEF WaitsForBody
<1>4. Indexed' = Indexed
  BY DEF Indexed
<1> QED
  BY <1>2, <1>3, <1>4 DEF GoodConn

\* A connection that keeps what it holds may go on to any later phase.
LEMMA PhaseGood ==
    ASSUME NEW k, GoodConn(k), k.phase # "idle", NEW p,
           \/ p \in {"gone", "killed"}
           \/ p = "body" /\ k.phase = "arrived" /\ WaitsForBody(k.req[1])
           \/ p = "sent" /\ k.phase = "sending"
           \/ p = "streaming" /\ k.phase \in {"sending", "sent"}
    PROVE  GoodConn([k EXCEPT !.phase = p])
  BY DEF GoodConn, Phase

\* The reply to a request that went to Loki holds nothing that Loki may not show.
LEMMA ReplyGood ==
    ASSUME NEW c \in Conn, GoodConn(conn[c]), conn[c].phase # "idle", conn[c].up # << >>,
           NEW status, NEW data, data \subseteq Reads(Up(c))
    PROVE  GoodConn(Reply(c, status, {}, data))
  BY DEF GoodConn, Reply, Up, Phase

\* A handler's decision.
LEMMA DecisionGood ==
    ASSUME IInv, NEW c \in Conn, conn[c].phase \in {"arrived", "body"}
    PROVE  GoodConn(Decision(c))
<1> DEFINE o == Route(Req(c))
<1>1. /\ GoodConn(conn[c]) /\ conn[c].up = << >> /\ conn[c].data = {} /\ conn[c].told = {}
      /\ Req(c) \in Request /\ conn[c].req # << >> /\ Indexed
      /\ DOMAIN conn[c] = {"phase", "req", "up", "status", "told", "data"}
  BY DEF IInv, GoodConn, Req
<1>2. CASE o.status = "forward"
  <2>1. PICK up : o.up = <<up>>
    BY <1>1, <1>2, RouteForwardsInScope DEF Indexed
  <2>2. Decision(c) = [conn[c] EXCEPT !.phase = "sending", !.up = <<up>>]
    BY <1>2, <2>1 DEF Decision
  <2>3. /\ Decision(c).phase = "sending" /\ Decision(c).status = conn[c].status /\ Decision(c).told = {}
        /\ Decision(c).data = {} /\ Decision(c).req = conn[c].req /\ Decision(c).up = <<up>>
        /\ DOMAIN Decision(c) = {"phase", "req", "up", "status", "told", "data"}
        /\ Decision(c) = [f \in DOMAIN Decision(c) |-> Decision(c)[f]]
    BY <1>1, <2>2
  <2> QED
    BY <1>1, <1>2, <2>1, <2>3 DEF GoodConn, Phase, Req
<1>3. CASE o.status # "forward"
  <2>1. Decision(c) = [conn[c] EXCEPT !.phase = "replied", !.status = o.status, !.told = o.told, !.data = {}]
    BY <1>3 DEF Decision, Reply
  <2> HIDE DEF o
  <2>2. /\ Decision(c).phase = "replied" /\ Decision(c).status = o.status /\ Decision(c).told = o.told
        /\ Decision(c).data = {} /\ Decision(c).req = conn[c].req /\ Decision(c).up = << >>
        /\ DOMAIN Decision(c) = {"phase", "req", "up", "status", "told", "data"}
        /\ Decision(c) = [f \in DOMAIN Decision(c) |-> Decision(c)[f]]
    BY <1>1, <2>1
  <2> QED
    BY <1>1, <2>2 DEF GoodConn, Phase, Req, o
<1> QED
  BY <1>2, <1>3

\* A step of one connection to a record that is good disturbs nothing else.
LEMMA StepKeepsInvariant ==
    ASSUME IInv, NEW c \in Conn, NEW phases, NEW new, GoodConn(new),
           Step(c, phases, new)
    PROVE  IInv'
<1>1. /\ insts' = insts /\ index' = index /\ proc' = proc /\ exit' = "none" /\ exit = "none"
      /\ proc \in {"serving", "draining"}
      /\ DOMAIN conn' = Conn /\ conn'[c] = new
      /\ \A d \in Conn \ {c} : conn'[d] = conn[d]
  BY DEF IInv, Step, Running
<1>2. \A d \in Conn : GoodConn(conn[d])'
  BY <1>1, GoodStays DEF IInv
<1> QED
  BY <1>1, <1>2 DEF IInv, Indexed

\* The end of the process cuts connections off and changes nothing they hold.
LEMMA KilledKeepsInvariant ==
    ASSUME IInv, conn' = Killed, insts' = insts, index' = index, proc' = "exited",
           exit' \in {"failed", "forced"}
    PROVE  IInv'
<1>1. ASSUME NEW c \in Conn
      PROVE  GoodConn(Killed[c])
  <2>1. CASE Active(c)
    <3>1. GoodConn(conn[c]) /\ conn[c].phase # "idle" /\ Killed[c] = [conn[c] EXCEPT !.phase = "killed"]
      BY <2>1 DEF IInv, Active, Killed
    <3> QED
      BY <3>1, PhaseGood
  <2>2. CASE ~Active(c)
    BY <2>2 DEF Killed, IInv
  <2> QED
    BY <2>1, <2>2
<1>2. \A c \in Conn : GoodConn(conn[c])'
  BY <1>1, GoodStays
<1> QED
  BY <1>2 DEF IInv, Killed

\* The process starts and ends in the invariant.
LEMMA ProcessKeepsInvariant ==
    ASSUME IInv, Start \/ ListenFails \/ Signal \/ Drained \/ GraceExpires
    PROVE  IInv'
<1>1. ASSUME conn' = conn, insts' = insts, index' = index
      PROVE  DOMAIN conn' = Conn /\ \A c \in Conn : GoodConn(conn[c])'
  BY <1>1, GoodStays DEF IInv
<1>2. CASE Start
  <2>1. insts' = insts /\ conn' = conn
    BY <1>2 DEF Start
  <2>2. \A c \in Conn : conn[c].phase = "idle" /\ GoodConn(conn[c])
    BY <1>2 DEF Start, IInv
  <2>3. \A c \in Conn : GoodConn(conn[c])'
    BY <2>1, <2>2 DEF GoodConn
  <2> QED
    BY <1>2, <2>1, <2>2, <2>3 DEF Start, IInv, Indexed
<1>3. CASE ListenFails
  BY <1>3, KilledKeepsInvariant DEF ListenFails
<1>4. CASE Signal
  BY <1>1, <1>4 DEF Signal, IInv, Indexed
<1>5. CASE Drained
  BY <1>1, <1>5 DEF Drained, IInv, Active
<1>6. CASE GraceExpires
  BY <1>6, KilledKeepsInvariant DEF GraceExpires
<1> QED
  BY <1>2, <1>3, <1>4, <1>5, <1>6

\* The steps up to the router's decision keep the invariant.
LEMMA HandlerKeepsInvariant ==
    ASSUME IInv, NEW c \in Conn,
           (\E req \in Requests : Arrive(c, req)) \/ Serve(c) \/ BodyRead(c) \/ Disconnect(c)
    PROVE  IInv'
<1>1. CASE \E req \in Requests : Arrive(c, req)
  <2>1. PICK req \in Requests : Arrive(c, req)
    BY <1>1
  <2>2. GoodConn(Fresh("arrived", <<req>>))
    BY <2>1, GatewayAssumption DEF GoodConn, Fresh, Phase, Arrive, Step, Running, IInv
  <2> QED
    BY <2>1, <2>2, StepKeepsInvariant DEF Arrive
<1>2. CASE Serve(c)
  <2>1. CASE WaitsForBody(Req(c))
    <3>1. Step(c, {"arrived"}, [conn[c] EXCEPT !.phase = "body"])
      BY <1>2, <2>1 DEF Serve
    <3>2. GoodConn([conn[c] EXCEPT !.phase = "body"])
      <4>1. GoodConn(conn[c]) /\ conn[c].phase = "arrived" /\ WaitsForBody(conn[c].req[1])
        BY <2>1, <3>1 DEF IInv, Step, Req
      <4> QED
        BY <4>1, PhaseGood DEF GoodConn
    <3> QED
      BY <3>1, <3>2, StepKeepsInvariant
  <2>2. CASE ~WaitsForBody(Req(c))
    <3>1. Step(c, {"arrived"}, Decision(c))
      BY <1>2, <2>2 DEF Serve
    <3>2. GoodConn(Decision(c))
      BY <3>1, DecisionGood DEF Step
    <3> QED
      BY <3>1, <3>2, StepKeepsInvariant
  <2> QED
    BY <2>1, <2>2
<1>3. CASE BodyRead(c)
  <2>1. GoodConn(Decision(c))
    BY <1>3, DecisionGood DEF BodyRead, Step
  <2> QED
    BY <1>3, <2>1, StepKeepsInvariant DEF BodyRead
<1>4. CASE Disconnect(c)
  <2>1. GoodConn(conn[c]) /\ conn[c].phase # "idle"
    BY <1>4 DEF Disconnect, Step, IInv
  <2>2. GoodConn([conn[c] EXCEPT !.phase = "gone"])
    BY <2>1, PhaseGood DEF GoodConn
  <2> QED
    BY <1>4, <2>2, StepKeepsInvariant DEF Disconnect
<1> QED
  BY <1>1, <1>2, <1>3, <1>4

\* The steps of the exchange with Loki keep the invariant.
LEMMA ExchangeKeepsInvariant ==
    ASSUME IInv, NEW c \in Conn, Exchange(c)
    PROVE  IInv'
<1> DEFINE sent == {"sending", "sent", "streaming"}
<1>1. GoodConn(conn[c]) /\ conn[c].up # << >>
  BY DEF IInv, Exchange
<1>2. \A status, data : conn[c].phase \in sent /\ data \subseteq Reads(Up(c))
                          => GoodConn(Reply(c, status, {}, data))
  BY <1>1, ReplyGood
<1>3. conn[c].phase \in sent => GoodConn(Failure(c)) /\ GoodConn([conn[c] EXCEPT !.phase = "gone"])
  BY <1>1, <1>2, PhaseGood DEF Failure
<1>4. CASE LokiHeaders(c)
  <2>1. GoodConn([conn[c] EXCEPT !.phase = "streaming"])
    BY <1>1, <1>4, PhaseGood DEF LokiHeaders, Step, GoodConn
  <2> QED
    BY <1>4, <2>1, StepKeepsInvariant DEF LokiHeaders
<1>5. CASE LokiChunk(c)
  <2>1. PICK x \in Reads(Up(c)) : Step(c, {"streaming"}, [conn[c] EXCEPT !.data = @ \cup {x}])
    BY <1>5 DEF LokiChunk
  <2>2. GoodConn([conn[c] EXCEPT !.data = @ \cup {x}])
    BY <1>1, <1>5, <2>1 DEF GoodConn, Up, Step, LokiChunk, ViaMCP
  <2> QED
    BY <2>1, <2>2, StepKeepsInvariant
<1>6. CASE LokiEnd(c)
  <2>1. CASE ViaMCP(c)
    <3>1. PICK streams \in SUBSET Reads(Up(c)) :
             Step(c, {"streaming"},
                  IF Renders(Req(c).call, streams) THEN Reply(c, "200", {}, streams) ELSE Failure(c))
      BY <1>6, <2>1 DEF LokiEnd
    <3>2. GoodConn(Reply(c, "200", {}, streams)) /\ GoodConn(Failure(c))
      BY <1>2, <1>3, <3>1 DEF Step
    <3> QED
      BY <3>1, <3>2, StepKeepsInvariant
  <2>2. CASE ~ViaMCP(c)
    <3>1. Step(c, {"streaming"}, Reply(c, "200", {}, conn[c].data))
      BY <1>6, <2>2 DEF LokiEnd
    <3>2. conn[c].data \subseteq Reads(Up(c)) /\ conn[c].phase \in sent
      BY <1>1, <3>1 DEF GoodConn, Step, Up
    <3>3. GoodConn(Reply(c, "200", {}, conn[c].data))
      BY <1>2, <3>2
    <3> QED
      BY <3>1, <3>3, StepKeepsInvariant
  <2> QED
    BY <2>1, <2>2
<1>7. CASE LokiRefuses(c)
  <2>1. GoodConn(Reply(c, IF ViaMCP(c) THEN "toolError" ELSE "500", {}, {}))
    BY <1>2, <1>7 DEF LokiRefuses, Step
  <2> QED
    BY <1>7, <2>1, StepKeepsInvariant DEF LokiRefuses
<1>8. CASE UpstreamBreaks(c)
  <2>1. PICK phases \in SUBSET sent :
           Step(c, phases, Failure(c)) \/ Step(c, phases, [conn[c] EXCEPT !.phase = "gone"])
    BY <1>8 DEF UpstreamBreaks
  <2>2. GoodConn(Failure(c)) /\ GoodConn([conn[c] EXCEPT !.phase = "gone"])
    BY <1>3, <2>1 DEF Step
  <2> QED
    BY <2>1, <2>2, StepKeepsInvariant
<1>9. CASE Timeout(c)
  <2>1. PICK phases \in SUBSET sent : Step(c, phases, Failure(c))
    BY <1>9 DEF Timeout
  <2>2. GoodConn(Failure(c))
    BY <1>3, <2>1 DEF Step
  <2> QED
    BY <2>1, <2>2, StepKeepsInvariant
<1>10. CASE Written(c)
  <2>1. GoodConn([conn[c] EXCEPT !.phase = "sent"])
    BY <1>1, <1>10, PhaseGood DEF Written, Step, GoodConn
  <2> QED
    BY <1>10, <2>1, StepKeepsInvariant DEF Written
<1> QED
  BY <1>4, <1>5, <1>6, <1>7, <1>8, <1>9, <1>10 DEF Exchange

\* Every step keeps the invariant.
LEMMA NextKeepsInvariant ==
    ASSUME IInv, [Next]_vars
    PROVE  IInv'
<1>1. CASE Start \/ ListenFails \/ Signal \/ Drained \/ GraceExpires
  BY <1>1, ProcessKeepsInvariant
<1>2. CASE \E c \in Conn : (\E req \in Requests : Arrive(c, req)) \/ Serve(c) \/ BodyRead(c) \/ Disconnect(c)
  BY <1>2, HandlerKeepsInvariant
<1>3. CASE \E c \in Conn : Exchange(c)
  BY <1>3, ExchangeKeepsInvariant
<1>4. CASE UNCHANGED vars
  <2>1. \A c \in Conn : GoodConn(conn[c])'
    BY <1>4, GoodStays DEF vars, IInv
  <2> QED
    BY <1>4, <2>1 DEF vars, IInv, Indexed, Active
<1> QED
  BY <1>1, <1>2, <1>3, <1>4 DEF Next

-----------------------------------------------------------------------------

\* The types, of any number of connections and any requests.
THEOREM GatewayTypeOK == Spec => []TypeOK
<1>1. Init => IInv
  BY InitHasInvariant
<1>2. IInv /\ [Next]_vars => IInv'
  BY NextKeepsInvariant
<1>3. IInv => TypeOK
  BY ImpliesTypeOK
<1> QED
  BY <1>1, <1>2, <1>3, PTL DEF Spec

\* A client is shown only what the instance of its token may show, whatever it
\* sends, by whatever route, however Loki answers and whenever either breaks off.
THEOREM GatewayRepliesInScope == Spec => []RepliesInScope
<1>1. Init => IInv
  BY InitHasInvariant
<1>2. IInv /\ [Next]_vars => IInv'
  BY NextKeepsInvariant
<1>3. IInv => RepliesInScope
  BY ImpliesRepliesInScope
<1> QED
  BY <1>1, <1>2, <1>3, PTL DEF Spec

\* Loki is asked as the one instance whose token was presented, with its address,
\* tenant and credential.
THEOREM GatewayUpstreamIdentity == Spec => []UpstreamIdentity
<1>1. Init => IInv
  BY InitHasInvariant
<1>2. IInv /\ [Next]_vars => IInv'
  BY NextKeepsInvariant
<1>3. IInv => UpstreamIdentity
  BY ImpliesUpstreamIdentity
<1> QED
  BY <1>1, <1>2, <1>3, PTL DEF Spec

\* Nothing is sent to Loki for a request any LogQL of which the enforcer refuses,
\* wherever in the URL and the body it stands and among whatever else.
THEOREM GatewayRefusedNeverSent == Spec => []RefusedNeverSent
<1>1. Init => IInv
  BY InitHasInvariant
<1>2. IInv /\ [Next]_vars => IInv'
  BY NextKeepsInvariant
<1>3. IInv => RefusedNeverSent
  BY ImpliesRefusedNeverSent
<1> QED
  BY <1>1, <1>2, <1>3, PTL DEF Spec

\* What is not LogQL reaches Loki as the client sent it, in number and in order.
THEOREM GatewayParamsPreserved == Spec => []ParamsPreserved
<1>1. Init => IInv
  BY InitHasInvariant
<1>2. IInv /\ [Next]_vars => IInv'
  BY NextKeepsInvariant
<1>3. IInv => ParamsPreserved
  BY ImpliesParamsPreserved
<1> QED
  BY <1>1, <1>2, <1>3, PTL DEF Spec

\* Enforcement takes away what is out of scope and nothing else, where no base URL
\* brings a query of its own.
THEOREM GatewayNothingLost ==
    ASSUME PlainUrls
    PROVE  Spec => []NothingLost
<1>1. Init => IInv
  BY InitHasInvariant
<1>2. IInv /\ [Next]_vars => IInv'
  BY NextKeepsInvariant
<1>3. IInv => NothingLost
  BY ImpliesNothingLost
<1> QED
  BY <1>1, <1>2, <1>3, PTL DEF Spec

\* The values of an enforced label are answered from the configuration alone.
THEOREM GatewayEnforcedLabelNeverAsked == Spec => []EnforcedLabelNeverAsked
<1>1. Init => IInv
  BY InitHasInvariant
<1>2. IInv /\ [Next]_vars => IInv'
  BY NextKeepsInvariant
<1>3. IInv => EnforcedLabelNeverAsked
  BY ImpliesEnforcedLabelNeverAsked
<1> QED
  BY <1>1, <1>2, <1>3, PTL DEF Spec

\* What clients are told of their scope is what the enforcer does to their queries.
THEOREM GatewayToldTrue == Spec => []ToldTrue
<1>1. Init => IInv
  BY InitHasInvariant
<1>2. IInv /\ [Next]_vars => IInv'
  BY NextKeepsInvariant
<1>3. IInv => ToldTrue
  BY ImpliesToldTrue
<1> QED
  BY <1>1, <1>2, <1>3, PTL DEF Spec

\* Every request without a configured token has the same answer, and has it before
\* its body is read.
THEOREM GatewayUnauthUniform == Spec => []UnauthUniform
<1>1. Init => IInv
  BY InitHasInvariant
<1>2. IInv /\ [Next]_vars => IInv'
  BY NextKeepsInvariant
<1>3. IInv => UnauthUniform
  BY ImpliesUnauthUniform
<1> QED
  BY <1>1, <1>2, <1>3, PTL DEF Spec
=============================================================================
