-------------------------------- MODULE Proxy --------------------------------
(***************************************************************************)
(* internal/proxy: the allowlisted Loki read API of one instance.          *)
(* ServeHTTP is split at the one place where it may block, the reading of  *)
(* a form body: ReadsBody says whether the request gets that far, and      *)
(* ServeHTTP is what it decides once the body has been read.               *)
(***************************************************************************)
EXTENDS Http, SequencesExt

-----------------------------------------------------------------------------
(* Routing. *)

\* path.Clean on a rooted path: empty and "." segments vanish, ".." takes the
\* segment before it; an escaped segment is none of these.
Clean(path) ==
    FoldLeft(LAMBDA done, seg :
                 IF seg.escaped THEN Append(done, seg)
                 ELSE IF seg.name \in {"", "."} THEN done
                 ELSE IF seg.name = ".." THEN IF done = << >> THEN done ELSE Front(done)
                 ELSE Append(done, seg),
             << >>, path)

\* lokiclient.APIPrefix, as segments
APIPrefix == << "loki", "api", "v1" >>

HasEscape(segs) == \E i \in DOMAIN segs : segs[i].escaped

\* The part of the path after the API prefix, or << >> when the path is refused.
ApiSuffix(path) ==
    LET cleaned == Clean(path)
    IN  IF HasEscape(cleaned) \/ ~IsStrictPrefix(APIPrefix, Plain(cleaned)) THEN << >>
        ELSE SubSeq(Plain(cleaned), Len(APIPrefix) + 1, Len(cleaned))

IsLabelValues(suffix) == Len(suffix) = 3 /\ suffix[1] = "label" /\ suffix[3] = "values"

QuerySuffixes ==
    { <<"query_range">>, <<"query">>, <<"index", "stats">>, <<"index", "volume">>,
      <<"index", "volume_range">> }

RouteAction(suffix) ==
    IF suffix \in QuerySuffixes THEN "actQuery"
    ELSE IF suffix = <<"labels">> \/ IsLabelValues(suffix) THEN "actQueryOptional"
    ELSE IF suffix = <<"series">> THEN "actMatch"
    ELSE IF suffix \in {<<"status", "buildinfo">>, <<"format_query">>} THEN "actPassthrough"
    ELSE "none"

-----------------------------------------------------------------------------
(* Parameters. *)

\* url.ParseQuery on pairs that all decode.
ParseQuery(pairs) == [k \in ParamKey |-> TextsOf(pairs, k)]

Decodes(pairs) == \A i \in DOMAIN pairs : pairs[i].key # "%"

\* A variant for the properties to tell from the code: a limit without the one
\* byte more that tells a body that is too long from one that just fits.
LimitedBodyExact(body) == IF Len(body) > MaxFormBody THEN SubSeq(body, 1, MaxFormBody) ELSE body

\* io.ReadAll on a LimitReader of one more than the limit.
LimitedBody(body) == IF Len(body) > MaxFormBody + 1 THEN SubSeq(body, 1, MaxFormBody + 1) ELSE body

HasForm(req) == req.method = "POST" /\ req.ctype = "form"

\* The first problem with the request's parameters, "none" if they can be used.
ParamsError(req) ==
    LET read == LimitedBody(req.body)
    IN  IF ~Decodes(req.url) THEN "400"
        ELSE IF req.method # "POST" \/ req.ctype = "none" THEN "none"
        ELSE IF req.ctype = "malformed" THEN "400"
        ELSE IF req.ctype = "other" THEN "415"
        ELSE IF Len(read) > MaxFormBody THEN "413"
        ELSE IF ~Decodes(read) THEN "400"
        ELSE IF \E k \in ParamKey : ParseQuery(req.url)[k] # << >> /\ ParseQuery(read)[k] # << >> THEN "400"
        ELSE "none"

RequestParams(req) ==
    LET url  == ParseQuery(req.url)
        body == IF HasForm(req) THEN ParseQuery(LimitedBody(req.body)) ELSE NoParams
    IN  [k \in ParamKey |-> url[k] \o body[k]]

-----------------------------------------------------------------------------
(* Enforcement. *)

\* enforcementError, with what the message tells of the configuration.
Refusal(told) == [err |-> "400", vals |-> NoParams, told |-> told]
Accept(vals) == [err |-> "none", vals |-> vals, told |-> {}]

\* A variant for the properties to tell from the code: a second value is not noticed.
NeverTwice(texts) == FALSE

\* More than one value, and no value that is not "".
GivenTwice(texts) == \E i \in DOMAIN texts : i # 1
Absent(texts) == 1 \notin DOMAIN texts \/ texts[1].kind = "empty"

EnforceQuery(ri, vals, required) ==
    LET e == EnforcerOf(ri)
        r == Enforce(e, vals["query"][1])
    IN  IF GivenTwice(vals["query"]) THEN Refusal({})
        ELSE IF Absent(vals["query"]) THEN
             IF required THEN Refusal({})
             ELSE IF ri.enforcement.enforceLabelAPIs
                    THEN Accept([vals EXCEPT !["query"] = << SelectorText(e) >>])
                    ELSE Accept(vals)
        ELSE IF r.err # "none" THEN Refusal(ConflictTells(e, vals["query"][1]))
        ELSE Accept([vals EXCEPT !["query"] = << r.text >>])

\* A variant for the properties to tell from the code: the alias is forgotten.
MatchKeysBracketed == {"match[]"}

MatchKeys == {"match[]", "match"}

\* Which of several refused values the client is told of depends on their order,
\* which plays no other part.
EnforceMatch(ri, vals) ==
    LET e       == EnforcerOf(ri)
        refused == { t \in UNION { Range(vals[k]) : k \in MatchKeys } : Enforce(e, t).err # "none" }
    IN  IF refused # {} THEN Refusal(ConflictTells(e, CHOOSE t \in refused : TRUE))
        ELSE IF \A k \in MatchKeys : DOMAIN vals[k] = {}
          THEN Accept([vals EXCEPT !["match[]"] = << SelectorText(e) >>])
        ELSE Accept([k \in ParamKey |->
                        IF k \in MatchKeys
                          THEN [i \in DOMAIN vals[k] |-> Enforce(e, vals[k][i]).text]
                          ELSE vals[k]])

EnforceParams(ri, act, vals) ==
    CASE act = "actQuery"         -> EnforceQuery(ri, vals, TRUE)
      [] act = "actQueryOptional" -> EnforceQuery(ri, vals, FALSE)
      [] act = "actMatch"         -> EnforceMatch(ri, vals)
      [] act = "actPassthrough"   -> Accept(vals)

\* The outbound headers: the client's own credentials and tenant are deleted,
\* the configured ones set where there are any.
Rewrite(ri, req, suffix, vals) ==
    [via    |-> "proxy",
     base   |-> ri.loki.url,
     orgID  |-> ri.loki.orgID,
     cred   |-> Credential(ri.loki),
     suffix |-> suffix,
     url    |-> IF HasForm(req) THEN NoParams ELSE vals,
     body   |-> IF HasForm(req) THEN vals ELSE NoParams]

-----------------------------------------------------------------------------

\* ServeHTTP up to requestParams: an answer that needs no parameter, or "go on".
Routed(ri, req) ==
    LET suffix == ApiSuffix(req.path)
    IN  IF req.method \notin {"GET", "POST"} THEN Answer("405", {})
        ELSE IF suffix = << >> THEN Answer("404", {})
        ELSE IF IsLabelValues(suffix) /\ IsEnforced(ri, suffix[2])
          THEN Answer("200", {suffix[2]} \X FilterValues(ri, suffix[2]))
        ELSE IF RouteAction(suffix) = "none"
          THEN Answer(IF suffix = <<"tail">> THEN "501" ELSE "404", {})
        ELSE Answer("continue", {})

ReadsBody(ri, req) ==
    Routed(ri, req).status = "continue" /\ HasForm(req) /\ Decodes(req.url)

ServeProxy(ri, req) ==
    LET suffix == ApiSuffix(req.path)
        r      == EnforceParams(ri, RouteAction(suffix), RequestParams(req))
    IN  IF Routed(ri, req).status # "continue" THEN Routed(ri, req)
        ELSE IF ParamsError(req) # "none" THEN Answer(ParamsError(req), {})
        ELSE IF r.err # "none" THEN Answer(r.err, r.told)
        ELSE Forward(Rewrite(ri, req, suffix, r.vals))
=============================================================================
