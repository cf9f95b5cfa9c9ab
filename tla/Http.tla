-------------------------------- MODULE Http --------------------------------
(***************************************************************************)
(* The requests clients send and the requests the gateway sends upstream,  *)
(* up to what the code looks at.                                           *)
(*                                                                         *)
(* A path is the sequence of its raw segments; escaped marks one written   *)
(* with percent-encoding, name is what it decodes to.  A query string or   *)
(* form body is the sequence of its key-value pairs, in order; the key "%" *)
(* marks a pair that does not decode.                                      *)
(***************************************************************************)
EXTENDS Auth, Integers

CONSTANTS
    ParamKey,       \* parameter names, those the proxy knows among them
    MaxFormBody,    \* maxFormBodyBytes, in pairs
    UrlParams(_),   \* the parameters in the query string of a base URL
    UrlUser(_),     \* the user name and password in it, if any
    OddLabel,       \* names that are no label's and that a path cannot hold as they are
    PathEscape(_)   \* url.PathEscape

ASSUME ParamAssumption ==
    /\ {"query", "match[]", "match"} \subseteq ParamKey
    /\ MaxFormBody \in Nat

ASSUME PathAssumption ==
    /\ OddLabel \cap Label = {} /\ None \notin Label \cup OddLabel
    /\ \A l \in Label : PathEscape(l) = l
    /\ \A l \in OddLabel : PathEscape(l) \notin Label \cup {l}

Segment == [name : STRING, escaped : BOOLEAN]

Pair == [key : ParamKey \cup {"%"}, text : Text]

\* url.Values: every key's values, in order; no values is an absent key.
Params == [ParamKey -> Seq(Text)]

ASSUME UrlAssumption ==
    \A u \in Url : UrlParams(u) \in Params /\ UrlUser(u) \in Seq(Cred \cup {None})

NoParams == [k \in ParamKey |-> << >>]

\* The texts under a key, pair by pair in the order of the pairs.
TextsOf(pairs, key) ==
    LET upTo[n \in 0 .. Len(pairs)] ==
            IF n = 0 THEN << >>
            ELSE IF pairs[n].key = key THEN Append(upTo[n - 1], pairs[n].text)
            ELSE upTo[n - 1]
    IN  upTo[Len(pairs)]

\* An MCP call of a tool, or for the instructions of the handshake or the list of
\* tools with their descriptions: timeOK says whether start and end parse, and a
\* call may name no label.
ToolCall ==
    [tool : {"loki_query", "loki_label_names", "loki_label_values", "initialize", "tools/list"},
     query : Text, label : Label \cup OddLabel \cup {None}, timeOK : BOOLEAN, format : {"raw", "json", "text", "other"}]

Plain(segs) == [i \in DOMAIN segs |-> segs[i].name]

\* Of MCP, only calls to which this code has something to say, which are POSTs:
\* sessions, pings and streams are the MCP library's.
Request ==
    { req \in [method : {"GET", "HEAD", "POST", "DELETE"},
               path   : Seq(Segment),
               auth   : [scheme : {"none", "basic", "bearer"}, cred : Token \cup {None}],
               orgID  : Org \cup {None},
               url    : Seq(Pair),
               ctype  : {"none", "form", "other", "malformed"},
               body   : Seq(Pair),
               call   : ToolCall] :
        Plain(req.path) = <<"mcp">> => req.method = "POST" }

\* What goes to Loki: where, headers, the API path after /loki/api/v1/, and the
\* parameters on each side.
Upstream ==
    [via : {"proxy", "mcp"}, base : Url, orgID : Org \cup {None}, cred : Seq(Cred \cup {None}),
     suffix : Seq(STRING), url : Params, body : Params]

(***************************************************************************)
(* What a handler decides: an answer of its own, with the labels and       *)
(* values of the configuration that are in it, or a request to Loki.       *)
(***************************************************************************)
Answer(status, told) == [status |-> status, told |-> told, up |-> << >>]

Forward(up) == [status |-> "forward", told |-> {}, up |-> <<up>>]
=============================================================================
