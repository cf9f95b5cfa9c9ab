-------------------------------- MODULE Loki --------------------------------
(***************************************************************************)
(* The upstream Loki, as the gateway relies on it: a store of streams by   *)
(* tenant, and which of them the answer to a request may show.  Where Loki *)
(* has a choice (which copy of a parameter counts, what an endpoint the    *)
(* gateway does not know returns) the model lets it show the most.         *)
(***************************************************************************)
EXTENDS Http

CONSTANT Store      \* what Loki holds

StoredStream == [orgID : Org \cup {None}, labels : Stream]

ASSUME StoreAssumption == Store \subseteq StoredStream

OfTenant(up) == { x \in Store : x.orgID = up.orgID }

\* Every value a parameter has, on either side.
Values(up, key) == Range(up.url[key]) \cup Range(up.body[key])

Selected(up, texts) ==
    { x \in OfTenant(up) : \E t \in texts : \E sel \in t.sels : Selects(sel, x.labels) }

NonEmpty(texts) == { t \in texts : t.kind # "empty" }

QueryPaths ==
    { <<"query_range">>, <<"query">>, <<"index", "stats">>, <<"index", "volume">>,
      <<"index", "volume_range">> }

IsLabelPath(suffix) ==
    suffix = <<"labels">> \/ (Len(suffix) = 3 /\ suffix[1] = "label" /\ suffix[3] = "values")

Reads(up) ==
    LET query == NonEmpty(Values(up, "query"))
        match == Values(up, "match[]") \cup Values(up, "match")
    IN  IF up.suffix \in QueryPaths THEN Selected(up, query)
        ELSE IF IsLabelPath(up.suffix)
          THEN IF query = {} THEN OfTenant(up) ELSE Selected(up, query)
        ELSE IF up.suffix = <<"series">> THEN IF match = {} THEN OfTenant(up) ELSE Selected(up, match)
        ELSE IF up.suffix \in {<<"status", "buildinfo">>, <<"format_query">>} THEN {}
        ELSE OfTenant(up)
=============================================================================
