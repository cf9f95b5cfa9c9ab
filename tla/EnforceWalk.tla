----------------------------- MODULE EnforceWalk -----------------------------
(***************************************************************************)
(* Enforcer.Enforce step by step: parse the query, walk the syntax tree in *)
(* preorder with a callback that rewrites each selector in place, then     *)
(* serialize the same tree.  A failing selector stops the callback but not *)
(* the walk: the callback returns false, which skips the node's subtree,   *)
(* and the walk still visits the siblings, so the tree is left partly      *)
(* rewritten and must not be serialized.                                   *)
(***************************************************************************)
EXTENDS Enforcer, Integers, Sequences, FiniteSets

CONSTANTS
    Deployed,      \* the enforcers an instance may be built with
    Queries         \* the inputs: [kind, nodes], nodes a tree in preorder

(***************************************************************************)
(* A node is a selector or an inner expression; last is the index of the   *)
(* last node of its subtree.                                               *)
(***************************************************************************)
Node == [isSel : BOOLEAN, sel : SUBSET Matcher, last : Nat]

ASSUME EnforcerAssumption == Deployed \subseteq Enforcers

IsQuery(q) ==
    /\ q.kind \in {"empty", "malformed", "opaque"} \cup ParsedKind
    /\ q.nodes \in Seq(Node)
    /\ \A i \in DOMAIN q.nodes : q.nodes[i].last \in i .. Len(q.nodes)

ASSUME QueryAssumption == \A q \in Queries : IsQuery(q)

VARIABLES
    enf,        \* the enforcer: read, never written, by the walk
    input,      \* the query as the caller sent it
    ast,        \* the parsed tree, rewritten in place
    pos,        \* the next node the walk visits
    sites,      \* how many selectors the callback has seen
    walkErr,    \* the first error of the callback
    pc, result

vars == <<enf, input, ast, pos, sites, walkErr, pc, result>>

SelectorsOf(nodes) == { nodes[i].sel : i \in { j \in DOMAIN nodes : nodes[j].isSel } }

TextOf(kind, nodes) == [kind |-> kind, sels |-> SelectorsOf(nodes)]

Pending == [err |-> "pending", text |-> EmptyText]

Init ==
    /\ enf \in Deployed
    /\ input \in Queries
    /\ ast = << >>
    /\ pos = 1
    /\ sites = 0
    /\ walkErr = "none"
    /\ pc = "parse"
    /\ result = Pending

Return(r) == result' = r /\ pc' = "done"

Parse ==
    /\ pc = "parse"
    /\ IF input.kind \in ParsedKind
         THEN ast' = input.nodes /\ pc' = "walk" /\ UNCHANGED result
         ELSE Return(Failed("ErrParse")) /\ UNCHANGED ast
    /\ UNCHANGED <<enf, input, pos, sites, walkErr>>

\* The callback refuses to descend once it has failed.
SkipNode ==
    /\ walkErr # "none"
    /\ pos' = ast[pos].last + 1
    /\ UNCHANGED <<ast, sites, walkErr>>

InnerNode ==
    /\ walkErr = "none"
    /\ ~ast[pos].isSel
    /\ pos' = pos + 1
    /\ UNCHANGED <<ast, sites, walkErr>>

\* A variant for the properties to tell from the code: the callback counts the
\* matchers it has seen and not the selectors.
MatcherCounted == sites + Cardinality(ast[pos].sel)

SiteCounted == sites + 1

SelectorNode ==
    /\ walkErr = "none"
    /\ ast[pos].isSel
    /\ sites' = SiteCounted
    /\ LET r == EnforceMatchers(enf, ast[pos].sel)
       IN  IF r.err # "none"
             THEN walkErr' = r.err /\ pos' = ast[pos].last + 1 /\ UNCHANGED ast
             ELSE ast' = [ast EXCEPT ![pos].sel = r.sel] /\ pos' = pos + 1 /\ UNCHANGED walkErr

Visit ==
    /\ pc = "walk"
    /\ pos <= Len(ast)
    /\ (SkipNode \/ InnerNode \/ SelectorNode)
    /\ UNCHANGED <<enf, input, pc, result>>

\* A variant for the properties to tell from the code: the walk's error is not
\* looked at, and the tree is serialized as far as it was rewritten.
SerializeAnyway ==
    IF sites = 0 THEN Failed("ErrNoSelector")
    ELSE [err |-> "none", text |-> TextOf(input.kind, ast)]

Serialize ==
    IF walkErr # "none" THEN Failed(walkErr)
    ELSE IF sites = 0 THEN Failed("ErrNoSelector")
    ELSE [err |-> "none", text |-> TextOf(input.kind, ast)]

Finish ==
    /\ pc = "walk"
    /\ pos > Len(ast)
    /\ Return(Serialize)
    /\ UNCHANGED <<enf, input, ast, pos, sites, walkErr>>

Next == Parse \/ Visit \/ Finish

Spec == Init /\ [][Next]_vars

-----------------------------------------------------------------------------
(* What the walk must establish, over what a selector selects. *)

\* The state of the walk has its types.
TypeOK ==
    /\ enf \in Enforcers
    /\ IsQuery(input)
    /\ ast \in Seq(Node)
    /\ pos \in 1 .. Len(input.nodes) + 1
    /\ sites \in 0 .. pos - 1
    /\ walkErr \in {"none", "ErrConflict"}
    /\ pc \in {"parse", "walk", "done"}
    /\ result.err \in {"pending", "none", "ErrParse", "ErrNoSelector", "ErrConflict"}

\* Whatever the caller wrote at whatever depth, a query that is returned selects
\* only streams inside the instance's scope (the package's purpose).
OutputInScope ==
    result.err = "none" =>
        \A sel \in result.text.sels : \A s \in Stream : Selects(sel, s) => InScope(enf, s)

\* The rewrite narrows exactly: each returned selector selects the in-scope
\* streams that meet the caller's wishes, no fewer and no more, although the
\* enforced matcher is left out wherever the caller pinned the label.
NarrowingExact ==
    result.err = "none" =>
        \A i \in DOMAIN ast : ast[i].isSel =>
            \A s \in Stream :
                Selects(ast[i].sel, s) <=> InScope(enf, s) /\ Selects(Wishes(enf, input.nodes[i].sel), s)

\* A query that parses is refused for a conflict exactly when one of its
\* selectors is out of reach as a whole, although the code looks at one label
\* at a time; in override mode it never is.
RefusalExact ==
    (pc = "done" /\ input.kind \in ParsedKind) =>
        (result.err = "ErrConflict"
            <=> /\ enf.mode = "reject"
                /\ \E i \in DOMAIN input.nodes :
                      input.nodes[i].isSel /\ ~Reachable(enf, input.nodes[i].sel))

\* What is returned parses again, so Loki will not refuse it, and the enforcer
\* that wrote it accepts it, the enforced matchers in it being like a caller's to
\* a second pass: what that returns selects the same streams.  Its text may be
\* longer, since a filter of several values adds its matcher again.
OutputAcceptedAgain ==
    result.err = "none" =>
        \A sel \in result.text.sels :
            /\ Parseable(sel)
            /\ EnforceMatchers(enf, sel).err = "none"
            /\ \A s \in Stream : Selects(EnforceMatchers(enf, sel).sel, s) <=> Selects(sel, s)

\* The walk, with its early exit and its tree rewritten in place, does what the
\* one-step definition says, and shows nothing before.
Atomic == INSTANCE AtomicCall WITH query <- TextOf(input.kind, input.nodes), Result <- Enforce
ImplementsAtomic == Atomic!Spec

-----------------------------------------------------------------------------
(* What the documentation says and the code does not do. *)

\* The comment of enforceMatchers (enforcer.go:170) has the enforced matcher
\* always AND-ed in for compatible cases, and README.md:163 says the same.
EnforcedMatcherAlwaysAdded ==
    result.err = "none" =>
        \A sel \in result.text.sels : \A f \in enf.filters : f.matcher \in sel
=============================================================================
