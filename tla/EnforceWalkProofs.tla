-------------------------- MODULE EnforceWalkProofs --------------------------
(***************************************************************************)
(* The walk of EnforceWalk, for every tree, enforcer, label and value.     *)
(***************************************************************************)
EXTENDS EnforceWalk, EnforcerProofs, TLAPS

\* The tree differs from the input only in the selectors already visited.
ShapeKept ==
    /\ ast \in Seq(Node)
    /\ Len(ast) = Len(input.nodes)
    /\ \A i \in 1 .. Len(ast) : ast[i].isSel = input.nodes[i].isSel /\ ast[i].last = input.nodes[i].last

\* As long as no selector was refused, every node before pos is done and every
\* node from pos on is as the caller wrote it.
Progress ==
    walkErr = "none" =>
        /\ \A i \in 1 .. Len(ast) : i < pos /\ ast[i].isSel =>
              /\ ~Refused(enf, input.nodes[i].sel)
              /\ ast[i].sel = Rewritten(enf, input.nodes[i].sel)
              /\ sites # 0
        /\ \A i \in 1 .. Len(ast) : i >= pos => ast[i].sel = input.nodes[i].sel
        /\ sites # 0 => \E i \in 1 .. Len(ast) : ast[i].isSel

Blamed ==
    walkErr = "ErrConflict" =>
        \E i \in 1 .. Len(ast) : ast[i].isSel /\ Refused(enf, input.nodes[i].sel)

\* The inductive invariant: the phases, and what the walk has done so far.
IInv ==
    /\ TypeOK
    /\ pc = "parse" => /\ ast = << >> /\ pos = 1 /\ sites = 0 /\ walkErr = "none"
                       /\ result = Pending
    /\ pc = "walk" => input.kind \in ParsedKind /\ ShapeKept /\ Progress /\ Blamed /\ result = Pending
    /\ pc = "done" =>
          IF input.kind \in ParsedKind
            THEN ShapeKept /\ Progress /\ Blamed /\ pos > Len(ast) /\ result = Serialize
            ELSE result = Failed("ErrParse")

\* A call starts in the invariant.
LEMMA InitIInv == Init => IInv
<1> SUFFICES ASSUME Init PROVE IInv
  OBVIOUS
<1>1. enf \in Enforcers /\ IsQuery(input)
  BY EnforcerAssumption, QueryAssumption DEF Init
<1>2. ast \in Seq(Node) /\ pos \in 1 .. Len(input.nodes) + 1 /\ sites \in 0 .. pos - 1
  BY <1>1 DEF Init, IsQuery
<1> QED
  BY <1>1, <1>2 DEF Init, IInv, TypeOK, Pending

\* The parse puts the input in the tree, or ends with an error and the tree as it was.
LEMMA ParseIInv == IInv /\ Parse => IInv'
<1> SUFFICES ASSUME IInv, Parse PROVE IInv'
  OBVIOUS
<1>1. TypeOK /\ pc = "parse" /\ pos = 1 /\ sites = 0 /\ walkErr = "none" /\ result = Pending
  BY DEF IInv, Parse
<1>2. UNCHANGED <<enf, input, pos, sites, walkErr>>
  BY DEF Parse
<1>3. CASE input.kind \in ParsedKind
  <2>1. ast' = input.nodes /\ pc' = "walk" /\ result' = result
    BY <1>3 DEF Parse
  <2>2. TypeOK'
    BY <1>1, <1>2, <2>1 DEF TypeOK, IsQuery, Pending
  <2>3. ShapeKept' /\ Progress' /\ Blamed'
    BY <1>1, <1>2, <2>1 DEF ShapeKept, Progress, Blamed, TypeOK, IsQuery
  <2>4. (input.kind \in ParsedKind)' /\ (result = Pending)'
    BY <1>1, <1>2, <1>3, <2>1 DEF Pending
  <2> QED
    BY <2>1, <2>2, <2>3, <2>4 DEF IInv
<1>4. CASE input.kind \notin ParsedKind
  <2>1. UNCHANGED ast /\ pc' = "done" /\ result' = Failed("ErrParse")
    BY <1>4 DEF Parse, Return
  <2>2. TypeOK'
    BY <1>1, <1>2, <2>1 DEF TypeOK, Failed
  <2>3. (input.kind \notin ParsedKind)' /\ (result = Failed("ErrParse"))'
    BY <1>2, <1>4, <2>1 DEF Failed
  <2> QED
    BY <2>1, <2>2, <2>3 DEF IInv
<1> QED
  BY <1>3, <1>4

\* After an error a node is passed with its subtree.
LEMMA SkipIInv ==
    ASSUME IInv, pc = "walk", pos <= Len(ast), SkipNode, UNCHANGED <<enf, input, pc, result>>
    PROVE  IInv'
<1>1. TypeOK /\ ShapeKept /\ Blamed /\ input.kind \in ParsedKind /\ result = Pending
  BY DEF IInv
<1>2. walkErr # "none" /\ pos' = ast[pos].last + 1 /\ UNCHANGED <<ast, sites, walkErr>>
  BY DEF SkipNode
<1>3. ast[pos].last \in pos .. Len(input.nodes)
  BY <1>1 DEF ShapeKept, TypeOK, IsQuery
<1>4. TypeOK'
  BY <1>1, <1>2, <1>3 DEF TypeOK, IsQuery
<1>5. ShapeKept' /\ Progress' /\ Blamed'
  BY <1>1, <1>2 DEF ShapeKept, Progress, Blamed
<1> QED
  BY <1>1, <1>4, <1>5 DEF IInv, Pending

\* A node that is no selector is passed and its children come next.
LEMMA InnerIInv ==
    ASSUME IInv, pc = "walk", pos <= Len(ast), InnerNode, UNCHANGED <<enf, input, pc, result>>
    PROVE  IInv'
<1>1. TypeOK /\ ShapeKept /\ Progress /\ Blamed /\ input.kind \in ParsedKind /\ result = Pending
  BY DEF IInv
<1>2. walkErr = "none" /\ ~ast[pos].isSel /\ pos' = pos + 1 /\ UNCHANGED <<ast, sites, walkErr>>
  BY DEF InnerNode
<1>3. TypeOK'
  BY <1>1, <1>2 DEF TypeOK, IsQuery, ShapeKept
<1>4. ShapeKept' /\ Blamed'
  BY <1>1, <1>2 DEF ShapeKept, Blamed
<1>5. Progress'
  BY <1>1, <1>2 DEF Progress, TypeOK
<1> QED
  BY <1>1, <1>3, <1>4, <1>5 DEF IInv, Pending

\* Rewriting keeps a selector a set of matchers.
LEMMA RewrittenType ==
    ASSUME NEW e \in Enforcers, NEW sel \in SUBSET Matcher
    PROVE  Rewritten(e, sel) \in SUBSET Matcher
  BY FilterFacts DEF Rewritten, Untouched, ForFilter, Callers

\* A selector is rewritten where it stands, or is the reason for the error.
LEMMA SelectorIInv ==
    ASSUME IInv, pc = "walk", pos <= Len(ast), SelectorNode, UNCHANGED <<enf, input, pc, result>>
    PROVE  IInv'
<1>1. TypeOK /\ ShapeKept /\ Progress /\ Blamed /\ input.kind \in ParsedKind /\ result = Pending
  BY DEF IInv
<1>2. walkErr = "none" /\ ast[pos].isSel /\ sites' = sites + 1
  BY DEF SelectorNode, SiteCounted
<1>3. /\ pos \in 1 .. Len(ast) /\ ast[pos] \in Node /\ ast[pos].sel = input.nodes[pos].sel
      /\ ast[pos].last \in pos .. Len(input.nodes) /\ sites \in Nat
  BY <1>1, <1>2 DEF TypeOK, ShapeKept, Progress, IsQuery
<1>4. CASE Refused(enf, ast[pos].sel)
  <2>1. walkErr' = "ErrConflict" /\ pos' = ast[pos].last + 1 /\ UNCHANGED ast
    BY <1>4 DEF SelectorNode, EnforceMatchers
  <2>2. TypeOK'
    BY <1>1, <1>2, <1>3, <2>1 DEF TypeOK, IsQuery
  <2>3. ShapeKept' /\ Progress' /\ Blamed'
    BY <1>1, <1>2, <1>3, <1>4, <2>1 DEF ShapeKept, Progress, Blamed
  <2> QED
    BY <1>1, <2>2, <2>3 DEF IInv, Pending
<1>5. CASE ~Refused(enf, ast[pos].sel)
  <2>1. /\ ast' = [ast EXCEPT ![pos].sel = Rewritten(enf, ast[pos].sel)]
        /\ pos' = pos + 1 /\ UNCHANGED walkErr
    BY <1>5 DEF SelectorNode, EnforceMatchers
  <2>2. Rewritten(enf, ast[pos].sel) \in SUBSET Matcher
    BY <1>1, <1>3, RewrittenType DEF TypeOK, Node
  <2>3. ast' \in Seq(Node) /\ Len(ast') = Len(ast)
    <3> DEFINE node == [ast[pos] EXCEPT !.sel = Rewritten(enf, ast[pos].sel)]
    <3>1. ast \in Seq(Node) /\ pos \in 1 .. Len(ast)
      BY <1>1, <1>3 DEF TypeOK
    <3>2. node \in Node
      <4>1. ast[pos] \in Node
        BY <3>1
      <4> QED
        BY <2>2, <4>1 DEF Node
    <3>3. ast' = [ast EXCEPT ![pos] = node]
      BY <2>1
    <3> HIDE DEF node
    <3> QED
      BY <3>1, <3>2, <3>3
  <2>4. \A j \in 1 .. Len(ast) :
            /\ ast'[j].isSel = ast[j].isSel /\ ast'[j].last = ast[j].last
            /\ ast'[j].sel = IF j = pos THEN Rewritten(enf, input.nodes[pos].sel) ELSE ast[j].sel
    BY <1>1, <1>3, <2>1 DEF TypeOK, Node
  <2>5. TypeOK'
    BY <1>1, <1>2, <1>3, <2>1, <2>3 DEF TypeOK, IsQuery, ShapeKept
  <2>6. ShapeKept' /\ Blamed'
    BY <1>1, <1>2, <2>1, <2>3, <2>4 DEF ShapeKept, Blamed
  <2>7. Progress'
    BY <1>1, <1>2, <1>3, <1>5, <2>1, <2>3, <2>4 DEF Progress, ShapeKept
  <2> QED
    BY <1>1, <2>5, <2>6, <2>7 DEF IInv, Pending
<1> QED
  BY <1>4, <1>5

\* The return takes what the walk has left in the tree.
LEMMA FinishIInv == IInv /\ Finish => IInv'
<1> SUFFICES ASSUME IInv, Finish PROVE IInv'
  OBVIOUS
<1>1. /\ TypeOK /\ ShapeKept /\ Progress /\ Blamed /\ input.kind \in ParsedKind /\ pos > Len(ast)
      /\ result' = Serialize /\ pc' = "done" /\ UNCHANGED <<enf, input, ast, pos, sites, walkErr>>
  BY DEF IInv, Finish, Return
<1>2. ShapeKept' /\ Progress' /\ Blamed' /\ (pos > Len(ast))' /\ (input.kind \in ParsedKind)'
  BY <1>1 DEF ShapeKept, Progress, Blamed
<1>3. (result = Serialize)'
  BY <1>1 DEF Serialize, TextOf, SelectorsOf, Failed
<1>4. TypeOK'
  BY <1>1 DEF TypeOK, Serialize, Failed
<1> QED
  BY <1>1, <1>2, <1>3, <1>4 DEF IInv

\* The walk keeps its invariant, for any tree.
THEOREM WalkInvariant == Spec => []IInv
<1>1. Init => IInv
  BY InitIInv
<1>2. IInv /\ [Next]_vars => IInv'
  <2> SUFFICES ASSUME IInv, [Next]_vars PROVE IInv'
    OBVIOUS
  <2>1. CASE Parse
    BY <2>1, ParseIInv
  <2>2. CASE Visit
    <3>1. pc = "walk" /\ pos <= Len(ast) /\ UNCHANGED <<enf, input, pc, result>>
      BY <2>2 DEF Visit
    <3> QED
      BY <2>2, <3>1, SkipIInv, InnerIInv, SelectorIInv DEF Visit
  <2>3. CASE Finish
    BY <2>3, FinishIInv
  <2>4. CASE UNCHANGED vars
    BY <2>4 DEF vars, IInv, TypeOK, ShapeKept, Progress, Blamed, Serialize, TextOf, SelectorsOf, Pending, Failed
  <2> QED
    BY <2>1, <2>2, <2>3, <2>4 DEF Next
<1> QED
  BY <1>1, <1>2, PTL DEF Spec

\* Every state of the walk is well typed, for every tree and every enforcer.
THEOREM WalkTypeOK == Spec => []TypeOK
<1>1. IInv => TypeOK
  BY DEF IInv
<1> QED
  BY <1>1, WalkInvariant, PTL

\* The nodes of the input are nodes, at the positions of the tree.
LEMMA InputNodes ==
    ASSUME TypeOK, ShapeKept
    PROVE  /\ DOMAIN input.nodes = 1 .. Len(ast)
           /\ \A i \in 1 .. Len(ast) : input.nodes[i].sel \in SUBSET Matcher
<1>1. input.nodes \in Seq(Node) /\ Len(ast) = Len(input.nodes)
  BY DEF TypeOK, ShapeKept, IsQuery
<1>2. DOMAIN input.nodes = 1 .. Len(ast) /\ \A i \in 1 .. Len(ast) : input.nodes[i] \in Node
  BY <1>1
<1> QED
  BY <1>2 DEF Node

\* When the walk returned a query, every selector of the tree was rewritten.
LEMMA ReturnedIsRewritten ==
    ASSUME IInv, result.err = "none"
    PROVE  /\ pc = "done" /\ ShapeKept
           /\ result.text.sels = SelectorsOf(ast)
           /\ \A i \in 1 .. Len(ast) : ast[i].isSel =>
                /\ input.nodes[i].sel \in SUBSET Matcher
                /\ ast[i].sel = Rewritten(enf, input.nodes[i].sel)
<1>1. pc = "done" /\ input.kind \in ParsedKind
  BY DEF IInv, TypeOK, Pending, Failed
<1>2. ShapeKept /\ Progress /\ pos > Len(ast) /\ result = Serialize /\ TypeOK
  BY <1>1 DEF IInv
<1>3. walkErr = "none" /\ result.text.sels = SelectorsOf(ast)
  BY <1>2 DEF Serialize, Failed, TextOf, TypeOK
<1>4. \A i \in 1 .. Len(ast) : i < pos /\ input.nodes[i].sel \in SUBSET Matcher
  BY <1>2, InputNodes DEF TypeOK
<1> QED
  BY <1>1, <1>2, <1>3, <1>4 DEF Progress

\* No query the walk returns selects a stream outside the instance's scope.
THEOREM WalkOutputInScope == Spec => []OutputInScope
<1>1. IInv => OutputInScope
  <2> SUFFICES ASSUME IInv, result.err = "none", NEW sel \in result.text.sels,
                      NEW s \in Stream, Selects(sel, s)
               PROVE  InScope(enf, s)
    BY DEF OutputInScope
  <2>1. PICK i \in 1 .. Len(ast) : ast[i].isSel /\ sel = ast[i].sel
    BY ReturnedIsRewritten DEF SelectorsOf, ShapeKept
  <2>2. enf \in Enforcers
    BY DEF IInv, TypeOK
  <2> QED
    BY <2>1, <2>2, ReturnedIsRewritten, RewrittenInScope
<1> QED
  BY <1>1, WalkInvariant, PTL

\* Each returned selector selects exactly the in-scope part of what was asked.
THEOREM WalkNarrowingExact == Spec => []NarrowingExact
<1>1. IInv => NarrowingExact
  <2> SUFFICES ASSUME IInv, result.err = "none", NEW i \in DOMAIN ast, ast[i].isSel,
                      NEW s \in Stream
               PROVE  Selects(ast[i].sel, s)
                        <=> InScope(enf, s) /\ Selects(Wishes(enf, input.nodes[i].sel), s)
    BY DEF NarrowingExact
  <2>1. i \in 1 .. Len(ast) /\ enf \in Enforcers
    BY ReturnedIsRewritten DEF ShapeKept, IInv, TypeOK
  <2> QED
    BY <2>1, ReturnedIsRewritten, RewrittenExact
<1> QED
  BY <1>1, WalkInvariant, PTL

\* A query is refused for a conflict exactly when reject mode meets a selector
\* that no stream in scope can satisfy.
THEOREM WalkRefusalExact == Spec => []RefusalExact
<1>1. IInv => RefusalExact
  <2> SUFFICES ASSUME IInv, pc = "done", input.kind \in ParsedKind
               PROVE  result.err = "ErrConflict"
                        <=> /\ enf.mode = "reject"
                            /\ \E i \in DOMAIN input.nodes :
                                  input.nodes[i].isSel /\ ~Reachable(enf, input.nodes[i].sel)
    BY DEF RefusalExact
  <2>1. ShapeKept /\ Progress /\ Blamed /\ pos > Len(ast) /\ result = Serialize /\ TypeOK
    BY DEF IInv
  <2>2. /\ DOMAIN input.nodes = 1 .. Len(ast) /\ enf \in Enforcers
        /\ \A i \in 1 .. Len(ast) : /\ i < pos /\ input.nodes[i].sel \in SUBSET Matcher
                                    /\ ast[i].isSel = input.nodes[i].isSel
    BY <2>1, InputNodes DEF TypeOK, ShapeKept
  <2>3. \A i \in 1 .. Len(ast) :
            Refused(enf, input.nodes[i].sel)
              <=> enf.mode = "reject" /\ ~Reachable(enf, input.nodes[i].sel)
    BY <2>2, ConflictIsUnreachable DEF Refused
  <2>4. result.err = "ErrConflict" <=> walkErr = "ErrConflict"
    BY <2>1 DEF Serialize, Failed, TypeOK
  <2>5. walkErr = "ErrConflict"
          <=> \E i \in 1 .. Len(ast) : input.nodes[i].isSel /\ Refused(enf, input.nodes[i].sel)
    BY <2>1, <2>2 DEF Progress, Blamed, TypeOK
  <2> QED
    BY <2>2, <2>3, <2>4, <2>5
<1> QED
  BY <1>1, WalkInvariant, PTL

\* What the finished walk returns is what the one-step definition returns.
LEMMA SerializeIsEnforce ==
    ASSUME IInv, pc = "done"
    PROVE  result = Enforce(enf, TextOf(input.kind, input.nodes))
<1> DEFINE q == TextOf(input.kind, input.nodes)
<1>1. q.kind = input.kind /\ q.sels = SelectorsOf(input.nodes)
  BY DEF TextOf
<1>2. CASE input.kind \notin ParsedKind
  BY <1>1, <1>2 DEF IInv, Enforce
<1>3. CASE input.kind \in ParsedKind
  <2>1. ShapeKept /\ Progress /\ Blamed /\ pos > Len(ast) /\ result = Serialize /\ TypeOK
    BY <1>3 DEF IInv
  <2>2. /\ q.sels = { input.nodes[i].sel : i \in { j \in 1 .. Len(ast) : ast[j].isSel } }
        /\ SelectorsOf(ast) = { ast[i].sel : i \in { j \in 1 .. Len(ast) : ast[j].isSel } }
        /\ \A i \in 1 .. Len(ast) : i < pos
    BY <1>1, <2>1, InputNodes DEF SelectorsOf, ShapeKept, TypeOK
  <2>3. CASE walkErr = "ErrConflict"
    <3>1. \E sel \in q.sels : EnforceMatchers(enf, sel).err # "none"
      BY <2>1, <2>2, <2>3 DEF Blamed, EnforceMatchers
    <3> QED
      BY <1>1, <1>3, <2>1, <2>3, <3>1 DEF Serialize, Enforce
  <2>4. CASE walkErr = "none"
    <3>1. \A sel \in q.sels : ~Refused(enf, sel)
      BY <2>1, <2>2, <2>4 DEF Progress
    <3>2. \A sel \in q.sels : EnforceMatchers(enf, sel) = [err |-> "none", sel |-> Rewritten(enf, sel)]
      BY <3>1 DEF EnforceMatchers
    <3>3. sites = 0 <=> q.sels = {}
      BY <2>1, <2>2, <2>4 DEF Progress
    <3>4. SelectorsOf(ast) = { Rewritten(enf, sel) : sel \in q.sels }
      BY <2>1, <2>2, <2>4 DEF Progress
    <3>5. SelectorsOf(ast) = { EnforceMatchers(enf, sel).sel : sel \in q.sels }
      BY <3>2, <3>4
    <3>6. \A sel \in q.sels : EnforceMatchers(enf, sel).err = "none"
      BY <3>2
    <3> QED
      BY <1>1, <1>3, <2>1, <2>4, <3>3, <3>5, <3>6 DEF Serialize, Enforce, TextOf
  <2> QED
    BY <2>1, <2>3, <2>4 DEF TypeOK
<1> QED
  BY <1>2, <1>3

\* Once the walk is done, its result is that of the one-step definition.
DoneIsEnforce == pc = "done" => result = Enforce(enf, TextOf(input.kind, input.nodes))

\* What the walk returns parses again, and enforcing it again selects the same.
THEOREM WalkOutputAcceptedAgain == Spec => []OutputAcceptedAgain
<1>1. IInv => OutputAcceptedAgain
  <2> SUFFICES ASSUME IInv, result.err = "none", NEW sel \in result.text.sels
               PROVE  /\ Parseable(sel)
                      /\ EnforceMatchers(enf, sel).err = "none"
                      /\ \A s \in Stream :
                            Selects(EnforceMatchers(enf, sel).sel, s) <=> Selects(sel, s)
    BY DEF OutputAcceptedAgain
  <2>1. enf \in Enforcers /\ result = Enforce(enf, TextOf(input.kind, input.nodes))
    BY ReturnedIsRewritten, SerializeIsEnforce DEF IInv, TypeOK
  <2> QED
    BY <2>1, EnforceAcceptedAgain
<1> QED
  BY <1>1, WalkInvariant, PTL

\* The walk implements the one-step specification: in-place rewriting and the
\* early exit are invisible to the caller of Enforce.
THEOREM WalkImplementsAtomic == Spec => ImplementsAtomic
<1>1. Init => Atomic!Init
  BY DEF Init, Atomic!Init
<1>2. IInv => DoneIsEnforce
  BY SerializeIsEnforce DEF DoneIsEnforce
<1>3. IInv /\ DoneIsEnforce' /\ [Next]_vars => [Atomic!Return]_(Atomic!vars)
  <2> SUFFICES ASSUME IInv, DoneIsEnforce', [Next]_vars PROVE [Atomic!Return]_(Atomic!vars)
    OBVIOUS
  <2>1. UNCHANGED <<enf, TextOf(input.kind, input.nodes)>>
    BY DEF Next, Parse, Visit, Finish, vars, TextOf, SelectorsOf
  <2>2. CASE pc' = "done" /\ pc # "done"
    <3>1. result = Pending
      BY <2>2 DEF IInv, TypeOK
    <3>2. result' = Enforce(enf', TextOf(input'.kind, input'.nodes))
      BY <2>2 DEF DoneIsEnforce
    <3>3. result' = Enforce(enf, TextOf(input.kind, input.nodes))
      BY <2>1, <3>2
    <3> QED
      BY <2>1, <3>1, <3>3 DEF Atomic!Return
  <2>3. CASE ~(pc' = "done" /\ pc # "done")
    <3>1. UNCHANGED result
      BY <2>3 DEF Next, Parse, Visit, Finish, Return, vars
    <3> QED
      BY <2>1, <3>1 DEF Atomic!vars
  <2> QED
    BY <2>2, <2>3
<1> QED
  BY <1>1, <1>2, <1>3, WalkInvariant, PTL DEF Spec, ImplementsAtomic, Atomic!Spec
=============================================================================
