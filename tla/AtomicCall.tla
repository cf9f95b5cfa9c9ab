----------------------------- MODULE AtomicCall -----------------------------
(***************************************************************************)
(* What a caller of Enforcer.Enforce relies on: the call returns once, and *)
(* in one step, a function of the enforcer and the query.  Result and      *)
(* Pending are what the call computes and what is seen before it returns.  *)
(***************************************************************************)
CONSTANTS Result(_, _), Pending

VARIABLES
    enf,        \* the enforcer of the instance
    query,      \* the text given to the call
    result      \* what the call returned

vars == <<enf, query, result>>

Init == result = Pending

Return ==
    /\ result = Pending
    /\ result' = Result(enf, query)
    /\ UNCHANGED <<enf, query>>

Spec == Init /\ [][Return]_vars
=============================================================================
