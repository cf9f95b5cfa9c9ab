-------------------------------- MODULE Auth --------------------------------
(***************************************************************************)
(* internal/auth: the index from bearer tokens to instances, and the       *)
(* credential of a request.  The index is keyed by a digest of the token,  *)
(* which may be the same for two of them.                                  *)
(***************************************************************************)
EXTENDS Config

CONSTANTS
    Name,       \* the instances' names
    Digest(_)   \* sha256

\* What validate accepts of all the instances: a token belongs to one of them.
Deployable(insts) ==
    /\ DOMAIN insts # {} /\ DOMAIN insts \subseteq Name
    /\ \A n \in DOMAIN insts : insts[n] \in Instance
    /\ \A m, n \in DOMAIN insts : m # n => insts[m].tokens \cap insts[n].tokens = {}

\* The entries of New: which instance claims which token.
Claims(insts) == { c \in (DOMAIN insts) \X Token : c[2] \in insts[c[1]].tokens }

\* NewIndex refuses two claims with one digest.
Indexable(insts) == \A c, d \in Claims(insts) : Digest(c[2]) = Digest(d[2]) => c = d

NewIndex(insts) ==
    [ h \in { Digest(c[2]) : c \in Claims(insts) } |->
        LET c == CHOOSE c \in Claims(insts) : Digest(c[2]) = h
        IN  [token |-> c[2], value |-> c[1]] ]

\* A variant for the properties to tell from the code: the digest alone.
LookupByDigest(index, token) ==
    IF token # None /\ Digest(token) \in DOMAIN index THEN index[Digest(token)].value ELSE None

\* A digest that is found authenticates only with the whole token.
Lookup(index, token) ==
    IF token # None /\ Digest(token) \in DOMAIN index /\ index[Digest(token)].token = token
      THEN index[Digest(token)].value
      ELSE None

\* The credential of an Authorization header, None for another scheme.
BearerToken(header) == IF header.scheme = "bearer" THEN header.cred ELSE None
=============================================================================
