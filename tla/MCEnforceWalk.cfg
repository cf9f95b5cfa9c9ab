SPECIFICATION Spec
CONSTANTS
    ns = ns
    app = app
    a = a
    b = b
    z = z
    Empty = Empty
    Label <- MCLabel
    Value <- MCValue
    Deployed <- MCDeployed
    Queries <- MCQueries
INVARIANTS
    TypeOK
    OutputInScope
    NarrowingExact
    RefusalExact
    OutputAcceptedAgain
PROPERTIES
    ImplementsAtomic
CHECK_DEADLOCK FALSE
