SPECIFICATION Spec
CONSTANTS
    ns = ns
    app = app
    a = a
    b = b
    z = z
    Empty = Empty
    Label <- MCLabel
    Value <- MCValue
    Deployed <- MCDeployed
    Queries <- MCQueries
INVARIANTS
    EnforcedMatcherAlwaysAdded
CHECK_DEADLOCK FALSE
