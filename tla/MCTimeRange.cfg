SPECIFICATION Spec
CONSTANTS
    Second = 3
    MaxClock = 4
    Exprs <- MCExprs
    Lookbacks <- MCLookbacks
INVARIANTS
    WindowAsAsked
    LookbackKept
CHECK_DEADLOCK FALSE
