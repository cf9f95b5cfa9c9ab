SPECIFICATION Spec
CONSTANTS
    MaxActive = 2
    MaxSignals = 3
INVARIANTS
    CleanMeansDrained
PROPERTIES
    HandlersKept
    SignalHeard
    ListenerFailureEnds
CHECK_DEADLOCK FALSE
