SPECIFICATION Spec
CONSTANTS
    MaxOpens = 1
    MaxTyped = 1
    MaxPicks = 0
    MaxPending = 2
    Faults = {}
CHECK_DEADLOCK FALSE
INVARIANT UpdatedIsTrue
