SPECIFICATION Spec
CONSTANTS
    MaxOpens = 3
    MaxTyped = 1
    MaxPicks = 2
    MaxPending = 2
    Faults = {"restart", "request", "write", "upload", "keychain"}
CONSTRAINT Patient
CHECK_DEADLOCK FALSE
INVARIANT TypeOK
INVARIANT CoverLifts
PROPERTY EditsMoveOn
