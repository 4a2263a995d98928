SPECIFICATION FairSpec
CONSTANTS
    Docs = {d1}
    MaxGets = 2
    MaxVersion = 1
    MaxDrops = 0
CHECK_DEADLOCK FALSE
INVARIANT TimeoutRuns
