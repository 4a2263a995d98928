SPECIFICATION FairSpec
CONSTANTS
    Docs = {d1, d2}
    MaxGets = 2
    MaxVersion = 1
    MaxDrops = 1
CHECK_DEADLOCK FALSE
CONSTRAINT Explored
INVARIANT TypeOK
INVARIANT TablesAgree
INVARIANT StreamWanted
INVARIANT NobodyForgotten
 
PROPERTY KeepsReads
PROPERTY ReadsAnswered
